-------------------------- MODULE ControllerProofs --------------------------
(***************************************************************************)
(* Theorems about Controller for any number of servers, clients,           *)
(* descriptors and connections, with faults and crashes.                   *)
(*                                                                         *)
(* The inductive invariant IInv says that every message on its way and     *)
(* every buffer is well formed and true: an announcement of a mount names  *)
(* a host that has mounted.  mounted is never reset, so what is true stays *)
(* true however long it waits, and mount_file only ever receives truths.   *)
(***************************************************************************)
EXTENDS Controller, SequenceTheorems, WellFoundedInduction, TLAPS

-----------------------------------------------------------------------------
(* What the operators of Sockets preserve.  Msg is any set of messages: a  *)
(* kernel state whose messages are all in Msg stays one when no other      *)
(* message is written.  Below, Msg is the messages that are well formed    *)
(* and true.                                                               *)

LEMMA EndFacts ==
  /\ \A k \in Conn : k \in End /\ -k \in End
  /\ \A e \in End : -e \in End
  /\ End \subseteq Slot
  /\ Free \in Slot /\ File \in Slot /\ Unconnected \in Slot
BY BoundsAssumption DEF Conn, End, Slot, Free, File, Unconnected

\* A kernel state has the shape that Kernel gives it, field by field.
LEMMA KernelFields ==
  ASSUME NEW Msg, NEW w \in Kernel(Msg)
  PROVE  /\ w.inq \in [End -> Seq(Msg)]
         /\ w.open \in [End -> BOOLEAN]
         /\ w.err \in [End -> {"none", "reset", "pipe"}]
         /\ w.backlog \in [Server -> Seq(Conn)]
         /\ w.kept \in SUBSET End /\ w.heirs \in SUBSET Server
         /\ w.fdt \in [Server -> [Fd -> Slot]]
         /\ w.made \in 0..MaxConns
BY DEF Kernel

\* Messages may be judged more leniently later.
LEMMA KernelMonotone ==
  ASSUME NEW Msg, NEW Msg2, Msg \subseteq Msg2, NEW w \in Kernel(Msg)
  PROVE  w \in Kernel(Msg2)
<1>1. Seq(Msg) \subseteq Seq(Msg2)
  BY SeqDef
<1>2. w.inq \in [End -> Seq(Msg2)]
  BY <1>1, KernelFields
<1> QED
  BY <1>2 DEF Kernel

LEMMA BootKernel == ASSUME NEW Msg PROVE Boot \in Kernel(Msg)
<1>1. <<>> \in Seq(Msg) /\ <<>> \in Seq(Conn)
  BY EmptySeq
<1> QED
  BY <1>1, EndFacts, BoundsAssumption DEF Boot, Kernel

\* A free descriptor is found when there is one.
LEMMA LowestFdFree ==
  ASSUME NEW w, NEW n, HasFd(w, n)
  PROVE  /\ LowestFd(w, n) \in Fd
         /\ w.fdt[n][LowestFd(w, n)] = Free
BY DEF HasFd, LowestFd, IsLowestFree

-----------------------------------------------------------------------------
(* Every call maps a kernel state to a kernel state, and touches no          *)
(* descriptor but its own.                                                 *)

\* A table with one descriptor changed.
LEMMA TableUpdate ==
  ASSUME NEW Msg, NEW w \in Kernel(Msg), NEW n \in Server, NEW f \in Fd,
         NEW s \in Slot
  PROVE  /\ [w EXCEPT !.fdt[n][f] = s] \in Kernel(Msg)
         /\ \A m \in Server, g \in Fd : <<m, g>> # <<n, f>> =>
              [w EXCEPT !.fdt[n][f] = s].fdt[m][g] = w.fdt[m][g]
         /\ [w EXCEPT !.fdt[n][f] = s].fdt[n][f] = s
<1> DEFINE v == [w EXCEPT !.fdt[n][f] = s]
           t == [w.fdt EXCEPT ![n][f] = s]
<1>1. w.fdt \in [Server -> [Fd -> Slot]]
  BY KernelFields
<1>2. t \in [Server -> [Fd -> Slot]]
  BY <1>1
<1>3. v = [w EXCEPT !.fdt = t]
  BY DEF Kernel
<1>4. /\ \A m \in Server, g \in Fd : <<m, g>> # <<n, f>> => t[m][g] = w.fdt[m][g]
      /\ t[n][f] = s
  BY <1>1
<1>5. v.fdt = t /\ v \in Kernel(Msg)
  BY <1>2, <1>3 DEF Kernel
<1> QED
  BY <1>4, <1>5

\* socket() and open().
LEMMA TakeKernel ==
  ASSUME NEW Msg, NEW w \in Kernel(Msg), NEW n \in Server, NEW s \in Slot
  PROVE  /\ Take(w, n, s) \in Kernel(Msg)
         /\ \A m \in Server, g \in Fd : m # n \/ w.fdt[m][g] # Free =>
              Take(w, n, s).fdt[m][g] = w.fdt[m][g]
         /\ HasFd(w, n) => Take(w, n, s).fdt[n][LowestFd(w, n)] = s
         /\ Take(w, n, s).made = w.made
<1>1. CASE HasFd(w, n)
  <2>1. LowestFd(w, n) \in Fd /\ w.fdt[n][LowestFd(w, n)] = Free
    BY <1>1, LowestFdFree
  <2>2. Take(w, n, s) = [w EXCEPT !.fdt[n][LowestFd(w, n)] = s]
    BY <1>1 DEF Take
  <2>3. Take(w, n, s).made = w.made
    BY <2>2 DEF Kernel
  <2> QED
    BY <2>1, <2>2, <2>3, TableUpdate
<1>2. CASE ~ HasFd(w, n)
  BY <1>2 DEF Take
<1> QED
  BY <1>1, <1>2

LEMMA ConnectKernel ==
  ASSUME NEW Msg, NEW w \in Kernel(Msg), NEW n \in Server, w.made < MaxConns
  PROVE  /\ Connect(w, n) \in Kernel(Msg)
         /\ Connect(w, n).fdt = w.fdt
         /\ w.made + 1 \in Conn
<1> DEFINE k == w.made + 1
           o == [e \in End |-> e \in {k, -k} \/ w.open[e]]
           b == [w.backlog EXCEPT ![n] = Append(w.backlog[n], k)]
<1>1. k \in Conn /\ k \in 0..MaxConns
  BY KernelFields, BoundsAssumption DEF Conn
<1>2. b \in [Server -> Seq(Conn)]
  <2>1. Append(w.backlog[n], k) \in Seq(Conn)
    BY <1>1, KernelFields
  <2> QED
    BY <2>1, KernelFields
<1>3. o \in [End -> BOOLEAN]
  OBVIOUS
<1>4. Connect(w, n) = [w EXCEPT !.made = k, !.open = o, !.backlog = b]
  BY DEF Connect, Kernel
<1> HIDE DEF k, o, b
<1>5. Connect(w, n) \in Kernel(Msg) /\ Connect(w, n).fdt = w.fdt
  BY <1>1, <1>2, <1>3, <1>4 DEF Kernel
<1> QED
  BY <1>1, <1>5 DEF k

\* accept(): the new descriptor holds the listener's end.
LEMMA AcceptKernel ==
  ASSUME NEW Msg, NEW w \in Kernel(Msg), NEW n \in Server,
         HasFd(w, n), w.backlog[n] # <<>>
  PROVE  /\ Accept(w, n) \in Kernel(Msg)
         /\ \A m \in Server, g \in Fd : m # n =>
              Accept(w, n).fdt[m][g] = w.fdt[m][g]
<1> DEFINE f == LowestFd(w, n)
           s == -Head(w.backlog[n])
           b == [w.backlog EXCEPT ![n] = Tail(w.backlog[n])]
           v == [w EXCEPT !.fdt[n][f] = s]
<1>1. f \in Fd
  BY LowestFdFree
<1>2. Head(w.backlog[n]) \in Conn /\ Tail(w.backlog[n]) \in Seq(Conn)
  BY KernelFields, HeadTailProperties
<1>3. s \in Slot /\ b \in [Server -> Seq(Conn)]
  BY <1>2, EndFacts, KernelFields
<1>4. /\ v \in Kernel(Msg)
      /\ \A m \in Server, g \in Fd : m # n => v.fdt[m][g] = w.fdt[m][g]
  BY <1>1, <1>3, TableUpdate
<1>5. Accept(w, n) = [v EXCEPT !.backlog = b]
  BY DEF Accept, Kernel
<1> HIDE DEF f, s, b, v
<1>6. Accept(w, n) \in Kernel(Msg) /\ Accept(w, n).fdt = v.fdt
  BY <1>3, <1>4, <1>5 DEF Kernel
<1> QED
  BY <1>4, <1>6

\* read() and write() leave the descriptors alone.
LEMMA DrainKernel ==
  ASSUME NEW Msg, NEW w \in Kernel(Msg), NEW e
  PROVE  Drain(w, e) \in Kernel(Msg) /\ Drain(w, e).fdt = w.fdt
                                     /\ Drain(w, e).made = w.made
<1> DEFINE q == [w.inq EXCEPT ![e] = <<>>]
           r == [w.err EXCEPT ![e] = IF w.inq[e] = <<>> /\ w.err[e] = "reset"
                                     THEN "pipe" ELSE w.err[e]]
<1>1. q \in [End -> Seq(Msg)]
  <2>1. <<>> \in Seq(Msg)
    BY EmptySeq
  <2> QED
    BY <2>1, KernelFields
<1>2. r \in [End -> {"none", "reset", "pipe"}]
  BY KernelFields
<1>3. Drain(w, e) = [w EXCEPT !.inq = q, !.err = r]
  BY DEF Drain, Kernel
<1> HIDE DEF q, r
<1> QED
  BY <1>1, <1>2, <1>3 DEF Kernel

LEMMA WriteKernel ==
  ASSUME NEW Msg, NEW w \in Kernel(Msg), NEW e, NEW m \in Msg
  PROVE  Write(w, e, m) \in Kernel(Msg) /\ Write(w, e, m).fdt = w.fdt
                                        /\ Write(w, e, m).made = w.made
<1> DEFINE q == [w.inq EXCEPT ![-e] = Append(w.inq[-e], m)]
           r == [w.err EXCEPT ![e] = "pipe"]
<1>1. q \in [End -> Seq(Msg)]
  <2> DEFINE x == -e
  <2>1. w.inq[x] \in Seq(Msg) => Append(w.inq[x], m) \in Seq(Msg)
    OBVIOUS
  <2>2. q = [w.inq EXCEPT ![x] = Append(w.inq[x], m)]
    OBVIOUS
  <2>3. w.inq \in [End -> Seq(Msg)]
    BY KernelFields
  <2> DEFINE a == Append(w.inq[x], m)
  <2>4. x \in End => a \in Seq(Msg)
    BY <2>1, <2>3
  <2> HIDE DEF x, q, a
  <2> QED
    BY <2>2, <2>3, <2>4 DEF a
<1>2. r \in [End -> {"none", "reset", "pipe"}]
  BY KernelFields
<1>3. CASE w.open[-e]
  <2>1. Write(w, e, m) = [w EXCEPT !.inq = q]
    BY <1>3 DEF Write, Kernel
  <2> HIDE DEF q, r
  <2> QED
    BY <1>1, <2>1 DEF Kernel
<1>4. CASE ~ w.open[-e]
  <2>1. Write(w, e, m) = [w EXCEPT !.err = r]
    BY <1>4 DEF Write, Kernel
  <2> HIDE DEF q, r
  <2> QED
    BY <1>2, <2>1 DEF Kernel
<1> QED
  BY <1>3, <1>4

LEMMA CloseEndsKernel ==
  ASSUME NEW Msg, NEW w \in Kernel(Msg), NEW E, NEW unaccepted
  PROVE  /\ CloseEnds(w, E, unaccepted) \in Kernel(Msg)
         /\ CloseEnds(w, E, unaccepted).fdt = w.fdt
         /\ CloseEnds(w, E, unaccepted).backlog = w.backlog
<1> DEFINE q == [e \in End |-> IF e \in E THEN <<>> ELSE w.inq[e]]
           o == [e \in End |-> e \notin E /\ w.open[e]]
           r == [e \in End |-> IF /\ -e \in E
                                  /\ w.open[e]
                                  /\ w.inq[-e] # <<>> \/ -e \in unaccepted
                               THEN "reset" ELSE w.err[e]]
<1>1. q \in [End -> Seq(Msg)]
  <2>1. <<>> \in Seq(Msg)
    BY EmptySeq
  <2> QED
    BY <2>1, KernelFields
<1>2. o \in [End -> BOOLEAN]
  OBVIOUS
<1>3. r \in [End -> {"none", "reset", "pipe"}]
  BY KernelFields
<1>4. CloseEnds(w, E, unaccepted) = [w EXCEPT !.inq = q, !.open = o, !.err = r]
  BY DEF CloseEnds
<1> HIDE DEF q, o, r
<1> QED
  BY <1>1, <1>2, <1>3, <1>4 DEF Kernel

LEMMA CloseKernel ==
  ASSUME NEW Msg, NEW w \in Kernel(Msg), NEW n \in Server, NEW f \in Fd
  PROVE  /\ Close(w, n, f) \in Kernel(Msg)
         /\ \A m \in Server, g \in Fd : m # n =>
              Close(w, n, f).fdt[m][g] = w.fdt[m][g]
<1> DEFINE v == CloseEnds(w, ({w.fdt[n][f]} \cap End) \ w.kept, {})
<1>1. v \in Kernel(Msg) /\ v.fdt = w.fdt
  BY CloseEndsKernel
<1>2. Close(w, n, f) = [v EXCEPT !.fdt[n][f] = Free]
  BY DEF Close
<1> HIDE DEF v
<1> QED
  BY <1>1, <1>2, TableUpdate, EndFacts

LEMMA ExitKernel ==
  ASSUME NEW Msg, NEW w \in Kernel(Msg), NEW n \in Server
  PROVE  /\ Exit(w, n) \in Kernel(Msg)
         /\ \A m \in Server, g \in Fd : m # n =>
              Exit(w, n).fdt[m][g] = w.fdt[m][g]
<1> DEFINE v == CloseEnds(w, (Held(w, n) \ w.kept) \cup Waiting(w, n),
                          Waiting(w, n))
           t == [v.fdt EXCEPT ![n] = [f \in Fd |-> Free]]
           l == IF n \in w.heirs THEN v.backlog[n] ELSE <<>>
           b == [v.backlog EXCEPT ![n] = l]
<1>1. v \in Kernel(Msg) /\ v.fdt = w.fdt
  BY CloseEndsKernel
<1>2. Exit(w, n) = [v EXCEPT !.fdt = t, !.backlog = b]
  BY <1>1 DEF Exit, Kernel
<1>6. l \in Seq(Conn)
  BY <1>1, EmptySeq, KernelFields
<1> HIDE DEF l
<1> HIDE DEF v
<1>3. t \in [Server -> [Fd -> Slot]] /\ b \in [Server -> Seq(Conn)]
  BY <1>1, <1>6, KernelFields, EndFacts
<1>4. \A m \in Server, g \in Fd : m # n => t[m][g] = w.fdt[m][g]
  BY <1>1, KernelFields
<1> HIDE DEF t, b
<1>5. Exit(w, n) \in Kernel(Msg) /\ Exit(w, n).fdt = t
  BY <1>1, <1>2, <1>3 DEF Kernel
<1> QED
  BY <1>4, <1>5

\* A daemon started by n holds what n holds.
LEMMA InheritKernel ==
  ASSUME NEW Msg, NEW w \in Kernel(Msg), NEW n \in Server
  PROVE  /\ Inherit(w, n) \in Kernel(Msg)
         /\ Inherit(w, n).fdt = w.fdt
         /\ Inherit(w, n).made = w.made
<1> DEFINE k == w.kept \cup Held(w, n)
           h == w.heirs \cup {n}
<1>1. k \in SUBSET End /\ h \in SUBSET Server
  BY KernelFields DEF Held
<1>2. Inherit(w, n) = [w EXCEPT !.kept = k, !.heirs = h]
  BY DEF Inherit, Kernel
<1> HIDE DEF k, h
<1> QED
  BY <1>1, <1>2 DEF Kernel

-----------------------------------------------------------------------------
(* The invariant.                                                          *)

\* The messages that a controller may receive, given what has been mounted.
Facts == {m \in Message : m.word = "MOUNT_SET_ON" => host[m.arg].mounted}

Reading == {"read_on", "read_result", "read_nbd"}

\* A controller that blocks in a read() of msg_send or nbd_msg_send does so on
\* a connection that it opened.
OwnSocket ==
  \A n \in Server : proc[n].pc \in Reading =>
    proc[n].sock \in Fd /\ net.fdt[n][proc[n].sock] \in Conn

IInv ==
  /\ net \in Kernel(Facts)
  /\ proc \in [Server -> Process]
  /\ \A n \in Server : proc[n].buffer \in Facts
  /\ host \in [Server -> Host]
  /\ client \in [Client -> ClientState]
  /\ OwnSocket
  /\ MountFileNamesMounter

\* A kernel state that n may leave behind, having touched no other's table.
KernelOf(n, w, M) ==
  /\ w \in Kernel(M)
  /\ \A m \in Server, f \in Fd : m # n => w.fdt[m][f] = net.fdt[m][f]

MemoryOf(p, M) == p \in Process /\ p.buffer \in M

\* The process n blocks only in a read of a connection of its own.
Settled(n, w, p) ==
  p.pc \in Reading => p.sock \in Fd /\ w.fdt[n][p.sock] \in Conn

\* What a step of controller n does to net and proc.
StepOf(n, M) ==
  /\ KernelOf(n, net', M)
  /\ proc' = [proc EXCEPT ![n] = proc'[n]]
  /\ MemoryOf(proc'[n], M)
  /\ Settled(n, net', proc'[n])

-----------------------------------------------------------------------------
(* Messages.                                                               *)

LEMMA SayTrue ==
  ASSUME NEW word \in Word \ {"config", "MOUNT_SET_ON"}
  PROVE  Say(word) \in Facts
BY DEF Say, Facts, Message

LEMMA ConfigTrue ==
  ASSUME NEW c \in Config \cup {Garbage}
  PROVE  [word |-> "config", arg |-> c] \in Facts
BY DEF Facts, Message

LEMMA EmptyTrue == Empty \in Facts
BY ConfigTrue DEF Empty

LEMMA MessageFields ==
  ASSUME NEW m \in Facts
  PROVE  /\ m \in Message
         /\ m.word \in Word
         /\ m.word = "config" => m.arg \in Config \cup {Garbage}
         /\ m.word = "MOUNT_SET_ON" => m.arg \in Server /\ host[m.arg].mounted
BY DEF Facts, Message, Word, Command

\* The truth is not lost when more hosts have mounted.
LEMMA TrueMonotone ==
  ASSUME \A m \in Server : host[m].mounted => host'[m].mounted
  PROVE  Facts \subseteq Facts'
<1> SUFFICES ASSUME NEW m \in Facts PROVE m \in Facts'
  OBVIOUS
<1>1. m.word = "MOUNT_SET_ON" => m.arg \in Server /\ host[m.arg].mounted
  BY MessageFields
<1> QED
  BY <1>1 DEF Facts

-----------------------------------------------------------------------------
(* The pieces of the handlers.                                             *)

LEMMA StartedMemory ==
  /\ MemoryOf(Started, Facts)
  /\ MemoryOf([Started EXCEPT !.pc = "down"], Facts)
BY EmptyTrue, MessageFields DEF MemoryOf, Started, Process, Pc

LEMMA FinishMemory ==
  ASSUME NEW M, NEW p, MemoryOf(p, M)
  PROVE  /\ MemoryOf(Finish(p), M) /\ Finish(p).pc \notin Reading
         /\ MemoryOf(FinishAssembly(p), M)
         /\ FinishAssembly(p).pc \notin Reading
<1>1. MemoryOf(Finish(p), M) /\ Finish(p).pc \notin Reading
  BY DEF Finish, MemoryOf, Process, Pc, Reading
<1>2. /\ MemoryOf(FinishAssembly(p), M)
      /\ FinishAssembly(p).pc \notin Reading
  BY DEF FinishAssembly, MemoryOf, Process, Pc, Reading
<1> QED
  BY <1>1, <1>2

\* A process that goes on without a system call, or as the last of them.
LEMMA BecomeStep ==
  ASSUME proc \in [Server -> Process], NEW n \in Server, NEW M, NEW w, NEW p,
         KernelOf(n, w, M), MemoryOf(p, M), Settled(n, w, p), Become(n, w, p)
  PROVE  StepOf(n, M)
<1>1. net' = w /\ proc' = [proc EXCEPT ![n] = p] /\ proc'[n] = p
  BY DEF Become
<1>2. KernelOf(n, net', M)
  BY <1>1
<1>3. Settled(n, net', proc'[n])
  BY <1>1
<1> QED
  BY <1>1, <1>2, <1>3 DEF StepOf

LEMMA DieStep ==
  ASSUME proc \in [Server -> Process], NEW n \in Server, NEW M, NEW w,
         KernelOf(n, w, M), Die(n, w), Facts \subseteq M
  PROVE  StepOf(n, M)
<1> DEFINE p == [Started EXCEPT !.pc = "down"]
<1>1. KernelOf(n, Exit(w, n), M)
  BY ExitKernel DEF KernelOf
<1>2. MemoryOf(p, M) /\ Settled(n, Exit(w, n), p)
  BY StartedMemory DEF MemoryOf, Settled, Reading, Started
<1>3. Become(n, Exit(w, n), p)
  BY DEF Die, Become
<1> QED
  BY <1>1, <1>2, <1>3, BecomeStep

LEMMA ReplyStep ==
  ASSUME proc \in [Server -> Process], NEW n \in Server, NEW M, NEW w, NEW e,
         NEW m \in M, NEW p,
         KernelOf(n, w, M), MemoryOf(p, M), Settled(n, w, p), Facts \subseteq M,
         Reply(n, w, e, m, p)
  PROVE  StepOf(n, M)
<1>1. CASE Sigpipe(w, e)
  BY <1>1, DieStep DEF Reply
<1>2. CASE ~ Sigpipe(w, e)
  <2>1. Write(w, e, m) \in Kernel(M) /\ Write(w, e, m).fdt = w.fdt
    BY WriteKernel DEF KernelOf
  <2>2. KernelOf(n, Write(w, e, m), M) /\ Settled(n, Write(w, e, m), p)
    BY <2>1 DEF KernelOf, Settled
  <2> QED
    BY <1>2, <2>2, BecomeStep DEF Reply
<1> QED
  BY <1>1, <1>2

LEMMA TakeOf ==
  ASSUME NEW n \in Server, NEW M, NEW w, KernelOf(n, w, M), NEW s \in Slot
  PROVE  /\ KernelOf(n, Take(w, n, s), M)
         /\ \A f \in Fd : w.fdt[n][f] # Free =>
              Take(w, n, s).fdt[n][f] = w.fdt[n][f]
BY TakeKernel DEF KernelOf

LEMMA DrainOf ==
  ASSUME NEW n \in Server, NEW M, net \in Kernel(M), NEW e
  PROVE  KernelOf(n, Drain(net, e), M) /\ Drain(net, e).made = net.made
                                       /\ Drain(net, e).fdt = net.fdt
BY DrainKernel DEF KernelOf

\* The first of the other hosts is a host.
LEMMA FirstPeerServer ==
  ASSUME NEW n, server_len > 1
  PROVE  FirstPeer(n) \in Server
BY ServerAssumption DEF FirstPeer, server_len

\* After SendTo the new socket, if connected, is in the lowest descriptor.
LEMMA SendToOf ==
  ASSUME NEW n \in Server, NEW M, NEW w, KernelOf(n, w, M), NEW m \in M,
         w.made < MaxConns
  PROVE  /\ KernelOf(n, SendTo(n, w, m), M)
         /\ Reaches(n, w) => /\ LowestFd(w, n) \in Fd
                             /\ SendTo(n, w, m).fdt[n][LowestFd(w, n)] \in Conn
<1>1. CASE Reaches(n, w)
  <2> DEFINE k == w.made + 1
             u == Connect(w, FirstPeer(n))
             v == Take(u, n, k)
  <2>1. FirstPeer(n) \in Server
    BY <1>1, FirstPeerServer DEF Reaches
  <2>2. u \in Kernel(M) /\ u.fdt = w.fdt /\ k \in Conn
    BY <2>1, ConnectKernel DEF KernelOf
  <2>3. HasFd(u, n) /\ LowestFd(u, n) = LowestFd(w, n) /\ HasFd(w, n)
    BY <1>1, <2>2 DEF Reaches, HasFd, LowestFd, IsLowestFree
  <2>4. /\ v \in Kernel(M) /\ v.fdt[n][LowestFd(w, n)] = k
        /\ \A o \in Server, g \in Fd : o # n => v.fdt[o][g] = w.fdt[o][g]
    <3>1. k \in Slot
      BY <2>2, EndFacts
    <3> HIDE DEF k, u
    <3>2. /\ v \in Kernel(M) /\ v.fdt[n][LowestFd(u, n)] = k
          /\ \A o \in Server, g \in Fd : o # n => v.fdt[o][g] = u.fdt[o][g]
      BY <2>2, <2>3, <3>1, TakeKernel
    <3> QED
      BY <2>2, <2>3, <3>2
  <2>5. SendTo(n, w, m) = Write(v, k, m)
    BY <1>1 DEF SendTo
  <2> HIDE DEF v
  <2>6. SendTo(n, w, m) \in Kernel(M) /\ SendTo(n, w, m).fdt = v.fdt
    BY <2>4, <2>5, WriteKernel
  <2> QED
    BY <2>2, <2>3, <2>4, <2>6, LowestFdFree DEF KernelOf
<1>2. CASE ~ Reaches(n, w)
  BY <1>2, TakeOf, EndFacts DEF SendTo
<1> QED
  BY <1>1, <1>2

-----------------------------------------------------------------------------
(* One step of one controller.                                             *)

\* What a step does to the hosts: a mount is for ever, mount_file is true.
HostStep ==
  /\ host' \in [Server -> Host]
  /\ \A m \in Server : host[m].mounted => host'[m].mounted
  /\ MountFileNamesMounter'

LEMMA HostKept ==
  ASSUME IInv, NEW n \in Server, NEW h \in Host,
         h.mounted = host[n].mounted, h.mount_file = host[n].mount_file,
         host' = [host EXCEPT ![n] = h]
  PROVE  HostStep
<1>1. \A m \in Server : /\ host'[m].mounted = host[m].mounted
                        /\ host'[m].mount_file = host[m].mount_file
  BY DEF IInv
<1>2. \A m \in Server : host[m].mount_file \in Server \cup {None}
  BY DEF IInv, Host
<1> QED
  BY <1>1, <1>2 DEF HostStep, IInv, MountFileNamesMounter

LEMMA HostUnchanged == ASSUME IInv, UNCHANGED host PROVE HostStep
BY DEF HostStep, IInv, MountFileNamesMounter

LEMMA StepPreserves ==
  ASSUME IInv, NEW n \in Server, HostStep,
         StepOf(n, Facts) \/ StepOf(n, Facts'),
         client' \in [Client -> ClientState]
  PROVE  IInv'
<1>1. Facts \subseteq Facts'
  BY TrueMonotone DEF HostStep
<1>2. StepOf(n, Facts')
  BY <1>1, KernelMonotone DEF StepOf, KernelOf, MemoryOf
<1>3. \A m \in Server \ {n} : proc'[m] = proc[m]
  BY <1>2 DEF StepOf, IInv
<1>4. net' \in Kernel(Facts') /\ proc' \in [Server -> Process]
  BY <1>2 DEF StepOf, KernelOf, MemoryOf, IInv
<1>5. \A m \in Server : proc'[m].buffer \in Facts'
  BY <1>1, <1>2, <1>3 DEF StepOf, MemoryOf, IInv
<1>6. OwnSocket'
  <2> SUFFICES ASSUME NEW m \in Server, proc'[m].pc \in Reading
               PROVE  /\ proc'[m].sock \in Fd
                      /\ net'.fdt[m][proc'[m].sock] \in Conn
    BY DEF OwnSocket, Reading
  <2>1. CASE m = n
    BY <2>1, <1>2 DEF StepOf, Settled
  <2>2. CASE m # n
    BY <2>2, <1>2, <1>3
       DEF StepOf, KernelOf, IInv, OwnSocket, Reading
  <2> QED
    BY <2>1, <2>2
<1> QED
  BY <1>4, <1>5, <1>6 DEF IInv, HostStep

\* What a handler starts from: the message read, and the state after read().
LEMMA ReceiveFacts ==
  ASSUME IInv, NEW n \in Server, NEW f \in Fd, NEW words,
         Receives(n, f, words)
  PROVE  /\ Incoming(n, f) \in Facts /\ Incoming(n, f).word \in words
         /\ KernelOf(n, AfterRead(n, f), Facts)
         /\ AfterRead(n, f).made = net.made
         /\ MemoryOf(WithBuffer(n, f), Facts)
         /\ WithBuffer(n, f).pc = "loop"
<1> DEFINE e == net.fdt[n][f]
<1>1. net \in Kernel(Facts) /\ proc[n] \in Process /\ proc[n].buffer \in Facts
  BY DEF IInv
<1>2. e \in End
  <2>1. net.fdt \in [Server -> [Fd -> Slot]]
    BY <1>1, KernelFields
  <2>2. e \in Slot /\ e < 0
    BY <2>1 DEF Receives, Watched
  <2> QED
    BY <2>2, BoundsAssumption DEF Slot, Free, File, Unconnected
<1>3. Incoming(n, f) \in Facts
  <2>1. net.inq[e] \in Seq(Facts)
    BY <1>1, <1>2, KernelFields
  <2>2. net.inq[e] # <<>> => Head(net.inq[e]) \in Facts
    BY <2>1, HeadTailProperties
  <2> QED
    BY <1>1, <2>2 DEF Incoming
<1>4. /\ KernelOf(n, AfterRead(n, f), Facts)
      /\ AfterRead(n, f).made = net.made
  BY <1>1, DrainOf DEF AfterRead
<1>5. MemoryOf(WithBuffer(n, f), Facts) /\ WithBuffer(n, f).pc = "loop"
  <2>1. Incoming(n, f) \in Message
    BY <1>3, MessageFields
  <2>2. proc[n].pc = "loop"
    BY DEF Receives, Watched
  <2> QED
    BY <1>1, <1>3, <2>1, <2>2 DEF WithBuffer, MemoryOf, Process
<1> QED
  BY <1>3, <1>4, <1>5 DEF Receives

\* A process that is not in one of the three reads has nothing to show.
LEMMA SettledElsewhere ==
  ASSUME NEW n, NEW w, NEW p, p.pc \notin Reading
  PROVE  Settled(n, w, p)
BY DEF Settled

LEMMA AcceptClientStep ==
  ASSUME IInv, NEW n \in Server, AcceptClient(n) PROVE IInv'
<1>1. proc[n] \in Process /\ proc[n].buffer \in Facts /\ net \in Kernel(Facts)
  BY DEF IInv
<1>2. CASE HasFd(net, n)
  <2> DEFINE p == [proc[n] EXCEPT !.client_sock = LowestFd(net, n)]
  <2>1. KernelOf(n, Accept(net, n), Facts)
    BY <1>1, <1>2, AcceptKernel DEF AcceptClient, KernelOf
  <2>2. MemoryOf(p, Facts) /\ p.pc \notin Reading
    BY <1>1, <1>2, LowestFdFree DEF AcceptClient, MemoryOf, Process, Reading
  <2>3. Become(n, Accept(net, n), p)
    BY <1>2 DEF AcceptClient
  <2> HIDE DEF p
  <2> QED
    BY <2>1, <2>2, <2>3, BecomeStep, SettledElsewhere, HostUnchanged,
       StepPreserves DEF AcceptClient, IInv
<1>3. CASE ~ HasFd(net, n)
  <2> DEFINE p == [proc[n] EXCEPT !.client_sock = NoFd]
  <2>1. KernelOf(n, net, Facts)
    BY <1>1 DEF KernelOf
  <2>2. MemoryOf(p, Facts) /\ p.pc \notin Reading
    BY <1>1 DEF AcceptClient, MemoryOf, Process, Reading
  <2>3. Become(n, net, p)
    BY <1>3 DEF AcceptClient
  <2> HIDE DEF p
  <2> QED
    BY <2>1, <2>2, <2>3, BecomeStep, SettledElsewhere, HostUnchanged,
       StepPreserves DEF AcceptClient, IInv
<1> QED
  BY <1>2, <1>3

LEMMA ReadEofStep ==
  ASSUME IInv, NEW n \in Server, NEW f \in Fd, ReadEof(n, f) PROVE IInv'
<1> DEFINE p == [proc[n] EXCEPT !.buffer = Empty]
<1>1. proc[n] \in Process /\ net \in Kernel(Facts) /\ proc[n].pc = "loop"
  BY DEF IInv, ReadEof, Watched
<1>2. KernelOf(n, Close(net, n, f), Facts)
  BY <1>1, CloseKernel DEF KernelOf
<1>3. MemoryOf(p, Facts) /\ p.pc \notin Reading
  BY <1>1, EmptyTrue, MessageFields DEF MemoryOf, Process, Reading
<1>4. Become(n, Close(net, n, f), p)
  BY DEF ReadEof
<1> HIDE DEF p
<1> QED
  BY <1>2, <1>3, <1>4, BecomeStep, SettledElsewhere, HostUnchanged,
     StepPreserves DEF ReadEof, IInv

LEMMA ControllerSetConfigStep ==
  ASSUME IInv, NEW n \in Server, NEW f \in Fd, ControllerSetConfig(n, f)
  PROVE  IInv'
<1> DEFINE p == Finish(WithBuffer(n, f))
<1>1. KernelOf(n, AfterRead(n, f), Facts) /\ MemoryOf(WithBuffer(n, f), Facts)
  BY ReceiveFacts DEF ControllerSetConfig
<1>2. MemoryOf(p, Facts) /\ p.pc \notin Reading
  BY <1>1, FinishMemory
<1>3. Say("CONTROL_SET_ON") \in Facts
  BY SayTrue DEF Word
<1>4. Reply(n, AfterRead(n, f), net.fdt[n][f], Say("CONTROL_SET_ON"), p)
  BY DEF ControllerSetConfig
<1> HIDE DEF p
<1> QED
  BY <1>1, <1>2, <1>3, <1>4, ReplyStep, SettledElsewhere, HostUnchanged,
     StepPreserves DEF ControllerSetConfig, IInv

LEMMA NbdSetOnStep ==
  ASSUME IInv, NEW n \in Server, NEW f \in Fd, NbdSetOn(n, f) PROVE IInv'
<1> DEFINE p == Finish(WithBuffer(n, f))
<1>1. KernelOf(n, AfterRead(n, f), Facts) /\ MemoryOf(WithBuffer(n, f), Facts)
  BY ReceiveFacts DEF NbdSetOn
<1>2. MemoryOf(p, Facts) /\ Settled(n, AfterRead(n, f), p)
  BY <1>1, FinishMemory, SettledElsewhere
<1>3. Say("NBD_CLIENT_LOAD") \in Facts
  BY SayTrue DEF Word
<1>4. \/ Reply(n, AfterRead(n, f), net.fdt[n][f], Say("NBD_CLIENT_LOAD"), p)
      \/ Die(n, AfterRead(n, f))
  BY DEF NbdSetOn
<1> HIDE DEF p
<1>5. StepOf(n, Facts)
  BY <1>1, <1>2, <1>3, <1>4, ReplyStep, DieStep DEF IInv
<1> QED
  BY <1>5, HostUnchanged, StepPreserves DEF NbdSetOn, IInv

LEMMA SetConfigStep ==
  ASSUME IInv, NEW n \in Server, NEW f \in Fd, SetConfig(n, f) PROVE IInv'
<1> DEFINE m == Incoming(n, f)
           w == AfterRead(n, f)
           p == WithBuffer(n, f)
           v == Take(w, n, File)
           h == IF HasFd(w, n) THEN StoreConfig(n, m) ELSE host[n]
<1>1. /\ m \in Facts /\ KernelOf(n, w, Facts)
      /\ MemoryOf(p, Facts) /\ p.pc = "loop"
  BY ReceiveFacts DEF SetConfig
<1>2. KernelOf(n, v, Facts)
  BY <1>1, TakeOf, EndFacts
<1>3. /\ h \in Host /\ h.mounted = host[n].mounted
      /\ h.mount_file = host[n].mount_file
  BY <1>1, MessageFields DEF IInv, StoreConfig, Host
<1>4. CASE p.success_flag = 1
  <2>1. Become(n, w, p) /\ UNCHANGED host
    BY <1>4 DEF SetConfig
  <2>2. StepOf(n, Facts)
    BY <1>1, <2>1, BecomeStep, SettledElsewhere DEF IInv, Reading
  <2> QED
    BY <2>1, <2>2, HostUnchanged, StepPreserves DEF SetConfig, IInv
<1>5. CASE p.success_flag # 1 /\ ~ ReadDMBDRemoteOk(n, v, h)
  <2>1. Die(n, v) /\ host' = [host EXCEPT ![n] = h]
    BY <1>5 DEF SetConfig
  <2> HIDE DEF h, v
  <2> QED
    BY <1>2, <1>3, <2>1, DieStep, HostKept, StepPreserves DEF SetConfig, IInv
<1>6. CASE p.success_flag # 1 /\ ReadDMBDRemoteOk(n, v, h)
  <2>1. PICK ok \in InsmodBestio(n) :
          /\ host' = [host EXCEPT ![n] = [h EXCEPT !.bestio = ok \/ h.bestio]]
          /\ Become(n, v, AfterInsmod(p, ok))
    BY <1>6 DEF SetConfig
  <2> HIDE DEF h, v, p
  <2>2. HostStep
    <3>1. ok \in BOOLEAN
      BY DEF InsmodBestio
    <3> DEFINE g == [h EXCEPT !.bestio = ok \/ h.bestio]
    <3>2. /\ g \in Host /\ g.mounted = host[n].mounted
          /\ g.mount_file = host[n].mount_file
      BY <1>3, <3>1 DEF Host
    <3> HIDE DEF g
    <3> QED
      BY <2>1, <3>2, HostKept DEF g
  <2>3. MemoryOf(AfterInsmod(p, ok), Facts) /\ AfterInsmod(p, ok).pc \notin Reading
    BY <1>1 DEF AfterInsmod, MemoryOf, Process, Pc, Reading
  <2> QED
    BY <1>2, <2>1, <2>2, <2>3, BecomeStep, SettledElsewhere, StepPreserves
       DEF SetConfig, IInv
<1> QED
  BY <1>4, <1>5, <1>6

LEMMA StartNbdServerStep ==
  ASSUME IInv, NEW n \in Server, StartNbdServer(n) PROVE IInv'
<1> DEFINE p == [proc[n] EXCEPT !.pc = "answer"]
<1>1. net \in Kernel(Facts) /\ MemoryOf(proc[n], Facts)
  BY DEF IInv, MemoryOf
<1>2. MemoryOf(p, Facts) /\ p.pc \notin Reading
  BY <1>1 DEF MemoryOf, Process, Pc, Reading
<1>3. PICK ok \in BOOLEAN :
        /\ host' = [host EXCEPT ![n].nbd_server = ok \/ @]
        /\ Become(n, IF ok THEN Inherit(net, n) ELSE net, p)
  BY DEF StartNbdServer
<1>4. HostStep
  <2> DEFINE h == [host[n] EXCEPT !.nbd_server = ok \/ @]
  <2>1. /\ h \in Host /\ h.mounted = host[n].mounted
        /\ h.mount_file = host[n].mount_file
    BY DEF IInv, Host
  <2>2. host' = [host EXCEPT ![n] = h]
    BY <1>3
  <2> HIDE DEF h
  <2> QED
    BY <2>1, <2>2, HostKept
<1> HIDE DEF p
<1>5. KernelOf(n, net, Facts) /\ KernelOf(n, Inherit(net, n), Facts)
  BY <1>1, InheritKernel DEF KernelOf
<1>6. StepOf(n, Facts)
  BY <1>2, <1>3, <1>5, BecomeStep, SettledElsewhere DEF IInv
<1> QED
  BY <1>4, <1>6, StepPreserves DEF StartNbdServer, IInv

LEMMA SetConfigDoneStep ==
  ASSUME IInv, NEW n \in Server, SetConfigDone(n) PROVE IInv'
<1> DEFINE p == Finish(proc[n])
           e == net.fdt[n][proc[n].i]
<1>1. KernelOf(n, net, Facts) /\ MemoryOf(proc[n], Facts)
  BY DEF IInv, KernelOf, MemoryOf
<1>2. MemoryOf(p, Facts) /\ Settled(n, net, p)
  BY <1>1, FinishMemory, SettledElsewhere
<1>3. Say("success") \in Facts
  BY SayTrue DEF Word
<1>4. Reply(n, net, e, Say("success"), p)
  BY DEF SetConfigDone
<1> HIDE DEF p, e
<1>5. StepOf(n, Facts)
  BY <1>1, <1>2, <1>3, <1>4, ReplyStep DEF IInv
<1> QED
  BY <1>5, HostUnchanged, StepPreserves DEF SetConfigDone, IInv

\* The announcement of a mount that succeeded is true from this step on.
LEMMA MountStep ==
  ASSUME IInv, NEW n \in Server, NEW f \in Fd, Mount(n, f) PROVE IInv'
<1> DEFINE w == AfterRead(n, f)
           p == WithBuffer(n, f)
           a == [word |-> "MOUNT_SET_ON", arg |-> n]
           h == [host[n] EXCEPT !.mounted = TRUE]
           g == [host[n] EXCEPT !.mounted = TRUE, !.mount_file = n]
<1>1. /\ KernelOf(n, w, Facts) /\ w.made = net.made
      /\ MemoryOf(p, Facts) /\ p.pc = "loop"
  BY ReceiveFacts DEF Mount
<1>2. w.made < MaxConns /\ client' \in [Client -> ClientState]
  BY <1>1 DEF Mount, Room, IInv
<1>3. /\ h \in Host /\ h.mounted /\ h.mount_file = host[n].mount_file
      /\ g \in Host /\ g.mounted /\ g.mount_file = n
  <2>1. host[n] \in Host
    BY DEF IInv
  <2>2. h \in Host /\ g \in Host
    BY <2>1 DEF Host
  <2>3. h.mount_file = host[n].mount_file /\ g.mount_file = n
    BY <2>1 DEF Host
  <2>4. h.mounted = TRUE /\ g.mounted = TRUE
    BY <2>1 DEF Host
  <2> QED
    BY <2>2, <2>3, <2>4
<1>4. CASE Become(n, w, p) /\ UNCHANGED host
  <2>1. StepOf(n, Facts)
    BY <1>1, <1>4, BecomeStep, SettledElsewhere DEF IInv, Reading
  <2> QED
    BY <1>2, <1>4, <2>1, HostUnchanged, StepPreserves
<1>5. CASE Die(n, w) /\ host' = [host EXCEPT ![n] = h]
  <2>1. StepOf(n, Facts)
    BY <1>1, <1>5, DieStep DEF IInv
  <2>2. HostStep
    <3> HIDE DEF h
    <3>1. /\ host' \in [Server -> Host]
          /\ \A m \in Server : /\ host[m].mounted => host'[m].mounted
                               /\ host'[m].mount_file = host[m].mount_file
      BY <1>5, <1>3 DEF IInv
    <3>2. \A m \in Server : host[m].mount_file \in Server \cup {None}
      BY DEF IInv, Host
    <3> QED
      BY <3>1, <3>2 DEF HostStep, IInv, MountFileNamesMounter
  <2> QED
    BY <1>2, <2>1, <2>2, StepPreserves
<1>6. CASE /\ host' = [host EXCEPT ![n] = g]
           /\ Become(n, MountMsgSend(n, w), Finish(p))
  <2>1. HostStep /\ host'[n].mounted
    <3>1. /\ host' \in [Server -> Host]
          /\ host'[n].mounted /\ host'[n].mount_file = n
          /\ \A m \in Server \ {n} : host'[m] = host[m]
      <4> HIDE DEF g
      <4> QED
        BY <1>6, <1>3 DEF IInv
    <3>2. \A m \in Server : host[m].mount_file \in Server \cup {None}
      BY DEF IInv, Host
    <3> QED
      BY <3>1, <3>2 DEF HostStep, IInv, MountFileNamesMounter
  <2>2. Facts \subseteq Facts'
    BY <2>1, TrueMonotone DEF HostStep
  <2>3. a \in Facts'
    BY <2>1 DEF Facts, Message
  <2>4. KernelOf(n, w, Facts') /\ MemoryOf(p, Facts')
    BY <1>1, <2>2, KernelMonotone DEF KernelOf, MemoryOf
  <2>5. KernelOf(n, MountMsgSend(n, w), Facts')
    BY <1>2, <2>3, <2>4, SendToOf DEF MountMsgSend
  <2>6. MemoryOf(Finish(p), Facts') /\ Finish(p).pc \notin Reading
    BY <2>4, FinishMemory
  <2>7. StepOf(n, Facts')
    BY <1>6, <2>5, <2>6, BecomeStep, SettledElsewhere DEF IInv
  <2> QED
    BY <1>2, <2>1, <2>7, StepPreserves
<1> QED
  BY <1>4, <1>5, <1>6 DEF Mount

LEMMA MountSetOnStep ==
  ASSUME IInv, NEW n \in Server, NEW f \in Fd, MountSetOn(n, f) PROVE IInv'
<1> DEFINE w == AfterRead(n, f)
           p == WithBuffer(n, f)
           s == Incoming(n, f).arg
<1>1. /\ KernelOf(n, w, Facts) /\ MemoryOf(p, Facts)
      /\ Incoming(n, f) \in Facts /\ Incoming(n, f).word = "MOUNT_SET_ON"
  BY ReceiveFacts DEF MountSetOn
<1>2. s \in Server /\ host[s].mounted
  BY <1>1, MessageFields
<1>3. MemoryOf(Finish(p), Facts) /\ Finish(p).pc \notin Reading
  BY <1>1, FinishMemory
<1>4. CASE Die(n, w) /\ UNCHANGED host
  BY <1>1, <1>4, DieStep, HostUnchanged, StepPreserves DEF MountSetOn, IInv
<1>5. CASE /\ host' = [host EXCEPT ![n].mount_file = s]
           /\ Become(n, w, Finish(p))
  <2>1. /\ host' \in [Server -> Host]
        /\ \A m \in Server : host'[m].mounted = host[m].mounted
        /\ \A m \in Server : host'[m].mount_file \in {host[m].mount_file, s}
    BY <1>2, <1>5 DEF IInv, Host
  <2>2. \A m \in Server : host[m].mount_file \in Server \cup {None}
    BY DEF IInv, Host
  <2>3. HostStep
    BY <1>2, <2>1, <2>2 DEF HostStep, IInv, MountFileNamesMounter
  <2>4. StepOf(n, Facts)
    BY <1>1, <1>3, <1>5, BecomeStep, SettledElsewhere DEF IInv
  <2> QED
    BY <2>3, <2>4, StepPreserves DEF MountSetOn, IInv
<1> QED
  BY <1>4, <1>5 DEF MountSetOn

LEMMA UserSetConfigStep ==
  ASSUME IInv, NEW n \in Server, NEW f \in Fd, UserSetConfig(n, f) PROVE IInv'
<1> DEFINE w == AfterRead(n, f)
           p == WithBuffer(n, f)
           v == SendTo(n, w, Say("CONTROLLER_SET_CONFIG"))
           q == [p EXCEPT !.pc = "read_on", !.sock = LowestFd(w, n)]
<1>1. /\ KernelOf(n, w, Facts) /\ w.made < MaxConns /\ MemoryOf(p, Facts)
  BY ReceiveFacts DEF UserSetConfig, Room
<1>2. MemoryOf(Finish(p), Facts) /\ Finish(p).pc \notin Reading
  BY <1>1, FinishMemory
<1>3. Say("CONTROLLER_SET_CONFIG") \in Facts
  BY SayTrue DEF Word, Command
<1>4. /\ KernelOf(n, v, Facts)
      /\ Reaches(n, w) => /\ LowestFd(w, n) \in Fd
                          /\ v.fdt[n][LowestFd(w, n)] \in Conn
  BY <1>1, <1>3, SendToOf
<1>5. CASE Become(n, w, Finish(p)) \/ Become(n, v, Finish(p))
  BY <1>1, <1>2, <1>4, <1>5, BecomeStep, SettledElsewhere, HostUnchanged,
     StepPreserves DEF UserSetConfig, IInv
<1>6. CASE Reaches(n, w) /\ Become(n, v, q)
  <2>1. MemoryOf(q, Facts) /\ q.sock = LowestFd(w, n)
    BY <1>1, <1>4, <1>6 DEF MemoryOf, Process, Pc
  <2> HIDE DEF v, q
  <2>2. Settled(n, v, q)
    BY <1>4, <1>6, <2>1 DEF Settled
  <2> QED
    BY <1>4, <1>6, <2>1, <2>2, BecomeStep, HostUnchanged, StepPreserves
       DEF UserSetConfig, IInv
<1> QED
  BY <1>5, <1>6 DEF UserSetConfig

\* What a controller blocked in a read starts from.
LEMMA ReadingFacts ==
  ASSUME IInv, NEW n \in Server, proc[n].pc \in Reading, NEW before
  PROVE  LET e == SockEnd(n) IN
         /\ e \in Conn /\ proc[n].sock \in Fd
         /\ net \in Kernel(Facts) /\ MemoryOf(proc[n], Facts)
         /\ KernelOf(n, Drain(net, e), Facts)
         /\ Drain(net, e).fdt = net.fdt
         /\ Answers(n, before) \subseteq Word \cup {"eof"} \cup before
<1> DEFINE e == SockEnd(n)
<1>1. net \in Kernel(Facts) /\ MemoryOf(proc[n], Facts)
  BY DEF IInv, MemoryOf
<1>2. e \in Conn /\ proc[n].sock \in Fd
  BY DEF SockEnd, IInv, OwnSocket, Reading
<1>3. KernelOf(n, Drain(net, e), Facts) /\ Drain(net, e).fdt = net.fdt
  BY <1>1, DrainOf
<1>4. Answers(n, before) \subseteq Word \cup {"eof"} \cup before
  <2>1. net.inq[e] \in Seq(Facts)
    BY <1>1, <1>2, EndFacts, KernelFields
  <2>2. net.inq[e] # <<>> => Head(net.inq[e]).word \in Word
    BY <2>1, HeadTailProperties, MessageFields
  <2> QED
    BY <2>2 DEF Answers
<1> QED
  BY <1>1, <1>2, <1>3, <1>4

LEMMA MsgSendReadOnStep ==
  ASSUME IInv, NEW n \in Server, MsgSendReadOn(n) PROVE IInv'
<1> DEFINE e == SockEnd(n)
           w == Drain(net, e)
           v == Take(w, n, File)
<1>1. PICK reply \in Answers(n, {"CONTROL_SET_ON", "eof"}),
           c \in (IF HasFd(w, n) THEN {host[n].dmbd_config}
                  ELSE Config \cup {Garbage}) :
        LET p == [proc[n] EXCEPT !.pc = "read_result", !.reply = reply] IN
        IF reply = "CONTROL_SET_ON"
        THEN Reply(n, v, e, [word |-> "config", arg |-> c], p)
        ELSE Become(n, w, p)
  BY DEF MsgSendReadOn
<1> DEFINE p == [proc[n] EXCEPT !.pc = "read_result", !.reply = reply]
           m == [word |-> "config", arg |-> c]
<1>2. /\ e \in Conn /\ proc[n].sock \in Fd /\ MemoryOf(proc[n], Facts)
      /\ KernelOf(n, w, Facts) /\ w.fdt = net.fdt
      /\ reply \in Word \cup {"eof"}
  BY ReadingFacts DEF MsgSendReadOn, Reading, Word, Command
<1>3. MemoryOf(p, Facts) /\ p.sock = proc[n].sock
  BY <1>2 DEF MemoryOf, Process, Pc
<1>4. m \in Facts
  <2>1. c \in Config \cup {Garbage}
    BY DEF IInv, Host
  <2> QED
    BY <2>1, ConfigTrue
<1>5. w.fdt[n][proc[n].sock] = e /\ e # Free
  BY <1>2 DEF SockEnd, Conn, Free
<1>6. KernelOf(n, v, Facts) /\ v.fdt[n][proc[n].sock] = e
  <2> HIDE DEF w, e
  <2>1. File \in Slot
    BY EndFacts
  <2>2. /\ KernelOf(n, v, Facts)
        /\ \A f \in Fd : w.fdt[n][f] # Free => v.fdt[n][f] = w.fdt[n][f]
    BY <1>2, <2>1, TakeOf
  <2> QED
    BY <1>2, <1>5, <2>2
<1>7. Settled(n, w, p) /\ Settled(n, v, p)
  BY <1>2, <1>3, <1>5, <1>6 DEF Settled
<1>8. Reply(n, v, e, m, p) \/ Become(n, w, p)
  BY <1>1
<1> HIDE DEF v, w, e, m, p
<1>9. StepOf(n, Facts)
  BY <1>2, <1>3, <1>4, <1>6, <1>7, <1>8, ReplyStep, BecomeStep DEF IInv
<1> QED
  BY <1>9, HostUnchanged, StepPreserves DEF MsgSendReadOn, IInv

LEMMA MsgSendReadResultStep ==
  ASSUME IInv, NEW n \in Server, MsgSendReadResult(n) PROVE IInv'
<1> DEFINE w == Drain(net, SockEnd(n))
<1>1. PICK reply \in Answers(n, {proc[n].reply}) :
        Become(n, w, Finish([proc[n] EXCEPT
          !.reply = "eof", !.sock = NoFd,
          !.count = IF reply = "success" THEN @ + 1 ELSE @,
          !.unsuccess_flag = IF reply = "unsuccess" THEN 1 ELSE @]))
  BY DEF MsgSendReadResult
<1> DEFINE p == [proc[n] EXCEPT
                   !.reply = "eof", !.sock = NoFd,
                   !.count = IF reply = "success" THEN @ + 1 ELSE @,
                   !.unsuccess_flag = IF reply = "unsuccess" THEN 1 ELSE @]
<1>2. KernelOf(n, w, Facts) /\ MemoryOf(proc[n], Facts)
  BY ReadingFacts DEF MsgSendReadResult, Reading
<1>3. MemoryOf(p, Facts)
  <2> DEFINE k == IF reply = "success" THEN proc[n].count + 1 ELSE proc[n].count
             u == IF reply = "unsuccess" THEN 1 ELSE proc[n].unsuccess_flag
  <2>1. k \in Nat /\ u \in {0, 1}
    BY <1>2 DEF MemoryOf, Process
  <2>2. p = [proc[n] EXCEPT !.reply = "eof", !.sock = NoFd,
                            !.count = k, !.unsuccess_flag = u]
    BY <1>2 DEF MemoryOf, Process
  <2> HIDE DEF k, u, p
  <2> QED
    BY <1>2, <2>1, <2>2 DEF MemoryOf, Process
<1> HIDE DEF w, p
<1>4. MemoryOf(Finish(p), Facts) /\ Settled(n, w, Finish(p))
  BY <1>3, FinishMemory, SettledElsewhere
<1>5. StepOf(n, Facts)
  BY <1>1, <1>2, <1>4, BecomeStep DEF IInv, p
<1> QED
  BY <1>5, HostUnchanged, StepPreserves DEF MsgSendReadResult, IInv

LEMMA NbdMsgSendReadStep ==
  ASSUME IInv, NEW n \in Server, NbdMsgSendRead(n) PROVE IInv'
<1> DEFINE w == Drain(net, SockEnd(n))
<1>1. PICK reply :
        Become(n, w, FinishAssembly([proc[n] EXCEPT
          !.sock = NoFd,
          !.nbd_count = IF reply = "NBD_CLIENT_LOAD" THEN @ + 1 ELSE @]))
  BY DEF NbdMsgSendRead
<1> DEFINE p == [proc[n] EXCEPT
                   !.sock = NoFd,
                   !.nbd_count = IF reply = "NBD_CLIENT_LOAD" THEN @ + 1 ELSE @]
<1>2. KernelOf(n, w, Facts) /\ MemoryOf(proc[n], Facts)
  BY ReadingFacts DEF NbdMsgSendRead, Reading
<1>3. MemoryOf(p, Facts)
  <2> DEFINE k == IF reply = "NBD_CLIENT_LOAD" THEN proc[n].nbd_count + 1
                  ELSE proc[n].nbd_count
  <2>1. k \in Nat
    BY <1>2 DEF MemoryOf, Process
  <2>2. p = [proc[n] EXCEPT !.sock = NoFd, !.nbd_count = k]
    BY <1>2 DEF MemoryOf, Process
  <2> HIDE DEF k, p
  <2> QED
    BY <1>2, <2>1, <2>2 DEF MemoryOf, Process
<1> HIDE DEF w, p
<1>4. MemoryOf(FinishAssembly(p), Facts) /\ Settled(n, w, FinishAssembly(p))
  BY <1>3, FinishMemory, SettledElsewhere
<1>5. StepOf(n, Facts)
  BY <1>1, <1>2, <1>4, BecomeStep DEF IInv, p
<1> QED
  BY <1>5, HostUnchanged, StepPreserves DEF NbdMsgSendRead, IInv

LEMMA AssembleStep ==
  ASSUME IInv, NEW n \in Server, Assemble(n) PROVE IInv'
<1>1. KernelOf(n, net, Facts) /\ proc[n] \in Process /\ MemoryOf(proc[n], Facts)
  BY DEF IInv, KernelOf, MemoryOf
<1>2. CASE Die(n, net) /\ UNCHANGED host
  BY <1>1, <1>2, DieStep, HostUnchanged, StepPreserves DEF Assemble, IInv
<1>3. CASE \E ok \in InsmodBestio(n), S \in NbdClient(n), stays \in BOOLEAN :
             /\ host' = [host EXCEPT ![n] = [host[n] EXCEPT
                           !.bestio = ok \/ @, !.attached = @ \cup S]]
             /\ Become(n, IF stays THEN Inherit(net, n) ELSE net,
                       [proc[n] EXCEPT !.pc = "module"])
  <2>1. PICK ok \in InsmodBestio(n), S \in NbdClient(n), stays \in BOOLEAN :
          /\ host' = [host EXCEPT ![n] = [host[n] EXCEPT
                        !.bestio = ok \/ @, !.attached = @ \cup S]]
          /\ Become(n, IF stays THEN Inherit(net, n) ELSE net,
                    [proc[n] EXCEPT !.pc = "module"])
    BY <1>3
  <2>2. ok \in BOOLEAN /\ S \subseteq Server
    BY DEF InsmodBestio, NbdClient
  <2> DEFINE h == [host[n] EXCEPT !.bestio = ok \/ @, !.attached = @ \cup S]
             p == [proc[n] EXCEPT !.pc = "module"]
  <2>3. /\ h \in Host /\ h.mounted = host[n].mounted
        /\ h.mount_file = host[n].mount_file
    <3> DEFINE g == host[n]
               b == ok \/ g.bestio
               T == g.attached \cup S
    <3>1. g \in Host
      BY DEF IInv
    <3>2. b \in BOOLEAN /\ T \subseteq Server
      BY <2>2, <3>1 DEF Host
    <3>3. h = [g EXCEPT !.bestio = b, !.attached = T]
      BY <3>1 DEF Host
    <3> HIDE DEF g, b, T, h
    <3>4. h \in Host /\ h.mounted = g.mounted /\ h.mount_file = g.mount_file
      BY <3>1, <3>2, <3>3 DEF Host
    <3> QED
      BY <3>4 DEF g
  <2>4. host' = [host EXCEPT ![n] = h]
    BY <2>1
  <2>5. MemoryOf(p, Facts) /\ p.pc \notin Reading
    BY <1>1 DEF MemoryOf, Process, Pc, Reading
  <2> HIDE DEF h, p
  <2>6. HostStep
    BY <2>3, <2>4, HostKept
  <2>7. KernelOf(n, Inherit(net, n), Facts)
    BY <1>1, InheritKernel DEF KernelOf
  <2>8. StepOf(n, Facts)
    BY <1>1, <2>1, <2>5, <2>7, BecomeStep, SettledElsewhere DEF IInv, p
  <2> QED
    BY <2>6, <2>8, StepPreserves DEF Assemble, IInv
<1> QED
  BY <1>2, <1>3 DEF Assemble

LEMMA AssembleModuleStep ==
  ASSUME IInv, NEW n \in Server, AssembleModule(n) PROVE IInv'
<1> DEFINE v == SendTo(n, net, Say("NBD_SET_ON"))
           q == [proc[n] EXCEPT !.pc = "read_nbd", !.sock = LowestFd(net, n)]
           r == FinishAssembly(proc[n])
<1>1. /\ KernelOf(n, net, Facts) /\ proc[n] \in Process
      /\ MemoryOf(proc[n], Facts) /\ net.made < MaxConns
  BY DEF IInv, KernelOf, MemoryOf, AssembleModule, Room
<1>2. PICK ok \in InsmodVrd(n) : host' = [host EXCEPT ![n].vrd = ok \/ @]
  BY DEF AssembleModule
<1>3. HostStep
  <2> DEFINE h == [host[n] EXCEPT !.vrd = ok \/ @]
  <2>1. ok \in BOOLEAN
    BY DEF InsmodVrd
  <2>2. /\ h \in Host /\ h.mounted = host[n].mounted
        /\ h.mount_file = host[n].mount_file
    BY <2>1 DEF IInv, Host
  <2>3. host' = [host EXCEPT ![n] = h]
    BY <1>2, Zenon
  <2> HIDE DEF h
  <2> QED
    BY <2>2, <2>3, HostKept
<1>4. Say("NBD_SET_ON") \in Facts
  BY SayTrue DEF Word, Command
<1>5. /\ KernelOf(n, v, Facts)
      /\ Reaches(n, net) => /\ LowestFd(net, n) \in Fd
                            /\ v.fdt[n][LowestFd(net, n)] \in Conn
  BY <1>1, <1>4, SendToOf
<1>6. MemoryOf(r, Facts) /\ r.pc \notin Reading
  BY <1>1, FinishMemory
<1>7. \/ Become(n, net, r) \/ Become(n, v, r)
      \/ Reaches(n, net) /\ Become(n, v, q)
  BY DEF AssembleModule
<1>8. CASE Become(n, net, r) \/ Become(n, v, r)
  BY <1>1, <1>3, <1>5, <1>6, <1>8, BecomeStep, SettledElsewhere,
     StepPreserves DEF AssembleModule, IInv
<1>9. CASE Reaches(n, net) /\ Become(n, v, q)
  <2>1. MemoryOf(q, Facts) /\ q.sock = LowestFd(net, n)
    BY <1>1, <1>5, <1>9 DEF MemoryOf, Process, Pc
  <2> HIDE DEF v, q
  <2>2. Settled(n, v, q)
    BY <1>5, <1>9, <2>1 DEF Settled
  <2> QED
    BY <1>3, <1>5, <1>9, <2>1, <2>2, BecomeStep, StepPreserves
       DEF AssembleModule, IInv
<1> QED
  BY <1>7, <1>8, <1>9

LEMMA ReportStep ==
  ASSUME IInv, NEW n \in Server, Report(n) PROVE IInv'
<1>1. KernelOf(n, net, Facts) /\ MemoryOf(proc[n], Facts)
  BY DEF IInv, KernelOf, MemoryOf
<1>2. ASSUME NEW word \in {"success", "unsuccess"}, NEW p,
             MemoryOf(p, Facts), p.pc \notin Reading,
             WriteClientSock(n, word, p)
      PROVE  StepOf(n, Facts) /\ HostStep
  <2>1. Say(word) \in Facts
    BY SayTrue DEF Word
  <2>2. Settled(n, net, p)
    BY <1>2, SettledElsewhere
  <2>3. \/ \E e : Reply(n, net, e, Say(word), p)
        \/ Die(n, net)
        \/ Become(n, net, p)
    BY <1>2 DEF WriteClientSock
  <2>4. StepOf(n, Facts)
    BY <1>1, <1>2, <2>1, <2>2, <2>3, ReplyStep, DieStep, BecomeStep DEF IInv
  <2>5. \/ UNCHANGED host
        \/ \E text \in Config \cup {Garbage} :
             host' = [host EXCEPT ![n].dmbd_config = text]
    BY <1>2 DEF WriteClientSock
  <2>6. ASSUME NEW text \in Config \cup {Garbage},
               host' = [host EXCEPT ![n].dmbd_config = text]
        PROVE  HostStep
    <3> DEFINE h == [host[n] EXCEPT !.dmbd_config = text]
    <3>1. /\ h \in Host /\ h.mounted = host[n].mounted
          /\ h.mount_file = host[n].mount_file
      BY DEF IInv, Host
    <3>2. host' = [host EXCEPT ![n] = h]
      BY <2>6
    <3> HIDE DEF h
    <3> QED
      BY <3>1, <3>2, HostKept
  <2> QED
    BY <2>4, <2>5, <2>6, HostUnchanged
<1> DEFINE p == [proc[n] EXCEPT
                   !.success_flag = 1, !.nbd_count = 0,
                   !.pc = IF proc[n].unsuccess_flag = 1 THEN "report"
                                                        ELSE "loop"]
           q == [proc[n] EXCEPT !.unsuccess_flag = 0, !.pc = "loop"]
<1>3. MemoryOf(p, Facts) /\ p.pc \notin Reading
  <2> DEFINE c == IF proc[n].unsuccess_flag = 1 THEN "report" ELSE "loop"
  <2>1. c \in {"report", "loop"}
    OBVIOUS
  <2>2. p = [proc[n] EXCEPT !.success_flag = 1, !.nbd_count = 0, !.pc = c]
    OBVIOUS
  <2> HIDE DEF c, p
  <2> QED
    BY <1>1, <2>1, <2>2 DEF MemoryOf, Process, Pc, Reading
<1>4. MemoryOf(q, Facts) /\ q.pc \notin Reading
  BY <1>1 DEF MemoryOf, Process, Pc, Reading
<1>5. \/ WriteClientSock(n, "success", p)
      \/ WriteClientSock(n, "unsuccess", q)
      \/ Die(n, net) /\ UNCHANGED host
  BY DEF Report
<1> HIDE DEF p, q
<1>6. StepOf(n, Facts) /\ HostStep
  BY <1>1, <1>2, <1>3, <1>4, <1>5, DieStep, HostUnchanged DEF IInv
<1> QED
  BY <1>6, StepPreserves DEF Report, IInv

LEMMA CrashStep == ASSUME IInv, NEW n \in Server, Crash(n) PROVE IInv'
<1>1. KernelOf(n, net, Facts)
  BY DEF IInv, KernelOf
<1>2. StepOf(n, Facts)
  BY <1>1, DieStep DEF Crash, IInv
<1> QED
  BY <1>2, HostUnchanged, StepPreserves DEF Crash, IInv

LEMMA RestartStep == ASSUME IInv, NEW n \in Server, Restart(n) PROVE IInv'
<1>1. KernelOf(n, net, Facts)
  BY DEF IInv, KernelOf
<1>2. MemoryOf(Started, Facts) /\ Started.pc \notin Reading
  BY StartedMemory DEF Started, Reading
<1>3. Become(n, net, Started)
  BY DEF Restart, Become
<1>4. StepOf(n, Facts)
  BY <1>1, <1>2, <1>3, BecomeStep, SettledElsewhere DEF IInv
<1> QED
  BY <1>4, HostUnchanged, StepPreserves DEF Restart, IInv

-----------------------------------------------------------------------------
(* The client programs hold no descriptor of a controller.                 *)

LEMMA ClientPreserves ==
  ASSUME IInv, net' \in Kernel(Facts), net'.fdt = net.fdt,
         UNCHANGED <<proc, host>>, client' \in [Client -> ClientState]
  PROVE  IInv'
<1>1. Facts' = Facts
  BY DEF Facts
<1>2. OwnSocket' /\ MountFileNamesMounter'
  BY DEF IInv, OwnSocket, MountFileNamesMounter
<1> QED
  BY <1>1, <1>2 DEF IInv

LEMMA RequestStep ==
  ASSUME IInv, NEW c \in Client, NEW n \in Server,
         NEW word \in {"USER_SET_CONFIG", "mount"},
         NEW after \in {"waiting", "gone"}, Request(c, n, word, after)
  PROVE  IInv'
<1>1. net \in Kernel(Facts) /\ client[c] \in ClientState
  BY DEF IInv
<1>2. CASE ~ Listens(n, net)
  <2>1. client' = [client EXCEPT ![c].st = "refused"] /\ UNCHANGED net
    BY <1>2 DEF Request
  <2>2. client' \in [Client -> ClientState]
    BY <2>1 DEF IInv, ClientState
  <2> QED
    BY <1>1, <2>1, <2>2, ClientPreserves DEF Request
<1>3. CASE Listens(n, net)
  <2> DEFINE k == net.made + 1
             u == Connect(net, n)
             w == Write(u, k, Say(word))
  <2>1. /\ client' = [client EXCEPT ![c] = [st |-> after, end |-> k]]
        /\ net' = IF after = "gone" THEN CloseEnds(w, {k}, {}) ELSE w
    BY <1>3 DEF Request
  <2>2. u \in Kernel(Facts) /\ u.fdt = net.fdt /\ k \in Conn
    BY <1>1, ConnectKernel DEF Request, Room
  <2>3. Say(word) \in Facts
    BY SayTrue DEF Word, Command
  <2>4. w \in Kernel(Facts) /\ w.fdt = net.fdt
    <3> HIDE DEF u, k
    <3> QED
      BY <2>2, <2>3, WriteKernel
  <2>5. net' \in Kernel(Facts) /\ net'.fdt = net.fdt
    <3> HIDE DEF w
    <3> QED
      BY <2>1, <2>4, CloseEndsKernel
  <2>6. client' \in [Client -> ClientState]
    BY <2>1, <2>2 DEF IInv, ClientState
  <2> QED
    BY <2>5, <2>6, ClientPreserves DEF Request
<1> QED
  BY <1>2, <1>3

LEMMA SetupReadStep ==
  ASSUME IInv, NEW c \in SetupClient, SetupRead(c) PROVE IInv'
<1> DEFINE k == client[c].end
           w == Drain(net, k)
<1>1. PICK st \in {"told", "failed", "missed"} :
        /\ client' = [client EXCEPT ![c].st = st]
        /\ net' = IF st = "missed" THEN w ELSE CloseEnds(w, {k}, {})
  BY DEF SetupRead
<1>2. w \in Kernel(Facts) /\ w.fdt = net.fdt
  BY DrainKernel DEF IInv
<1>3. net' \in Kernel(Facts) /\ net'.fdt = net.fdt
  <2> HIDE DEF w
  <2> QED
    BY <1>1, <1>2, CloseEndsKernel
<1>4. client' \in [Client -> ClientState]
  BY <1>1 DEF IInv, ClientState, Client
<1> QED
  BY <1>3, <1>4, ClientPreserves DEF SetupRead

-----------------------------------------------------------------------------
(* The theorems.                                                           *)

LEMMA InitIInv == ASSUME Init PROVE IInv
<1>1. net \in Kernel(Facts)
  BY BootKernel DEF Init
<1>2. /\ proc \in [Server -> Process]
      /\ \A n \in Server : proc[n].buffer \in Facts
  BY StartedMemory DEF Init, MemoryOf
<1>3. host \in [Server -> Host]
  BY ConfigAssumption DEF Init, Host
<1>4. client \in [Client -> ClientState]
  BY DEF Init, ClientState
<1>5. OwnSocket /\ MountFileNamesMounter
  BY DEF Init, Started, OwnSocket, Reading, MountFileNamesMounter
<1> QED
  BY <1>1, <1>2, <1>3, <1>4, <1>5 DEF IInv

LEMMA NextIInv == ASSUME IInv, [Next]_vars PROVE IInv'
<1>1. CASE UNCHANGED vars
  <2>1. Facts' = Facts
    BY <1>1 DEF vars, Facts
  <2> QED
    BY <1>1, <2>1
       DEF vars, IInv, OwnSocket, MountFileNamesMounter
<1>2. ASSUME NEW n \in Server, Handle(n) PROVE IInv'
  BY <1>2, AcceptClientStep, ReadEofStep, ControllerSetConfigStep,
     SetConfigStep, MountStep, MountSetOnStep, NbdSetOnStep,
     UserSetConfigStep, StartNbdServerStep, SetConfigDoneStep,
     MsgSendReadOnStep, MsgSendReadResultStep, AssembleStep, AssembleModuleStep,
     NbdMsgSendReadStep, ReportStep DEF Handle
<1>3. ASSUME NEW n \in Server, Crash(n) \/ Restart(n) PROVE IInv'
  BY <1>3, CrashStep, RestartStep
<1>4. CASE Ask
  BY <1>4, RequestStep DEF Ask, SetupRequest, MountRequest, Client
<1>5. ASSUME NEW c \in SetupClient, SetupRead(c) PROVE IInv'
  BY <1>5, SetupReadStep
<1> QED
  BY <1>1, <1>2, <1>3, <1>4, <1>5 DEF Next

\* Every behaviour of the cluster satisfies the inductive invariant.
THEOREM Invariance == Spec => []IInv
<1>1. Init => IInv
  BY InitIInv
<1>2. IInv /\ [Next]_vars => IInv'
  BY NextIInv
<1> QED
  BY <1>1, <1>2, PTL DEF Spec

\* The state of the cluster always has the shapes that the declarations of
\* jcm_controller.c give it, and every message is one of the protocol's.
THEOREM TypeCorrect == Spec => []TypeOK
<1>1. IInv => TypeOK
  <2> SUFFICES ASSUME IInv PROVE TypeOK
    OBVIOUS
  <2>1. Facts \subseteq Message
    BY DEF Facts
  <2> QED
    BY <2>1, KernelMonotone DEF IInv, TypeOK
<1> QED
  BY <1>1, Invariance, PTL

\* A mount_file never names a host that has not mounted its ramdisk: the
\* handlers of "mount" and MOUNT_SET_ON write only what has happened, whatever
\* is lost, repeated from a stale buffer or interrupted by a crash.
THEOREM MountFileCorrect == Spec => []MountFileNamesMounter
<1>1. IInv => MountFileNamesMounter
  BY DEF IInv
<1> QED
  BY <1>1, Invariance, PTL

\* Every announcement of a mount, on its way or in a buffer, is true.
THEOREM AnnouncementsCorrect == Spec => []AnnouncementsTrue
<1>1. IInv => AnnouncementsTrue
  <2> SUFFICES ASSUME IInv PROVE AnnouncementsTrue
    OBVIOUS
  <2>1. \A e \in End : \A j \in 1..Len(net.inq[e]) : net.inq[e][j] \in Facts
    BY KernelFields, ElementOfSeq DEF IInv
  <2> QED
    BY <2>1 DEF AnnouncementsTrue, IInv, Facts
<1> QED
  BY <1>1, Invariance, PTL
=============================================================================
