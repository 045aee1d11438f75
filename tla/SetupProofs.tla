---------------------------- MODULE SetupProofs ----------------------------
(***************************************************************************)
(* A setup, for any number of servers, clients, descriptors and            *)
(* connections, with faults and crashes: the counters of a round are       *)
(* reset, and no disk is put together out of ramdisks that are not all     *)
(* there.                                                                  *)
(*                                                                         *)
(* The argument follows the word "success" from the host that writes it to *)
(* the coordinator that counts it.  It waits on a connection, then in      *)
(* reply, then in count; wherever it is, the first peer of its reader has  *)
(* loaded bestio, because a connection that a controller opened leads to   *)
(* its first peer and nowhere else, whichever descriptor it is used by.    *)
(* With three servers or more a host writes it once, since a second insmod *)
(* fails, so count never reaches server_len-1.                             *)
(***************************************************************************)
EXTENDS ControllerProofs

Holding(w, n, e) == \E f \in Fd : w.fdt[n][f] = e

Waits(w, n, k) == \E j \in 1..Len(w.backlog[n]) : w.backlog[n][j] = k

SuccessAt(w, e) == \E j \in 1..Len(w.inq[e]) : w.inq[e][j].word = "success"

\* A "success" that n may still read.
Token(w, n, k) == Holding(w, n, k) /\ SuccessAt(w, k)

\* A connection that has not been made has left no trace.
Untouched(w, k) ==
  /\ w.inq[k] = <<>> /\ w.inq[-k] = <<>> /\ w.err[-k] # "reset"
  /\ \A n \in Server : ~ Holding(w, n, k) /\ ~ Holding(w, n, -k) /\ ~ Waits(w, n, k)

\* What a controller opened ends at its first peer.
Wired(w) ==
  /\ \A k \in Conn : k > w.made => Untouched(w, k)
  /\ \A k \in Conn : \A n, m \in Server :
       Holding(w, n, k) /\ (Holding(w, m, -k) \/ Waits(w, m, k)) =>
         server_len > 1 /\ m = FirstPeer(n)

\* The connection of a client carries its request to the controller, no more.
Private(w, cl) ==
  \A c \in Client : cl[c].end # 0 =>
    LET k == cl[c].end IN
    /\ k <= w.made
    /\ \A n \in Server : ~ Holding(w, n, k)
    /\ \A j \in 1..Len(w.inq[-k]) :
         w.inq[-k][j].word \in {"USER_SET_CONFIG", "mount"}
    /\ w.err[-k] # "reset"

\* The process n has read or may read that its peer has a ramdisk.
Expects(n, w, p) ==
  p.count > 0 \/ p.reply = "success" \/ \E k \in Conn : Token(w, n, k)

\* ... in one place only.
OneToken(n, w, p) ==
  /\ p.count <= 1
  /\ \A k, l \in Conn : Token(w, n, k) /\ Token(w, n, l) => k = l
  /\ p.count > 0 => p.reply # "success" /\ \A k \in Conn : ~ Token(w, n, k)
  /\ p.reply = "success" => \A k \in Conn : ~ Token(w, n, k)

\* The counters against the point of the round that the process has reached.
Counted(n, p, h) ==
  /\ server_len <= 2 =>
       /\ p.pc \notin {"assemble", "module", "read_nbd"} => p.count = 0
       /\ p.pc # "report" => p.nbd_count = 0
       /\ p.count <= server_len - 1 /\ p.nbd_count <= server_len - 1
  /\ server_len = 1 => p.pc \notin Reading
  /\ p.nbd_count > 0 \/ p.pc = "read_nbd" => h[n].vrd
  /\ p.pc \in {"assemble", "module"} =>
       server_len <= 2 /\ p.count = server_len - 1

\* A host between the insmod of its ramdisk and the answer.
Configures == {"config", "answer"}

\* Between insmod and the answer the host has its ramdisk, and the answer goes
\* to a controller.
Configuring(n, w, p, h, cl) ==
  p.pc \in Configures =>
    /\ h[n].bestio
    /\ p.i \in Fd /\ w.fdt[n][p.i] \in End
    /\ \A c \in Client : cl[c].end # - w.fdt[n][p.i]

\* Every host has its ramdisk, and a coordinator the disk made of them.
Done == (\E n \in Server : host[n].vrd) /\ (\A m \in Server : host[m].bestio)

ExpectsTrue(n) ==
  /\ server_len > 1 /\ Expects(n, net, proc[n]) => host[FirstPeer(n)].bestio
  /\ server_len > 2 =>
       /\ OneToken(n, net, proc[n])
       /\ Expects(n, net, proc[n]) => proc[FirstPeer(n)].pc \notin Configures

\* A client that waits has a connection.
Asked ==
  \A c \in Client : client[c].st \in {"waiting", "missed"} => client[c].end # 0

ClientsTrue ==
  server_len > 1 =>
    \A c \in Client : /\ client[c].end # 0 /\ SuccessAt(net, client[c].end) => Done
                      /\ client[c].st = "told" => Done

\* The invariant of a setup: Controller's own, and where a "success" may be.
SInv ==
  /\ IInv
  /\ Wired(net)
  /\ Private(net, client)
  /\ \A n \in Server : /\ Counted(n, proc[n], host)
                       /\ Configuring(n, net, proc[n], host, client)
                       /\ ExpectsTrue(n)
  /\ Asked
  /\ ClientsTrue
  /\ DiskIsWhole
  /\ OnlyTwoServersAssemble

-----------------------------------------------------------------------------
(* What the calls do to the queues, the backlogs and the errors.           *)

LEMMA TakeFields ==
  ASSUME NEW Msg, NEW w \in Kernel(Msg), NEW n \in Server, NEW s \in Slot
  PROVE  LET v == Take(w, n, s) IN
         /\ v.inq = w.inq /\ v.err = w.err /\ v.backlog = w.backlog
         /\ v.made = w.made
         /\ \A m \in Server, g \in Fd :
              \/ v.fdt[m][g] = w.fdt[m][g]
              \/ m = n /\ g = LowestFd(w, n) /\ HasFd(w, n) /\ v.fdt[m][g] = s
<1> DEFINE v == Take(w, n, s)
<1>1. CASE HasFd(w, n)
  <2>1. LowestFd(w, n) \in Fd
    BY <1>1, LowestFdFree
  <2>2. v = [w EXCEPT !.fdt[n][LowestFd(w, n)] = s]
    BY <1>1 DEF Take
  <2>3. /\ v.inq = w.inq /\ v.err = w.err /\ v.backlog = w.backlog
        /\ v.made = w.made
    BY <2>2 DEF Kernel
  <2> HIDE DEF v
  <2>4. \A m \in Server, g \in Fd :
          \/ v.fdt[m][g] = w.fdt[m][g]
          \/ m = n /\ g = LowestFd(w, n) /\ v.fdt[m][g] = s
    BY <2>1, <2>2, TableUpdate
  <2> QED
    BY <1>1, <2>3, <2>4 DEF v
<1>2. CASE ~ HasFd(w, n)
  BY <1>2 DEF Take
<1> QED
  BY <1>1, <1>2

LEMMA DrainFields ==
  ASSUME NEW Msg, NEW w \in Kernel(Msg), NEW e \in End
  PROVE  LET v == Drain(w, e) IN
         /\ v.fdt = w.fdt /\ v.backlog = w.backlog /\ v.made = w.made
         /\ v.inq[e] = <<>>
         /\ \A x \in End : v.inq[x] = <<>> \/ v.inq[x] = w.inq[x]
         /\ \A x \in End : v.err[x] = "pipe" \/ v.err[x] = w.err[x]
<1> DEFINE q == [w.inq EXCEPT ![e] = <<>>]
           a == IF w.inq[e] = <<>> /\ w.err[e] = "reset" THEN "pipe"
                ELSE w.err[e]
           r == [w.err EXCEPT ![e] = a]
<1>1. w.inq \in [End -> Seq(Msg)] /\ w.err \in [End -> {"none", "reset", "pipe"}]
  BY KernelFields
<1>2. q[e] = <<>> /\ \A x \in End : q[x] = <<>> \/ q[x] = w.inq[x]
  BY <1>1
<1>3. \A x \in End : r[x] = "pipe" \/ r[x] = w.err[x]
  <2>1. a = "pipe" \/ a = w.err[e]
    OBVIOUS
  <2> HIDE DEF a
  <2> QED
    BY <1>1, <2>1
<1>4. Drain(w, e) = [w EXCEPT !.inq = q, !.err = r]
  BY DEF Drain, Kernel
<1> HIDE DEF q, r
<1>5. LET v == Drain(w, e) IN
      /\ v.fdt = w.fdt /\ v.backlog = w.backlog /\ v.made = w.made
      /\ v.inq = q /\ v.err = r
  BY <1>4 DEF Kernel
<1> QED
  BY <1>2, <1>3, <1>5

LEMMA WriteFields ==
  ASSUME NEW Msg, NEW w \in Kernel(Msg), NEW e, NEW m \in Msg
  PROVE  LET v == Write(w, e, m) IN
         /\ v.fdt = w.fdt /\ v.backlog = w.backlog /\ v.made = w.made
         /\ \A x \in End : \/ v.inq[x] = w.inq[x]
                           \/ x = -e /\ v.inq[x] = Append(w.inq[x], m)
         /\ \A x \in End : v.err[x] = "pipe" \/ v.err[x] = w.err[x]
<1> DEFINE y == -e
           q == [w.inq EXCEPT ![y] = Append(w.inq[y], m)]
           r == [w.err EXCEPT ![e] = "pipe"]
           v == Write(w, e, m)
<1>1. w.inq \in [End -> Seq(Msg)] /\ w.err \in [End -> {"none", "reset", "pipe"}]
  BY KernelFields
<1>2. \A x \in End : q[x] = w.inq[x] \/ (x = y /\ q[x] = Append(w.inq[x], m))
  <2> DEFINE a == Append(w.inq[y], m)
  <2> HIDE DEF y, a
  <2>1. \A x \in End : q[x] = w.inq[x] \/ (x = y /\ q[x] = a)
    BY <1>1 DEF a
  <2> QED
    BY <2>1 DEF a
<1>3. \A x \in End : r[x] = "pipe" \/ r[x] = w.err[x]
  BY <1>1
<1>4. CASE w.open[-e]
  <2>1. v = [w EXCEPT !.inq = q]
    BY <1>4 DEF Write, Kernel
  <2> HIDE DEF q, r, v, y
  <2>2. /\ v.fdt = w.fdt /\ v.backlog = w.backlog /\ v.made = w.made
        /\ v.inq = q /\ v.err = w.err
    BY <2>1 DEF Kernel
  <2> QED
    BY <1>2, <2>2 DEF v, y
<1>5. CASE ~ w.open[-e]
  <2>1. v = [w EXCEPT !.err = r]
    BY <1>5 DEF Write, Kernel
  <2> HIDE DEF q, r, v, y
  <2>2. /\ v.fdt = w.fdt /\ v.backlog = w.backlog /\ v.made = w.made
        /\ v.inq = w.inq /\ v.err = r
    BY <2>1 DEF Kernel
  <2> QED
    BY <1>3, <2>2 DEF v, y
<1> QED
  BY <1>4, <1>5

LEMMA ConnectFields ==
  ASSUME NEW Msg, NEW w \in Kernel(Msg), NEW n \in Server, w.made < MaxConns
  PROVE  LET v == Connect(w, n)
             k == w.made + 1 IN
         /\ v.fdt = w.fdt /\ v.inq = w.inq /\ v.err = w.err
         /\ v.made = k /\ k \in Conn
         /\ v.backlog = [w.backlog EXCEPT ![n] = Append(@, k)]
<1>1. w.made + 1 \in Conn
  BY ConnectKernel
<1> QED
  BY <1>1 DEF Connect, Kernel

LEMMA AcceptFields ==
  ASSUME NEW Msg, NEW w \in Kernel(Msg), NEW n \in Server,
         HasFd(w, n), w.backlog[n] # <<>>
  PROVE  LET v == Accept(w, n)
             f == LowestFd(w, n) IN
         /\ v.inq = w.inq /\ v.err = w.err /\ v.made = w.made
         /\ f \in Fd /\ v.fdt[n][f] = -Head(w.backlog[n])
         /\ \A m \in Server, g \in Fd :
              <<m, g>> # <<n, f>> => v.fdt[m][g] = w.fdt[m][g]
         /\ v.backlog = [w.backlog EXCEPT ![n] = Tail(@)]
<1> DEFINE f == LowestFd(w, n)
           s == -Head(w.backlog[n])
           b == [w.backlog EXCEPT ![n] = Tail(w.backlog[n])]
           u == [w EXCEPT !.fdt[n][f] = s]
           v == Accept(w, n)
<1>1. f \in Fd
  BY LowestFdFree
<1>2. Head(w.backlog[n]) \in Conn
  BY KernelFields, HeadTailProperties
<1>3. s \in Slot
  BY <1>2, EndFacts
<1>4. /\ u.fdt[n][f] = s
      /\ \A m \in Server, g \in Fd :
           <<m, g>> # <<n, f>> => u.fdt[m][g] = w.fdt[m][g]
  <2>1. u = [w EXCEPT !.fdt[n][f] = s]
    OBVIOUS
  <2> HIDE DEF f, s, u
  <2> QED
    BY <1>1, <1>3, <2>1, TableUpdate
<1>5. v = [u EXCEPT !.backlog = b] /\ u = [w EXCEPT !.fdt = u.fdt]
  BY DEF Accept, Kernel
<1> HIDE DEF f, s, b, u
<1>6. /\ v.inq = w.inq /\ v.err = w.err /\ v.made = w.made
      /\ v.fdt = u.fdt /\ v.backlog = b
  BY <1>5 DEF Kernel
<1> QED
  BY <1>1, <1>4, <1>6 DEF f, s, b

LEMMA CloseEndsFields ==
  ASSUME NEW Msg, NEW w \in Kernel(Msg), NEW E, NEW U
  PROVE  LET v == CloseEnds(w, E, U) IN
         /\ v.fdt = w.fdt /\ v.backlog = w.backlog /\ v.made = w.made
         /\ \A x \in End : v.inq[x] = <<>> \/ v.inq[x] = w.inq[x]
         /\ \A x \in End : v.err[x] = "reset" =>
              \/ w.err[x] = "reset"
              \/ -x \in E /\ (w.inq[-x] # <<>> \/ -x \in U)
BY DEF CloseEnds, Kernel

-----------------------------------------------------------------------------
(* A call that only reads, closes or opens a file.                         *)

Shrinks(w, v) ==
  /\ v.made = w.made
  /\ \A e \in End : v.inq[e] = <<>> \/ v.inq[e] = w.inq[e]
  /\ \A m \in Server, e \in End : Holding(v, m, e) => Holding(w, m, e)
  /\ \A m \in Server : v.backlog[m] = <<>> \/ v.backlog[m] = w.backlog[m]
  /\ \A k \in Conn : v.err[-k] = "reset" =>
       w.err[-k] = "reset" \/ \E m \in Server : Holding(w, m, k)

LEMMA DrainShrinks ==
  ASSUME NEW Msg, NEW w \in Kernel(Msg), NEW e \in End
  PROVE  Shrinks(w, Drain(w, e))
BY DrainFields, EndFacts DEF Shrinks, Holding

LEMMA TakeShrinks ==
  ASSUME NEW Msg, NEW w \in Kernel(Msg), NEW n \in Server,
         NEW s \in {File, Unconnected}
  PROVE  Shrinks(w, Take(w, n, s))
<1>1. s \in Slot /\ s \notin End
  BY BoundsAssumption DEF Slot, End, File, Unconnected
<1>2. \A m \in Server, e \in End : Holding(Take(w, n, s), m, e) => Holding(w, m, e)
  BY <1>1, TakeFields DEF Holding
<1> QED
  BY <1>1, <1>2, TakeFields DEF Shrinks

LEMMA CloseShrinks ==
  ASSUME NEW Msg, NEW w \in Kernel(Msg), NEW n \in Server, NEW f \in Fd
  PROVE  Shrinks(w, Close(w, n, f))
<1> DEFINE E == ({w.fdt[n][f]} \cap End) \ w.kept
           u == CloseEnds(w, E, {})
           v == Close(w, n, f)
<1>1. u \in Kernel(Msg)
  BY CloseEndsKernel
<1>2. /\ u.fdt = w.fdt /\ u.backlog = w.backlog /\ u.made = w.made
      /\ \A x \in End : u.inq[x] = <<>> \/ u.inq[x] = w.inq[x]
      /\ \A x \in End : u.err[x] = "reset" => w.err[x] = "reset" \/ -x \in E
  <2> HIDE DEF E
  <2> QED
    BY CloseEndsFields
<1>3. v = [u EXCEPT !.fdt[n][f] = Free] /\ Free \in Slot /\ Free \notin End
  BY EndFacts DEF Close, Free, End
<1> HIDE DEF u, v
<1>4. /\ v.inq = u.inq /\ v.err = u.err /\ v.made = u.made
      /\ v.backlog = u.backlog
  BY <1>1, <1>3 DEF Kernel
<1>5. \A m \in Server, e \in End : Holding(v, m, e) => Holding(w, m, e)
  <2>1. /\ v.fdt[n][f] = Free
        /\ \A m \in Server, g \in Fd :
             <<m, g>> # <<n, f>> => v.fdt[m][g] = u.fdt[m][g]
    BY <1>1, <1>3, TableUpdate
  <2> QED
    BY <1>2, <1>3, <2>1 DEF Holding
<1>6. \A k \in Conn : v.err[-k] = "reset" =>
        w.err[-k] = "reset" \/ \E m \in Server : Holding(w, m, k)
  <2> SUFFICES ASSUME NEW k \in Conn, v.err[-k] = "reset", w.err[-k] # "reset"
               PROVE  Holding(w, n, k)
    OBVIOUS
  <2>1. -k \in End /\ -(-k) = k
    BY EndFacts DEF Conn
  <2>2. k \in E
    BY <1>2, <1>4, <2>1
  <2> QED
    BY <2>2 DEF Holding
<1> QED
  BY <1>2, <1>4, <1>5, <1>6 DEF Shrinks, v

LEMMA ExitShrinks ==
  ASSUME NEW Msg, NEW w \in Kernel(Msg), NEW n \in Server
  PROVE  Shrinks(w, Exit(w, n)) /\ \A e \in End : ~ Holding(Exit(w, n), n, e)
<1> DEFINE waiting == Waiting(w, n)
           held    == Held(w, n) \ w.kept
           u       == CloseEnds(w, held \cup waiting, waiting)
           t       == [u.fdt EXCEPT ![n] = [f \in Fd |-> Free]]
           l       == IF n \in w.heirs THEN u.backlog[n] ELSE <<>>
           b       == [u.backlog EXCEPT ![n] = l]
           v       == Exit(w, n)
<1>1. u \in Kernel(Msg)
  BY CloseEndsKernel
<1>2. /\ u.fdt = w.fdt /\ u.backlog = w.backlog /\ u.made = w.made
      /\ \A x \in End : u.inq[x] = <<>> \/ u.inq[x] = w.inq[x]
      /\ \A x \in End : u.err[x] = "reset" =>
           w.err[x] = "reset" \/ -x \in held \/ -x \in waiting
  <2> HIDE DEF held, waiting
  <2> QED
    BY CloseEndsFields
<1>3. v = [u EXCEPT !.fdt = t, !.backlog = b]
  BY <1>2 DEF Exit, Kernel
<1> HIDE DEF u, v
<1>4. /\ v.inq = u.inq /\ v.err = u.err /\ v.made = u.made
      /\ v.backlog = b /\ v.fdt = t
  BY <1>1, <1>3 DEF Kernel
<1>5. /\ \A m \in Server, e \in End : Holding(v, m, e) => Holding(w, m, e)
      /\ \A e \in End : ~ Holding(v, n, e)
  <2>1. u.fdt \in [Server -> [Fd -> Slot]] /\ Free \notin End
    BY <1>1, KernelFields DEF Free, End
  <2> QED
    BY <1>2, <1>4, <2>1 DEF Holding
<1>6. \A k \in Conn : v.err[-k] = "reset" =>
        w.err[-k] = "reset" \/ \E m \in Server : Holding(w, m, k)
  <2> SUFFICES ASSUME NEW k \in Conn, v.err[-k] = "reset", w.err[-k] # "reset"
               PROVE  Holding(w, n, k)
    OBVIOUS
  <2>1. -k \in End /\ -(-k) = k
    BY EndFacts DEF Conn
  <2>2. k \in held \/ k \in waiting
    BY <1>2, <1>4, <2>1
  <2>3. k \notin waiting
    <3>1. w.backlog[n] \in Seq(Conn)
      BY KernelFields
    <3>2. \A i \in 1..Len(w.backlog[n]) : w.backlog[n][i] \in Conn
      BY <3>1, ElementOfSeq
    <3> QED
      BY <3>2 DEF Conn, Waiting
  <2> QED
    BY <2>2, <2>3 DEF Holding, Held
<1>7. \A m \in Server : v.backlog[m] = <<>> \/ v.backlog[m] = w.backlog[m]
  BY <1>1, <1>2, <1>4, KernelFields
<1> QED
  BY <1>2, <1>4, <1>5, <1>6, <1>7 DEF Shrinks, v

\* What a daemon holds, too, is felt later, when it is closed.
LEMMA InheritFields ==
  ASSUME NEW Msg, NEW w \in Kernel(Msg), NEW n \in Server
  PROVE  LET v == Inherit(w, n) IN
         /\ v.fdt = w.fdt /\ v.backlog = w.backlog /\ v.made = w.made
         /\ v.inq = w.inq /\ v.err = w.err /\ v.open = w.open
BY DEF Inherit, Kernel

LEMMA InheritShrinks ==
  ASSUME NEW Msg, NEW w \in Kernel(Msg), NEW n \in Server
  PROVE  Shrinks(w, Inherit(w, n))
BY InheritFields DEF Shrinks, Holding

-----------------------------------------------------------------------------
(* What a call does to the wiring, and to the "success"es on their way.    *)

Good(w, cl) == Wired(w) /\ Private(w, cl)

\* No "success" appears from w to v, but for the end x.
Calm(w, v, x) ==
  /\ \A m \in Server, k \in Conn :
       Token(v, m, k) => Token(w, m, k) \/ (k = x /\ Holding(w, m, k))
  /\ \A k \in Conn : SuccessAt(v, k) => SuccessAt(w, k) \/ k = x

LEMMA CalmTransitive ==
  ASSUME NEW u, NEW v, NEW w, Calm(u, v, 0), Calm(v, w, 0)
  PROVE  Calm(u, w, 0)
BY DEF Calm, Conn

LEMMA SameQueue ==
  ASSUME NEW w, NEW v, NEW e, v.inq[e] = <<>> \/ v.inq[e] = w.inq[e],
         SuccessAt(v, e)
  PROVE  SuccessAt(w, e)
BY DEF SuccessAt

LEMMA ShrinksGood ==
  ASSUME NEW w, NEW v, NEW cl \in [Client -> ClientState], Good(w, cl),
         Shrinks(w, v)
  PROVE  Good(v, cl) /\ Calm(w, v, 0)
<1>1. \A m \in Server, k \in Conn : Waits(v, m, k) => Waits(w, m, k)
  BY DEF Shrinks, Waits
<1>2. Wired(v)
  BY <1>1, EndFacts DEF Shrinks, Good, Wired, Untouched
<1>3. Private(v, cl)
  <2> SUFFICES ASSUME NEW c \in Client, cl[c].end # 0
               PROVE  LET k == cl[c].end IN
                      /\ k <= v.made
                      /\ \A n \in Server : ~ Holding(v, n, k)
                      /\ \A j \in 1..Len(v.inq[-k]) :
                           v.inq[-k][j].word \in {"USER_SET_CONFIG", "mount"}
                      /\ v.err[-k] # "reset"
    BY DEF Private
  <2> DEFINE k == cl[c].end
  <2>1. k \in Conn /\ k \in End /\ -k \in End
    BY EndFacts DEF ClientState
  <2>2. /\ k <= w.made
        /\ \A n \in Server : ~ Holding(w, n, k)
        /\ \A j \in 1..Len(w.inq[-k]) :
             w.inq[-k][j].word \in {"USER_SET_CONFIG", "mount"}
        /\ w.err[-k] # "reset"
    BY DEF Good, Private
  <2> HIDE DEF k
  <2>3. v.inq[-k] = <<>> \/ v.inq[-k] = w.inq[-k]
    BY <2>1 DEF Shrinks
  <2>4. /\ k <= v.made /\ v.err[-k] # "reset"
        /\ \A n \in Server : ~ Holding(v, n, k)
    BY <2>1, <2>2 DEF Shrinks
  <2>5. \A j \in 1..Len(v.inq[-k]) :
          v.inq[-k][j].word \in {"USER_SET_CONFIG", "mount"}
    BY <2>2, <2>3
  <2> QED
    BY <2>4, <2>5 DEF k
<1>4. Calm(w, v, 0)
  BY SameQueue, EndFacts DEF Shrinks, Calm, Token
<1> QED
  BY <1>2, <1>3, <1>4 DEF Good

LEMMA AppendSuccess ==
  ASSUME NEW Msg, NEW w \in Kernel(Msg), NEW v, NEW m \in Msg, NEW e \in End,
         v.inq[e] = Append(w.inq[e], m), SuccessAt(v, e)
  PROVE  SuccessAt(w, e) \/ m.word = "success"
<1>1. w.inq[e] \in Seq(Msg)
  BY KernelFields
<1> QED
  BY <1>1 DEF SuccessAt

\* write() by a process to an end that it holds.
LEMMA WriteGood ==
  ASSUME NEW Msg, NEW w \in Kernel(Msg), NEW cl \in [Client -> ClientState],
         Good(w, cl), NEW m \in Msg, NEW e \in End, NEW n \in Server,
         Holding(w, n, e)
  PROVE  LET v == Write(w, e, m) IN
         /\ Good(v, cl) /\ Calm(w, v, -e)
         /\ m.word # "success" => Calm(w, v, 0)
<1> DEFINE v == Write(w, e, m)
<1>1. /\ v.fdt = w.fdt /\ v.backlog = w.backlog /\ v.made = w.made
      /\ \A x \in End : \/ v.inq[x] = w.inq[x]
                        \/ x = -e /\ v.inq[x] = Append(w.inq[x], m)
      /\ \A x \in End : v.err[x] = "pipe" \/ v.err[x] = w.err[x]
  BY WriteFields
<1> HIDE DEF v
<1>2. /\ \A a, x : Holding(v, a, x) <=> Holding(w, a, x)
      /\ \A a, x : Waits(v, a, x) <=> Waits(w, a, x)
  BY <1>1 DEF Holding, Waits
<1>3. \A k \in Conn : k > w.made => k # e /\ k # -e
  <2> SUFFICES ASSUME NEW k \in Conn, k > w.made, k = e \/ -k = e
               PROVE  FALSE
    BY DEF Conn, End
  <2> QED
    BY DEF Good, Wired, Untouched
<1>4. Wired(v)
  <2>1. \A k \in Conn : k > v.made => Untouched(v, k)
    <3> SUFFICES ASSUME NEW k \in Conn, k > w.made PROVE Untouched(v, k)
      BY <1>1
    <3>1. k # e /\ k # -e /\ k # 0 - e /\ k \in End /\ -k \in End /\ -k # -e
      BY <1>3, EndFacts DEF Conn, End
    <3>2. v.inq[k] = w.inq[k] /\ v.inq[-k] = w.inq[-k]
      BY <1>1, <3>1
    <3>3. Untouched(w, k)
      BY DEF Good, Wired
    <3> QED
      BY <1>1, <1>2, <3>1, <3>2, <3>3 DEF Untouched
  <2>2. \A k \in Conn : \A a, b \in Server :
          Holding(v, a, k) /\ (Holding(v, b, -k) \/ Waits(v, b, k)) =>
            server_len > 1 /\ b = FirstPeer(a)
    BY <1>2 DEF Good, Wired
  <2> QED
    BY <2>1, <2>2 DEF Wired
<1>5. Private(v, cl)
  <2> SUFFICES ASSUME NEW c \in Client, cl[c].end # 0
               PROVE  LET k == cl[c].end IN
                      /\ k <= v.made
                      /\ \A a \in Server : ~ Holding(v, a, k)
                      /\ \A j \in 1..Len(v.inq[-k]) :
                           v.inq[-k][j].word \in {"USER_SET_CONFIG", "mount"}
                      /\ v.err[-k] # "reset"
    BY DEF Private
  <2> DEFINE k == cl[c].end
  <2>1. k \in Conn /\ -k \in End
    BY EndFacts DEF ClientState
  <2>2. /\ k <= w.made
        /\ \A a \in Server : ~ Holding(w, a, k)
        /\ \A j \in 1..Len(w.inq[-k]) :
             w.inq[-k][j].word \in {"USER_SET_CONFIG", "mount"}
        /\ w.err[-k] # "reset"
    BY DEF Good, Private
  <2> HIDE DEF k
  <2>3. k # e
    BY <2>2
  <2>4. v.inq[-k] = w.inq[-k]
    BY <1>1, <2>1, <2>3 DEF Conn, End
  <2>5. v.err[-k] # "reset"
    BY <1>1, <2>1, <2>2
  <2> QED
    BY <1>1, <1>2, <2>2, <2>4, <2>5 DEF k
<1>6. \A k \in Conn : SuccessAt(v, k) =>
        SuccessAt(w, k) \/ (k = -e /\ m.word = "success")
  <2> SUFFICES ASSUME NEW k \in Conn, SuccessAt(v, k)
               PROVE  SuccessAt(w, k) \/ (k = -e /\ m.word = "success")
    OBVIOUS
  <2>1. k \in End
    BY EndFacts
  <2>2. CASE v.inq[k] = w.inq[k]
    BY <2>2, SameQueue
  <2>3. CASE k = -e /\ v.inq[k] = Append(w.inq[k], m)
    <3>1. SuccessAt(w, k) \/ m.word = "success"
      BY <2>1, <2>3, AppendSuccess
    <3> QED
      BY <2>3, <3>1
  <2> QED
    BY <1>1, <2>1, <2>2, <2>3
<1>7. Calm(w, v, -e) /\ (m.word # "success" => Calm(w, v, 0))
  BY <1>2, <1>6 DEF Calm, Token
<1> QED
  BY <1>4, <1>5, <1>7 DEF Good, v

\* What does not touch the queues, and adds no connecting end to a table, has
\* only the wiring to show.
LEMMA PrivateKept ==
  ASSUME NEW w, NEW v, NEW cl \in [Client -> ClientState], Private(w, cl),
         v.inq = w.inq, v.err = w.err, w.made <= v.made,
         w.made \in Nat, v.made \in Nat,
         \A n \in Server, k \in Conn : Holding(v, n, k) => Holding(w, n, k) \/ k > w.made
  PROVE  Private(v, cl)
<1> SUFFICES ASSUME NEW c \in Client, cl[c].end # 0
             PROVE  LET k == cl[c].end IN
                    /\ k <= v.made
                    /\ \A a \in Server : ~ Holding(v, a, k)
                    /\ \A j \in 1..Len(v.inq[-k]) :
                         v.inq[-k][j].word \in {"USER_SET_CONFIG", "mount"}
                    /\ v.err[-k] # "reset"
  BY DEF Private
<1> DEFINE k == cl[c].end
<1>1. k \in Conn /\ k \in Nat
  BY DEF ClientState, Conn
<1>2. /\ k <= w.made
      /\ \A a \in Server : ~ Holding(w, a, k)
      /\ \A j \in 1..Len(w.inq[-k]) :
           w.inq[-k][j].word \in {"USER_SET_CONFIG", "mount"}
      /\ w.err[-k] # "reset"
  BY DEF Private
<1> HIDE DEF k
<1>3. k <= v.made /\ \A a \in Server : ~ Holding(v, a, k)
  BY <1>1, <1>2
<1> QED
  BY <1>2, <1>3 DEF k

\* connect() to n by a program that is not a controller.
LEMMA ConnectGood ==
  ASSUME NEW Msg, NEW w \in Kernel(Msg), NEW cl \in [Client -> ClientState],
         Good(w, cl), NEW n \in Server, w.made < MaxConns
  PROVE  LET v == Connect(w, n)
             k == w.made + 1 IN
         /\ Good(v, cl) /\ Calm(w, v, 0)
         /\ \A m \in Server : ~ Holding(v, m, k) /\ ~ Holding(v, m, -k)
         /\ \A m \in Server : Waits(v, m, k) => m = n
         /\ v.inq[k] = <<>> /\ v.inq[-k] = <<>> /\ v.err[-k] # "reset"
<1> DEFINE v == Connect(w, n)
           k == w.made + 1
<1>1. /\ v.fdt = w.fdt /\ v.inq = w.inq /\ v.err = w.err
      /\ v.made = k /\ k \in Conn
      /\ v.backlog = [w.backlog EXCEPT ![n] = Append(@, k)]
  BY ConnectFields
<1>2. w.made \in Nat /\ k = w.made + 1 /\ k \in Nat
  BY KernelFields
<1> HIDE DEF v, k
<1>3. \A m, x : Holding(v, m, x) <=> Holding(w, m, x)
  BY <1>1 DEF Holding
<1>4. \A m \in Server, x \in Conn :
        Waits(v, m, x) => Waits(w, m, x) \/ (m = n /\ x = k)
  <2> SUFFICES ASSUME NEW m \in Server, NEW x \in Conn, Waits(v, m, x),
                      ~ Waits(w, m, x)
               PROVE  m = n /\ x = k
    OBVIOUS
  <2>1. w.backlog \in [Server -> Seq(Conn)]
    BY KernelFields
  <2>2. m = n
    BY <1>1, <2>1 DEF Waits
  <2>3. v.backlog[n] = Append(w.backlog[n], k) /\ w.backlog[n] \in Seq(Conn)
    BY <1>1, <2>1
  <2>4. x = k
    BY <1>1, <2>2, <2>3 DEF Waits
  <2> QED
    BY <2>2, <2>4
<1>5. Untouched(w, k)
  BY <1>1, <1>2 DEF Good, Wired
<1>6. Wired(v)
  <2>1. \A x \in Conn : x > v.made => Untouched(v, x)
    <3> SUFFICES ASSUME NEW x \in Conn, x > k PROVE Untouched(v, x)
      BY <1>1
    <3>1. x \in Nat /\ x > w.made /\ x # k
      BY <1>2 DEF Conn
    <3>2. Untouched(w, x)
      BY <3>1 DEF Good, Wired
    <3> QED
      BY <1>1, <1>3, <1>4, <3>1, <3>2 DEF Untouched
  <2>2. \A x \in Conn : \A a, b \in Server :
          Holding(v, a, x) /\ (Holding(v, b, -x) \/ Waits(v, b, x)) =>
            server_len > 1 /\ b = FirstPeer(a)
    BY <1>3, <1>4, <1>5 DEF Good, Wired, Untouched
  <2> QED
    BY <2>1, <2>2 DEF Wired
<1>7. Private(v, cl)
  BY <1>1, <1>2, <1>3, PrivateKept DEF Good
<1>8. Calm(w, v, 0)
  BY <1>1, <1>3 DEF Calm, Token, SuccessAt
<1> QED
  BY <1>1, <1>3, <1>4, <1>5, <1>6, <1>7, <1>8 DEF Good, Untouched, v, k

\* The sending functions: the connection leads to the first peer.
LEMMA SendGood ==
  ASSUME NEW Msg, NEW w \in Kernel(Msg), NEW cl \in [Client -> ClientState],
         Good(w, cl), NEW n \in Server, w.made < MaxConns,
         NEW m \in Msg, m.word # "success"
  PROVE  Good(SendTo(n, w, m), cl) /\ Calm(w, SendTo(n, w, m), 0)
<1>1. CASE ~ Reaches(n, w)
  BY <1>1, TakeShrinks, ShrinksGood DEF SendTo
<1>2. CASE Reaches(n, w)
  <2> DEFINE k == w.made + 1
             u == Connect(w, FirstPeer(n))
             v == Take(u, n, k)
  <2>1. FirstPeer(n) \in Server /\ server_len > 1
    BY <1>2, FirstPeerServer DEF Reaches
  <2>2. /\ u \in Kernel(Msg) /\ u.fdt = w.fdt /\ u.made = k
        /\ k \in Conn /\ k \in Slot /\ k \in End /\ -k \in End
    BY <2>1, ConnectKernel, ConnectFields, EndFacts
  <2>3. /\ Good(u, cl) /\ Calm(w, u, 0)
        /\ \A a \in Server : ~ Holding(u, a, k) /\ ~ Holding(u, a, -k)
        /\ \A a \in Server : Waits(u, a, k) => a = FirstPeer(n)
        /\ u.inq[k] = <<>>
    BY <2>1, ConnectGood
  <2>4. HasFd(u, n)
    BY <1>2, <2>2 DEF Reaches, HasFd, IsLowestFree
  <2> HIDE DEF u, k
  <2>5. /\ v.inq = u.inq /\ v.err = u.err /\ v.backlog = u.backlog
        /\ v.made = u.made
        /\ \A a \in Server, g \in Fd :
             v.fdt[a][g] = u.fdt[a][g] \/ (a = n /\ v.fdt[a][g] = k)
    BY <2>2, TakeFields
  <2>6. v \in Kernel(Msg) /\ Holding(v, n, k)
    BY <2>2, <2>4, TakeKernel, LowestFdFree DEF Holding
  <2> HIDE DEF v
  <2>7. /\ \A a \in Server : \A x : Holding(v, a, x) => Holding(u, a, x) \/ (a = n /\ x = k)
        /\ \A a, x : Waits(v, a, x) <=> Waits(u, a, x)
    BY <2>5 DEF Holding, Waits
  <2>8. k \in Nat /\ k = u.made
    BY <2>2 DEF Conn
  <2>9. Wired(v)
    <3>1. \A x \in Conn : x > v.made => Untouched(v, x)
      <4> SUFFICES ASSUME NEW x \in Conn, x > k PROVE Untouched(v, x)
        BY <2>5, <2>8
      <4>1. Untouched(u, x) /\ x # k /\ -x # k
        BY <2>3, <2>8 DEF Good, Wired, Conn
      <4> QED
        BY <2>5, <2>7, <4>1 DEF Untouched
    <3>2. ASSUME NEW x \in Conn, NEW a \in Server, NEW b \in Server,
                 Holding(v, a, x), Holding(v, b, -x) \/ Waits(v, b, x)
          PROVE  server_len > 1 /\ b = FirstPeer(a)
      <4>1. -x # k
        BY <2>8 DEF Conn
      <4>2. Holding(u, b, -x) \/ Waits(u, b, x)
        BY <2>7, <3>2, <4>1
      <4>3. CASE x = k
        BY <2>1, <2>3, <2>7, <3>2, <4>2, <4>3
      <4>4. CASE x # k
        BY <2>3, <2>7, <3>2, <4>2, <4>4 DEF Good, Wired
      <4> QED
        BY <4>3, <4>4
    <3> QED
      BY <3>1, <3>2 DEF Wired
  <2>10. Private(v, cl)
    <3>1. Private(w, cl) /\ w.made \in Nat /\ k > w.made
      BY KernelFields DEF Good, k
    <3>2. v.inq = w.inq /\ v.err = w.err
      BY <2>1, <2>5, ConnectFields DEF u
    <3>3. \A a \in Server, x \in Conn : Holding(v, a, x) => Holding(w, a, x) \/ x > w.made
      BY <2>2, <2>7, <3>1 DEF Holding
    <3> QED
      BY <2>5, <2>8, <3>1, <3>2, <3>3, PrivateKept
  <2>11. Calm(u, v, 0)
    <3>1. \A x \in Conn : SuccessAt(v, x) <=> SuccessAt(u, x)
      BY <2>5 DEF SuccessAt
    <3>2. ~ SuccessAt(u, k)
      BY <2>3 DEF SuccessAt
    <3> QED
      BY <2>7, <3>1, <3>2 DEF Calm, Token
  <2>12. /\ Good(Write(v, k, m), cl)
         /\ Calm(v, Write(v, k, m), 0)
    <3>1. Good(v, cl)
      BY <2>9, <2>10 DEF Good
    <3> QED
      BY <2>2, <2>6, <3>1, WriteGood
  <2>13. SendTo(n, w, m) = Write(v, k, m)
    BY <1>2 DEF SendTo, v, u, k
  <2> QED
    BY <2>3, <2>11, <2>12, <2>13, CalmTransitive
<1> QED
  BY <1>1, <1>2

\* accept() takes what waited into the table of the same host.
LEMMA AcceptGood ==
  ASSUME NEW Msg, NEW w \in Kernel(Msg), NEW cl \in [Client -> ClientState],
         Good(w, cl), NEW n \in Server, HasFd(w, n), w.backlog[n] # <<>>
  PROVE  Good(Accept(w, n), cl) /\ Calm(w, Accept(w, n), 0)
<1> DEFINE v == Accept(w, n)
           h == Head(w.backlog[n])
           f == LowestFd(w, n)
<1>1. /\ v.inq = w.inq /\ v.err = w.err /\ v.made = w.made
      /\ f \in Fd /\ v.fdt[n][f] = -h
      /\ \A m \in Server, g \in Fd :
           <<m, g>> # <<n, f>> => v.fdt[m][g] = w.fdt[m][g]
      /\ v.backlog = [w.backlog EXCEPT ![n] = Tail(@)]
  BY AcceptFields
<1>2. w.backlog \in [Server -> Seq(Conn)] /\ w.made \in Nat
  BY KernelFields
<1>3. h \in Conn /\ Waits(w, n, h)
  <2>1. w.backlog[n] \in Seq(Conn)
    BY <1>2
  <2> QED
    BY <2>1 DEF Waits
<1> HIDE DEF v, h, f
<1>4. \A m \in Server : \A x : Waits(v, m, x) => Waits(w, m, x)
  <2> SUFFICES ASSUME NEW m \in Server, NEW x, Waits(v, m, x)
               PROVE  Waits(w, m, x)
    OBVIOUS
  <2>1. CASE m = n
    <3>1. v.backlog[m] = Tail(w.backlog[m]) /\ w.backlog[m] \in Seq(Conn)
      BY <1>1, <1>2, <2>1
    <3>2. w.backlog[m] # <<>>
      BY <2>1
    <3> QED
      BY <3>1, <3>2 DEF Waits
  <2>2. CASE m # n
    BY <1>1, <1>2, <2>2 DEF Waits
  <2> QED
    BY <2>1, <2>2
<1>5. \A m \in Server : \A x : Holding(v, m, x) => Holding(w, m, x) \/ (m = n /\ x = -h)
  BY <1>1 DEF Holding
<1>6. \A x \in Conn : x # -h /\ (-x = -h => x = h)
  BY <1>3 DEF Conn
<1>7. Wired(v)
  <2>1. \A x \in Conn : x > v.made => Untouched(v, x)
    <3> SUFFICES ASSUME NEW x \in Conn, x > w.made PROVE Untouched(v, x)
      BY <1>1
    <3>1. Untouched(w, x)
      BY DEF Good, Wired
    <3>2. x # h
      BY <1>3, <3>1 DEF Untouched
    <3> QED
      BY <1>1, <1>4, <1>5, <1>6, <3>1, <3>2 DEF Untouched
  <2>2. ASSUME NEW x \in Conn, NEW a \in Server, NEW b \in Server,
               Holding(v, a, x), Holding(v, b, -x) \/ Waits(v, b, x)
        PROVE  server_len > 1 /\ b = FirstPeer(a)
    <3>1. Holding(w, a, x)
      BY <1>5, <1>6, <2>2
    <3>2. Holding(w, b, -x) \/ Waits(w, b, x)
      BY <1>3, <1>4, <1>5, <1>6, <2>2
    <3> QED
      BY <3>1, <3>2 DEF Good, Wired
  <2> QED
    BY <2>1, <2>2 DEF Wired
<1>8. Private(v, cl)
  BY <1>1, <1>2, <1>5, <1>6, PrivateKept DEF Good
<1>9. Calm(w, v, 0)
  BY <1>1, <1>5, <1>6 DEF Calm, Token, SuccessAt
<1> QED
  BY <1>7, <1>8, <1>9 DEF Good, v

-----------------------------------------------------------------------------
(* The calls of one handler, starting from net.                            *)

Safe(n, w) == KernelOf(n, w, Message) /\ Good(w, client) /\ Calm(net, w, 0)

LEMMA NetSafe == ASSUME SInv, NEW n \in Server PROVE Safe(n, net)
<1>1. Facts \subseteq Message /\ net \in Kernel(Facts)
  BY DEF Facts, SInv, IInv
<1>2. net \in Kernel(Message)
  BY <1>1, KernelMonotone
<1> QED
  BY <1>2 DEF Safe, KernelOf, Good, SInv, Calm

LEMMA ShrinksSafe ==
  ASSUME SInv, NEW n \in Server, NEW w, NEW v, Safe(n, w),
         Shrinks(w, v), KernelOf(n, v, Message)
  PROVE  Safe(n, v)
<1>1. client \in [Client -> ClientState]
  BY DEF SInv, IInv
<1>2. Good(v, client) /\ Calm(w, v, 0)
  BY <1>1, ShrinksGood DEF Safe
<1> QED
  BY <1>2, CalmTransitive DEF Safe

LEMMA DrainSafe ==
  ASSUME SInv, NEW n \in Server, NEW w, Safe(n, w), NEW e \in End
  PROVE  /\ Safe(n, Drain(w, e))
         /\ Drain(w, e).fdt = w.fdt /\ Drain(w, e).made = w.made
<1>1. Shrinks(w, Drain(w, e))
  BY DrainShrinks DEF Safe, KernelOf
<1>2. /\ KernelOf(n, Drain(w, e), Message)
      /\ Drain(w, e).fdt = w.fdt /\ Drain(w, e).made = w.made
  BY DrainKernel DEF Safe, KernelOf
<1> QED
  BY <1>1, <1>2, ShrinksSafe

LEMMA TakeSafe ==
  ASSUME SInv, NEW n \in Server, NEW w, Safe(n, w),
         NEW s \in {File, Unconnected}
  PROVE  /\ Safe(n, Take(w, n, s))
         /\ \A f \in Fd : w.fdt[n][f] # Free =>
              Take(w, n, s).fdt[n][f] = w.fdt[n][f]
<1>1. Shrinks(w, Take(w, n, s))
  BY TakeShrinks DEF Safe, KernelOf
<1>2. /\ KernelOf(n, Take(w, n, s), Message)
      /\ \A f \in Fd : w.fdt[n][f] # Free =>
           Take(w, n, s).fdt[n][f] = w.fdt[n][f]
  BY TakeOf, EndFacts DEF Safe
<1> QED
  BY <1>1, <1>2, ShrinksSafe

LEMMA InheritSafe ==
  ASSUME SInv, NEW n \in Server, NEW w, Safe(n, w)
  PROVE  Safe(n, Inherit(w, n))
<1>1. Shrinks(w, Inherit(w, n))
  BY InheritShrinks DEF Safe, KernelOf
<1>2. KernelOf(n, Inherit(w, n), Message)
  BY InheritKernel DEF Safe, KernelOf
<1> QED
  BY <1>1, <1>2, ShrinksSafe

LEMMA CloseSafe ==
  ASSUME SInv, NEW n \in Server, NEW w, Safe(n, w), NEW f \in Fd
  PROVE  Safe(n, Close(w, n, f))
<1>1. Shrinks(w, Close(w, n, f))
  BY CloseShrinks DEF Safe, KernelOf
<1>2. KernelOf(n, Close(w, n, f), Message)
  BY CloseKernel DEF Safe, KernelOf
<1> QED
  BY <1>1, <1>2, ShrinksSafe

LEMMA ExitSafe ==
  ASSUME SInv, NEW n \in Server, NEW w, Safe(n, w)
  PROVE  Safe(n, Exit(w, n))
<1>1. Shrinks(w, Exit(w, n))
  BY ExitShrinks DEF Safe, KernelOf
<1>2. KernelOf(n, Exit(w, n), Message)
  BY ExitKernel DEF Safe, KernelOf
<1> QED
  BY <1>1, <1>2, ShrinksSafe

LEMMA AcceptSafe ==
  ASSUME SInv, NEW n \in Server, NEW w, Safe(n, w),
         HasFd(w, n), w.backlog[n] # <<>>
  PROVE  Safe(n, Accept(w, n))
<1>1. client \in [Client -> ClientState]
  BY DEF SInv, IInv
<1>2. Good(Accept(w, n), client) /\ Calm(w, Accept(w, n), 0)
  BY <1>1, AcceptGood DEF Safe, KernelOf
<1>3. KernelOf(n, Accept(w, n), Message)
  BY AcceptKernel DEF Safe, KernelOf
<1> QED
  BY <1>2, <1>3, CalmTransitive DEF Safe

LEMMA SendSafe ==
  ASSUME SInv, NEW n \in Server, NEW w, Safe(n, w), w.made < MaxConns,
         NEW m \in Message, m.word # "success"
  PROVE  Safe(n, SendTo(n, w, m))
<1>1. client \in [Client -> ClientState]
  BY DEF SInv, IInv
<1>2. Good(SendTo(n, w, m), client) /\ Calm(w, SendTo(n, w, m), 0)
  BY <1>1, SendGood DEF Safe, KernelOf
<1>3. KernelOf(n, SendTo(n, w, m), Message)
  BY SendToOf DEF Safe
<1> QED
  BY <1>2, <1>3, CalmTransitive DEF Safe

LEMMA WriteSafe ==
  ASSUME SInv, NEW n \in Server, NEW w, Safe(n, w), NEW e \in End,
         Holding(w, n, e), NEW m \in Message, m.word # "success"
  PROVE  Safe(n, Write(w, e, m)) /\ Write(w, e, m).fdt = w.fdt
<1>1. client \in [Client -> ClientState]
  BY DEF SInv, IInv
<1>2. Good(Write(w, e, m), client) /\ Calm(w, Write(w, e, m), 0)
  BY <1>1, WriteGood DEF Safe, KernelOf
<1>3. KernelOf(n, Write(w, e, m), Message) /\ Write(w, e, m).fdt = w.fdt
  BY WriteKernel DEF Safe, KernelOf
<1> QED
  BY <1>2, <1>3, CalmTransitive DEF Safe

-----------------------------------------------------------------------------
(* One step of one controller.                                             *)

LEMMA FirstPeerOther ==
  ASSUME NEW n \in Server, server_len > 1
  PROVE  FirstPeer(n) \in Server /\ FirstPeer(n) # n
<1>1. server_config[1] # server_config[2]
  BY ServerAssumption DEF server_len
<1> QED
  BY <1>1, FirstPeerServer DEF FirstPeer

\* Modules stay loaded and exports attached; vrd joins the modules only when
\* the disk is whole.
HostGrows(n) ==
  /\ \A m \in Server : host[m].bestio => host'[m].bestio
  /\ \A m \in Server \ {n} : host'[m] = host[m]
  /\ host[n].nbd_server => host'[n].nbd_server
  /\ host[n].attached \subseteq host'[n].attached
  /\ host'[n].attached \subseteq host[n].attached \cup (Server \ {n})
  /\ host[n].vrd => host'[n].vrd
  /\ host'[n].vrd => host[n].vrd \/ /\ proc[n].pc = "module" /\ server_len <= 2
                                    /\ \A m \in Server : host[m].bestio

\* In a step of n a "success" goes to the end x, if anywhere, the other end of
\* which n holds; n counts none.
Sends(n, x) ==
  /\ Calm(net, net', x)
  /\ x \in Conn => Holding(net, n, -x)
  /\ \A m \in Server, f \in Fd : m # n => net'.fdt[m][f] = net.fdt[m][f]
  /\ \A m \in Server \ {n} : proc'[m] = proc[m]
  /\ proc'[n].count \in {0, proc[n].count}

\* The process did not read a "success" in this step.
Milder(p, q) ==
  /\ q.count \in {0, p.count}
  /\ q.reply = "success" => p.reply = "success"

LEMMA DoneForEver ==
  ASSUME NEW n \in Server, HostGrows(n), Done
  PROVE  Done'
BY DEF HostGrows, Done

LEMMA ServerLen == server_len \in Nat /\ server_len >= 1
BY ServerAssumption DEF server_len

\* What n itself expects after a step in which it read no "success".
LEMMA ExpectsKept ==
  ASSUME SInv, NEW n \in Server, NEW x, Calm(net, net', x),
         x \in Conn => ~ Holding(net, n, x),
         Milder(proc[n], proc'[n]), HostGrows(n),
         \A m \in Server \ {n} : proc'[m] = proc[m]
  PROVE  ExpectsTrue(n)'
<1> DEFINE p == proc[n]
           q == proc'[n]
<1>1. /\ p.count \in Nat /\ ExpectsTrue(n)
  BY DEF SInv, IInv, Process
<1>2. \A k \in Conn : Token(net', n, k) => Token(net, n, k)
  BY DEF Calm
<1>3. /\ q.count = 0 \/ q.count = p.count
      /\ q.reply = "success" => p.reply = "success"
  BY DEF Milder
<1>4. Expects(n, net', q) => Expects(n, net, p)
  BY <1>1, <1>2, <1>3 DEF Expects
<1>5. OneToken(n, net, p) => OneToken(n, net', q)
  BY <1>1, <1>2, <1>3 DEF OneToken
<1>6. server_len > 1 => /\ FirstPeer(n) \in Server
                        /\ proc'[FirstPeer(n)] = proc[FirstPeer(n)]
  BY FirstPeerOther
<1> HIDE DEF p, q
<1>7. server_len > 1 /\ Expects(n, net', q) => host'[FirstPeer(n)].bestio
  BY <1>1, <1>4, <1>6 DEF ExpectsTrue, HostGrows, p
<1>8. server_len > 2 =>
        /\ OneToken(n, net', q)
        /\ Expects(n, net', q) => proc'[FirstPeer(n)].pc \notin Configures
  <2> SUFFICES ASSUME server_len > 2
               PROVE  /\ OneToken(n, net', q)
                      /\ Expects(n, net', q) => proc'[FirstPeer(n)].pc \notin Configures
    OBVIOUS
  <2>1. server_len > 1
    BY ServerLen
  <2>2. /\ OneToken(n, net, p)
        /\ Expects(n, net, p) => proc[FirstPeer(n)].pc \notin Configures
    BY <1>1 DEF ExpectsTrue, p
  <2> QED
    BY <1>4, <1>5, <1>6, <2>1, <2>2
<1> QED
  BY <1>7, <1>8 DEF ExpectsTrue, q

\* The step preserves the invariant when it keeps what concerns n, and a
\* "success" that it writes, to the end -x of a connection, is true.
LEMMA ControllerPreserves ==
  ASSUME SInv, IInv', NEW n \in Server, NEW x,
         Good(net', client), Calm(net, net', x),
         \A m \in Server, f \in Fd : m # n => net'.fdt[m][f] = net.fdt[m][f],
         UNCHANGED client, \A m \in Server \ {n} : proc'[m] = proc[m],
         HostGrows(n),
         Counted(n, proc'[n], host'),
         Configuring(n, net', proc'[n], host', client),
         ExpectsTrue(n)',
         proc'[n].pc \in Configures => proc[n].pc \in Configures \/ ~ host[n].bestio,
         x \in Conn =>
           /\ Holding(net, n, -x)
           /\ server_len > 1 => host'[n].bestio
           /\ server_len > 2 => proc[n].pc \in Configures /\ proc'[n].pc \notin Configures
           /\ server_len > 1 => \A c \in Client : client[c].end = x => Done'
  PROVE  SInv'
<1>1. Wired(net') /\ Private(net', client') /\ Wired(net)
  BY DEF Good, SInv, Private
<1>2. ASSUME NEW m \in Server \ {n}
      PROVE  /\ Counted(m, proc'[m], host')
             /\ Configuring(m, net', proc'[m], host', client)
             /\ ExpectsTrue(m)'
  <2>1. Counted(m, proc'[m], host')
    BY <1>2 DEF SInv, Counted, HostGrows
  <2>2. Configuring(m, net', proc'[m], host', client)
    BY <1>2 DEF SInv, Configuring, HostGrows
  <2> DEFINE p == proc[m]
             F == FirstPeer(m)
             new == x \in Conn /\ Token(net', m, x) /\ Holding(net, m, x)
  <2>3. ExpectsTrue(m) /\ p.count \in Nat /\ proc'[m] = p
    BY <1>2 DEF SInv, IInv, Process
  <2>4. new => /\ server_len > 1 /\ n = F
    BY <1>1, <1>2 DEF Wired
  <2>5. \A k \in Conn : Token(net', m, k) => Token(net, m, k) \/ (new /\ k = x)
    BY DEF Calm
  <2>6. Expects(m, net', p) => Expects(m, net, p) \/ new
    BY <2>5 DEF Expects
  <2> HIDE DEF p, F, new
  <2>7. server_len > 1 => F \in Server
    BY <1>2, FirstPeerOther DEF F
  <2>8. server_len > 1 /\ Expects(m, net', p) => host'[F].bestio
    <3> SUFFICES ASSUME server_len > 1, Expects(m, net', p)
                 PROVE  host'[F].bestio
      OBVIOUS
    <3>1. CASE Expects(m, net, p)
      BY <2>3, <2>7, <3>1 DEF ExpectsTrue, HostGrows, p, F
    <3>2. CASE new
      BY <2>4, <3>2 DEF new
    <3> QED
      BY <2>6, <3>1, <3>2
  <2>9. ASSUME server_len > 2
        PROVE  /\ OneToken(m, net', p)
               /\ Expects(m, net', p) => proc'[F].pc \notin Configures
    <3>0. server_len > 1
      BY <2>9, ServerAssumption DEF server_len
    <3>1. /\ OneToken(m, net, p)
          /\ Expects(m, net, p) => proc[F].pc \notin Configures /\ host[F].bestio
      BY <2>3, <2>9, <3>0 DEF ExpectsTrue, p, F
    <3>2. new => ~ Expects(m, net, p)
      BY <2>4, <2>9, <3>1 DEF new
    <3>3. OneToken(m, net', p)
      <4>1. CASE new
        BY <2>3, <2>5, <3>1, <3>2, <4>1 DEF OneToken, Expects
      <4>2. CASE ~ new
        BY <2>5, <3>1, <4>2 DEF OneToken
      <4> QED
        BY <4>1, <4>2
    <3>4. Expects(m, net', p) => proc'[F].pc \notin Configures
      <4>1. CASE new
        BY <2>4, <2>9, <4>1 DEF new
      <4>2. CASE Expects(m, net, p)
        BY <2>7, <3>0, <3>1, <4>2
      <4> QED
        BY <2>6, <4>1, <4>2
    <3> QED
      BY <3>3, <3>4
  <2> QED
    BY <2>1, <2>2, <2>3, <2>8, <2>9 DEF ExpectsTrue, F
<1>3. ClientsTrue'
  <2> SUFFICES ASSUME server_len > 1, NEW c \in Client
               PROVE  /\ client[c].end # 0 /\ SuccessAt(net', client[c].end)
                           => Done'
                      /\ client[c].st = "told" => Done'
    BY DEF ClientsTrue
  <2>1. /\ client[c].end # 0 /\ SuccessAt(net, client[c].end) => Done
        /\ client[c].st = "told" => Done
    BY DEF SInv, ClientsTrue
  <2>2. client[c].end \in {0} \cup Conn
    BY DEF SInv, IInv, ClientState
  <2> QED
    BY <2>1, <2>2, DoneForEver DEF Calm
<1>4. DiskIsWhole' /\ OnlyTwoServersAssemble'
  <2>1. DiskIsWhole'
    BY DEF SInv, DiskIsWhole, HostGrows
  <2>2. OnlyTwoServersAssemble'
    <3> SUFFICES ASSUME server_len > 2, NEW m \in Server, host'[m].vrd
                 PROVE  FALSE
      BY DEF OnlyTwoServersAssemble
    <3>1. ~ (server_len <= 2)
      BY ServerAssumption DEF server_len
    <3>2. \A a \in Server : ~ host[a].vrd
      BY DEF SInv, OnlyTwoServersAssemble
    <3> QED
      BY <3>1, <3>2 DEF HostGrows
  <2> QED
    BY <2>1, <2>2
<1>5. Asked'
  BY DEF SInv, Asked
<1> QED
  BY <1>1, <1>2, <1>3, <1>4, <1>5 DEF SInv

\* A step without a "success", neither read nor written.
LEMMA QuietStep ==
  ASSUME SInv, IInv', NEW n \in Server, Safe(n, net'), UNCHANGED client,
         \A m \in Server \ {n} : proc'[m] = proc[m],
         HostGrows(n), Counted(n, proc'[n], host'),
         Configuring(n, net', proc'[n], host', client),
         Milder(proc[n], proc'[n]),
         proc'[n].pc \in Configures => proc[n].pc \in Configures \/ ~ host[n].bestio
  PROVE  SInv' /\ Sends(n, 0)
<1>1. ExpectsTrue(n)'
  BY ExpectsKept DEF Safe, Conn
<1>2. 0 \notin Conn
  BY DEF Conn
<1>3. Sends(n, 0)
  BY <1>2 DEF Sends, Safe, KernelOf, Milder
<1> QED
  BY <1>1, <1>2, <1>3, ControllerPreserves DEF Safe, KernelOf

LEMMA BecomeQuiet ==
  ASSUME SInv, IInv', NEW n \in Server, NEW w, Safe(n, w), UNCHANGED client,
         NEW p, Become(n, w, p), HostGrows(n), Counted(n, p, host'),
         p.pc \notin Configures, Milder(proc[n], p)
  PROVE  SInv' /\ Sends(n, 0)
<1>1. /\ net' = w /\ proc'[n] = p
      /\ \A m \in Server \ {n} : proc'[m] = proc[m]
  BY DEF Become, SInv, IInv
<1>2. Configuring(n, net', proc'[n], host', client)
  BY <1>1 DEF Configuring
<1> QED
  BY <1>1, <1>2, QuietStep

LEMMA DieQuiet ==
  ASSUME SInv, IInv', NEW n \in Server, NEW w, Safe(n, w), UNCHANGED client,
         Die(n, w), HostGrows(n)
  PROVE  SInv' /\ Sends(n, 0)
<1> DEFINE p == [Started EXCEPT !.pc = "down"]
<1>1. Safe(n, Exit(w, n))
  BY ExitSafe
<1>2. Become(n, Exit(w, n), p)
  BY DEF Die, Become
<1>3. /\ p.pc = "down" /\ p.count = 0 /\ p.nbd_count = 0
      /\ p.reply = "eof"
  BY DEF Started
<1>4. Counted(n, p, host') /\ Milder(proc[n], p)
  BY <1>3, ServerLen DEF Counted, Milder, Reading
<1> HIDE DEF p
<1> QED
  BY <1>1, <1>2, <1>3, <1>4, BecomeQuiet DEF Configures

LEMMA ReplyQuiet ==
  ASSUME SInv, IInv', NEW n \in Server, NEW w, Safe(n, w), UNCHANGED client,
         NEW e \in End, Holding(w, n, e), NEW m \in Message, m.word # "success",
         NEW p, Reply(n, w, e, m, p), HostGrows(n), Counted(n, p, host'),
         p.pc \notin Configures, Milder(proc[n], p)
  PROVE  SInv' /\ Sends(n, 0)
<1>1. CASE Sigpipe(w, e)
  BY <1>1, DieQuiet DEF Reply
<1>2. CASE ~ Sigpipe(w, e)
  <2>1. Safe(n, Write(w, e, m))
    BY WriteSafe
  <2> QED
    BY <1>2, <2>1, BecomeQuiet DEF Reply
<1> QED
  BY <1>1, <1>2

\* Another record for the host of n.
LEMMA HostRecord ==
  ASSUME SInv, NEW n \in Server, NEW h,
         host[n].bestio => h.bestio, h.vrd = host[n].vrd,
         host[n].nbd_server => h.nbd_server,
         host[n].attached \subseteq h.attached,
         h.attached \subseteq host[n].attached \cup (Server \ {n}),
         host' = [host EXCEPT ![n] = h]
  PROVE  HostGrows(n)
<1>1. host' = [m \in Server |-> IF m = n THEN h ELSE host[m]]
  BY DEF SInv, IInv
<1> QED
  BY <1>1 DEF HostGrows

LEMMA HostSame == ASSUME NEW n \in Server, UNCHANGED host PROVE HostGrows(n)
BY DEF HostGrows

\* Between two rounds, and until the answer of a round is counted.
Resting(p) ==
  /\ p.nbd_count = 0 /\ p.count <= 1
  /\ server_len <= 2 => p.count = 0

LEMMA RestingFacts ==
  ASSUME SInv, NEW n \in Server,
         proc[n].pc \notin {"assemble", "module", "read_nbd", "report"}
  PROVE  Resting(proc[n]) /\ proc[n] \in Process
<1>1. proc[n] \in Process
  BY DEF SInv, IInv
<1>2. Counted(n, proc[n], host)
  BY DEF SInv
<1>3. CASE server_len <= 2
  BY <1>1, <1>2, <1>3 DEF Counted, Resting
<1>4. CASE server_len > 2
  <2>1. ~ host[n].vrd /\ ExpectsTrue(n)
    BY <1>4 DEF SInv, OnlyTwoServersAssemble
  <2>2. proc[n].count <= 1
    BY <1>4, <2>1 DEF ExpectsTrue, OneToken
  <2>3. proc[n].nbd_count = 0
    BY <1>1, <1>2, <2>1 DEF Counted, Process
  <2> QED
    BY <1>1, <1>4, <2>2, <2>3, ServerLen DEF Resting
<1> QED
  BY <1>3, <1>4, ServerLen

LEMMA FinishCounted ==
  ASSUME NEW n, NEW h, NEW p \in Process, p.nbd_count = 0, p.count <= 1,
         server_len = 1 => p.count = 0
  PROVE  /\ Counted(n, Finish(p), h)
         /\ Finish(p).pc \notin Configures
         /\ Finish(p).count = p.count /\ Finish(p).reply = p.reply
<1> DEFINE q == Finish(p)
<1>1. /\ q.count = p.count /\ q.nbd_count = p.nbd_count /\ q.reply = p.reply
      /\ q.pc = IF p.count = server_len - 1 THEN "assemble"
                ELSE IF p.nbd_count = server_len - 1 \/ p.unsuccess_flag = 1
                THEN "report" ELSE "loop"
  BY DEF Finish, Process
<1> HIDE DEF q
<1>2. p.count \in Nat
  BY DEF Process
<1>3. Counted(n, q, h)
  <2>1. q.pc \in {"assemble", "report", "loop"} /\ q.pc \notin Reading
    BY <1>1 DEF Reading
  <2>2. q.pc = "assemble" <=> p.count = server_len - 1
    BY <1>1
  <2>3. server_len <= 2 => p.count = 0 \/ p.count = server_len - 1
    BY <1>2, ServerLen
  <2>4. server_len <= 2 => p.count <= server_len - 1 /\ 0 <= server_len - 1
    BY <1>2, ServerLen
  <2>5. p.count = server_len - 1 => server_len <= 2
    BY <1>2, ServerLen
  <2> QED
    BY <1>1, <1>2, <2>1, <2>2, <2>3, <2>4, <2>5, ServerLen DEF Counted
<1>4. q.pc \notin Configures
  BY <1>1 DEF Configures
<1> QED
  BY <1>1, <1>3, <1>4 DEF q

LEMMA FinishAssemblyCounted ==
  ASSUME NEW n, NEW h, NEW p \in Process, server_len <= 2,
         p.nbd_count <= server_len - 1, p.nbd_count > 0 => h[n].vrd
  PROVE  /\ Counted(n, FinishAssembly(p), h)
         /\ FinishAssembly(p).pc \notin Configures
         /\ FinishAssembly(p).count = 0 /\ FinishAssembly(p).reply = p.reply
<1> DEFINE q == FinishAssembly(p)
<1>1. /\ q.count = 0 /\ q.nbd_count = p.nbd_count /\ q.reply = p.reply
      /\ q.pc = IF p.nbd_count = server_len - 1 \/ p.unsuccess_flag = 1
                THEN "report" ELSE "loop"
  BY DEF FinishAssembly, Process
<1> HIDE DEF q
<1>2. p.nbd_count \in Nat
  BY DEF Process
<1>3. p.nbd_count = 0 \/ q.pc = "report"
  BY <1>1, <1>2, ServerLen
<1>4. q.pc \in {"report", "loop"} /\ q.pc \notin Reading
  BY <1>1 DEF Reading
<1>5. Counted(n, q, h)
  BY <1>1, <1>2, <1>3, <1>4, ServerLen DEF Counted
<1> QED
  BY <1>1, <1>4, <1>5 DEF q, Configures

LEMMA RestingCounted ==
  ASSUME NEW n, NEW h, NEW p, Resting(p),
         p.pc \notin {"assemble", "module", "read_nbd"},
         p.pc \in Reading => server_len > 1
  PROVE  Counted(n, p, h)
BY ServerLen DEF Resting, Counted

\* What a handler starts from.
LEMMA ReceiveSafe ==
  ASSUME SInv, NEW n \in Server, NEW f \in Fd, NEW words,
         Receives(n, f, words)
  PROVE  LET e == net.fdt[n][f]
             w == AfterRead(n, f)
             p == WithBuffer(n, f) IN
         /\ e \in End /\ Incoming(n, f) \in Message
         /\ Safe(n, w) /\ Holding(w, n, e) /\ w.fdt = net.fdt /\ w.made = net.made
         /\ p \in Process /\ p.pc = "loop" /\ p.i = f
         /\ Resting(p) /\ Milder(proc[n], p)
         /\ p.count = proc[n].count /\ p.reply = proc[n].reply
         /\ p.nbd_count = proc[n].nbd_count
<1> DEFINE e == net.fdt[n][f]
           w == AfterRead(n, f)
           p == WithBuffer(n, f)
<1>1. net \in Kernel(Facts) /\ IInv /\ Facts \subseteq Message
  BY DEF SInv, IInv, Facts
<1>2. e \in End
  <2>1. net.fdt \in [Server -> [Fd -> Slot]]
    BY <1>1, KernelFields
  <2>2. e \in Slot /\ e < 0
    BY <2>1 DEF Receives, Watched
  <2> QED
    BY <2>2, BoundsAssumption DEF Slot, Free, File, Unconnected
<1>3. Incoming(n, f) \in Message /\ MemoryOf(p, Facts)
  BY <1>1, ReceiveFacts
<1>4. Safe(n, w) /\ w.fdt = net.fdt /\ w.made = net.made
  BY <1>2, NetSafe, DrainSafe DEF AfterRead
<1>5. Holding(w, n, e)
  BY <1>4 DEF Holding
<1>6. Resting(proc[n]) /\ proc[n] \in Process /\ proc[n].pc = "loop"
  BY RestingFacts DEF Receives, Watched
<1>7. /\ p.pc = "loop" /\ p.i = f /\ p.count = proc[n].count
      /\ p.reply = proc[n].reply /\ p.nbd_count = proc[n].nbd_count
  BY <1>6 DEF WithBuffer, Process
<1>8. Resting(p) /\ Milder(proc[n], p)
  BY <1>6, <1>7 DEF Resting, Milder
<1> QED
  BY <1>2, <1>3, <1>4, <1>5, <1>7, <1>8 DEF MemoryOf

LEMMA AcceptClientSetup ==
  ASSUME SInv, IInv', NEW n \in Server, AcceptClient(n)
  PROVE  SInv' /\ Sends(n, 0)
<1>1. /\ Safe(n, net) /\ proc[n] \in Process /\ Resting(proc[n])
      /\ proc[n].pc = "loop"
  BY NetSafe, RestingFacts DEF AcceptClient
<1>2. ASSUME NEW s
      PROVE  LET p == [proc[n] EXCEPT !.client_sock = s] IN
             Counted(n, p, host') /\ p.pc = "loop" /\ Milder(proc[n], p)
  <2> DEFINE p == [proc[n] EXCEPT !.client_sock = s]
  <2>1. /\ p.pc = "loop" /\ p.count = proc[n].count /\ p.reply = proc[n].reply
        /\ p.nbd_count = proc[n].nbd_count
    BY <1>1 DEF Process
  <2> HIDE DEF p
  <2>2. Counted(n, p, host')
    BY <1>1, <2>1, RestingCounted DEF Resting, Reading
  <2> QED
    BY <2>1, <2>2 DEF p, Milder
<1>3. CASE HasFd(net, n)
  <2>1. Safe(n, Accept(net, n))
    BY <1>1, <1>3, AcceptSafe DEF AcceptClient
  <2> QED
    BY <1>2, <1>3, <2>1, BecomeQuiet, HostSame DEF AcceptClient, Configures
<1>4. CASE ~ HasFd(net, n)
  BY <1>1, <1>2, <1>4, BecomeQuiet, HostSame DEF AcceptClient, Configures
<1> QED
  BY <1>3, <1>4

LEMMA ReadEofSetup ==
  ASSUME SInv, IInv', NEW n \in Server, NEW f \in Fd, ReadEof(n, f)
  PROVE  SInv' /\ Sends(n, 0)
<1> DEFINE p == [proc[n] EXCEPT !.buffer = Empty]
<1>1. /\ Safe(n, Close(net, n, f)) /\ proc[n] \in Process
      /\ Resting(proc[n]) /\ proc[n].pc = "loop"
  BY NetSafe, CloseSafe, RestingFacts DEF ReadEof, Watched
<1>2. /\ p.pc = "loop" /\ p.count = proc[n].count /\ p.reply = proc[n].reply
      /\ p.nbd_count = proc[n].nbd_count
  BY <1>1 DEF Process
<1>3. Become(n, Close(net, n, f), p)
  BY DEF ReadEof
<1> HIDE DEF p
<1>4. Counted(n, p, host')
  BY <1>1, <1>2, RestingCounted DEF Resting, Reading
<1> QED
  BY <1>1, <1>2, <1>3, <1>4, BecomeQuiet, HostSame DEF ReadEof, Milder, Configures

\* The end of a handler that does not block.
LEMMA FinishQuiet ==
  ASSUME SInv, NEW n \in Server, NEW p \in Process, Resting(p),
         p.count = proc[n].count, p.reply = proc[n].reply, NEW h
  PROVE  /\ Counted(n, Finish(p), h) /\ Finish(p).pc \notin Configures
         /\ Milder(proc[n], Finish(p))
<1>1. p.nbd_count = 0 /\ p.count <= 1 /\ (server_len = 1 => p.count = 0)
  BY ServerLen DEF Resting
<1> QED
  BY <1>1, FinishCounted DEF Milder

LEMMA SayMessage ==
  ASSUME NEW word \in Word \ {"config", "MOUNT_SET_ON"}
  PROVE  Say(word) \in Message /\ Say(word).word = word
BY DEF Say, Message

LEMMA ControllerSetConfigSetup ==
  ASSUME SInv, IInv', NEW n \in Server, NEW f \in Fd, ControllerSetConfig(n, f)
  PROVE  SInv' /\ Sends(n, 0)
<1> DEFINE w == AfterRead(n, f)
           e == net.fdt[n][f]
           p == WithBuffer(n, f)
           m == Say("CONTROL_SET_ON")
<1>1. /\ Safe(n, w) /\ e \in End /\ Holding(w, n, e) /\ p \in Process
      /\ Resting(p) /\ p.count = proc[n].count /\ p.reply = proc[n].reply
  BY ReceiveSafe DEF ControllerSetConfig
<1>2. m \in Message /\ m.word # "success"
  BY SayMessage DEF Word
<1>3. Reply(n, w, e, m, Finish(p)) /\ UNCHANGED <<host, client>>
  BY DEF ControllerSetConfig
<1> HIDE DEF w, e, p, m
<1> QED
  BY <1>1, <1>2, <1>3, FinishQuiet, ReplyQuiet, HostSame

LEMMA NbdSetOnSetup ==
  ASSUME SInv, IInv', NEW n \in Server, NEW f \in Fd, NbdSetOn(n, f)
  PROVE  SInv' /\ Sends(n, 0)
<1> DEFINE w == AfterRead(n, f)
           e == net.fdt[n][f]
           p == WithBuffer(n, f)
           m == Say("NBD_CLIENT_LOAD")
<1>1. /\ Safe(n, w) /\ e \in End /\ Holding(w, n, e) /\ p \in Process
      /\ Resting(p) /\ p.count = proc[n].count /\ p.reply = proc[n].reply
  BY ReceiveSafe DEF NbdSetOn
<1>2. m \in Message /\ m.word # "success"
  BY SayMessage DEF Word
<1>3. /\ Reply(n, w, e, m, Finish(p)) \/ Die(n, w)
      /\ UNCHANGED <<host, client>>
  BY DEF NbdSetOn
<1> HIDE DEF w, e, p, m
<1> QED
  BY <1>1, <1>2, <1>3, FinishQuiet, ReplyQuiet, DieQuiet, HostSame

LEMMA MountSetOnSetup ==
  ASSUME SInv, IInv', NEW n \in Server, NEW f \in Fd, MountSetOn(n, f)
  PROVE  SInv' /\ HostGrows(n) /\ Sends(n, 0)
<1> DEFINE w == AfterRead(n, f)
           p == WithBuffer(n, f)
<1>1. /\ Safe(n, w) /\ p \in Process
      /\ Resting(p) /\ p.count = proc[n].count /\ p.reply = proc[n].reply
  BY ReceiveSafe DEF MountSetOn
<1>2. HostGrows(n)
  <2> DEFINE h == [host[n] EXCEPT !.mount_file = Incoming(n, f).arg]
  <2>1. /\ h.bestio = host[n].bestio /\ h.vrd = host[n].vrd
        /\ h.nbd_server = host[n].nbd_server /\ h.attached = host[n].attached
    BY DEF SInv, IInv, Host
  <2>2. UNCHANGED host \/ host' = [host EXCEPT ![n] = h]
    BY DEF MountSetOn
  <2> HIDE DEF h
  <2> QED
    BY <2>1, <2>2, HostRecord, HostSame
<1>3. Become(n, w, Finish(p)) \/ Die(n, w)
  BY DEF MountSetOn
<1>4. UNCHANGED client
  BY DEF MountSetOn
<1> HIDE DEF w, p
<1> QED
  BY <1>1, <1>2, <1>3, <1>4, FinishQuiet, BecomeQuiet, DieQuiet

LEMMA MountSetup ==
  ASSUME SInv, IInv', NEW n \in Server, NEW f \in Fd, Mount(n, f)
  PROVE  SInv' /\ HostGrows(n) /\ Sends(n, 0)
<1> DEFINE w == AfterRead(n, f)
           p == WithBuffer(n, f)
           m == [word |-> "MOUNT_SET_ON", arg |-> n]
<1>1. /\ Safe(n, w) /\ p \in Process /\ w.made < MaxConns /\ p.pc = "loop"
      /\ Resting(p) /\ p.count = proc[n].count /\ p.reply = proc[n].reply
      /\ Milder(proc[n], p)
  BY ReceiveSafe DEF Mount, Room
<1>2. HostGrows(n)
  <2> DEFINE h == [host[n] EXCEPT !.mounted = TRUE]
             g == [host[n] EXCEPT !.mounted = TRUE, !.mount_file = n]
  <2>1. /\ h.bestio = host[n].bestio /\ h.vrd = host[n].vrd
        /\ g.bestio = host[n].bestio /\ g.vrd = host[n].vrd
        /\ h.nbd_server = host[n].nbd_server /\ h.attached = host[n].attached
        /\ g.nbd_server = host[n].nbd_server /\ g.attached = host[n].attached
    BY DEF SInv, IInv, Host
  <2>2. \/ UNCHANGED host
        \/ host' = [host EXCEPT ![n] = h]
        \/ host' = [host EXCEPT ![n] = g]
    BY DEF Mount
  <2> HIDE DEF h, g
  <2> QED
    BY <2>1, <2>2, HostRecord, HostSame
<1>3. m \in Message /\ m.word # "success"
  BY DEF Message
<1>4. /\ Become(n, w, p) \/ Die(n, w) \/ Become(n, MountMsgSend(n, w), Finish(p))
      /\ UNCHANGED client
  BY DEF Mount
<1>5. Safe(n, MountMsgSend(n, w))
  <2> HIDE DEF w, m
  <2> QED
    BY <1>1, <1>3, SendSafe DEF MountMsgSend, m
<1> HIDE DEF w, p, m
<1>6. Counted(n, p, host')
  BY <1>1, RestingCounted DEF Reading
<1> QED
  BY <1>1, <1>2, <1>4, <1>5, <1>6, FinishQuiet, BecomeQuiet, DieQuiet DEF Configures

\* What is taken for a dmbd_config did not come from a client.
LEMMA ConfigNotFromClient ==
  ASSUME SInv, NEW n \in Server, NEW f \in Fd, Receives(n, f, Word \ Command),
         NEW c \in Client
  PROVE  client[c].end # - net.fdt[n][f]
<1> DEFINE e == net.fdt[n][f]
           k == client[c].end
<1> SUFFICES ASSUME k = -e PROVE FALSE
  OBVIOUS
<1>1. e \in End /\ Incoming(n, f).word \notin Command
  BY ReceiveSafe DEF Receives
<1>2. -k = e /\ k # 0
  BY <1>1 DEF End
<1>3. /\ \A j \in 1..Len(net.inq[e]) :
           net.inq[e][j].word \in {"USER_SET_CONFIG", "mount"}
      /\ net.err[e] # "reset"
  BY <1>2 DEF SInv, Private
<1>4. net.inq[e] # <<>> /\ Incoming(n, f) = Head(net.inq[e])
  BY <1>3 DEF Receives, Incoming
<1>5. net.inq[e] \in Seq(Facts)
  BY <1>1, KernelFields DEF SInv, IInv
<1>6. Head(net.inq[e]) = net.inq[e][1] /\ 1 \in 1..Len(net.inq[e])
  BY <1>4, <1>5
<1> QED
  BY <1>1, <1>3, <1>4, <1>6 DEF Command

LEMMA SetConfigSetup ==
  ASSUME SInv, IInv', NEW n \in Server, NEW f \in Fd, SetConfig(n, f)
  PROVE  SInv' /\ HostGrows(n) /\ Sends(n, 0)
<1> DEFINE m == Incoming(n, f)
           w == AfterRead(n, f)
           p == WithBuffer(n, f)
           v == Take(w, n, File)
           h == IF HasFd(w, n) THEN StoreConfig(n, m) ELSE host[n]
           e == net.fdt[n][f]
<1>1. /\ e \in End /\ Safe(n, w) /\ w.fdt = net.fdt
      /\ p \in Process /\ p.pc = "loop" /\ p.i = f
      /\ Resting(p) /\ Milder(proc[n], p)
  BY ReceiveSafe DEF SetConfig
<1>2. Safe(n, v) /\ v.fdt[n][f] = e
  <2> HIDE DEF w
  <2>1. w.fdt[n][f] # Free
    BY <1>1 DEF Free, End
  <2> QED
    BY <1>1, <2>1, TakeSafe
<1>3. /\ h.bestio = host[n].bestio /\ h.vrd = host[n].vrd /\ h \in Host
      /\ h.nbd_server = host[n].nbd_server /\ h.attached = host[n].attached
  <2>1. m \in Facts
    BY ReceiveFacts DEF SetConfig, SInv
  <2>2. host[n] \in Host
    BY DEF SInv, IInv
  <2> HIDE DEF m
  <2> QED
    BY <2>1, <2>2, MessageFields DEF StoreConfig, Host
<1>4. UNCHANGED client
  BY DEF SetConfig
<1>5. Counted(n, p, host')
  BY <1>1, RestingCounted DEF Reading
<1>6. \/ Become(n, w, p) /\ UNCHANGED host
      \/ Die(n, v) /\ host' = [host EXCEPT ![n] = h]
      \/ \E ok \in InsmodBestio(n) :
           /\ host' = [host EXCEPT ![n] = [h EXCEPT !.bestio = ok \/ h.bestio]]
           /\ Become(n, v, AfterInsmod(p, ok))
  BY DEF SetConfig
<1>7. CASE Become(n, w, p) /\ UNCHANGED host
  <2> HIDE DEF w, p
  <2> QED
    BY <1>1, <1>4, <1>5, <1>7, BecomeQuiet, HostSame DEF Configures
<1>8. CASE Die(n, v) /\ host' = [host EXCEPT ![n] = h]
  <2> HIDE DEF v, h
  <2> QED
    BY <1>2, <1>3, <1>4, <1>8, DieQuiet, HostRecord
<1>9. ASSUME NEW ok \in InsmodBestio(n),
             host' = [host EXCEPT ![n] = [h EXCEPT !.bestio = ok \/ h.bestio]],
             Become(n, v, AfterInsmod(p, ok))
      PROVE  SInv' /\ HostGrows(n) /\ Sends(n, 0)
  <2> DEFINE g == [h EXCEPT !.bestio = ok \/ h.bestio]
             q == AfterInsmod(p, ok)
  <2>1. ok \in BOOLEAN /\ (ok => ~ host[n].bestio)
    BY DEF InsmodBestio
  <2>2. /\ g.bestio = (ok \/ host[n].bestio) /\ g.vrd = host[n].vrd
        /\ g.nbd_server = host[n].nbd_server /\ g.attached = host[n].attached
    <3> HIDE DEF h
    <3> QED
      BY <1>3 DEF Host
  <2>3. HostGrows(n)
    <3>1. host' = [host EXCEPT ![n] = g]
      BY <1>9
    <3> HIDE DEF g
    <3> QED
      BY <2>2, <3>1, HostRecord
  <2>4. /\ q.count = p.count /\ q.reply = p.reply /\ q.nbd_count = p.nbd_count
        /\ q.i = f /\ q.pc = IF ok THEN "config" ELSE "loop"
    <3> HIDE DEF p
    <3> QED
      BY <1>1 DEF AfterInsmod, Process
  <2>5. Counted(n, q, host') /\ Milder(proc[n], q)
    <3> HIDE DEF p, q
    <3> QED
      BY <1>1, <2>4, RestingCounted DEF Resting, Milder, Reading
  <2>6. /\ net' = v /\ proc'[n] = q
        /\ \A o \in Server \ {n} : proc'[o] = proc[o]
    BY <1>9 DEF Become, SInv, IInv
  <2>7. Configuring(n, net', proc'[n], host', client)
    <3>1. host'[n].bestio = (ok \/ host[n].bestio)
      <4>1. host'[n] = g
        BY <1>9 DEF SInv, IInv
      <4> QED
        BY <2>2, <4>1
    <3>2. \A c \in Client : client[c].end # -e
      BY ConfigNotFromClient DEF SetConfig
    <3> HIDE DEF v, q, e
    <3> QED
      BY <1>1, <1>2, <2>4, <2>6, <3>1, <3>2 DEF Configuring, Configures
  <2>8. Safe(n, net')
    BY <1>2, <2>6
  <2> HIDE DEF q
  <2> QED
    BY <1>4, <2>1, <2>3, <2>4, <2>5, <2>6, <2>7, <2>8, QuietStep DEF Configures
<1> QED
  BY <1>6, <1>7, <1>8, <1>9

LEMMA UserSetConfigSetup ==
  ASSUME SInv, IInv', NEW n \in Server, NEW f \in Fd, UserSetConfig(n, f)
  PROVE  SInv' /\ Sends(n, 0)
<1> DEFINE w == AfterRead(n, f)
           p == WithBuffer(n, f)
           m == Say("CONTROLLER_SET_CONFIG")
           q == [p EXCEPT !.pc = "read_on", !.sock = LowestFd(w, n)]
<1>1. /\ Safe(n, w) /\ p \in Process /\ w.made < MaxConns
      /\ Resting(p) /\ p.count = proc[n].count /\ p.reply = proc[n].reply
  BY ReceiveSafe DEF UserSetConfig, Room
<1>2. m \in Message /\ m.word # "success"
  BY SayMessage DEF Word, Command
<1>3. /\ \/ Become(n, w, Finish(p))
         \/ Become(n, SendTo(n, w, m), Finish(p))
         \/ Reaches(n, w) /\ Become(n, SendTo(n, w, m), q)
      /\ UNCHANGED <<host, client>>
  BY DEF UserSetConfig
<1>4. Safe(n, SendTo(n, w, m))
  <2> HIDE DEF w, m
  <2> QED
    BY <1>1, <1>2, SendSafe
<1>5. /\ q.pc = "read_on" /\ q.count = p.count /\ q.reply = p.reply
      /\ q.nbd_count = p.nbd_count
  <2> HIDE DEF p, w
  <2> QED
    BY <1>1 DEF Process
<1>6. Reaches(n, w) => Counted(n, q, host') /\ Milder(proc[n], q)
  <2> HIDE DEF p, q, w
  <2> QED
    BY <1>1, <1>5, RestingCounted DEF Resting, Milder, Reaches
<1> HIDE DEF w, p, m, q
<1> QED
  BY <1>1, <1>3, <1>4, <1>5, <1>6, FinishQuiet, BecomeQuiet, HostSame DEF Configures

\* A connection of n does not lead back to n.
LEMMA NotBothEnds ==
  ASSUME SInv, NEW n \in Server, NEW k \in Conn, Holding(net, n, -k)
  PROVE  ~ Holding(net, n, k)
BY FirstPeerOther DEF SInv, Wired

\* An answer that may be "success", when that is true.
LEMMA ReplyTrue ==
  ASSUME SInv, IInv', NEW n \in Server, UNCHANGED client,
         NEW e \in End, Holding(net, n, e), NEW m \in Message,
         NEW p, Reply(n, net, e, m, p), HostGrows(n), Counted(n, p, host'),
         p.pc \notin Configures, Milder(proc[n], p),
         server_len > 1 => host'[n].bestio,
         server_len > 2 => proc[n].pc \in Configures,
         server_len > 1 => \A c \in Client : client[c].end = -e => Done'
  PROVE  SInv' /\ Sends(n, -e)
<1>1. Safe(n, net) /\ client \in [Client -> ClientState]
  BY NetSafe DEF SInv, IInv
<1>2. CASE Sigpipe(net, e)
  <2>1. SInv' /\ Sends(n, 0)
    BY <1>1, <1>2, DieQuiet DEF Reply
  <2>2. -(-e) = e
    BY DEF End
  <2> QED
    BY <2>1, <2>2 DEF Sends, Calm, Conn
<1>3. CASE ~ Sigpipe(net, e)
  <2> DEFINE x == -e
             v == Write(net, e, m)
  <2>1. Become(n, v, p)
    BY <1>3 DEF Reply
  <2>2. /\ net' = v /\ proc'[n] = p
        /\ \A o \in Server \ {n} : proc'[o] = proc[o]
    BY <2>1 DEF Become, SInv, IInv
  <2>3. Good(v, client) /\ Calm(net, v, x) /\ v.fdt = net.fdt
    BY <1>1, WriteGood, WriteKernel DEF Safe, KernelOf
  <2>4. -x = e
    BY DEF End
  <2>5. x \in Conn => Holding(net, n, -x) /\ ~ Holding(net, n, x)
    <3> HIDE DEF x
    <3> QED
      BY <2>4, NotBothEnds
  <2>6. \A c \in Client : client[c].end = x => client[c].end = -e
    OBVIOUS
  <2> HIDE DEF x, v
  <2>7. ExpectsTrue(n)'
    BY <2>2, <2>3, <2>5, ExpectsKept
  <2>8. Configuring(n, net', proc'[n], host', client)
    BY <2>2 DEF Configuring
  <2>9. Sends(n, x)
    BY <2>2, <2>3, <2>5 DEF Sends, Milder
  <2>10. SInv'
    BY <2>2, <2>3, <2>5, <2>6, <2>7, <2>8, ControllerPreserves
  <2> QED
    BY <2>9, <2>10 DEF x
<1> QED
  BY <1>2, <1>3

LEMMA StartNbdServerSetup ==
  ASSUME SInv, IInv', NEW n \in Server, StartNbdServer(n)
  PROVE  SInv' /\ HostGrows(n) /\ Sends(n, 0)
<1> DEFINE p == [proc[n] EXCEPT !.pc = "answer"]
<1>1. Resting(proc[n]) /\ proc[n] \in Process /\ proc[n].pc = "config"
  BY RestingFacts DEF StartNbdServer
<1>2. PICK ok \in BOOLEAN :
        /\ host' = [host EXCEPT ![n].nbd_server = ok \/ @]
        /\ Become(n, IF ok THEN Inherit(net, n) ELSE net, p)
  BY DEF StartNbdServer
<1>3. HostGrows(n)
  <2> DEFINE h == [host[n] EXCEPT !.nbd_server = ok \/ @]
  <2>1. /\ h.bestio = host[n].bestio /\ h.vrd = host[n].vrd
        /\ host[n].nbd_server => h.nbd_server
        /\ h.attached = host[n].attached
    BY DEF SInv, IInv, Host
  <2>2. host' = [host EXCEPT ![n] = h]
    BY <1>2
  <2> HIDE DEF h
  <2> QED
    BY <2>1, <2>2, HostRecord
<1>4. /\ p.pc = "answer" /\ p.i = proc[n].i /\ p.count = proc[n].count
      /\ p.nbd_count = proc[n].nbd_count /\ p.reply = proc[n].reply
  BY <1>1 DEF Process
<1> HIDE DEF p
<1>5. /\ proc'[n] = p /\ \A m \in Server \ {n} : proc'[m] = proc[m]
      /\ net' = net \/ net' = Inherit(net, n)
  BY <1>2 DEF Become, SInv, IInv
<1>6. Safe(n, net') /\ net'.fdt = net.fdt
  BY <1>5, NetSafe, InheritSafe, InheritKernel DEF Safe, KernelOf
<1>7. Counted(n, p, host') /\ Milder(proc[n], p)
  BY <1>1, <1>4, RestingCounted DEF Resting, Milder, Reading
<1>8. Configuring(n, net', proc'[n], host', client)
  <2>1. Configuring(n, net, proc[n], host, client)
    BY DEF SInv
  <2> QED
    BY <1>1, <1>3, <1>4, <1>5, <1>6, <2>1
       DEF Configuring, Configures, HostGrows
<1>9. proc[n].pc \in Configures /\ UNCHANGED client
  BY <1>1 DEF Configures, StartNbdServer
<1> QED
  BY <1>3, <1>5, <1>6, <1>7, <1>8, <1>9, QuietStep

LEMMA SetConfigDoneSetup ==
  ASSUME SInv, IInv', NEW n \in Server, SetConfigDone(n)
  PROVE  SInv' /\ Sends(n, -net.fdt[n][proc[n].i])
<1> DEFINE e == net.fdt[n][proc[n].i]
           m == Say("success")
           p == Finish(proc[n])
<1>1. Resting(proc[n]) /\ proc[n] \in Process /\ proc[n].pc = "answer"
  BY RestingFacts DEF SetConfigDone
<1>2. /\ host[n].bestio /\ e \in End /\ proc[n].i \in Fd
      /\ \A c \in Client : client[c].end # -e
  BY <1>1 DEF SInv, Configuring, Configures
<1>3. Holding(net, n, e)
  BY <1>2 DEF Holding
<1>4. m \in Message
  BY SayMessage DEF Word
<1>5. Counted(n, p, host') /\ p.pc \notin Configures /\ Milder(proc[n], p)
  BY <1>1, FinishQuiet
<1>6. Reply(n, net, e, m, p) /\ UNCHANGED <<host, client>>
  BY DEF SetConfigDone
<1>7. HostGrows(n) /\ host'[n].bestio /\ proc[n].pc \in Configures
  BY <1>1, <1>2, <1>6, HostSame DEF Configures
<1>8. SInv' /\ Sends(n, -e)
  <2> HIDE DEF e, m, p
  <2> QED
    BY <1>1, <1>2, <1>3, <1>4, <1>5, <1>6, <1>7, ReplyTrue
<1> QED
  BY <1>8

-----------------------------------------------------------------------------
(* The coordinator.                                                        *)

\* What a controller blocked in a read starts from.
LEMMA ReadingSafe ==
  ASSUME SInv, NEW n \in Server, proc[n].pc \in Reading
  PROVE  LET e == SockEnd(n)
             w == Drain(net, e) IN
         /\ e \in Conn /\ e \in End /\ Holding(net, n, e)
         /\ proc[n].sock \in Fd /\ proc[n] \in Process
         /\ Safe(n, w) /\ w.fdt = net.fdt /\ w.made = net.made
         /\ ~ Token(w, n, e)
         /\ net.inq[e] # <<>> /\ Head(net.inq[e]).word = "success" =>
              Token(net, n, e)
<1> DEFINE e == SockEnd(n)
           w == Drain(net, e)
<1>1. e \in Conn /\ e \in End /\ proc[n].sock \in Fd /\ proc[n] \in Process
  BY EndFacts DEF SockEnd, SInv, IInv, OwnSocket, Reading
<1>2. Holding(net, n, e)
  BY <1>1 DEF Holding, SockEnd
<1>3. Safe(n, net) /\ net \in Kernel(Message)
  BY NetSafe DEF Safe, KernelOf
<1> HIDE DEF e
<1>4. Safe(n, w) /\ w.fdt = net.fdt /\ w.made = net.made /\ w.inq[e] = <<>>
  BY <1>1, <1>3, DrainSafe, DrainFields
<1>5. ~ Token(w, n, e)
  BY <1>4 DEF Token, SuccessAt
<1>6. net.inq[e] # <<>> /\ Head(net.inq[e]).word = "success" => Token(net, n, e)
  <2>1. net.inq[e] \in Seq(Message)
    BY <1>1, <1>3, KernelFields
  <2> QED
    BY <1>2, <2>1 DEF Token, SuccessAt
<1> QED
  BY <1>1, <1>2, <1>4, <1>5, <1>6 DEF e

\* What was on its way is now in reply.
LEMMA MsgSendReadOnSetup ==
  ASSUME SInv, IInv', NEW n \in Server, MsgSendReadOn(n)
  PROVE  SInv' /\ Sends(n, 0)
<1> DEFINE e == SockEnd(n)
           w == Drain(net, e)
           v == Take(w, n, File)
<1>1. PICK reply \in Answers(n, {"CONTROL_SET_ON", "eof"}),
           c \in (IF HasFd(w, n) THEN {host[n].dmbd_config}
                  ELSE Config \cup {Garbage}) :
        LET p == [proc[n] EXCEPT !.pc = "read_result", !.reply = reply] IN
        IF reply = "CONTROL_SET_ON"
        THEN Reply(n, v, e, [word |-> "config", arg |-> c], p)
        ELSE Become(n, w, p)
  BY DEF MsgSendReadOn
<1> DEFINE p == [proc[n] EXCEPT !.pc = "read_result", !.reply = reply]
           m == [word |-> "config", arg |-> c]
<1>2. /\ proc[n].pc = "read_on" /\ Resting(proc[n]) /\ proc[n] \in Process
      /\ Counted(n, proc[n], host) /\ ExpectsTrue(n)
  BY RestingFacts DEF MsgSendReadOn, SInv
<1>3. /\ e \in Conn /\ e \in End /\ Holding(net, n, e) /\ proc[n].sock \in Fd
      /\ Safe(n, w) /\ w.fdt = net.fdt /\ ~ Token(w, n, e)
      /\ net.inq[e] # <<>> /\ Head(net.inq[e]).word = "success" =>
           Token(net, n, e)
  BY <1>2, ReadingSafe DEF Reading
<1>4. server_len > 1
  BY <1>2, ServerLen DEF Counted, Reading
<1>5. /\ p.pc = "read_result" /\ p.count = proc[n].count
      /\ p.nbd_count = proc[n].nbd_count /\ p.reply = reply
  BY <1>2 DEF Process
<1>6. reply = "success" => Token(net, n, e)
  BY <1>3 DEF Answers
<1>7. UNCHANGED <<host, client>>
  BY DEF MsgSendReadOn
<1>8. Safe(n, v) /\ Holding(v, n, e)
  <2>1. w.fdt[n][proc[n].sock] = e /\ e # Free
    <3>1. net.fdt[n][proc[n].sock] = e
      BY DEF SockEnd
    <3> HIDE DEF w, e
    <3> QED
      BY <1>3, <3>1 DEF Conn, Free
  <2> HIDE DEF w, e
  <2>2. /\ Safe(n, v)
        /\ \A f \in Fd : w.fdt[n][f] # Free => v.fdt[n][f] = w.fdt[n][f]
    BY <1>3, TakeSafe
  <2> QED
    BY <1>3, <2>1, <2>2 DEF Holding
<1>9. m \in Message /\ m.word # "success"
  <2>1. c \in Config \cup {Garbage}
    BY DEF SInv, IInv, Host
  <2> QED
    BY <2>1 DEF Message
<1>10. Counted(n, p, host')
  BY <1>2, <1>4, <1>5, RestingCounted DEF Resting, Reading
<1>11. reply = "CONTROL_SET_ON" => Reply(n, v, e, m, p)
  BY <1>1
<1>12. reply # "CONTROL_SET_ON" => Become(n, w, p)
  BY <1>1
<1> HIDE DEF v, w, e, m, p
<1>13. CASE reply # "success"
  <2>1. Milder(proc[n], p)
    BY <1>5, <1>13 DEF Milder
  <2> QED
    BY <1>3, <1>5, <1>7, <1>8, <1>9, <1>10, <1>11, <1>12, <2>1,
       ReplyQuiet, BecomeQuiet, HostSame DEF Configures
<1>14. CASE reply = "success"
  <2>1. /\ net' = w /\ proc'[n] = p
        /\ \A o \in Server \ {n} : proc'[o] = proc[o]
    BY <1>12, <1>14 DEF Become, SInv, IInv
  <2>2. Good(net', client) /\ Calm(net, net', 0) /\ Token(net, n, e)
    BY <1>3, <1>6, <1>14, <2>1 DEF Safe
  <2>3. Expects(n, net, proc[n])
    BY <1>3, <2>2 DEF Expects
  <2>4. /\ FirstPeer(n) \in Server /\ host'[FirstPeer(n)].bestio
        /\ proc'[FirstPeer(n)] = proc[FirstPeer(n)]
    BY <1>2, <1>4, <1>7, <2>1, <2>3, FirstPeerOther DEF ExpectsTrue
  <2>5. server_len > 2 => /\ OneToken(n, net', p)
                          /\ proc[FirstPeer(n)].pc \notin Configures
    <3> SUFFICES ASSUME server_len > 2
                 PROVE  /\ OneToken(n, net', p)
                        /\ proc[FirstPeer(n)].pc \notin Configures
      OBVIOUS
    <3>1. OneToken(n, net, proc[n]) /\ proc[FirstPeer(n)].pc \notin Configures
      BY <1>2, <2>3 DEF ExpectsTrue
    <3>2. \A k \in Conn : ~ Token(net', n, k)
      <4>1. \A k \in Conn : Token(net', n, k) => Token(net, n, k)
        BY <2>2 DEF Calm, Conn
      <4> QED
        BY <1>3, <2>1, <2>2, <3>1, <4>1 DEF OneToken
    <3>3. ~ (proc[n].count > 0)
      BY <1>3, <2>2, <3>1 DEF OneToken
    <3> QED
      BY <1>5, <3>1, <3>2, <3>3 DEF OneToken
  <2>6. ExpectsTrue(n)'
    BY <2>1, <2>4, <2>5 DEF ExpectsTrue
  <2>7. Configuring(n, net', proc'[n], host', client) /\ 0 \notin Conn
    BY <1>5, <2>1 DEF Configuring, Conn, Configures
  <2>8. Sends(n, 0)
    BY <1>3, <1>5, <2>1, <2>2, <2>7 DEF Sends, Safe, KernelOf
  <2> QED
    BY <1>3, <1>5, <1>7, <1>10, <2>1, <2>2, <2>6, <2>7, <2>8, HostSame,
       ControllerPreserves DEF Safe, KernelOf, Configures
<1> QED
  BY <1>13, <1>14

\* What was on its way, or in reply, is now in count.
LEMMA MsgSendReadResultSetup ==
  ASSUME SInv, IInv', NEW n \in Server, MsgSendReadResult(n)
  PROVE  SInv' /\ Calm(net, net', 0)
<1> DEFINE e == SockEnd(n)
           w == Drain(net, e)
<1>1. PICK reply \in Answers(n, {proc[n].reply}) :
        Become(n, w, Finish([proc[n] EXCEPT
          !.reply = "eof", !.sock = NoFd,
          !.count = IF reply = "success" THEN @ + 1 ELSE @,
          !.unsuccess_flag = IF reply = "unsuccess" THEN 1 ELSE @]))
  BY DEF MsgSendReadResult
<1> DEFINE j == IF reply = "success" THEN proc[n].count + 1 ELSE proc[n].count
           u == IF reply = "unsuccess" THEN 1 ELSE proc[n].unsuccess_flag
           p == [proc[n] EXCEPT !.reply = "eof", !.sock = NoFd,
                                !.count = j, !.unsuccess_flag = u]
           q == Finish(p)
<1>2. /\ proc[n].pc = "read_result" /\ Resting(proc[n]) /\ proc[n] \in Process
      /\ Counted(n, proc[n], host) /\ ExpectsTrue(n)
  BY RestingFacts DEF MsgSendReadResult, SInv
<1>3. /\ e \in Conn /\ Holding(net, n, e)
      /\ Safe(n, w) /\ w.fdt = net.fdt /\ ~ Token(w, n, e)
      /\ net.inq[e] # <<>> /\ Head(net.inq[e]).word = "success" =>
           Token(net, n, e)
  BY <1>2, ReadingSafe DEF Reading
<1>4. server_len > 1
  BY <1>2, ServerLen DEF Counted, Reading
<1>5. UNCHANGED <<host, client>>
  BY DEF MsgSendReadResult
<1>6. Become(n, w, q)
  BY <1>1, <1>2 DEF Process
<1>7. reply = "success" => Token(net, n, e) \/ proc[n].reply = "success"
  BY <1>3 DEF Answers
<1>8. /\ p \in Process /\ p.count = j /\ p.reply = "eof"
      /\ p.nbd_count = proc[n].nbd_count
  <2>1. j \in Nat /\ u \in {0, 1}
    BY <1>2 DEF Process
  <2> HIDE DEF j, u
  <2> QED
    BY <1>2, <2>1 DEF Process
<1>9. proc[n].count \in Nat
  BY <1>2 DEF Process
<1>10. Safe(n, net') /\ ~ Token(net', n, e)
  BY <1>3, <1>6 DEF Become
<1> HIDE DEF e, w, p
<1>11. reply = "success" =>
         /\ Expects(n, net, proc[n])
         /\ server_len > 2 => /\ OneToken(n, net, proc[n])
                              /\ proc[n].count = 0
  <2> SUFFICES ASSUME reply = "success"
               PROVE  /\ Expects(n, net, proc[n])
                      /\ server_len > 2 => /\ OneToken(n, net, proc[n])
                                           /\ proc[n].count = 0
    OBVIOUS
  <2>1. Expects(n, net, proc[n])
    BY <1>3, <1>7 DEF Expects
  <2>2. server_len > 2 => OneToken(n, net, proc[n])
    BY <1>2 DEF ExpectsTrue
  <2>3. OneToken(n, net, proc[n]) => proc[n].count = 0
    BY <1>3, <1>7, <1>9 DEF OneToken
  <2> QED
    BY <2>1, <2>2, <2>3
<1>12. p.nbd_count = 0 /\ p.count <= 1 /\ (server_len = 1 => p.count = 0)
  BY <1>2, <1>4, <1>8, <1>9, <1>11, ServerLen DEF Resting
<1>13. /\ Counted(n, q, host') /\ q.pc \notin Configures
       /\ q.count = p.count /\ q.reply = "eof"
  BY <1>8, <1>12, FinishCounted
<1> HIDE DEF q
<1>14. CASE reply # "success"
  <2>1. Milder(proc[n], q)
    BY <1>8, <1>13, <1>14 DEF Milder
  <2>2. SInv' /\ Sends(n, 0)
    BY <1>3, <1>5, <1>6, <1>13, <2>1, BecomeQuiet, HostSame
  <2> QED
    BY <2>2 DEF Sends
<1>15. CASE reply = "success"
  <2>1. /\ net' = w /\ proc'[n] = q
        /\ \A o \in Server \ {n} : proc'[o] = proc[o]
    BY <1>6 DEF Become, SInv, IInv
  <2>2. /\ FirstPeer(n) \in Server /\ host'[FirstPeer(n)].bestio
        /\ proc'[FirstPeer(n)] = proc[FirstPeer(n)]
    BY <1>2, <1>4, <1>5, <1>11, <1>15, <2>1, FirstPeerOther DEF ExpectsTrue
  <2>3. server_len > 2 => /\ OneToken(n, net', q)
                          /\ proc[FirstPeer(n)].pc \notin Configures
    <3> SUFFICES ASSUME server_len > 2
                 PROVE  /\ OneToken(n, net', q)
                        /\ proc[FirstPeer(n)].pc \notin Configures
      OBVIOUS
    <3>1. OneToken(n, net, proc[n]) /\ proc[FirstPeer(n)].pc \notin Configures
      BY <1>2, <1>11, <1>15 DEF ExpectsTrue
    <3>2. \A k \in Conn : Token(net', n, k) => Token(net, n, k)
      BY <1>10 DEF Safe, Calm, Conn
    <3>3. \A k \in Conn : ~ Token(net', n, k)
      BY <1>3, <1>7, <1>10, <1>15, <3>1, <3>2 DEF OneToken
    <3>4. q.count = 1
      BY <1>8, <1>11, <1>13, <1>15
    <3> QED
      BY <1>13, <3>1, <3>3, <3>4 DEF OneToken
  <2>4. ExpectsTrue(n)'
    BY <2>1, <2>2, <2>3 DEF ExpectsTrue
  <2>5. Configuring(n, net', proc'[n], host', client) /\ 0 \notin Conn
    BY <1>13, <2>1 DEF Configuring, Conn
  <2> QED
    BY <1>5, <1>10, <1>13, <2>1, <2>4, <2>5, HostSame, ControllerPreserves
       DEF Safe, KernelOf
<1> QED
  BY <1>10, <1>14, <1>15 DEF Safe

\* With up to two servers there is nobody but n and its first peer.
LEMMA AtMostTwo ==
  ASSUME NEW n \in Server, server_len <= 2, NEW m \in Server, m # n
  PROVE  server_len > 1 /\ m = FirstPeer(n)
<1>1. PICK j, k \in 1..server_len : n = server_config[j] /\ m = server_config[k]
  BY ServerAssumption
<1>2. server_len > 1 /\ {j, k} = {1, 2}
  BY <1>1, ServerLen
<1> QED
  BY <1>1, <1>2 DEF FirstPeer

LEMMA AssembleSetup ==
  ASSUME SInv, IInv', NEW n \in Server, Assemble(n)
  PROVE  SInv' /\ HostGrows(n) /\ Sends(n, 0)
<1> DEFINE p == [proc[n] EXCEPT !.pc = "module"]
<1>1. /\ Safe(n, net) /\ proc[n] \in Process /\ proc[n].pc = "assemble"
      /\ Counted(n, proc[n], host)
  BY NetSafe DEF Assemble, SInv, IInv
<1>2. HostGrows(n)
  <2>1. CASE UNCHANGED host
    BY <2>1, HostSame
  <2>2. CASE \E ok \in InsmodBestio(n), S \in NbdClient(n) :
               host' = [host EXCEPT ![n] =
                 [host[n] EXCEPT !.bestio = ok \/ @, !.attached = @ \cup S]]
    <3>1. PICK ok \in InsmodBestio(n), S \in NbdClient(n) :
            host' = [host EXCEPT ![n] =
              [host[n] EXCEPT !.bestio = ok \/ @, !.attached = @ \cup S]]
      BY <2>2
    <3> DEFINE h == [host[n] EXCEPT !.bestio = ok \/ @, !.attached = @ \cup S]
    <3>2. /\ h.bestio = (ok \/ host[n].bestio) /\ h.vrd = host[n].vrd
          /\ h.nbd_server = host[n].nbd_server
          /\ h.attached = host[n].attached \cup S
      BY DEF SInv, IInv, Host
    <3>4. S \subseteq Server \ {n}
      BY DEF NbdClient
    <3>3. host' = [host EXCEPT ![n] = h]
      BY <3>1
    <3> HIDE DEF h
    <3> QED
      BY <3>2, <3>3, <3>4, HostRecord
  <2> QED
    BY <2>1, <2>2 DEF Assemble
<1>3. /\ p.pc = "module" /\ p.count = proc[n].count
      /\ p.nbd_count = proc[n].nbd_count /\ p.reply = proc[n].reply
  BY <1>1 DEF Process
<1>4. Become(n, net, p) \/ Become(n, Inherit(net, n), p) \/ Die(n, net)
  BY DEF Assemble
<1> HIDE DEF p
<1>5. Counted(n, p, host') /\ Milder(proc[n], p)
  <2>1. host[n].vrd => host'[n].vrd
    BY <1>2 DEF HostGrows
  <2> QED
    BY <1>1, <1>3, <2>1 DEF Counted, Milder, Reading
<1>6. Safe(n, Inherit(net, n)) /\ p.pc \notin Configures
  BY <1>1, <1>3, InheritSafe DEF Configures
<1> QED
  BY <1>1, <1>2, <1>4, <1>5, <1>6, BecomeQuiet, DieQuiet DEF Assemble

\* vrd is loaded on top of both ramdisks: its own, which InsmodVrd asks for,
\* and that of the peer that was counted.
LEMMA AssembleModuleSetup ==
  ASSUME SInv, IInv', NEW n \in Server, AssembleModule(n)
  PROVE  SInv' /\ HostGrows(n) /\ Sends(n, 0)
<1> DEFINE m == Say("NBD_SET_ON")
           v == SendTo(n, net, m)
           q == [proc[n] EXCEPT !.pc = "read_nbd", !.sock = LowestFd(net, n)]
           r == FinishAssembly(proc[n])
<1>1. /\ Safe(n, net) /\ proc[n] \in Process /\ proc[n].pc = "module"
      /\ Counted(n, proc[n], host) /\ net.made < MaxConns /\ ExpectsTrue(n)
  BY NetSafe DEF AssembleModule, SInv, IInv, Room
<1>2. PICK ok \in InsmodVrd(n) :
        /\ host' = [host EXCEPT ![n].vrd = ok \/ @]
        /\ \/ Become(n, net, r) \/ Become(n, v, r)
           \/ ok /\ Reaches(n, net) /\ Become(n, v, q)
  BY DEF AssembleModule
<1>3. /\ server_len <= 2 /\ proc[n].count = server_len - 1
      /\ proc[n].nbd_count = 0
  BY <1>1 DEF Counted
<1>4. ok => host[n].bestio /\ ok = TRUE
  BY DEF InsmodVrd
<1>5. ok => \A o \in Server : host[o].bestio
  <2> SUFFICES ASSUME ok, NEW o \in Server, o # n PROVE host[o].bestio
    BY <1>4
  <2>1. server_len > 1 /\ o = FirstPeer(n)
    BY <1>3, AtMostTwo
  <2>2. Expects(n, net, proc[n])
    BY <1>3, <2>1, ServerLen DEF Expects
  <2> QED
    BY <1>1, <2>1, <2>2 DEF ExpectsTrue
<1>6. HostGrows(n) /\ (ok => host'[n].vrd)
  <2> DEFINE h == [host[n] EXCEPT !.vrd = ok \/ @]
  <2>1. host' = [host EXCEPT ![n] = h]
    BY <1>2, Zenon
  <2>2. /\ h.bestio = host[n].bestio /\ h.vrd = (ok \/ host[n].vrd)
        /\ h.nbd_server = host[n].nbd_server /\ h.attached = host[n].attached
    BY DEF SInv, IInv, Host
  <2> HIDE DEF h
  <2>3. \A o \in Server : host'[o] = IF o = n THEN h ELSE host[o]
    BY <2>1 DEF SInv, IInv
  <2> QED
    BY <1>1, <1>3, <1>5, <2>2, <2>3 DEF HostGrows
<1>7. m \in Message /\ m.word # "success"
  BY SayMessage DEF Word, Command
<1>8. Safe(n, v)
  <2> HIDE DEF m
  <2> QED
    BY <1>1, <1>7, SendSafe
<1>9. /\ Counted(n, r, host') /\ r.pc \notin Configures /\ Milder(proc[n], r)
  BY <1>1, <1>3, ServerLen, FinishAssemblyCounted DEF Milder, Configures
<1>10. /\ q.pc = "read_nbd" /\ q.count = proc[n].count
       /\ q.nbd_count = 0 /\ q.reply = proc[n].reply
  BY <1>1, <1>3 DEF Process
<1>11. UNCHANGED client
  BY DEF AssembleModule
<1> HIDE DEF v, q, r, m
<1>12. ok /\ Reaches(n, net) => Counted(n, q, host') /\ Milder(proc[n], q)
  BY <1>3, <1>6, <1>10, ServerLen DEF Counted, Milder, Reaches
<1> QED
  BY <1>1, <1>2, <1>6, <1>8, <1>9, <1>10, <1>11, <1>12, BecomeQuiet DEF Configures

LEMMA NbdMsgSendReadSetup ==
  ASSUME SInv, IInv', NEW n \in Server, NbdMsgSendRead(n)
  PROVE  SInv' /\ Sends(n, 0)
<1> DEFINE w == Drain(net, SockEnd(n))
<1>1. PICK reply :
        Become(n, w, FinishAssembly([proc[n] EXCEPT
          !.sock = NoFd,
          !.nbd_count = IF reply = "NBD_CLIENT_LOAD" THEN @ + 1 ELSE @]))
  BY DEF NbdMsgSendRead
<1> DEFINE j == IF reply = "NBD_CLIENT_LOAD" THEN proc[n].nbd_count + 1
                ELSE proc[n].nbd_count
           p == [proc[n] EXCEPT !.sock = NoFd, !.nbd_count = j]
           q == FinishAssembly(p)
<1>2. /\ proc[n].pc = "read_nbd" /\ Counted(n, proc[n], host)
  BY DEF NbdMsgSendRead, SInv
<1>3. Safe(n, w) /\ proc[n] \in Process
  BY <1>2, ReadingSafe DEF Reading
<1>4. host[n].vrd /\ server_len <= 2 /\ server_len > 1
  <2>1. host[n].vrd /\ server_len > 1
    BY <1>2, ServerLen DEF Counted, Reading
  <2>2. ~ (server_len > 2)
    BY <2>1 DEF SInv, OnlyTwoServersAssemble
  <2> QED
    BY <2>1, <2>2, ServerLen
<1>5. proc[n].nbd_count = 0
  BY <1>2, <1>4 DEF Counted
<1>6. Become(n, w, q) /\ UNCHANGED <<host, client>>
  BY <1>1, <1>3 DEF Process, NbdMsgSendRead
<1>7. /\ p \in Process /\ p.nbd_count = j /\ j \in {0, 1}
      /\ p.reply = proc[n].reply
  <2>1. j \in {0, 1} /\ j \in Nat
    BY <1>5
  <2> HIDE DEF j
  <2> QED
    BY <1>3, <2>1 DEF Process
<1> HIDE DEF w, j, p
<1>8. Counted(n, q, host') /\ q.pc \notin Configures /\ Milder(proc[n], q)
  BY <1>4, <1>6, <1>7, ServerLen, FinishAssemblyCounted DEF Milder
<1> HIDE DEF q
<1> QED
  BY <1>3, <1>6, <1>8, BecomeQuiet, HostSame

\* The second "success", to whatever client_sock names by now: it is true
\* whoever reads it, since the coordinator has loaded vrd.
LEMMA ReportSetup ==
  ASSUME SInv, IInv', NEW n \in Server, Report(n)
  PROVE  SInv' /\ HostGrows(n) /\ \E x : Sends(n, x)
<1>1. /\ Safe(n, net) /\ proc[n] \in Process /\ proc[n].pc = "report"
      /\ Counted(n, proc[n], host) /\ UNCHANGED client
  BY NetSafe DEF Report, SInv, IInv
<1>2. net.fdt \in [Server -> [Fd -> Slot]]
  BY <1>1, KernelFields DEF Safe, KernelOf
<1>3. ASSUME NEW word \in {"success", "unsuccess"}, NEW p,
             \A h : h[n].vrd = host[n].vrd => Counted(n, p, h),
             p.pc \notin Configures, Milder(proc[n], p),
             WriteClientSock(n, word, p),
             word = "success" /\ server_len > 1 =>
               server_len <= 2 /\ host[n].vrd
      PROVE  SInv' /\ HostGrows(n) /\ \E x : Sends(n, x)
  <2> DEFINE s == IF proc[n].client_sock = NoFd THEN Free
                  ELSE net.fdt[n][proc[n].client_sock]
             m == Say(word)
  <2>1. m \in Message /\ m.word = word
    BY SayMessage DEF Word
  <2>0. /\ HostGrows(n)
        /\ \A o \in Server : /\ host'[o].bestio = host[o].bestio
                             /\ host'[o].vrd = host[o].vrd
    <3>1. \/ UNCHANGED host
          \/ \E text : host' = [host EXCEPT ![n].dmbd_config = text]
      BY <1>3 DEF WriteClientSock
    <3>2. CASE UNCHANGED host
      BY <3>2, HostSame
    <3>3. ASSUME NEW text, host' = [host EXCEPT ![n].dmbd_config = text]
          PROVE  /\ HostGrows(n)
                 /\ \A o \in Server : /\ host'[o].bestio = host[o].bestio
                                      /\ host'[o].vrd = host[o].vrd
      <4> DEFINE h == [host[n] EXCEPT !.dmbd_config = text]
      <4>1. /\ h.bestio = host[n].bestio /\ h.vrd = host[n].vrd
            /\ h.nbd_server = host[n].nbd_server /\ h.attached = host[n].attached
        BY DEF SInv, IInv, Host
      <4>2. host' = [host EXCEPT ![n] = h]
        BY <3>3
      <4> HIDE DEF h
      <4>3. \A o \in Server : host'[o] = IF o = n THEN h ELSE host[o]
        BY <4>2 DEF SInv, IInv
      <4> QED
        BY <4>1, <4>2, <4>3, HostRecord
    <3> QED
      BY <3>1, <3>2, <3>3
  <2>9. Counted(n, p, host')
    BY <1>3, <2>0
  <2>2. \/ s \in End /\ Reply(n, net, s, m, p)
        \/ s \notin End /\ (Die(n, net) \/ Become(n, net, p))
    <3>1. Free \notin End /\ File \notin End /\ Unconnected \notin End
      BY BoundsAssumption DEF End, Free, File, Unconnected
    <3> QED
      BY <1>3, <3>1 DEF WriteClientSock
  <2>3. s \in End => Holding(net, n, s)
    <3>1. Free \notin End /\ NoFd = 0
      BY DEF Free, End, NoFd
    <3>2. proc[n].client_sock # NoFd => proc[n].client_sock \in Fd
      BY <1>1 DEF Process
    <3> QED
      BY <3>1, <3>2 DEF Holding
  <2> HIDE DEF s, m
  <2>4. CASE s \notin End
    BY <1>1, <1>3, <2>0, <2>2, <2>4, <2>9, DieQuiet, BecomeQuiet
  <2>5. CASE s \in End /\ word = "unsuccess"
    BY <1>1, <1>3, <2>0, <2>1, <2>2, <2>3, <2>5, <2>9, ReplyQuiet
  <2>6. CASE s \in End /\ word = "success"
    <3>1. server_len > 1 => /\ server_len <= 2 /\ host'[n].bestio /\ Done'
      BY <1>1, <1>3, <2>0, <2>6 DEF Done, SInv, DiskIsWhole
    <3>2. ~ (server_len > 2)
      BY <3>1, ServerLen
    <3> QED
      BY <1>1, <1>3, <2>0, <2>1, <2>2, <2>3, <2>6, <2>9, <3>1, <3>2, ReplyTrue
  <2> QED
    BY <1>3, <2>0, <2>4, <2>5, <2>6
<1>4. proc[n].nbd_count \in Nat
  BY <1>1 DEF Process
<1>5. CASE proc[n].nbd_count = server_len - 1
  <2> DEFINE c == IF proc[n].unsuccess_flag = 1 THEN "report" ELSE "loop"
             p == [proc[n] EXCEPT !.success_flag = 1, !.nbd_count = 0, !.pc = c]
  <2>1. /\ p.pc \in {"report", "loop"} /\ p.nbd_count = 0
        /\ p.count = proc[n].count /\ p.reply = proc[n].reply
    BY <1>1 DEF Process
  <2>2. \/ Die(n, net) /\ UNCHANGED host
        \/ WriteClientSock(n, "success", p)
    BY <1>5 DEF Report
  <2> HIDE DEF p
  <2>3. /\ \A h : h[n].vrd = host[n].vrd => Counted(n, p, h)
        /\ Milder(proc[n], p) /\ p.pc \notin Configures
    BY <1>1, <2>1, ServerLen DEF Counted, Milder, Reading, Configures
  <2>4. server_len > 1 => server_len <= 2 /\ host[n].vrd
    <3>1. server_len > 1 => host[n].vrd
      BY <1>1, <1>4, <1>5, ServerLen DEF Counted
    <3> QED
      BY <3>1, ServerLen DEF SInv, OnlyTwoServersAssemble
  <2> QED
    BY <1>1, <1>3, <2>2, <2>3, <2>4, DieQuiet, HostSame
<1>6. CASE proc[n].nbd_count # server_len - 1
  <2> DEFINE q == [proc[n] EXCEPT !.unsuccess_flag = 0, !.pc = "loop"]
  <2>1. /\ q.pc = "loop" /\ q.nbd_count = proc[n].nbd_count
        /\ q.count = proc[n].count /\ q.reply = proc[n].reply
    BY <1>1 DEF Process
  <2>2. WriteClientSock(n, "unsuccess", q)
    BY <1>6 DEF Report
  <2> HIDE DEF q
  <2>3. server_len <= 2 => proc[n].nbd_count = 0
    BY <1>1, <1>4, <1>6, ServerLen DEF Counted
  <2>4. /\ \A h : h[n].vrd = host[n].vrd => Counted(n, q, h)
        /\ Milder(proc[n], q) /\ q.pc \notin Configures
    BY <1>1, <2>1, <2>3, ServerLen DEF Counted, Milder, Reading, Configures
  <2> QED
    BY <1>3, <2>2, <2>4
<1> QED
  BY <1>5, <1>6

LEMMA CrashSetup ==
  ASSUME SInv, IInv', NEW n \in Server, Crash(n)
  PROVE  SInv' /\ Sends(n, 0)
BY NetSafe, DieQuiet, HostSame DEF Crash

LEMMA RestartSetup ==
  ASSUME SInv, IInv', NEW n \in Server, Restart(n)
  PROVE  SInv' /\ Sends(n, 0)
<1>1. Become(n, net, Started) /\ UNCHANGED <<host, client>>
  BY DEF Restart, Become
<1>2. /\ Started.pc = "loop" /\ Started.count = 0 /\ Started.nbd_count = 0
      /\ Started.reply = "eof"
  BY DEF Started
<1>3. Counted(n, Started, host') /\ Milder(proc[n], Started)
  BY <1>2, ServerLen DEF Counted, Milder, Reading
<1> QED
  BY <1>1, <1>2, <1>3, NetSafe, BecomeQuiet, HostSame DEF Configures

-----------------------------------------------------------------------------
(* The client programs.                                                    *)

\* A step of the client c, which leaves every controller as it is.
LEMMA ClientKeeps ==
  ASSUME SInv, IInv', NEW c \in Client, UNCHANGED <<proc, host>>,
         Good(net', client'), Calm(net, net', 0), net'.fdt = net.fdt,
         \A d \in Client \ {c} : client'[d] = client[d],
         \A n \in Server : Holding(net, n, -client'[c].end) =>
                             client'[c].end = client[c].end,
         client'[c].st \in {"waiting", "missed"} => client'[c].end # 0,
         server_len > 1 =>
           /\ client'[c].end # 0 /\ SuccessAt(net', client'[c].end) => Done
           /\ client'[c].st = "told" => Done
  PROVE  SInv'
<1>1. \A n \in Server : /\ Counted(n, proc[n], host)
                        /\ Configuring(n, net, proc[n], host, client)
  BY DEF SInv
<1>2. \A n \in Server : Configuring(n, net', proc[n], host, client')
  <2> SUFFICES ASSUME NEW n \in Server, proc[n].pc \in Configures, NEW d \in Client
               PROVE  /\ host[n].bestio
                      /\ proc[n].i \in Fd /\ net'.fdt[n][proc[n].i] \in End
                      /\ client'[d].end # - net'.fdt[n][proc[n].i]
    BY <1>1 DEF Configuring
  <2> DEFINE e == net.fdt[n][proc[n].i]
  <2>1. /\ host[n].bestio /\ proc[n].i \in Fd /\ e \in End
        /\ \A a \in Client : client[a].end # -e
    BY <1>1 DEF Configuring
  <2>2. Holding(net, n, e) /\ -(-e) = e
    BY <2>1 DEF Holding, End
  <2> HIDE DEF e
  <2>3. client'[d].end # -e
    <3>1. CASE d = c
      <4> SUFFICES ASSUME client'[c].end = -e PROVE FALSE
        BY <3>1
      <4>1. Holding(net, n, -client'[c].end)
        BY <2>2
      <4> QED
        BY <2>1, <4>1
    <3>2. CASE d # c
      BY <2>1, <3>2
    <3> QED
      BY <3>1, <3>2
  <2> QED
    BY <2>1, <2>3 DEF e
<1>3. \A n \in Server : ExpectsTrue(n)'
  <2> SUFFICES ASSUME NEW n \in Server PROVE ExpectsTrue(n)'
    OBVIOUS
  <2>1. ExpectsTrue(n) /\ \A k \in Conn : Token(net', n, k) => Token(net, n, k)
    BY DEF SInv, Calm, Conn
  <2>2. /\ Expects(n, net', proc[n]) => Expects(n, net, proc[n])
        /\ OneToken(n, net, proc[n]) => OneToken(n, net', proc[n])
    BY <2>1 DEF Expects, OneToken
  <2> QED
    BY <2>1, <2>2 DEF ExpectsTrue
<1>4. ClientsTrue'
  <2> SUFFICES ASSUME server_len > 1, NEW d \in Client
               PROVE  /\ client'[d].end # 0 /\ SuccessAt(net', client'[d].end)
                           => Done
                      /\ client'[d].st = "told" => Done
    BY DEF ClientsTrue, Done
  <2>1. CASE d = c
    BY <2>1
  <2>2. CASE d # c
    <3>1. /\ client'[d] = client[d]
          /\ client[d].end # 0 /\ SuccessAt(net, client[d].end) => Done
          /\ client[d].st = "told" => Done
      BY <2>2 DEF SInv, ClientsTrue
    <3>2. client[d].end \in {0} \cup Conn /\ 0 \notin Conn
      BY DEF SInv, IInv, ClientState, Conn
    <3> QED
      BY <3>1, <3>2 DEF Calm
  <2> QED
    BY <2>1, <2>2
<1>5. Asked'
  <2> SUFFICES ASSUME NEW d \in Client, client'[d].st \in {"waiting", "missed"}
               PROVE  client'[d].end # 0
    BY DEF Asked
  <2> QED
    BY DEF SInv, Asked
<1>6. DiskIsWhole' /\ OnlyTwoServersAssemble'
  BY DEF SInv, DiskIsWhole, OnlyTwoServersAssemble
<1> QED
  BY <1>1, <1>2, <1>3, <1>4, <1>5, <1>6 DEF SInv, Good

LEMMA RequestSetup ==
  ASSUME SInv, IInv', NEW c \in Client, NEW n \in Server,
         NEW word \in {"USER_SET_CONFIG", "mount"},
         NEW after \in {"waiting", "gone"}, Request(c, n, word, after)
  PROVE  SInv'
<1>1. /\ Safe(n, net) /\ net \in Kernel(Message) /\ net.made < MaxConns
      /\ client \in [Client -> ClientState] /\ UNCHANGED <<proc, host>>
      /\ Good(net, client)
  BY NetSafe DEF Safe, KernelOf, Request, Room, SInv, IInv
<1>2. CASE ~ Listens(n, net)
  <2>1. client' = [client EXCEPT ![c].st = "refused"] /\ UNCHANGED net
    BY <1>2 DEF Request
  <2>2. /\ \A d \in Client : client'[d].end = client[d].end
        /\ \A d \in Client \ {c} : client'[d] = client[d]
        /\ client'[c].st = "refused"
    BY <1>1, <2>1 DEF ClientState
  <2>3. Good(net', client')
    BY <1>1, <2>1, <2>2 DEF Good, Private
  <2> QED
    BY <1>1, <2>1, <2>2, <2>3, ClientKeeps DEF Calm, SInv, ClientsTrue
<1>3. CASE Listens(n, net)
  <2> DEFINE k == net.made + 1
             m == Say(word)
             u == Connect(net, n)
             w == Write(u, k, m)
  <2>1. /\ client' = [client EXCEPT ![c] = [st |-> after, end |-> k]]
        /\ net' = IF after = "gone" THEN CloseEnds(w, {k}, {}) ELSE w
    BY <1>3 DEF Request
  <2>2. /\ m \in Message /\ m.word \in {"USER_SET_CONFIG", "mount"}
    BY SayMessage DEF Word, Command
  <2>3. /\ u \in Kernel(Message) /\ k \in Conn /\ k \in End /\ -k \in End
        /\ k # -k /\ k # 0 /\ k > net.made /\ u.made = k
        /\ u.fdt = net.fdt /\ u.inq = net.inq /\ u.err = net.err
    <3>1. /\ u \in Kernel(Message) /\ k \in Conn /\ u.made = k
          /\ u.fdt = net.fdt /\ u.inq = net.inq /\ u.err = net.err
      BY <1>1, ConnectKernel, ConnectFields
    <3>2. net.made \in Nat
      BY <1>1, KernelFields
    <3>3. k > net.made /\ k > 0
      BY <3>2
    <3> HIDE DEF k, u
    <3>4. k \in End /\ -k \in End
      BY <3>1, EndFacts
    <3>5. k # -k /\ k # 0
      BY <3>1, <3>3 DEF Conn
    <3> QED
      BY <3>1, <3>3, <3>4, <3>5
  <2>4. /\ Good(u, client) /\ Calm(net, u, 0)
        /\ \A a \in Server : ~ Holding(u, a, k) /\ ~ Holding(u, a, -k)
        /\ u.inq[k] = <<>> /\ u.inq[-k] = <<>> /\ u.err[-k] # "reset"
    BY <1>1, ConnectGood
  <2> HIDE DEF u, k, m
  <2>5. /\ w \in Kernel(Message)
        /\ w.fdt = u.fdt /\ w.backlog = u.backlog /\ w.made = u.made
        /\ \A x \in End : \/ w.inq[x] = u.inq[x]
                          \/ x = -k /\ w.inq[x] = Append(u.inq[x], m)
        /\ \A x \in End : w.err[x] = "pipe" \/ w.err[x] = u.err[x]
    BY <2>2, <2>3, WriteKernel, WriteFields
  <2>6. w.inq[k] = <<>>
    BY <2>3, <2>4, <2>5
  <2> HIDE DEF w
  <2>7. /\ net'.fdt = u.fdt /\ net'.backlog = u.backlog /\ net'.made = u.made
        /\ \A x \in End : net'.inq[x] = <<>> \/ net'.inq[x] = w.inq[x]
        /\ \A x \in End : net'.err[x] = "reset" => w.err[x] = "reset"
    <3>1. CASE after = "gone"
      <4>1. net' = CloseEnds(w, {k}, {})
        BY <2>1, <3>1
      <4>2. \A x \in End : -x = k /\ w.inq[-x] # <<>> => FALSE
        BY <2>6
      <4> QED
        BY <2>5, <4>1, <4>2, CloseEndsFields
    <3>2. CASE after # "gone"
      BY <2>1, <2>5, <3>2
    <3> QED
      BY <3>1, <3>2
  <2>8. /\ \A x \in End \ {-k} : net'.inq[x] = <<>> \/ net'.inq[x] = u.inq[x]
        /\ net'.inq[-k] = <<>> \/ net'.inq[-k] = <<m>>
        /\ \A x \in End : net'.err[x] = "reset" => u.err[x] = "reset"
    <3>1. Append(<<>>, m) = <<m>>
      OBVIOUS
    <3> QED
      BY <2>3, <2>4, <2>5, <2>7, <3>1
  <2>9. \A j \in Conn : j \in End /\ -j \in End /\ j # -k /\ (j # k => -j # -k)
    BY <2>3, EndFacts DEF Conn
  <2>10. /\ \A a, x : Holding(net', a, x) <=> Holding(u, a, x)
         /\ \A a, x : Waits(net', a, x) <=> Waits(u, a, x)
    BY <2>7 DEF Holding, Waits
  <2>11. Wired(net')
    <3>1. \A j \in Conn : j > net'.made => Untouched(net', j)
      <4> SUFFICES ASSUME NEW j \in Conn, j > u.made PROVE Untouched(net', j)
        BY <2>7
      <4>1. Untouched(u, j) /\ j # k
        BY <2>3, <2>4 DEF Good, Wired, Conn
      <4> QED
        BY <2>8, <2>9, <2>10, <4>1 DEF Untouched
    <3>2. \A j \in Conn : \A a, b \in Server :
            Holding(net', a, j) /\ (Holding(net', b, -j) \/ Waits(net', b, j)) =>
              server_len > 1 /\ b = FirstPeer(a)
      BY <2>4, <2>10 DEF Good, Wired
    <3> QED
      BY <3>1, <3>2 DEF Wired
  <2>12. \A d \in Client : client'[d] = IF d = c THEN [st |-> after, end |-> k]
                                        ELSE client[d]
    BY <1>1, <2>1
  <2>13. Private(net', client')
    <3> SUFFICES ASSUME NEW d \in Client, client'[d].end # 0
                 PROVE  LET j == client'[d].end IN
                        /\ j <= net'.made
                        /\ \A a \in Server : ~ Holding(net', a, j)
                        /\ \A i \in 1..Len(net'.inq[-j]) :
                             net'.inq[-j][i].word \in {"USER_SET_CONFIG", "mount"}
                        /\ net'.err[-j] # "reset"
      BY DEF Private
    <3>1. CASE d = c
      <4>1. client'[d].end = k
        BY <2>12, <3>1
      <4>2. \A i \in 1..Len(net'.inq[-k]) :
              net'.inq[-k][i].word \in {"USER_SET_CONFIG", "mount"}
        BY <2>2, <2>8
      <4>3. k <= net'.made /\ net'.err[-k] # "reset"
        BY <2>3, <2>4, <2>7, <2>8 DEF Conn
      <4> QED
        BY <2>4, <2>10, <4>1, <4>2, <4>3
    <3>2. CASE d # c
      <4> DEFINE j == client[d].end
      <4>1. client'[d].end = j
        BY <2>12, <3>2
      <4>2. j \in Conn
        BY <1>1, <4>1 DEF ClientState
      <4>3. j <= net.made
        BY <1>1, <4>1 DEF Good, Private
      <4>4. /\ j <= u.made
            /\ \A a \in Server : ~ Holding(u, a, j)
            /\ \A i \in 1..Len(u.inq[-j]) :
                 u.inq[-j][i].word \in {"USER_SET_CONFIG", "mount"}
            /\ u.err[-j] # "reset"
        BY <2>4, <4>1 DEF Good, Private
      <4> HIDE DEF j
      <4>5. j # k /\ -j \in End /\ -j # -k
        <5>1. net.made \in Nat
          BY <1>1, KernelFields
        <5>2. j # k
          BY <2>3, <4>2, <4>3, <5>1 DEF Conn
        <5> QED
          BY <2>9, <4>2, <5>2
      <4>6. net'.inq[-j] = <<>> \/ net'.inq[-j] = u.inq[-j]
        BY <2>8, <4>5
      <4>7. \A i \in 1..Len(net'.inq[-j]) :
              net'.inq[-j][i].word \in {"USER_SET_CONFIG", "mount"}
        BY <4>4, <4>6
      <4> QED
        BY <2>7, <2>8, <2>10, <4>1, <4>4, <4>5, <4>7
    <3> QED
      BY <3>1, <3>2
  <2>14. \A j \in Conn : SuccessAt(net', j) => SuccessAt(net, j) /\ j # k
    <3> SUFFICES ASSUME NEW j \in Conn, SuccessAt(net', j)
                 PROVE  SuccessAt(net, j) /\ j # k
      OBVIOUS
    <3>1. j \in End \ {-k}
      BY <2>9
    <3>2. SuccessAt(u, j)
      BY <2>8, <3>1, SameQueue
    <3> QED
      BY <2>3, <2>4, <3>2 DEF SuccessAt
  <2>15. Calm(net, net', 0) /\ net'.fdt = net.fdt
    BY <2>3, <2>7, <2>14 DEF Calm, Token, Holding
  <2>16. \A a \in Server : ~ Holding(net, a, -k)
    BY <2>3, <2>4 DEF Holding
  <2>17. client'[c].end = k /\ client'[c].st = after
    BY <2>12
  <2> QED
    BY <1>1, <2>3, <2>11, <2>12, <2>13, <2>14, <2>15, <2>16, <2>17, ClientKeeps
       DEF Good
<1> QED
  BY <1>2, <1>3

LEMMA SetupReadSetup ==
  ASSUME SInv, IInv', NEW c \in SetupClient, SetupRead(c) PROVE SInv'
<1> DEFINE k == client[c].end
           w == Drain(net, k)
<1>1. PICK st \in {"told", "failed", "missed"} :
        /\ client' = [client EXCEPT ![c].st = st]
        /\ net' = IF st = "missed" THEN w ELSE CloseEnds(w, {k}, {})
        /\ st = "told" => net.inq[k] = <<Say("success")>>
  BY DEF SetupRead
<1>2. /\ c \in Client /\ client \in [Client -> ClientState]
      /\ net \in Kernel(Facts) /\ Good(net, client)
      /\ UNCHANGED <<proc, host>>
  BY DEF SInv, IInv, Client, SetupRead, Good
<1>3. k # 0 /\ k \in Conn /\ k \in End
  BY <1>2, EndFacts DEF SInv, Asked, SetupRead, ClientState
<1>4. /\ w \in Kernel(Facts) /\ w.fdt = net.fdt /\ w.inq[k] = <<>>
      /\ Shrinks(net, w)
  BY <1>2, <1>3, DrainKernel, DrainFields, DrainShrinks
<1> HIDE DEF k, w
<1>5. net'.fdt = net.fdt /\ Shrinks(net, net')
  <2>1. CASE st = "missed"
    BY <1>1, <1>4, <2>1
  <2>2. CASE st # "missed"
    <3>1. /\ net'.fdt = w.fdt /\ net'.backlog = w.backlog
          /\ net'.made = w.made
          /\ \A x \in End : net'.inq[x] = <<>> \/ net'.inq[x] = w.inq[x]
          /\ \A x \in End : net'.err[x] = "reset" =>
               w.err[x] = "reset" \/ (-x \in {k} /\ w.inq[-x] # <<>>)
      BY <1>1, <1>4, <2>2, CloseEndsFields
    <3>2. \A x \in End : net'.err[x] = "reset" => w.err[x] = "reset"
      BY <1>4, <3>1
    <3> QED
      BY <1>4, <3>1, <3>2, EndFacts DEF Shrinks, Holding
  <2> QED
    BY <2>1, <2>2
<1>6. Good(net', client) /\ Calm(net, net', 0)
  BY <1>2, <1>5, ShrinksGood
<1>7. /\ \A d \in Client : client'[d].end = client[d].end
      /\ \A d \in Client \ {c} : client'[d] = client[d]
      /\ client'[c].st = st /\ client'[c].end = k
  BY <1>1, <1>2 DEF ClientState, k
<1>8. Good(net', client')
  BY <1>6, <1>7 DEF Good, Private
<1>9. server_len > 1 /\ SuccessAt(net, k) => Done
  BY <1>2, <1>3 DEF SInv, ClientsTrue, k
<1>10. st = "told" => SuccessAt(net, k)
  <2> SUFFICES ASSUME st = "told" PROVE SuccessAt(net, k)
    OBVIOUS
  <2> DEFINE m == Say("success")
  <2>1. m.word = "success"
    BY DEF Say
  <2> HIDE DEF m
  <2>2. net.inq[k] = <<m>>
    BY <1>1 DEF m
  <2>3. Len(<<m>>) = 1 /\ <<m>>[1] = m
    OBVIOUS
  <2>4. 1 \in 1..Len(net.inq[k]) /\ net.inq[k][1].word = "success"
    BY <2>1, <2>2, <2>3
  <2> QED
    BY <2>4 DEF SuccessAt
<1> QED
  BY <1>2, <1>3, <1>5, <1>6, <1>7, <1>8, <1>9, <1>10, ClientKeeps DEF Calm, k

-----------------------------------------------------------------------------
(* The invariant of the specification.                                     *)

LEMMA InitSetup == ASSUME Init PROVE SInv
<1>1. IInv
  BY InitIInv
<1>2. /\ \A e \in End : net.inq[e] = <<>> /\ net.err[e] = "none"
      /\ \A n \in Server : \A f \in Fd : net.fdt[n][f] = Free
      /\ \A n \in Server : net.backlog[n] = <<>>
  BY DEF Init, Boot
<1>3. /\ \A k \in Conn : k \in End /\ -k \in End /\ ~ SuccessAt(net, k)
      /\ \A n \in Server : \A k \in End : ~ Holding(net, n, k) /\ ~ Waits(net, n, k)
  BY <1>2, EndFacts DEF SuccessAt, Holding, Waits, End, Free
<1>4. /\ \A n \in Server : proc[n] = Started
      /\ \A n \in Server : ~ host[n].bestio /\ ~ host[n].vrd
      /\ \A c \in Client : client[c].end = 0 /\ client[c].st = "init"
  BY DEF Init
<1>5. Wired(net) /\ Private(net, client)
  BY <1>2, <1>3, <1>4 DEF Wired, Untouched, Private
<1>6. ASSUME NEW n \in Server
      PROVE  /\ Counted(n, proc[n], host)
             /\ Configuring(n, net, proc[n], host, client)
  BY <1>4, ServerLen DEF Counted, Configuring, Started, Reading, Configures
<1>7. ASSUME NEW n \in Server PROVE ExpectsTrue(n)
  <2>1. /\ proc[n].count = 0 /\ proc[n].reply = "eof"
        /\ \A k \in Conn : ~ Token(net, n, k)
    BY <1>3, <1>4 DEF Started, Token
  <2> QED
    BY <2>1 DEF ExpectsTrue, Expects, OneToken
<1>8. Asked /\ ClientsTrue /\ DiskIsWhole /\ OnlyTwoServersAssemble
  BY <1>4, ServerLen DEF Asked, ClientsTrue, DiskIsWhole, OnlyTwoServersAssemble,
     Client
<1> QED
  BY <1>1, <1>5, <1>6, <1>7, <1>8 DEF SInv

LEMMA NextSetup == ASSUME SInv, [Next]_vars PROVE SInv'
<1> USE NextIInv
<1>0. IInv'
  BY DEF SInv
<1>1. CASE UNCHANGED vars
  <2>1. net' = net /\ proc' = proc /\ host' = host /\ client' = client
    BY <1>1 DEF vars
  <2>2. Wired(net)' /\ Private(net, client)'
    BY <2>1 DEF SInv, Wired, Private, Untouched, Holding, Waits
  <2>3. \A n \in Server : /\ Counted(n, proc[n], host)'
                          /\ Configuring(n, net, proc[n], host, client)'
    BY <2>1 DEF SInv, Counted, Configuring
  <2>4. \A n \in Server : ExpectsTrue(n)'
    BY <2>1 DEF SInv, ExpectsTrue, Expects, OneToken, Token, Holding, SuccessAt
  <2>5. /\ Asked' /\ ClientsTrue'
        /\ DiskIsWhole' /\ OnlyTwoServersAssemble'
    BY <2>1 DEF SInv, Asked, ClientsTrue, Done, SuccessAt, DiskIsWhole,
       OnlyTwoServersAssemble
  <2> QED
    BY <1>0, <2>2, <2>3, <2>4, <2>5 DEF SInv
<1>2. ASSUME NEW n \in Server, Handle(n) PROVE SInv'
  BY <1>0, <1>2, AcceptClientSetup, ReadEofSetup, ControllerSetConfigSetup,
     SetConfigSetup, MountSetup, MountSetOnSetup, NbdSetOnSetup,
     UserSetConfigSetup, StartNbdServerSetup, SetConfigDoneSetup,
     MsgSendReadOnSetup, MsgSendReadResultSetup, AssembleSetup, AssembleModuleSetup,
     NbdMsgSendReadSetup, ReportSetup DEF Handle
<1>3. ASSUME NEW n \in Server, Crash(n) \/ Restart(n) PROVE SInv'
  BY <1>0, <1>3, CrashSetup, RestartSetup
<1>4. CASE Ask
  BY <1>0, <1>4, RequestSetup DEF Ask, SetupRequest, MountRequest, Client
<1>5. ASSUME NEW c \in SetupClient, SetupRead(c) PROVE SInv'
  BY <1>0, <1>5, SetupReadSetup
<1> QED
  BY <1>1, <1>2, <1>3, <1>4, <1>5 DEF Next

\* Every behaviour of the cluster satisfies the invariant of a setup.
THEOREM SetupInvariance == Spec => []SInv
<1>1. Init => SInv
  BY InitSetup
<1>2. SInv /\ [Next]_vars => SInv'
  BY NextSetup
<1> QED
  BY <1>1, <1>2, PTL DEF Spec

\* With one or two servers a controller that waits in select has both counters
\* at zero, whatever failed or died in the rounds before.
THEOREM RoundsReset == Spec => []RoundCountersReset
<1>1. SInv => RoundCountersReset
  BY DEF SInv, Counted, RoundCountersReset
<1> QED
  BY <1>1, SetupInvariance, PTL

\* The module that concatenates the ramdisks is only ever loaded when every
\* host has its own, for any number of servers and with crashes and faults.
THEOREM WholeDisk == Spec => []DiskIsWhole
<1>1. SInv => DiskIsWhole
  BY DEF SInv
<1> QED
  BY <1>1, SetupInvariance, PTL

\* With three servers or more, msg_send never counts all the peers and no disk
\* is put together, however often it is asked for.
THEOREM TwoServersOnly == Spec => []OnlyTwoServersAssemble
<1>1. SInv => OnlyTwoServersAssemble
  BY DEF SInv
<1> QED
  BY <1>1, SetupInvariance, PTL
=============================================================================
