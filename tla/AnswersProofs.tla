--------------------------- MODULE AnswersProofs ---------------------------
(***************************************************************************)
(* The conversation between two controllers, with faults, crashes, reused  *)
(* descriptors and any number of clients: a controller that blocks in      *)
(* read() is sent the answer to its last question and nothing else, and    *)
(* messages that no framing would keep apart do not meet in a queue.       *)
(*                                                                         *)
(* The danger is client_sock.  "success" is written to whatever connection *)
(* that number names by then, which may be one of the controller's own or  *)
(* the one by which its peer asks it something.  It does no harm because   *)
(* of what lies on the way to the report: a peer that has answered         *)
(* "success" is not asking, a controller that has read it accepts nothing  *)
(* until it has reported, and vrd is loaded once, so a host reports once.  *)
(*                                                                         *)
(* From the conversation follows that the coordinator and its peers have   *)
(* the same dmbd_config when it has reported success, as long as nobody    *)
(* mounts or is killed and descriptors last; and that a client who is told *)
(* "success" is told of a disk made of every host's ramdisk, as long as    *)
(* nbd-server and nbd-client work: Controller then implements Setup.       *)
(***************************************************************************)
EXTENDS SetupProofs

-----------------------------------------------------------------------------
(* The kernel: who may write to an end, and who has it.                    *)

OneHolder(w) ==
  \A n, m \in Server : \A f, g \in Fd :
    w.fdt[n][f] \in End /\ w.fdt[n][f] = w.fdt[m][g] => n = m /\ f = g

HeldOpen(w) == \A n \in Server, e \in End : Holding(w, n, e) => w.open[e]

\* A connection that waits to be accepted has one listener, and was not written
\* to by it.
WaitingFresh(w) ==
  \A n \in Server : \A j \in 1..Len(w.backlog[n]) :
    LET k == w.backlog[n][j] IN
    /\ w.open[-k] /\ w.inq[k] = <<>>
    /\ \A m \in Server : ~ Holding(w, m, -k)

OneListener(w) ==
  \A n, m \in Server :
    \A i \in 1..Len(w.backlog[n]), j \in 1..Len(w.backlog[m]) :
      w.backlog[n][i] = w.backlog[m][j] => n = m /\ i = j

\* Nothing reaches an end that is closed, and errors tell of the other end.
ClosedEmpty(w) ==
  \A e \in End : /\ ~ w.open[e] => w.inq[e] = <<>>
                 /\ w.err[e] # "none" => ~ w.open[-e]

UnusedClosed(w) ==
  \A k \in Conn : k > w.made =>
    /\ ~ w.open[k] /\ ~ w.open[-k]
    /\ k \notin w.kept /\ -k \notin w.kept
    /\ w.err[k] = "none" /\ w.err[-k] = "none"

Sound(w) ==
  /\ OneHolder(w) /\ HeldOpen(w)
  /\ WaitingFresh(w) /\ OneListener(w)
  /\ ClosedEmpty(w) /\ UnusedClosed(w)

-----------------------------------------------------------------------------
(* The conversation.                                                       *)

\* The process n is blocked in read() on the connection k that it opened.
Reads(w, p, n, k) == p[n].pc \in Reading /\ w.fdt[n][p[n].sock] = k

Question(pc) == CASE pc = "read_on"     -> "CONTROLLER_SET_CONFIG"
                  [] pc = "read_result" -> "config"
                  [] pc = "read_nbd"    -> "NBD_SET_ON"

Answer(pc) == CASE pc = "read_on"     -> "CONTROL_SET_ON"
                [] pc = "read_result" -> "success"
                [] pc = "read_nbd"    -> "NBD_CLIENT_LOAD"

\* At most one message, and that one of W.
AtMost(s, W) == s = <<>> \/ (Len(s) = 1 /\ s[1].word \in W)

\* The question, or the answer to it, or neither; and no daemon has the end.
InTurn(w, k, pc) ==
  /\ k \notin w.kept
  /\ w.inq[k] = <<>> \/ w.inq[-k] = <<>>
  /\ AtMost(w.inq[-k], {Question(pc)})
  /\ AtMost(w.inq[k], {Answer(pc)})

\* The announcement of a mount, then a report to its sender's own socket.
MisledReport(s) ==
  Len(s) = 2 /\ s[1].word = "MOUNT_SET_ON" /\ s[2].word = "success"

\* What is left on a connection that nobody reads: at most a report on the way
\* to where it was opened, and nothing that would be answered on the other.
Idle(w, k) ==
  /\ AtMost(w.inq[k], {"success"})
  /\ AtMost(w.inq[-k], Word) \/ MisledReport(w.inq[-k])
  /\ w.open[k] =>
       \A j \in 1..Len(w.inq[-k]) :
         w.inq[-k][j].word \in {"USER_SET_CONFIG", "mount", "MOUNT_SET_ON", "success"}
  /\ (\E n \in Server : Holding(w, n, k)) =>
       \A j \in 1..Len(w.inq[-k]) :
         w.inq[-k][j].word \in {"MOUNT_SET_ON", "success"}

Talk(w, p) ==
  /\ \A n \in Server, k \in Conn : Reads(w, p, n, k) => InTurn(w, k, p[n].pc)
  /\ \A k \in Conn : (\A n \in Server : ~ Reads(w, p, n, k)) => Idle(w, k)

\* The memory of one process: nobody is ever refused.
Remembers(p) ==
  /\ p.pc = "read_result" => p.reply \in {"eof", "CONTROL_SET_ON"}
  /\ p.unsuccess_flag = 0
  /\ p.pc = "report" => p.nbd_count = server_len - 1

\* A host that is about to answer "success" answers a controller that waits for
\* it and has sent nothing else, or nobody any more.
AboutToAnswer(w, p, m) ==
  p[m].pc \in Configures =>
    /\ p[m].i \in Fd
    /\ \E e \in End :
         /\ w.fdt[m][p[m].i] = e
         /\ w.open[-e] =>
              /\ -e \in Conn /\ w.inq[e] = <<>> /\ w.inq[-e] = <<>>
              /\ \E n \in Server : Reads(w, p, n, -e) /\ p[n].pc = "read_result"

\* From the "success" of its peer to its own report, ...
Working(w, p, n) ==
  \/ p[n].pc \in {"assemble", "module", "read_nbd", "report"}
  \/ p[n].pc = "read_result" /\ w.inq[w.fdt[n][p[n].sock]] # <<>>

\* ... a controller has accepted no connection by which somebody now asks it.
Deaf(w, p, n) ==
  server_len <= 2 /\ Working(w, p, n) =>
    \A m \in Server, k \in Conn : Reads(w, p, m, k) => ~ Holding(w, n, -k)

\* A host that may still report has not reported to a connection it holds: a
\* "success" on its way there is one that the reader waits for.
Unreported(w, p, h, n) ==
  ~ h[n].vrd \/ p[n].pc \in {"read_nbd", "report"} =>
    \A e \in End : Holding(w, n, e) /\ SuccessAt(w, -e) =>
      \E m \in Server : Reads(w, p, m, -e) /\ p[m].pc = "read_result"

Each(w, p, h, n) ==
  /\ Settled(n, w, p[n])
  /\ Remembers(p[n])
  /\ AboutToAnswer(w, p, n)
  /\ Deaf(w, p, n)
  /\ Unreported(w, p, h, n)

Conversation(w, p, h) ==
  /\ Sound(w)
  /\ Talk(w, p)
  /\ \A n \in Server : Each(w, p, h, n)

-----------------------------------------------------------------------------
(* What the calls do, field by field.                                      *)

LEMMA DrainExact ==
  ASSUME NEW Msg, NEW w \in Kernel(Msg), NEW e \in End
  PROVE  LET v == Drain(w, e) IN
         /\ v.fdt = w.fdt /\ v.backlog = w.backlog /\ v.made = w.made
         /\ v.kept = w.kept
         /\ v.open = w.open /\ v.inq = [w.inq EXCEPT ![e] = <<>>]
         /\ \A x \in End : v.err[x] # "none" => w.err[x] # "none"
<1> DEFINE q == [w.inq EXCEPT ![e] = <<>>]
           a == IF w.inq[e] = <<>> /\ w.err[e] = "reset" THEN "pipe"
                ELSE w.err[e]
           r == [w.err EXCEPT ![e] = a]
<1>1. w.err \in [End -> {"none", "reset", "pipe"}]
  BY KernelFields
<1>2. \A x \in End : r[x] # "none" => w.err[x] # "none"
  BY <1>1
<1>3. Drain(w, e) = [w EXCEPT !.inq = q, !.err = r]
  BY DEF Drain, Kernel
<1> HIDE DEF q, r
<1>4. LET v == Drain(w, e) IN
      /\ v.fdt = w.fdt /\ v.backlog = w.backlog /\ v.made = w.made
      /\ v.kept = w.kept
      /\ v.open = w.open /\ v.inq = q /\ v.err = r
  BY <1>3 DEF Kernel
<1> QED
  BY <1>2, <1>4 DEF q

LEMMA TakeExact ==
  ASSUME NEW Msg, NEW w \in Kernel(Msg), NEW n, NEW s
  PROVE  LET v == Take(w, n, s) IN
         /\ v.inq = w.inq /\ v.err = w.err /\ v.backlog = w.backlog
         /\ v.made = w.made /\ v.open = w.open /\ v.kept = w.kept
BY DEF Take, Kernel

LEMMA WriteExact ==
  ASSUME NEW Msg, NEW w \in Kernel(Msg), NEW e \in End, NEW m \in Msg
  PROVE  LET v == Write(w, e, m) IN
         /\ v.fdt = w.fdt /\ v.backlog = w.backlog /\ v.made = w.made
         /\ v.open = w.open /\ v.kept = w.kept
         /\ \A x \in End : x # -e => v.inq[x] = w.inq[x]
         /\ w.open[-e] => /\ v.inq[-e] = Append(w.inq[-e], m)
                          /\ v.err = w.err
         /\ ~ w.open[-e] => /\ v.inq = w.inq
                            /\ \A x \in End : x # e => v.err[x] = w.err[x]
<1> DEFINE y == -e
           a == Append(w.inq[y], m)
           q == [w.inq EXCEPT ![y] = a]
           r == [w.err EXCEPT ![e] = "pipe"]
           v == Write(w, e, m)
<1>1. w.inq \in [End -> Seq(Msg)] /\ w.err \in [End -> {"none", "reset", "pipe"}]
  BY KernelFields
<1>2. y \in End
  BY EndFacts
<1> HIDE DEF y, a
<1>3. q[y] = a /\ \A x \in End : x # y => q[x] = w.inq[x]
  BY <1>1, <1>2
<1>4. \A x \in End : x # e => r[x] = w.err[x]
  BY <1>1
<1>5. CASE w.open[-e]
  <2>1. v = [w EXCEPT !.inq = q]
    BY <1>5 DEF Write, Kernel, y, a
  <2> HIDE DEF q, r, v
  <2>2. /\ v.fdt = w.fdt /\ v.backlog = w.backlog /\ v.made = w.made
        /\ v.open = w.open /\ v.inq = q /\ v.err = w.err
        /\ v.kept = w.kept
    BY <2>1 DEF Kernel
  <2> QED
    BY <1>3, <1>5, <2>2 DEF v, y, a
<1>6. CASE ~ w.open[-e]
  <2>1. v = [w EXCEPT !.err = r]
    BY <1>6 DEF Write, Kernel
  <2> HIDE DEF q, r, v
  <2>2. /\ v.fdt = w.fdt /\ v.backlog = w.backlog /\ v.made = w.made
        /\ v.open = w.open /\ v.inq = w.inq /\ v.err = r
        /\ v.kept = w.kept
    BY <2>1 DEF Kernel
  <2> QED
    BY <1>4, <1>6, <2>2 DEF v
<1> QED
  BY <1>5, <1>6

LEMMA ConnectExact ==
  ASSUME NEW Msg, NEW w \in Kernel(Msg), NEW n \in Server, w.made < MaxConns
  PROVE  LET v == Connect(w, n)
             k == w.made + 1 IN
         /\ v.fdt = w.fdt /\ v.inq = w.inq /\ v.err = w.err
         /\ v.made = k /\ k \in Conn /\ v.kept = w.kept
         /\ v.backlog = [w.backlog EXCEPT ![n] = Append(@, k)]
         /\ \A e \in End : v.open[e] <=> e \in {k, -k} \/ w.open[e]
<1> DEFINE k == w.made + 1
           o == [e \in End |-> e \in {k, -k} \/ w.open[e]]
           v == Connect(w, n)
<1>1. v.open = o /\ v.kept = w.kept
  BY DEF Connect, Kernel
<1>2. \A e \in End : o[e] <=> e \in {k, -k} \/ w.open[e]
  OBVIOUS
<1> QED
  BY <1>1, <1>2, ConnectFields

LEMMA CloseEndsExact ==
  ASSUME NEW Msg, NEW w \in Kernel(Msg), NEW E, NEW U
  PROVE  LET v == CloseEnds(w, E, U) IN
         /\ v.fdt = w.fdt /\ v.backlog = w.backlog /\ v.made = w.made
         /\ v.kept = w.kept
         /\ \A x \in End : v.inq[x] = IF x \in E THEN <<>> ELSE w.inq[x]
         /\ \A x \in End : v.open[x] <=> x \notin E /\ w.open[x]
         /\ \A x \in End : v.err[x] = w.err[x] \/ (-x \in E /\ w.open[x])
<1> DEFINE q == [e \in End |-> IF e \in E THEN <<>> ELSE w.inq[e]]
           o == [e \in End |-> e \notin E /\ w.open[e]]
           r == [e \in End |-> IF /\ -e \in E
                                  /\ w.open[e]
                                  /\ w.inq[-e] # <<>> \/ -e \in U
                               THEN "reset" ELSE w.err[e]]
           v == CloseEnds(w, E, U)
<1>1. v = [w EXCEPT !.inq = q, !.open = o, !.err = r]
  BY DEF CloseEnds
<1>2. /\ \A x \in End : q[x] = IF x \in E THEN <<>> ELSE w.inq[x]
      /\ \A x \in End : o[x] <=> x \notin E /\ w.open[x]
      /\ \A x \in End : r[x] = w.err[x] \/ (-x \in E /\ w.open[x])
  OBVIOUS
<1> HIDE DEF q, o, r, v
<1>3. /\ v.fdt = w.fdt /\ v.backlog = w.backlog /\ v.made = w.made
      /\ v.inq = q /\ v.open = o /\ v.err = r /\ v.kept = w.kept
  BY <1>1 DEF Kernel
<1> QED
  BY <1>2, <1>3 DEF v

-----------------------------------------------------------------------------
(* Calls that read, close or open a file keep a kernel sound.              *)

Fewer(w, v) ==
  /\ v.made = w.made /\ v.kept = w.kept
  /\ \A n \in Server, f \in Fd :
       v.fdt[n][f] = w.fdt[n][f] \/ v.fdt[n][f] \notin End
  /\ \A n \in Server : v.backlog[n] = <<>> \/ v.backlog[n] = w.backlog[n]
  /\ \A e \in End : v.inq[e] = <<>> \/ v.inq[e] = w.inq[e]
  /\ \A e \in End : v.open[e] => w.open[e]
  /\ \A e \in End : ~ v.open[e] => ~ w.open[e] \/ v.inq[e] = <<>>
  /\ \A e \in End : v.err[e] # "none" =>
       w.err[e] # "none" \/ (w.open[e] /\ ~ v.open[-e])
  /\ \A n \in Server, e \in End : Holding(v, n, e) => v.open[e]
  /\ \A n \in Server, k \in Conn : Waits(v, n, k) => v.open[-k]

LEMMA FewerHeld ==
  ASSUME NEW w, NEW v, Fewer(w, v), NEW n \in Server, NEW e \in End,
         Holding(v, n, e)
  PROVE  Holding(w, n, e)
BY DEF Fewer, Holding

\* A connection in a backlog is a connection.
LEMMA BacklogConn ==
  ASSUME NEW Msg, NEW w \in Kernel(Msg), NEW n \in Server,
         NEW j \in 1..Len(w.backlog[n])
  PROVE  LET k == w.backlog[n][j] IN k \in Conn /\ -k \in End /\ Waits(w, n, k)
<1>1. w.backlog[n] \in Seq(Conn)
  BY KernelFields
<1> QED
  BY <1>1, ElementOfSeq, EndFacts DEF Waits

LEMMA FewerSound ==
  ASSUME NEW Msg, NEW w \in Kernel(Msg), NEW v \in Kernel(Msg), Sound(w),
         Fewer(w, v)
  PROVE  Sound(v)
<1>1. OneHolder(v)
  BY DEF Fewer, Sound, OneHolder
<1>2. HeldOpen(v)
  BY DEF Fewer, HeldOpen
<1>3. WaitingFresh(v)
  <2> SUFFICES ASSUME NEW n \in Server, NEW j \in 1..Len(v.backlog[n])
               PROVE  LET k == v.backlog[n][j] IN
                      /\ v.open[-k] /\ v.inq[k] = <<>>
                      /\ \A m \in Server : ~ Holding(v, m, -k)
    BY DEF WaitingFresh
  <2> DEFINE k == v.backlog[n][j]
  <2>1. k \in Conn /\ k \in End /\ -k \in End /\ Waits(v, n, k)
    BY BacklogConn, EndFacts
  <2>2. j \in 1..Len(w.backlog[n]) /\ w.backlog[n][j] = k
    BY DEF Fewer
  <2> HIDE DEF k
  <2>3. v.open[-k]
    BY <2>1 DEF Fewer
  <2>4. w.inq[k] = <<>> /\ \A m \in Server : ~ Holding(w, m, -k)
    BY <2>2 DEF Sound, WaitingFresh
  <2>5. v.inq[k] = <<>>
    BY <2>1, <2>4 DEF Fewer
  <2> QED
    BY <2>1, <2>3, <2>4, <2>5, FewerHeld DEF k
<1>4. OneListener(v)
  BY DEF Fewer, Sound, OneListener
<1>5. ClosedEmpty(v)
  BY EndFacts DEF Fewer, Sound, ClosedEmpty
<1>6. UnusedClosed(v)
  BY EndFacts DEF Fewer, Sound, UnusedClosed
<1> QED
  BY <1>1, <1>2, <1>3, <1>4, <1>5, <1>6 DEF Sound

LEMMA DrainFewer ==
  ASSUME NEW Msg, NEW w \in Kernel(Msg), NEW e \in End, Sound(w)
  PROVE  Fewer(w, Drain(w, e))
<1> DEFINE v == Drain(w, e)
<1>1. /\ v.fdt = w.fdt /\ v.backlog = w.backlog /\ v.made = w.made
      /\ v.kept = w.kept
      /\ v.open = w.open /\ v.inq = [w.inq EXCEPT ![e] = <<>>]
      /\ \A x \in End : v.err[x] # "none" => w.err[x] # "none"
  BY DrainExact
<1>2. w.inq \in [End -> Seq(Msg)]
  BY KernelFields
<1> HIDE DEF v
<1>3. \A x \in End : v.inq[x] = <<>> \/ v.inq[x] = w.inq[x]
  BY <1>1, <1>2
<1>4. \A n \in Server, x \in End : Holding(v, n, x) => v.open[x]
  BY <1>1 DEF Sound, HeldOpen, Holding
<1>5. \A n \in Server, k \in Conn : Waits(v, n, k) => v.open[-k]
  BY <1>1 DEF Sound, WaitingFresh, Waits
<1>6. \A x \in End : ~ v.open[x] => ~ w.open[x]
  BY <1>1
<1> QED
  BY <1>1, <1>3, <1>4, <1>5, <1>6 DEF Fewer, v

LEMMA TakeFewer ==
  ASSUME NEW Msg, NEW w \in Kernel(Msg), NEW n \in Server,
         NEW s \in {File, Unconnected}, Sound(w)
  PROVE  Fewer(w, Take(w, n, s))
<1> DEFINE v == Take(w, n, s)
<1>1. s \in Slot /\ s \notin End
  BY BoundsAssumption DEF Slot, End, File, Unconnected
<1>2. /\ v.inq = w.inq /\ v.err = w.err /\ v.backlog = w.backlog
      /\ v.made = w.made /\ v.open = w.open /\ v.kept = w.kept
  BY TakeExact
<1>3. \A m \in Server, g \in Fd :
        v.fdt[m][g] = w.fdt[m][g] \/ v.fdt[m][g] \notin End
  BY <1>1, TakeFields
<1> HIDE DEF v
<1>4. \A m \in Server, x \in End : Holding(v, m, x) => v.open[x]
  BY <1>2, <1>3 DEF Sound, HeldOpen, Holding
<1>5. \A m \in Server, k \in Conn : Waits(v, m, k) => v.open[-k]
  BY <1>2 DEF Sound, WaitingFresh, Waits
<1> QED
  BY <1>2, <1>3, <1>4, <1>5 DEF Fewer, v

LEMMA CloseFewer ==
  ASSUME NEW Msg, NEW w \in Kernel(Msg), NEW n \in Server, NEW f \in Fd,
         Sound(w)
  PROVE  Fewer(w, Close(w, n, f))
<1> DEFINE E == ({w.fdt[n][f]} \cap End) \ w.kept
           u == CloseEnds(w, E, {})
           v == Close(w, n, f)
<1>1. u \in Kernel(Msg)
  BY CloseEndsKernel
<1>2. /\ u.fdt = w.fdt /\ u.backlog = w.backlog /\ u.made = w.made
      /\ u.kept = w.kept
      /\ \A x \in End : u.inq[x] = IF x \in E THEN <<>> ELSE w.inq[x]
      /\ \A x \in End : u.open[x] <=> x \notin E /\ w.open[x]
      /\ \A x \in End : u.err[x] = w.err[x] \/ (-x \in E /\ w.open[x])
  <2> HIDE DEF E
  <2> QED
    BY CloseEndsExact
<1>3. v = [u EXCEPT !.fdt[n][f] = Free] /\ Free \in Slot /\ Free \notin End
  BY EndFacts DEF Close, Free, End
<1> HIDE DEF u, v
<1>4. /\ v.inq = u.inq /\ v.err = u.err /\ v.made = u.made
      /\ v.backlog = u.backlog /\ v.open = u.open /\ v.kept = u.kept
  BY <1>1, <1>3 DEF Kernel
<1>5. /\ v.fdt[n][f] = Free
      /\ \A m \in Server, g \in Fd :
           <<m, g>> # <<n, f>> => v.fdt[m][g] = w.fdt[m][g]
  BY <1>1, <1>2, <1>3, TableUpdate
<1>6. \A m \in Server, g \in Fd :
        v.fdt[m][g] = w.fdt[m][g] \/ v.fdt[m][g] \notin End
  BY <1>3, <1>5
<1>7. ASSUME NEW m \in Server, NEW x \in End, Holding(v, m, x) PROVE v.open[x]
  <2>1. PICK g \in Fd : v.fdt[m][g] = x
    BY <1>7 DEF Holding
  <2>2. <<m, g>> # <<n, f>> /\ w.fdt[m][g] = x
    BY <1>3, <1>5, <2>1
  <2>3. x \notin E
    BY <2>2 DEF Sound, OneHolder
  <2>4. w.open[x]
    BY <2>2 DEF Sound, HeldOpen, Holding
  <2> QED
    BY <1>2, <1>4, <2>3, <2>4
<1>8. ASSUME NEW m \in Server, NEW k \in Conn, Waits(v, m, k) PROVE v.open[-k]
  <2>1. w.open[-k] /\ ~ Holding(w, n, -k) /\ -k \in End
    BY <1>2, <1>4, <1>8, EndFacts DEF Sound, WaitingFresh, Waits
  <2>2. -k \notin E
    BY <2>1 DEF Holding
  <2> QED
    BY <1>2, <1>4, <2>1, <2>2
<1>9. \A x \in End : v.err[x] # "none" =>
        w.err[x] # "none" \/ (w.open[x] /\ ~ v.open[-x])
  BY <1>2, <1>4, EndFacts
<1> HIDE DEF E
<1> QED
  BY <1>2, <1>4, <1>6, <1>7, <1>8, <1>9 DEF Fewer, v

LEMMA ExitFewer ==
  ASSUME NEW Msg, NEW w \in Kernel(Msg), NEW n \in Server, Sound(w)
  PROVE  /\ Fewer(w, Exit(w, n))
         /\ \A e \in End : Holding(w, n, e) /\ e \notin w.kept =>
                          ~ Exit(w, n).open[e]
<1> DEFINE waiting == Waiting(w, n)
           held    == Held(w, n) \ w.kept
           u       == CloseEnds(w, held \cup waiting, waiting)
           t       == [u.fdt EXCEPT ![n] = [f \in Fd |-> Free]]
           l       == IF n \in w.heirs THEN u.backlog[n] ELSE <<>>
           b       == [u.backlog EXCEPT ![n] = l]
           v       == Exit(w, n)
<1>1. u \in Kernel(Msg)
  BY CloseEndsKernel
<1>2. /\ u.fdt = w.fdt /\ u.backlog = w.backlog /\ u.made = w.made
      /\ u.kept = w.kept
      /\ \A x \in End : u.inq[x] = IF x \in held \cup waiting THEN <<>>
                                   ELSE w.inq[x]
      /\ \A x \in End : u.open[x] <=> x \notin held \cup waiting /\ w.open[x]
      /\ \A x \in End : \/ u.err[x] = w.err[x]
                          \/ (-x \in held \cup waiting /\ w.open[x])
  <2> HIDE DEF held, waiting
  <2> QED
    BY CloseEndsExact
<1>3. v = [u EXCEPT !.fdt = t, !.backlog = b]
  BY <1>2 DEF Exit, Kernel
<1> HIDE DEF u, v
<1>4. /\ v.inq = u.inq /\ v.err = u.err /\ v.made = u.made
      /\ v.backlog = b /\ v.fdt = t /\ v.open = u.open
      /\ v.kept = u.kept
  BY <1>1, <1>3 DEF Kernel
<1>5. Free \notin End
  BY DEF Free, End
<1>6. /\ \A f \in Fd : v.fdt[n][f] = Free
      /\ \A m \in Server : m # n => v.fdt[m] = w.fdt[m]
  BY <1>1, <1>2, <1>4, KernelFields
<1>7. /\ v.backlog[n] = IF n \in w.heirs THEN w.backlog[n] ELSE <<>>
      /\ \A m \in Server : m # n => v.backlog[m] = w.backlog[m]
  BY <1>1, <1>2, <1>4, KernelFields
<1>8. ASSUME NEW m \in Server, NEW x \in End, Holding(v, m, x) PROVE v.open[x]
  <2>1. m # n /\ Holding(w, m, x)
    BY <1>5, <1>6, <1>8 DEF Holding
  <2>2. x \notin held
    BY <2>1 DEF Sound, OneHolder, Holding, Held
  <2>3. x \notin waiting
    BY <2>1 DEF Sound, WaitingFresh, Waiting
  <2> QED
    BY <1>2, <1>4, <2>1, <2>2, <2>3 DEF Sound, HeldOpen
<1>9. ASSUME NEW m \in Server, NEW k \in Conn, Waits(v, m, k) PROVE v.open[-k]
  <2>1. Waits(w, m, k) /\ -k \in End /\ (m = n => n \in w.heirs)
    BY <1>7, <1>9, EndFacts DEF Waits
  <2>2. w.open[-k] /\ ~ Holding(w, n, -k)
    BY <2>1 DEF Sound, WaitingFresh, Waits
  <2>3. -k \notin waiting
    <3>1. \A i \in 1..Len(w.backlog[n]) : w.backlog[n][i] \in Conn
      BY BacklogConn
    <3>2. CASE m = n
      BY <2>1, <3>2 DEF Waiting
    <3>3. CASE m # n
      <4>1. \A i \in 1..Len(w.backlog[n]) : w.backlog[n][i] # k
        BY <2>1, <3>3 DEF Sound, OneListener, Waits
      <4> QED
        BY <3>1, <4>1 DEF Conn, Waiting
    <3> QED
      BY <3>2, <3>3
  <2>4. -k \notin held
    BY <2>2 DEF Holding, Held
  <2> QED
    BY <1>2, <1>4, <2>1, <2>2, <2>3, <2>4
<1>10. \A e \in End : Holding(w, n, e) /\ e \notin w.kept => ~ v.open[e]
  BY <1>2, <1>4 DEF Holding, Held
<1>11. \A m \in Server, g \in Fd :
         v.fdt[m][g] = w.fdt[m][g] \/ v.fdt[m][g] \notin End
  BY <1>5, <1>6
<1>12. \A m \in Server : v.backlog[m] = <<>> \/ v.backlog[m] = w.backlog[m]
  BY <1>7
<1>13. \A x \in End : v.err[x] # "none" =>
        w.err[x] # "none" \/ (w.open[x] /\ ~ v.open[-x])
  BY <1>2, <1>4, EndFacts
<1> HIDE DEF held, waiting
<1> QED
  BY <1>2, <1>4, <1>8, <1>9, <1>10, <1>11, <1>12, <1>13 DEF Fewer, v

-----------------------------------------------------------------------------
(* accept(), write() and connect() do, too.                                *)

LEMMA AcceptSound ==
  ASSUME NEW Msg, NEW w \in Kernel(Msg), NEW n \in Server, Sound(w),
         HasFd(w, n), w.backlog[n] # <<>>
  PROVE  LET v == Accept(w, n)
             f == LowestFd(w, n)
             k == Head(w.backlog[n]) IN
         /\ Sound(v) /\ v.inq = w.inq /\ v.open = w.open /\ v.kept = w.kept
         /\ k \in Conn /\ w.inq[k] = <<>>
         /\ f \in Fd /\ w.fdt[n][f] = Free /\ v.fdt[n][f] = -k
         /\ \A m \in Server, g \in Fd :
              g # f \/ m # n => v.fdt[m][g] = w.fdt[m][g]
<1> DEFINE k == Head(w.backlog[n])
           f == LowestFd(w, n)
           v == Accept(w, n)
<1>1. w.backlog \in [Server -> Seq(Conn)] /\ w.backlog[n] \in Seq(Conn)
  BY KernelFields
<1>2. k \in Conn /\ k = w.backlog[n][1] /\ 1 \in 1..Len(w.backlog[n])
  BY <1>1, HeadTailProperties
<1>3. k \in End /\ -k \in End
  BY <1>2, EndFacts
<1>4. w.open[-k] /\ \A m \in Server : ~ Holding(w, m, -k)
  BY <1>2 DEF Sound, WaitingFresh
<1>5. /\ v.inq = w.inq /\ v.err = w.err /\ v.made = w.made /\ v.open = w.open
      /\ v.kept = w.kept
      /\ f \in Fd /\ v.fdt[n][f] = -k
      /\ \A m \in Server, g \in Fd :
           <<m, g>> # <<n, f>> => v.fdt[m][g] = w.fdt[m][g]
      /\ v.backlog = [w.backlog EXCEPT ![n] = Tail(w.backlog[n])]
  <2>1. v.open = w.open /\ v.kept = w.kept
    BY DEF Accept, Kernel
  <2> QED
    BY <2>1, AcceptFields
<1>6. /\ v.backlog[n] = Tail(w.backlog[n])
      /\ \A m \in Server : m # n => v.backlog[m] = w.backlog[m]
  BY <1>1, <1>5
<1>7. /\ Len(v.backlog[n]) = Len(w.backlog[n]) - 1
      /\ \A j \in 1..Len(v.backlog[n]) : /\ v.backlog[n][j] = w.backlog[n][j + 1]
                                         /\ j + 1 \in 1..Len(w.backlog[n])
  BY <1>1, <1>2, <1>6, HeadTailProperties
<1> HIDE DEF k, f, v
<1>8. OneHolder(v)
  <2> SUFFICES ASSUME NEW a \in Server, NEW b \in Server, NEW g \in Fd,
                      NEW h \in Fd, v.fdt[a][g] \in End,
                      v.fdt[a][g] = v.fdt[b][h]
               PROVE  a = b /\ g = h
    BY DEF OneHolder
  <2>1. CASE <<a, g>> # <<n, f>> /\ <<b, h>> # <<n, f>>
    BY <1>5, <2>1 DEF Sound, OneHolder
  <2>2. CASE <<a, g>> = <<n, f>> /\ <<b, h>> # <<n, f>>
    BY <1>4, <1>5, <2>2 DEF Holding
  <2>3. CASE <<a, g>> # <<n, f>> /\ <<b, h>> = <<n, f>>
    BY <1>4, <1>5, <2>3 DEF Holding
  <2> QED
    BY <2>1, <2>2, <2>3
<1>9. \A m \in Server, x \in End : Holding(v, m, x) => Holding(w, m, x) \/ x = -k
  BY <1>5 DEF Holding
<1>10. HeldOpen(v)
  BY <1>4, <1>5, <1>9 DEF Sound, HeldOpen
<1>11. ASSUME NEW m \in Server, NEW j \in 1..Len(v.backlog[m])
       PROVE  \E i \in 1..Len(w.backlog[m]) :
                /\ i = IF m = n THEN j + 1 ELSE j
                /\ w.backlog[m][i] = v.backlog[m][j]
  BY <1>6, <1>7
<1>12. WaitingFresh(v)
  <2> SUFFICES ASSUME NEW m \in Server, NEW j \in 1..Len(v.backlog[m])
               PROVE  LET l == v.backlog[m][j] IN
                      /\ v.open[-l] /\ v.inq[l] = <<>>
                      /\ \A a \in Server : ~ Holding(v, a, -l)
    BY DEF WaitingFresh
  <2> DEFINE l == v.backlog[m][j]
  <2>1. PICK i \in 1..Len(w.backlog[m]) : /\ i = IF m = n THEN j + 1 ELSE j
                                          /\ w.backlog[m][i] = l
    BY <1>11
  <2>2. l \in Conn /\ -l \in End
    BY <2>1, BacklogConn
  <2>3. l # k
    BY <1>2, <2>1 DEF Sound, OneListener
  <2>4. /\ w.open[-l] /\ w.inq[l] = <<>>
        /\ \A a \in Server : ~ Holding(w, a, -l)
    BY <2>1 DEF Sound, WaitingFresh
  <2> HIDE DEF l
  <2>5. -l # -k
    BY <1>2, <2>2, <2>3 DEF Conn
  <2> QED
    BY <1>5, <1>9, <2>2, <2>4, <2>5 DEF l
<1>13. OneListener(v)
  <2> SUFFICES ASSUME NEW a \in Server, NEW b \in Server,
                      NEW i \in 1..Len(v.backlog[a]),
                      NEW j \in 1..Len(v.backlog[b]),
                      v.backlog[a][i] = v.backlog[b][j]
               PROVE  a = b /\ i = j
    BY DEF OneListener
  <2>1. PICK x \in 1..Len(w.backlog[a]) : /\ x = IF a = n THEN i + 1 ELSE i
                                          /\ w.backlog[a][x] = v.backlog[a][i]
    BY <1>11
  <2>2. PICK y \in 1..Len(w.backlog[b]) : /\ y = IF b = n THEN j + 1 ELSE j
                                          /\ w.backlog[b][y] = v.backlog[b][j]
    BY <1>11
  <2>3. a = b /\ x = y
    BY <2>1, <2>2 DEF Sound, OneListener
  <2> QED
    BY <2>1, <2>2, <2>3
<1>14. ClosedEmpty(v) /\ UnusedClosed(v)
  BY <1>5 DEF Sound, ClosedEmpty, UnusedClosed
<1>15. Sound(v)
  BY <1>8, <1>10, <1>12, <1>13, <1>14 DEF Sound
<1>16. w.inq[k] = <<>> /\ w.fdt[n][f] = Free
  <2>1. w.fdt[n][f] = Free
    BY LowestFdFree DEF f
  <2> HIDE DEF k
  <2> QED
    BY <1>2, <2>1 DEF Sound, WaitingFresh
<1> HIDE DEF v, k, f
<1>17. \A m \in Server, g \in Fd : g # f \/ m # n => v.fdt[m][g] = w.fdt[m][g]
  BY <1>5
<1> QED
  BY <1>2, <1>5, <1>15, <1>16, <1>17 DEF v, f, k

LEMMA WriteSound ==
  ASSUME NEW Msg, NEW w \in Kernel(Msg), NEW e \in End, NEW m \in Msg, Sound(w),
         w.open[e], \A n \in Server : ~ Waits(w, n, -e)
  PROVE  Sound(Write(w, e, m))
<1> DEFINE v == Write(w, e, m)
<1>1. /\ v.fdt = w.fdt /\ v.backlog = w.backlog /\ v.made = w.made
      /\ v.open = w.open /\ v.kept = w.kept
      /\ \A x \in End : x # -e => v.inq[x] = w.inq[x]
      /\ w.open[-e] => v.err = w.err
      /\ ~ w.open[-e] => /\ v.inq = w.inq
                         /\ \A x \in End : x # e => v.err[x] = w.err[x]
  BY WriteExact
<1> HIDE DEF v
<1>2. OneHolder(v) /\ HeldOpen(v) /\ OneListener(v) /\ UnusedClosed(v)
  <2>1. OneHolder(v) /\ HeldOpen(v) /\ OneListener(v)
    BY <1>1 DEF Sound, OneHolder, HeldOpen, Holding, OneListener
  <2>2. \A k \in Conn : k > w.made => k # e /\ -k # e
    BY EndFacts DEF Sound, UnusedClosed
  <2>3. UnusedClosed(v)
    BY <1>1, <2>2, EndFacts DEF Sound, UnusedClosed
  <2> QED
    BY <2>1, <2>3
<1>3. WaitingFresh(v)
  <2> SUFFICES ASSUME NEW n \in Server, NEW j \in 1..Len(w.backlog[n])
               PROVE  LET k == w.backlog[n][j] IN
                      /\ w.open[-k] /\ v.inq[k] = <<>>
                      /\ \A a \in Server : ~ Holding(w, a, -k)
    BY <1>1 DEF WaitingFresh, Holding
  <2>1. LET k == w.backlog[n][j] IN k \in End /\ Waits(w, n, k)
    BY BacklogConn, EndFacts
  <2> QED
    BY <1>1, <2>1 DEF Sound, WaitingFresh
<1>4. ClosedEmpty(v)
  <2> SUFFICES ASSUME NEW x \in End
               PROVE  /\ ~ w.open[x] => v.inq[x] = <<>>
                      /\ v.err[x] # "none" => ~ w.open[-x]
    BY <1>1 DEF ClosedEmpty
  <2>1. /\ ~ w.open[x] => w.inq[x] = <<>>
        /\ w.err[x] # "none" => ~ w.open[-x]
    BY DEF Sound, ClosedEmpty
  <2> QED
    BY <1>1, <2>1
<1> QED
  BY <1>2, <1>3, <1>4 DEF Sound, v

\* A connection that was not made yet is as if it were not there.
LEMMA UnusedUntouched ==
  ASSUME NEW Msg, NEW w \in Kernel(Msg), Sound(w), NEW k \in Conn, k > w.made
  PROVE  /\ w.inq[k] = <<>> /\ w.inq[-k] = <<>> /\ ~ w.open[k] /\ ~ w.open[-k]
         /\ \A n \in Server : ~ Holding(w, n, k) /\ ~ Holding(w, n, -k)
                                              /\ ~ Waits(w, n, k)
BY EndFacts DEF Sound, UnusedClosed, ClosedEmpty, HeldOpen, WaitingFresh, Waits

LEMMA ConnectSound ==
  ASSUME NEW Msg, NEW w \in Kernel(Msg), NEW n \in Server, w.made < MaxConns,
         Sound(w)
  PROVE  Sound(Connect(w, n))
<1> DEFINE k == w.made + 1
           v == Connect(w, n)
<1>1. /\ v.fdt = w.fdt /\ v.inq = w.inq /\ v.err = w.err
      /\ v.made = k /\ k \in Conn /\ v.kept = w.kept
      /\ v.backlog = [w.backlog EXCEPT ![n] = Append(w.backlog[n], k)]
      /\ \A e \in End : v.open[e] <=> e \in {k, -k} \/ w.open[e]
  BY ConnectExact
<1>2. k \in End /\ -k \in End /\ w.made \in Nat
  BY <1>1, EndFacts, KernelFields
<1>3. /\ w.inq[k] = <<>> /\ w.inq[-k] = <<>> /\ ~ w.open[k] /\ ~ w.open[-k]
      /\ \A m \in Server : ~ Holding(w, m, k) /\ ~ Holding(w, m, -k)
                                           /\ ~ Waits(w, m, k)
  BY <1>1, <1>2, UnusedUntouched
<1>4. w.backlog \in [Server -> Seq(Conn)] /\ w.backlog[n] \in Seq(Conn)
  BY KernelFields
<1>5. /\ v.backlog[n] = Append(w.backlog[n], k)
      /\ \A m \in Server : m # n => v.backlog[m] = w.backlog[m]
  BY <1>1, <1>4
<1> DEFINE l == Len(w.backlog[n])
<1>6. l \in Nat /\ Len(v.backlog[n]) = l + 1
  BY <1>4, <1>5
<1>7. \A j \in 1..(l + 1) : v.backlog[n][j] = IF j = l + 1 THEN k
                                               ELSE w.backlog[n][j]
  BY <1>4, <1>5
<1> HIDE DEF k, v, l
<1>8. ASSUME NEW m \in Server, NEW j \in 1..Len(v.backlog[m])
      PROVE  \/ m = n /\ j = l + 1 /\ v.backlog[m][j] = k
             \/ j \in 1..Len(w.backlog[m]) /\ v.backlog[m][j] = w.backlog[m][j]
  <2>1. CASE m = n
    <3>1. j \in 1..(l + 1)
      BY <1>6, <2>1
    <3> QED
      BY <1>6, <1>7, <2>1, <3>1 DEF l
  <2>2. CASE m # n
    BY <1>5, <2>2
  <2> QED
    BY <2>1, <2>2
<1>9. OneHolder(v) /\ HeldOpen(v)
  BY <1>1 DEF Sound, OneHolder, HeldOpen, Holding
<1>10. WaitingFresh(v)
  <2> SUFFICES ASSUME NEW m \in Server, NEW j \in 1..Len(v.backlog[m])
               PROVE  LET x == v.backlog[m][j] IN
                      /\ v.open[-x] /\ w.inq[x] = <<>>
                      /\ \A a \in Server : ~ Holding(w, a, -x)
    BY <1>1 DEF WaitingFresh, Holding
  <2>1. CASE v.backlog[m][j] = k
    BY <1>1, <1>2, <1>3, <2>1
  <2>2. CASE j \in 1..Len(w.backlog[m]) /\ v.backlog[m][j] = w.backlog[m][j]
    <3>1. -w.backlog[m][j] \in End
      BY <2>2, BacklogConn
    <3> QED
      BY <1>1, <2>2, <3>1 DEF Sound, WaitingFresh
  <2> QED
    BY <1>8, <2>1, <2>2
<1>11. OneListener(v)
  <2> SUFFICES ASSUME NEW a \in Server, NEW b \in Server,
                      NEW i \in 1..Len(v.backlog[a]),
                      NEW j \in 1..Len(v.backlog[b]),
                      v.backlog[a][i] = v.backlog[b][j]
               PROVE  a = b /\ i = j
    BY DEF OneListener
  <2>1. \A m \in Server : \A x \in 1..Len(w.backlog[m]) : w.backlog[m][x] # k
    BY <1>3 DEF Waits
  <2>2. CASE /\ i \in 1..Len(w.backlog[a]) /\ v.backlog[a][i] = w.backlog[a][i]
             /\ j \in 1..Len(w.backlog[b]) /\ v.backlog[b][j] = w.backlog[b][j]
    <3>1. w.backlog[a][i] = w.backlog[b][j]
      BY <2>2
    <3>2. OneListener(w)
      BY DEF Sound
    <3> QED
      BY <2>2, <3>1, <3>2 DEF OneListener
  <2>3. ASSUME v.backlog[a][i] = k PROVE a = b /\ i = j
    <3>1. a = n /\ i = l + 1
      BY <1>8, <2>1, <2>3
    <3>2. b = n /\ j = l + 1
      BY <1>8, <2>1, <2>3
    <3> QED
      BY <3>1, <3>2
  <2>4. CASE v.backlog[a][i] # k
    <3>1. i \in 1..Len(w.backlog[a]) /\ v.backlog[a][i] = w.backlog[a][i]
      BY <1>8, <2>4
    <3>2. j \in 1..Len(w.backlog[b]) /\ v.backlog[b][j] = w.backlog[b][j]
      BY <1>8, <2>4
    <3> QED
      BY <2>2, <3>1, <3>2
  <2> QED
    BY <2>3, <2>4
<1>12. ClosedEmpty(v)
  <2> SUFFICES ASSUME NEW x \in End
               PROVE  /\ ~ v.open[x] => w.inq[x] = <<>>
                      /\ w.err[x] # "none" => ~ v.open[-x]
    BY <1>1 DEF ClosedEmpty
  <2>1. -x \in End
    BY EndFacts
  <2>2. /\ ~ w.open[x] => w.inq[x] = <<>>
        /\ w.err[x] # "none" => ~ w.open[-x]
    BY DEF Sound, ClosedEmpty
  <2>3. k > w.made
    BY <1>2 DEF k
  <2>4. w.err[k] = "none" /\ w.err[-k] = "none"
    BY <1>1, <2>3 DEF Sound, UnusedClosed
  <2>5. (-x = k => x = -k) /\ (-x = -k => x = k)
    BY <1>2 DEF End
  <2> QED
    BY <1>1, <2>1, <2>2, <2>4, <2>5
<1>13. UnusedClosed(v)
  BY <1>1, <1>2, EndFacts DEF Sound, UnusedClosed, k, Conn
<1> QED
  BY <1>9, <1>10, <1>11, <1>12, <1>13 DEF Sound, v

\* socket() of a connection that nobody holds yet.
LEMMA TakeEndSound ==
  ASSUME NEW Msg, NEW w \in Kernel(Msg), NEW n \in Server, NEW k \in Conn,
         Sound(w), HasFd(w, n), w.open[k], \A m \in Server : ~ Holding(w, m, k)
  PROVE  LET v == Take(w, n, k)
             f == LowestFd(w, n) IN
         /\ Sound(v) /\ v \in Kernel(Msg)
         /\ v.inq = w.inq /\ v.open = w.open /\ v.kept = w.kept
         /\ f \in Fd /\ w.fdt[n][f] = Free /\ v.fdt[n][f] = k
         /\ \A m \in Server, g \in Fd :
              <<m, g>> # <<n, f>> => v.fdt[m][g] = w.fdt[m][g]
<1> DEFINE v == Take(w, n, k)
           f == LowestFd(w, n)
<1>1. f \in Fd /\ w.fdt[n][f] = Free /\ k \in End /\ -k \in End /\ k \in Slot
  BY LowestFdFree, EndFacts
<1>2. v = [w EXCEPT !.fdt[n][f] = k]
  BY DEF Take
<1>3. /\ v.inq = w.inq /\ v.err = w.err /\ v.backlog = w.backlog
      /\ v.made = w.made /\ v.open = w.open /\ v.kept = w.kept
  BY TakeExact
<1> HIDE DEF f, v
<1>4. /\ v \in Kernel(Msg) /\ v.fdt[n][f] = k
      /\ \A m \in Server, g \in Fd :
           <<m, g>> # <<n, f>> => v.fdt[m][g] = w.fdt[m][g]
  BY <1>1, <1>2, TableUpdate
<1>5. OneHolder(v)
  <2> SUFFICES ASSUME NEW a \in Server, NEW b \in Server, NEW g \in Fd,
                      NEW h \in Fd, v.fdt[a][g] \in End,
                      v.fdt[a][g] = v.fdt[b][h]
               PROVE  a = b /\ g = h
    BY DEF OneHolder
  <2>1. CASE <<a, g>> # <<n, f>> /\ <<b, h>> # <<n, f>>
    BY <1>4, <2>1 DEF Sound, OneHolder
  <2>2. CASE <<a, g>> = <<n, f>> /\ <<b, h>> # <<n, f>>
    BY <1>4, <2>2 DEF Holding
  <2>3. CASE <<a, g>> # <<n, f>> /\ <<b, h>> = <<n, f>>
    BY <1>4, <2>3 DEF Holding
  <2> QED
    BY <2>1, <2>2, <2>3
<1>6. \A m \in Server, x \in End : Holding(v, m, x) => Holding(w, m, x) \/ x = k
  BY <1>4 DEF Holding
<1>7. HeldOpen(v)
  BY <1>3, <1>6 DEF Sound, HeldOpen
<1>8. WaitingFresh(v)
  <2> SUFFICES ASSUME NEW m \in Server, NEW j \in 1..Len(w.backlog[m])
               PROVE  LET l == w.backlog[m][j] IN
                      /\ w.open[-l] /\ w.inq[l] = <<>>
                      /\ \A a \in Server : ~ Holding(v, a, -l)
    BY <1>3 DEF WaitingFresh
  <2> DEFINE l == w.backlog[m][j]
  <2>1. l \in Conn /\ -l \in End
    BY BacklogConn
  <2>2. -l # k
    BY <2>1 DEF Conn
  <2>3. /\ w.open[-l] /\ w.inq[l] = <<>>
        /\ \A a \in Server : ~ Holding(w, a, -l)
    BY DEF Sound, WaitingFresh
  <2> HIDE DEF l
  <2> QED
    BY <1>6, <2>1, <2>2, <2>3 DEF l
<1>9. OneListener(v) /\ ClosedEmpty(v) /\ UnusedClosed(v)
  BY <1>3 DEF Sound, OneListener, ClosedEmpty, UnusedClosed
<1> QED
  BY <1>1, <1>3, <1>4, <1>5, <1>7, <1>8, <1>9 DEF Sound, v, f

\* SendTo of a connected socket: a new connection with one message on it.
LEMMA SendExact ==
  ASSUME NEW Msg, NEW w \in Kernel(Msg), NEW n \in Server, NEW m \in Msg,
         Reaches(n, w), w.made < MaxConns, Sound(w)
  PROVE  LET v == SendTo(n, w, m)
             k == w.made + 1
             f == LowestFd(w, n) IN
         /\ Sound(v) /\ v \in Kernel(Msg)
         /\ k \in Conn /\ f \in Fd /\ w.fdt[n][f] = Free /\ v.fdt[n][f] = k
         /\ \A a \in Server, g \in Fd :
              <<a, g>> # <<n, f>> => v.fdt[a][g] = w.fdt[a][g]
         /\ v.inq[-k] = <<m>> /\ v.inq[k] = <<>> /\ w.inq[-k] = <<>>
         /\ \A x \in End : x # -k => v.inq[x] = w.inq[x]
         /\ \A x \in End : v.open[x] <=> x \in {k, -k} \/ w.open[x]
         /\ v.kept = w.kept /\ k \notin w.kept
         /\ \A a \in Server : ~ Holding(w, a, k) /\ ~ Holding(w, a, -k)
<1> DEFINE k == w.made + 1
           f == LowestFd(w, n)
           u == Connect(w, FirstPeer(n))
           t == Take(u, n, k)
           v == Write(t, k, m)
<1>1. FirstPeer(n) \in Server /\ HasFd(w, n)
  BY FirstPeerServer DEF Reaches
<1>2. /\ u.fdt = w.fdt /\ u.inq = w.inq /\ k \in Conn
      /\ \A e \in End : u.open[e] <=> e \in {k, -k} \/ w.open[e]
      /\ Sound(u) /\ u \in Kernel(Msg) /\ u.kept = w.kept
  BY <1>1, ConnectExact, ConnectSound, ConnectKernel
<1>3. k \in End /\ -k \in End /\ -(-k) = k /\ k > w.made /\ w.made \in Nat /\ k # -k
  BY <1>2, EndFacts, KernelFields DEF Conn
<1>4. /\ w.inq[k] = <<>> /\ w.inq[-k] = <<>>
      /\ \A a \in Server : ~ Holding(w, a, k) /\ ~ Holding(w, a, -k)
      /\ k \notin w.kept
  BY <1>2, <1>3, UnusedUntouched DEF Sound, UnusedClosed
<1>5. HasFd(u, n) /\ LowestFd(u, n) = f
  BY <1>1, <1>2 DEF HasFd, LowestFd, IsLowestFree
<1>6. SendTo(n, w, m) = v
  BY DEF SendTo
<1> HIDE DEF k, f, u, t, v
<1>7. /\ Sound(t) /\ t \in Kernel(Msg) /\ t.inq = w.inq /\ t.open = u.open
      /\ t.kept = w.kept
      /\ f \in Fd /\ w.fdt[n][f] = Free /\ t.fdt[n][f] = k
      /\ \A a \in Server, g \in Fd :
           <<a, g>> # <<n, f>> => t.fdt[a][g] = w.fdt[a][g]
  <2>1. u.open[k] /\ \A a \in Server : ~ Holding(u, a, k)
    BY <1>2, <1>3, <1>4 DEF Holding
  <2> QED
    BY <1>2, <1>5, <2>1, TakeEndSound DEF t
<1>8. t.open[-k] /\ t.open[k]
  BY <1>2, <1>3, <1>7
<1>9. \A a \in Server : ~ Waits(t, a, -k)
  <2>1. \A a \in Server : t.backlog[a] \in Seq(Conn)
    BY <1>7, KernelFields
  <2>2. \A a \in Server : \A j \in 1..Len(t.backlog[a]) : t.backlog[a][j] \in Conn
    BY <2>1, ElementOfSeq
  <2>3. -k \notin Conn
    BY <1>2 DEF Conn
  <2> QED
    BY <2>2, <2>3 DEF Waits
<1>10. /\ Sound(v) /\ v \in Kernel(Msg) /\ v.fdt = t.fdt /\ v.open = t.open
       /\ v.kept = w.kept
       /\ \A x \in End : x # -k => v.inq[x] = w.inq[x]
       /\ v.inq[-k] = Append(w.inq[-k], m)
  <2>1. v \in Kernel(Msg) /\ v.fdt = t.fdt
    BY <1>7, WriteKernel DEF v
  <2>2. Sound(v)
    BY <1>3, <1>7, <1>8, <1>9, WriteSound DEF v
  <2>3. /\ v.open = t.open /\ v.kept = t.kept
        /\ \A x \in End : x # -k => v.inq[x] = t.inq[x]
        /\ v.inq[-k] = Append(t.inq[-k], m)
    BY <1>3, <1>7, <1>8, WriteExact DEF v
  <2> QED
    BY <1>7, <2>1, <2>2, <2>3
<1>11. v.inq[-k] = <<m>> /\ v.inq[k] = <<>>
  BY <1>3, <1>4, <1>10
<1> QED
  BY <1>2, <1>4, <1>6, <1>7, <1>10, <1>11 DEF k, f

-----------------------------------------------------------------------------
(* The conversation goes on when queues are read and descriptors closed.   *)

LEMMA QuestionWord ==
  ASSUME NEW pc \in Reading
  PROVE  Question(pc) \in Word /\ Answer(pc) \in Word
BY DEF Reading, Question, Answer, Word, Command

LEMMA OneReader ==
  ASSUME NEW w, NEW p, NEW n \in Server, NEW m \in Server, NEW k \in Conn,
         OneHolder(w), Settled(n, w, p[n]), Settled(m, w, p[m]),
         Reads(w, p, n, k), Reads(w, p, m, k)
  PROVE  n = m
BY EndFacts DEF OneHolder, Settled, Reads

LEMMA ReadsHeld ==
  ASSUME NEW w, NEW p, NEW n \in Server, NEW k, Settled(n, w, p[n]),
         Reads(w, p, n, k)
  PROVE  Holding(w, n, k) /\ k \in Conn
BY DEF Settled, Reads, Holding

LEMMA IdleFewer ==
  ASSUME NEW w, NEW v, Fewer(w, v), NEW k \in Conn, Idle(w, k)
  PROVE  Idle(v, k)
<1>1. k \in End /\ -k \in End
  BY EndFacts
<1>2. /\ v.inq[k] = <<>> \/ v.inq[k] = w.inq[k]
      /\ v.inq[-k] = <<>> \/ v.inq[-k] = w.inq[-k]
      /\ v.open[k] => w.open[k]
  BY <1>1 DEF Fewer
<1>3. \A n \in Server : Holding(v, n, k) => Holding(w, n, k)
  BY <1>1, FewerHeld
<1> QED
  BY <1>2, <1>3 DEF Idle, AtMost

LEMMA InTurnFewer ==
  ASSUME NEW w, NEW v, Fewer(w, v), NEW k \in Conn, NEW pc, InTurn(w, k, pc)
  PROVE  InTurn(v, k, pc)
<1>1. k \in End /\ -k \in End
  BY EndFacts
<1> QED
  BY <1>1 DEF Fewer, InTurn, AtMost

\* What the process n leaves when it stops reading k: it closed the connection,
\* or it read an answer, or there was nobody left who could answer.
Leaves(w, v, n, k) ==
  \/ ~ v.open[k]
  \/ /\ w.inq[k] # <<>> \/ ~ w.open[-k]
     /\ v.inq[k] = <<>> /\ v.inq[-k] = <<>>

LEMMA FewerTalk ==
  ASSUME NEW Msg, NEW w \in Kernel(Msg), NEW v \in Kernel(Msg),
         NEW p, NEW q, NEW h, NEW g, NEW n,
         Conversation(w, p, h), Fewer(w, v),
         \A m \in Server \ {n} :
           /\ q[m] = p[m] /\ g[m].vrd = h[m].vrd
           /\ \A f \in Fd : v.fdt[m][f] = w.fdt[m][f],
         \A k \in Conn : n \in Server /\ Reads(w, p, n, k) =>
           \/ Reads(v, q, n, k) /\ q[n].pc = p[n].pc
           \/ Leaves(w, v, n, k) /\ (Reads(v, q, n, k) => v.open[k]),
         \A k \in Conn : n \in Server /\ Reads(v, q, n, k) => Reads(w, p, n, k),
         n \in Server => Each(v, q, g, n)
  PROVE  Conversation(v, q, g)
<1>1. Sound(v)
  BY FewerSound DEF Conversation
<1>2. ASSUME NEW m \in Server \ {n}
      PROVE  /\ Settled(m, w, p[m]) /\ Settled(m, v, p[m])
             /\ \A k \in Conn : Reads(v, q, m, k) <=> Reads(w, p, m, k)
  BY DEF Conversation, Each, Settled, Reads
<1>3. \A m \in Server, k \in Conn : Reads(v, q, m, k) => Reads(w, p, m, k)
  BY <1>2
<1>4. \A m \in Server : Settled(m, w, p[m])
  BY DEF Conversation, Each
<1>5. ASSUME NEW m \in Server, NEW k \in Conn, Reads(v, q, m, k)
      PROVE  InTurn(v, k, q[m].pc)
  <2>1. InTurn(w, k, p[m].pc)
    BY <1>3, <1>5 DEF Conversation, Talk
  <2>2. CASE q[m].pc = p[m].pc
    BY <2>1, <2>2, InTurnFewer
  <2>3. CASE m = n /\ v.inq[k] = <<>> /\ v.inq[-k] = <<>>
    BY <2>1, <2>3 DEF InTurn, AtMost, Fewer
  <2> QED
    BY <1>3, <1>5, <2>2, <2>3 DEF Leaves
<1>6. ASSUME NEW k \in Conn, \A m \in Server : ~ Reads(v, q, m, k)
      PROVE  Idle(v, k)
  <2>1. k \in End /\ -k \in End
    BY EndFacts
  <2>2. CASE \A m \in Server : ~ Reads(w, p, m, k)
    BY <2>2, IdleFewer DEF Conversation, Talk
  <2>3. CASE n \in Server /\ Reads(w, p, n, k)
    <3>1. Leaves(w, v, n, k)
      BY <1>6, <2>3
    <3>2. CASE ~ v.open[k]
      <4>1. v.inq[k] = <<>> /\ \A m \in Server : ~ Holding(v, m, k)
        BY <1>1, <2>1, <3>2 DEF Sound, ClosedEmpty, HeldOpen
      <4>2. InTurn(v, k, p[n].pc) /\ p[n].pc \in Reading
        BY <2>3, InTurnFewer DEF Conversation, Talk, Reads
      <4>3. AtMost(v.inq[-k], Word)
        BY <4>2, QuestionWord DEF InTurn, AtMost
      <4> QED
        BY <3>2, <4>1, <4>3 DEF Idle, AtMost
    <3>3. CASE v.inq[k] = <<>> /\ v.inq[-k] = <<>>
      BY <3>3 DEF Idle, AtMost
    <3> QED
      BY <3>1, <3>2, <3>3 DEF Leaves
  <2> QED
    BY <1>2, <1>6, <2>2, <2>3
<1>7. ASSUME NEW m \in Server \ {n} PROVE Each(v, q, g, m)
  <2>1. Each(w, p, h, m)
    BY DEF Conversation
  <2>2. AboutToAnswer(v, q, m)
    <3> SUFFICES ASSUME p[m].pc \in Configures
                 PROVE  \E e \in End :
                   /\ v.fdt[m][p[m].i] = e
                   /\ v.open[-e] =>
                        /\ -e \in Conn /\ v.inq[e] = <<>> /\ v.inq[-e] = <<>>
                        /\ \E a \in Server : /\ Reads(v, q, a, -e)
                                             /\ q[a].pc = "read_result"
      BY <2>1 DEF Each, AboutToAnswer
    <3>1. PICK e \in End :
            /\ p[m].i \in Fd /\ w.fdt[m][p[m].i] = e
            /\ w.open[-e] =>
                 /\ -e \in Conn /\ w.inq[e] = <<>> /\ w.inq[-e] = <<>>
                 /\ \E a \in Server : /\ Reads(w, p, a, -e)
                                      /\ p[a].pc = "read_result"
      BY <2>1 DEF Each, AboutToAnswer
    <3>2. -e \in End /\ -(-e) = e /\ w.open[e]
      BY <3>1, EndFacts DEF Conversation, Sound, HeldOpen, Holding, End
    <3>3. ASSUME v.open[-e]
          PROVE  /\ -e \in Conn /\ v.inq[e] = <<>> /\ v.inq[-e] = <<>>
                 /\ \E a \in Server : /\ Reads(v, q, a, -e)
                                      /\ q[a].pc = "read_result"
      <4>1. w.open[-e]
        BY <3>2, <3>3 DEF Fewer
      <4>2. PICK a \in Server : Reads(w, p, a, -e) /\ p[a].pc = "read_result"
        BY <3>1, <4>1
      <4>3. Reads(v, q, a, -e) /\ q[a].pc = "read_result"
        <5>1. CASE a # n
          BY <1>2, <3>1, <4>1, <4>2, <5>1
        <5>2. CASE a = n
          BY <3>1, <3>2, <3>3, <4>1, <4>2, <5>2 DEF Leaves
        <5> QED
          BY <5>1, <5>2
      <4> QED
        BY <3>1, <3>2, <4>1, <4>3 DEF Fewer
    <3> QED
      BY <3>1, <3>3
  <2>3. Deaf(v, q, m)
    <3> SUFFICES ASSUME server_len <= 2, Working(v, q, m), NEW a \in Server,
                        NEW k \in Conn, Reads(v, q, a, k)
                 PROVE  ~ Holding(v, m, -k)
      BY DEF Deaf
    <3>1. Working(w, p, m)
      <4>1. CASE p[m].pc = "read_result"
        <5>1. p[m].sock \in Fd /\ w.fdt[m][p[m].sock] \in End
          BY <1>2, <4>1, EndFacts DEF Settled, Reading
        <5> QED
          BY <4>1, <5>1 DEF Working, Fewer
      <4> QED
        BY <4>1 DEF Working
    <3>2. ~ Holding(w, m, -k)
      BY <1>3, <2>1, <3>1 DEF Each, Deaf
    <3> QED
      BY <3>2, EndFacts, FewerHeld
  <2>4. Unreported(v, q, g, m)
    <3> SUFFICES ASSUME ~ h[m].vrd \/ p[m].pc \in {"read_nbd", "report"},
                        NEW e \in End, Holding(v, m, e), SuccessAt(v, -e)
                 PROVE  \E a \in Server : /\ Reads(v, q, a, -e)
                                          /\ q[a].pc = "read_result"
      BY DEF Unreported
    <3>1. Holding(w, m, e) /\ -e \in End
      BY EndFacts, FewerHeld
    <3>2. SuccessAt(w, -e) /\ v.inq[-e] # <<>>
      BY <3>1, SameQueue DEF Fewer, SuccessAt
    <3>3. PICK a \in Server : Reads(w, p, a, -e) /\ p[a].pc = "read_result"
      BY <2>1, <3>1, <3>2 DEF Each, Unreported
    <3>4. -e \in Conn
      BY <1>4, <3>3, ReadsHeld
    <3>5. CASE a # n
      BY <1>2, <3>3, <3>4, <3>5
    <3>6. CASE a = n
      <4>1. v.open[-e]
        BY <1>1, <3>1, <3>2 DEF Sound, ClosedEmpty
      <4> QED
        BY <3>2, <3>3, <3>4, <3>6, <4>1 DEF Leaves
    <3> QED
      BY <3>5, <3>6
  <2> QED
    BY <1>2, <2>1, <2>2, <2>3, <2>4 DEF Each
<1> QED
  BY <1>1, <1>5, <1>6, <1>7 DEF Conversation, Talk

-----------------------------------------------------------------------------
(* The conversation goes on when somebody writes.                          *)

\* What the process n may write to the end e: an answer that somebody waits for,
\* or something that nobody takes for an answer.
MayWrite(w, p, h, n, e, m) ==
  LET v == Write(w, e, m) IN
  w.open[-e] =>
    /\ \A k \in Conn \cap {e, -e} :
         /\ \A a \in Server : Reads(w, p, a, k) => InTurn(v, k, p[a].pc)
         /\ (\A a \in Server : ~ Reads(w, p, a, k)) => Idle(v, k)
         /\ \A a \in Server : p[a].pc \in Configures => w.fdt[a][p[a].i] # -k
    /\ \A a \in Server :
         server_len <= 2 /\ Reads(w, p, a, -e) /\ p[a].pc = "read_result" =>
           \A b \in Server, k \in Conn : Reads(w, p, b, k) => ~ Holding(w, a, -k)
    /\ m.word = "success" =>
         \/ \E a \in Server : Reads(w, p, a, -e) /\ p[a].pc = "read_result"
         \/ h[n].vrd /\ p[n].pc \notin {"read_nbd", "report"}

LEMMA WriteTalk ==
  ASSUME NEW Msg, NEW w \in Kernel(Msg), NEW m \in Msg,
         NEW p, NEW h, NEW n \in Server, NEW e \in End,
         Conversation(w, p, h), Holding(w, n, e), \A a \in Server : ~ Waits(w, a, -e),
         MayWrite(w, p, h, n, e, m)
  PROVE  Conversation(Write(w, e, m), p, h)
<1> DEFINE v == Write(w, e, m)
<1>1. /\ v.fdt = w.fdt /\ v.backlog = w.backlog /\ v.made = w.made
      /\ v.open = w.open /\ v.kept = w.kept
      /\ \A x \in End : x # -e => v.inq[x] = w.inq[x]
      /\ w.open[-e] => v.inq[-e] = Append(w.inq[-e], m)
      /\ ~ w.open[-e] => v.inq = w.inq
  BY WriteExact
<1>2. w.open[e] /\ -e \in End
  BY EndFacts DEF Conversation, Sound, HeldOpen
<1>3. Sound(v)
  BY <1>2, WriteSound DEF Conversation
<1>4. \A a \in Server : \A x : Holding(v, a, x) <=> Holding(w, a, x)
  BY <1>1 DEF Holding
<1>5. \A a \in Server : \A x : Reads(v, p, a, x) <=> Reads(w, p, a, x)
  BY <1>1 DEF Reads
<1> DEFINE T == \A k \in Conn \cap {e, -e} :
                /\ \A a \in Server : Reads(w, p, a, k) => InTurn(v, k, p[a].pc)
                /\ (\A a \in Server : ~ Reads(w, p, a, k)) => Idle(v, k)
                /\ \A a \in Server : p[a].pc \in Configures =>
                                       w.fdt[a][p[a].i] # -k
           D == \A a \in Server :
                server_len <= 2 /\ Reads(w, p, a, -e) /\ p[a].pc = "read_result" =>
                  \A b \in Server, k \in Conn : Reads(w, p, b, k) => ~ Holding(w, a, -k)
           S == m.word = "success" =>
                \/ \E a \in Server : Reads(w, p, a, -e) /\ p[a].pc = "read_result"
                \/ h[n].vrd /\ p[n].pc \notin {"read_nbd", "report"}
<1>6. w.open[-e] => T /\ D /\ S
  BY DEF MayWrite
<1>7. ASSUME NEW k \in Conn, k \notin {e, -e} \/ ~ w.open[-e]
      PROVE  /\ \A pc : InTurn(v, k, pc) <=> InTurn(w, k, pc)
             /\ Idle(v, k) <=> Idle(w, k)
             /\ v.inq[k] = w.inq[k] /\ v.inq[-k] = w.inq[-k]
  <2>1. k \in End /\ -k \in End /\ (-k = -e => k = e)
    BY EndFacts DEF End
  <2>2. v.inq[k] = w.inq[k] /\ v.inq[-k] = w.inq[-k]
    BY <1>1, <1>7, <2>1
  <2> HIDE DEF v
  <2>3. (\E a \in Server : Holding(v, a, k)) <=> (\E a \in Server : Holding(w, a, k))
    BY <1>4
  <2>4. \A pc : InTurn(v, k, pc) <=> InTurn(w, k, pc)
    BY <1>1, <2>2 DEF InTurn
  <2>5. Idle(v, k) <=> Idle(w, k)
    BY <1>1, <2>2, <2>3 DEF Idle
  <2> QED
    BY <2>2, <2>4, <2>5
<1> HIDE DEF v
<1>8. Talk(v, p)
  <2> SUFFICES ASSUME NEW k \in Conn
               PROVE  /\ \A a \in Server : Reads(w, p, a, k) => InTurn(v, k, p[a].pc)
                      /\ (\A a \in Server : ~ Reads(w, p, a, k)) => Idle(v, k)
    BY <1>5 DEF Talk
  <2>1. CASE k \in {e, -e} /\ w.open[-e]
    BY <1>6, <2>1
  <2>2. CASE k \notin {e, -e} \/ ~ w.open[-e]
    BY <1>7, <2>2 DEF Conversation, Talk
  <2> QED
    BY <2>1, <2>2
<1>9. ASSUME NEW a \in Server PROVE Each(v, p, h, a)
  <2>1. Each(w, p, h, a)
    BY DEF Conversation
  <2>2. Settled(a, v, p[a])
    BY <1>1, <2>1 DEF Each, Settled
  <2>3. AboutToAnswer(v, p, a)
    <3> SUFFICES ASSUME p[a].pc \in Configures
                 PROVE  \E x \in End :
                   /\ w.fdt[a][p[a].i] = x
                   /\ w.open[-x] =>
                        /\ -x \in Conn /\ v.inq[x] = <<>> /\ v.inq[-x] = <<>>
                        /\ \E b \in Server : /\ Reads(w, p, b, -x)
                                             /\ p[b].pc = "read_result"
      BY <1>1, <1>5, <2>1 DEF Each, AboutToAnswer
    <3>1. PICK x \in End :
            /\ w.fdt[a][p[a].i] = x
            /\ w.open[-x] =>
                 /\ -x \in Conn /\ w.inq[x] = <<>> /\ w.inq[-x] = <<>>
                 /\ \E b \in Server : /\ Reads(w, p, b, -x)
                                      /\ p[b].pc = "read_result"
      BY <2>1 DEF Each, AboutToAnswer
    <3>2. -(-x) = x
      BY DEF End
    <3>3. w.open[-x] => -x \notin {e, -e} \/ ~ w.open[-e]
      BY <1>6, <3>1, <3>2
    <3>4. w.open[-x] => v.inq[x] = <<>> /\ v.inq[-x] = <<>>
      BY <1>7, <3>1, <3>2, <3>3
    <3> QED
      BY <3>1, <3>4
  <2>4. Deaf(v, p, a)
    <3> SUFFICES ASSUME server_len <= 2, Working(v, p, a)
                 PROVE  \A b \in Server, k \in Conn : Reads(w, p, b, k) =>
                                                        ~ Holding(w, a, -k)
      BY <1>4, <1>5 DEF Deaf
    <3>1. CASE Working(w, p, a)
      BY <2>1, <3>1 DEF Each, Deaf
    <3>2. CASE ~ Working(w, p, a)
      <4> DEFINE s == w.fdt[a][p[a].sock]
      <4>1. /\ p[a].pc = "read_result" /\ s \in Conn /\ s \in End
            /\ v.inq[s] # <<>> /\ w.inq[s] = <<>>
        BY <1>1, <2>1, <3>2, EndFacts DEF Working, Each, Settled, Reading
      <4>2. s = -e /\ w.open[-e]
        BY <1>1, <4>1
      <4>3. Reads(w, p, a, -e)
        BY <4>1, <4>2 DEF Reads, Reading
      <4> HIDE DEF s
      <4> QED
        BY <1>6, <4>1, <4>2, <4>3
    <3> QED
      BY <3>1, <3>2
  <2>5. Unreported(v, p, h, a)
    <3> SUFFICES ASSUME ~ h[a].vrd \/ p[a].pc \in {"read_nbd", "report"},
                        NEW x \in End, Holding(w, a, x), SuccessAt(v, -x)
                 PROVE  \E b \in Server : /\ Reads(w, p, b, -x)
                                          /\ p[b].pc = "read_result"
      BY <1>4, <1>5 DEF Unreported
    <3>1. CASE SuccessAt(w, -x)
      BY <2>1, <3>1 DEF Each, Unreported
    <3>2. CASE ~ SuccessAt(w, -x)
      <4>1. x = e /\ w.open[-e] /\ m.word = "success"
        <5>1. -x \in End /\ (-x = -e => x = e)
          BY EndFacts DEF End
        <5>2. v.inq[-x] # w.inq[-x]
          BY <3>2 DEF SuccessAt
        <5>3. x = e /\ w.open[-e]
          BY <1>1, <5>1, <5>2
        <5>4. /\ -x = -e /\ v.inq[-x] = Append(w.inq[-x], m)
              /\ SuccessAt(v, -x)
          BY <1>1, <5>3
        <5> QED
          BY <3>2, <5>1, <5>3, <5>4, AppendSuccess
      <4>2. a = n
        BY <4>1 DEF Conversation, Sound, OneHolder, Holding
      <4> QED
        BY <1>6, <4>1, <4>2
    <3> QED
      BY <3>1, <3>2
  <2> QED
    BY <2>1, <2>2, <2>3, <2>4, <2>5 DEF Each
<1> QED
  BY <1>3, <1>8, <1>9 DEF Conversation, v

-----------------------------------------------------------------------------
(* The steps of one controller, from the calls that only read or close.    *)

LEMMA FewerTransitive ==
  ASSUME NEW u, NEW w, NEW v, Fewer(u, w), Fewer(w, v)
  PROVE  Fewer(u, v)
<1>1. \A m \in Server, e \in End : Holding(v, m, e) => v.open[e]
  BY DEF Fewer
<1>2. \A m \in Server, k \in Conn : Waits(v, m, k) => v.open[-k]
  BY DEF Fewer
<1>3. \A e \in End : ~ v.open[e] => ~ u.open[e] \/ v.inq[e] = <<>>
  BY DEF Fewer
<1>4. \A e \in End : v.err[e] # "none" =>
        u.err[e] # "none" \/ (u.open[e] /\ ~ v.open[-e])
  BY EndFacts DEF Fewer
<1> QED
  BY <1>1, <1>2, <1>3, <1>4 DEF Fewer

\* What the process n may have become, for the invariant to hold of it.
Onward(w, v, p, q, h, g, n) ==
  /\ Settled(n, v, q[n])
  /\ Remembers(q[n])
  /\ AboutToAnswer(v, q, n)
  /\ Working(v, q, n) => Working(w, p, n)
  /\ ~ g[n].vrd \/ q[n].pc \in {"read_nbd", "report"} =>
       ~ h[n].vrd \/ p[n].pc \in {"read_nbd", "report"}

LEMMA ShrinkTalk ==
  ASSUME NEW Msg, NEW w \in Kernel(Msg), NEW v \in Kernel(Msg),
         NEW p, NEW q, NEW h, NEW g, NEW n \in Server,
         Conversation(w, p, h), Fewer(w, v),
         \A m \in Server \ {n} :
           /\ q[m] = p[m] /\ g[m].vrd = h[m].vrd
           /\ \A f \in Fd : v.fdt[m][f] = w.fdt[m][f],
         \A k \in Conn : Holding(w, n, -k) => ~ Holding(w, n, k),
         \A k \in Conn : Reads(w, p, n, k) =>
           \/ Reads(v, q, n, k) /\ q[n].pc = p[n].pc
           \/ Leaves(w, v, n, k) /\ (Reads(v, q, n, k) => v.open[k]),
         \A k \in Conn : Reads(v, q, n, k) => Reads(w, p, n, k),
         Onward(w, v, p, q, h, g, n)
  PROVE  Conversation(v, q, g)
<1>1. Each(w, p, h, n)
  BY DEF Conversation
<1>2. \A m \in Server, k \in Conn : Reads(v, q, m, k) => Reads(w, p, m, k)
  BY DEF Reads, Settled, Conversation, Each
<1>3. Deaf(v, q, n)
  <2> SUFFICES ASSUME server_len <= 2, Working(v, q, n), NEW a \in Server,
                      NEW k \in Conn, Reads(v, q, a, k)
               PROVE  ~ Holding(v, n, -k)
    BY DEF Deaf
  <2>1. ~ Holding(w, n, -k)
    BY <1>1, <1>2 DEF Each, Deaf, Onward
  <2> QED
    BY <2>1, EndFacts, FewerHeld
<1>4. Unreported(v, q, g, n)
  <2> SUFFICES ASSUME ~ h[n].vrd \/ p[n].pc \in {"read_nbd", "report"},
                      NEW e \in End, Holding(v, n, e), SuccessAt(v, -e)
               PROVE  \E a \in Server : /\ Reads(v, q, a, -e)
                                        /\ q[a].pc = "read_result"
    BY DEF Unreported, Onward
  <2>1. Holding(w, n, e) /\ -e \in End /\ -(-e) = e
    BY EndFacts, FewerHeld DEF End
  <2>2. SuccessAt(w, -e)
    BY <2>1, SameQueue DEF Fewer
  <2>3. PICK a \in Server : Reads(w, p, a, -e) /\ p[a].pc = "read_result"
    BY <1>1, <2>1, <2>2 DEF Each, Unreported
  <2>4. -e \in Conn /\ Holding(w, a, -e) /\ Settled(a, w, p[a])
    BY <2>3, ReadsHeld DEF Conversation, Each
  <2>5. a # n
    BY <2>1, <2>4
  <2>6. Reads(v, q, a, -e) /\ q[a].pc = "read_result"
    BY <2>3, <2>4, <2>5 DEF Reads, Settled
  <2> QED
    BY <2>6
<1>5. Each(v, q, g, n)
  BY <1>3, <1>4 DEF Each, Onward
<1> QED
  BY <1>5, FewerTalk

Talking == Conversation(net, proc, host)

\* Where a step leaves the memories and the modules of the other hosts.
OthersKept(n, q, g) ==
  \A m \in Server \ {n} : q[m] = proc[m] /\ g[m].vrd = host[m].vrd

\* The process n goes on to wait in select, or is gone.
LEMMA RestTalk ==
  ASSUME SInv, Talking, NEW n \in Server, NEW w, NEW q, NEW g,
         KernelOf(n, w, Message), Fewer(net, w), OthersKept(n, q, g),
         host[n].vrd => g[n].vrd, q[n].pc \in {"loop", "down"}, Remembers(q[n]),
         \A k \in Conn : Reads(net, proc, n, k) => Leaves(net, w, n, k)
  PROVE  Conversation(w, q, g)
<1>1. net \in Kernel(Message) /\ w \in Kernel(Message)
  BY NetSafe DEF Safe, KernelOf
<1>2. Onward(net, w, proc, q, host, g, n)
  BY DEF Onward, Settled, AboutToAnswer, Working, Reading, Configures
<1>3. \A k \in Conn : ~ Reads(w, q, n, k)
  BY DEF Reads, Reading
<1>4. \A k \in Conn : Holding(net, n, -k) => ~ Holding(net, n, k)
  BY NotBothEnds
<1>5. \A m \in Server \ {n} :
        /\ q[m] = proc[m] /\ g[m].vrd = host[m].vrd
        /\ \A f \in Fd : w.fdt[m][f] = net.fdt[m][f]
  BY DEF OthersKept, KernelOf
<1> QED
  BY <1>1, <1>2, <1>3, <1>4, <1>5, ShrinkTalk DEF Talking

LEMMA DieTalk ==
  ASSUME SInv, Talking, NEW n \in Server, NEW w,
         Safe(n, w), Fewer(net, w), Sound(w),
         \A e \in End : Holding(net, n, e) => Holding(w, n, e),
         Die(n, w), OthersKept(n, proc', host'), host'[n].vrd = host[n].vrd
  PROVE  Talking'
<1>1. w \in Kernel(Message)
  BY DEF Safe, KernelOf
<1>2. net' = Exit(w, n) /\ Safe(n, net') /\ Fewer(w, net')
  BY <1>1, ExitSafe, ExitFewer DEF Die
<1>3. \A e \in End : Holding(net, n, e) /\ e \notin net.kept => ~ net'.open[e]
  BY <1>1, <1>2, ExitFewer DEF Fewer
<1>4. KernelOf(n, net', Message) /\ Fewer(net, net')
  BY <1>2, FewerTransitive DEF Safe
<1>5. proc'[n].pc = "down" /\ Remembers(proc'[n])
  <2>1. proc'[n] = [Started EXCEPT !.pc = "down"]
    BY DEF Die, SInv, IInv
  <2> QED
    BY <2>1 DEF Started, Remembers
<1>6. \A k \in Conn : Reads(net, proc, n, k) => Leaves(net, net', n, k)
  <2>1. Settled(n, net, proc[n])
    BY DEF Talking, Conversation, Each
  <2>2. \A k \in Conn : Reads(net, proc, n, k) => k \notin net.kept
    BY DEF Talking, Conversation, Talk, InTurn
  <2> QED
    BY <1>3, <2>1, <2>2, ReadsHeld, EndFacts DEF Leaves
<1> QED
  BY <1>4, <1>5, <1>6, RestTalk DEF Talking

\* A read of what is on an end, or the opening of a file.
LEMMA DrainTalk ==
  ASSUME SInv, Talking, NEW n \in Server, NEW e \in End
  PROVE  LET w == Drain(net, e) IN
         /\ Safe(n, w) /\ Fewer(net, w) /\ Sound(w)
         /\ w.fdt = net.fdt /\ w.open = net.open /\ w.made = net.made
         /\ w.inq = [net.inq EXCEPT ![e] = <<>>]
         /\ w.backlog = net.backlog
         /\ \A x \in End : w.err[x] # "none" => net.err[x] # "none"
<1>1. net \in Kernel(Message) /\ Safe(n, net)
  BY NetSafe DEF Safe, KernelOf
<1>2. Safe(n, Drain(net, e)) /\ Fewer(net, Drain(net, e))
  BY <1>1, DrainSafe, DrainFewer DEF Talking, Conversation
<1>3. Sound(Drain(net, e))
  BY <1>1, <1>2, FewerSound DEF Safe, KernelOf, Talking, Conversation
<1> QED
  BY <1>1, <1>2, <1>3, DrainExact

LEMMA TakeTalk ==
  ASSUME SInv, Talking, NEW n \in Server, NEW w, NEW s \in {File, Unconnected},
         Safe(n, w), Fewer(net, w), Sound(w),
         \A e \in End : Holding(net, n, e) => Holding(w, n, e)
  PROVE  LET v == Take(w, n, s) IN
         /\ Safe(n, v) /\ Fewer(net, v) /\ Sound(v)
         /\ \A e \in End : Holding(net, n, e) => Holding(v, n, e)
         /\ \A f \in Fd : w.fdt[n][f] # Free => v.fdt[n][f] = w.fdt[n][f]
         /\ v.inq = w.inq /\ v.open = w.open /\ v.made = w.made
<1> DEFINE v == Take(w, n, s)
<1>1. w \in Kernel(Message)
  BY DEF Safe, KernelOf
<1>2. /\ Safe(n, v)
      /\ \A f \in Fd : w.fdt[n][f] # Free => v.fdt[n][f] = w.fdt[n][f]
  BY TakeSafe
<1>3. Fewer(w, v) /\ v \in Kernel(Message)
  BY <1>1, <1>2, TakeFewer DEF Safe, KernelOf
<1>4. Fewer(net, v) /\ Sound(v)
  BY <1>1, <1>3, FewerTransitive, FewerSound
<1>5. \A e \in End : Holding(net, n, e) => Holding(v, n, e)
  BY <1>2 DEF Holding, End, Free
<1> QED
  BY <1>1, <1>2, <1>4, <1>5, TakeExact

\* write() and going on as q, in a state where the process has become q.
LEMMA ReplyTalk ==
  ASSUME SInv, Talking, NEW n \in Server, NEW w,
         Safe(n, w), Fewer(net, w), Sound(w),
         \A x \in End : Holding(net, n, x) => Holding(w, n, x),
         NEW e \in End, Holding(w, n, e), NEW m \in Message, NEW q,
         Reply(n, w, e, m, q), OthersKept(n, proc, host'),
         host'[n].vrd = host[n].vrd,
         ~ Sigpipe(w, e) =>
           /\ Conversation(w, [proc EXCEPT ![n] = q], host')
           /\ MayWrite(w, [proc EXCEPT ![n] = q], host', n, e, m)
  PROVE  Talking'
<1>1. w \in Kernel(Message)
  BY DEF Safe, KernelOf
<1>2. CASE Sigpipe(w, e)
  <2>1. Die(n, w)
    BY <1>2 DEF Reply
  <2>2. OthersKept(n, proc', host')
    BY <2>1 DEF OthersKept, Die, SInv, IInv
  <2> QED
    BY <2>1, <2>2, DieTalk
<1>3. CASE ~ Sigpipe(w, e)
  <2>1. net' = Write(w, e, m) /\ proc' = [proc EXCEPT ![n] = q]
    BY <1>3 DEF Reply, Become
  <2>2. ASSUME NEW a \in Server PROVE ~ Waits(w, a, -e)
    <3> SUFFICES ASSUME Waits(w, a, -e)
                 PROVE  FALSE
      OBVIOUS
    <3>1. PICK j \in 1..Len(w.backlog[a]) : w.backlog[a][j] = -e
      BY DEF Waits
    <3>2. ~ Holding(w, n, -(-e))
      BY <3>1 DEF Sound, WaitingFresh
    <3> QED
      BY <3>2 DEF End
  <2> QED
    BY <1>1, <1>3, <2>1, <2>2, WriteTalk DEF Talking
<1> QED
  BY <1>2, <1>3

\* A process that goes on without a call, or has made its last one.
LEMMA BecomeTalk ==
  ASSUME SInv, Talking, NEW n \in Server, NEW w,
         Safe(n, w), Fewer(net, w), NEW q, Become(n, w, q),
         OthersKept(n, proc, host'), host[n].vrd => host'[n].vrd,
         q.pc \in {"loop", "down"}, Remembers(q),
         \A k \in Conn : Reads(net, proc, n, k) => Leaves(net, w, n, k)
  PROVE  Talking'
<1>1. net' = w /\ proc' = [proc EXCEPT ![n] = q]
  BY DEF Become
<1>2. OthersKept(n, proc', host') /\ proc'[n] = q
  BY <1>1 DEF OthersKept, SInv, IInv
<1>3. KernelOf(n, w, Message)
  BY DEF Safe
<1> QED
  BY <1>1, <1>2, <1>3, RestTalk DEF Talking

-----------------------------------------------------------------------------
(* What a controller finds in select.                                      *)

LEMMA FinishLoops ==
  ASSUME server_len > 1, NEW p \in Process, Resting(p), p.unsuccess_flag = 0
  PROVE  /\ Finish(p).pc = "loop" /\ Remembers(Finish(p))
         /\ p.pc = "loop" => Remembers(p)
<1>1. p.count # server_len - 1 /\ p.nbd_count # server_len - 1
  <2>1. p.count \in Nat /\ p.nbd_count = 0 /\ p.count <= 1 /\ server_len \in Nat
    BY ServerLen DEF Process, Resting
  <2> QED
    BY <2>1 DEF Resting
<1>2. Finish(p) = [p EXCEPT !.pc = "loop"]
  BY <1>1 DEF Finish
<1> QED
  BY <1>2 DEF Remembers, Process

LEMMA Mirror == \A e \in End : -(-e) = e
  BY BoundsAssumption DEF End

LEMMA ReceiveMemory ==
  ASSUME SInv, Talking, server_len > 1, NEW n \in Server, NEW f \in Fd,
         NEW words, Receives(n, f, words)
  PROVE  /\ WithBuffer(n, f) \in Process /\ WithBuffer(n, f).pc = "loop"
         /\ WithBuffer(n, f).unsuccess_flag = 0
         /\ Remembers(WithBuffer(n, f))
         /\ Finish(WithBuffer(n, f)).pc = "loop"
         /\ Remembers(Finish(WithBuffer(n, f)))
<1> DEFINE p == WithBuffer(n, f)
<1>1. p \in Process /\ p.pc = "loop" /\ Resting(p)
  BY ReceiveSafe
<1>2. proc[n].unsuccess_flag = 0 /\ proc[n] \in Process
  BY DEF Talking, Conversation, Each, Remembers, SInv, IInv
<1>3. p.unsuccess_flag = 0
  BY <1>2 DEF WithBuffer, Process
<1> HIDE DEF p
<1>4. Remembers(p) /\ Finish(p).pc = "loop" /\ Remembers(Finish(p))
  BY <1>1, <1>3, FinishLoops
<1> QED
  BY <1>1, <1>3, <1>4 DEF p

LEMMA ReceiveKernel ==
  ASSUME SInv, Talking, server_len > 1, NEW n \in Server, NEW f \in Fd,
         NEW words, Receives(n, f, words)
  PROVE  /\ Safe(n, AfterRead(n, f)) /\ Fewer(net, AfterRead(n, f))
         /\ Sound(AfterRead(n, f))
         /\ AfterRead(n, f).fdt = net.fdt /\ AfterRead(n, f).open = net.open
         /\ AfterRead(n, f).made = net.made
         /\ AfterRead(n, f).inq = [net.inq EXCEPT ![net.fdt[n][f]] = <<>>]
         /\ proc[n].pc = "loop" /\ \A k \in Conn : ~ Reads(net, proc, n, k)
<1>1. net.fdt[n][f] \in End
  BY ReceiveSafe
<1>2. proc[n].pc = "loop"
  BY DEF Receives, Watched
<1>3. \A k \in Conn : ~ Reads(net, proc, n, k)
  BY <1>2 DEF Reads, Reading
<1> QED
  BY <1>1, <1>2, <1>3, DrainTalk DEF AfterRead

LEMMA ReceiveTalk ==
  ASSUME SInv, Talking, server_len > 1, NEW n \in Server, NEW f \in Fd,
         NEW words, Receives(n, f, words)
  PROVE  LET e == net.fdt[n][f]
             w == AfterRead(n, f)
             p == WithBuffer(n, f) IN
         /\ e \in End /\ -e \in End /\ -(-e) = e /\ Holding(net, n, e)
         /\ Safe(n, w) /\ Fewer(net, w) /\ Sound(w)
         /\ w.fdt = net.fdt /\ w.open = net.open /\ w.made = net.made
         /\ w.inq = [net.inq EXCEPT ![e] = <<>>]
         /\ Incoming(n, f).word \in words
         /\ proc[n].pc = "loop" /\ \A k \in Conn : ~ Reads(net, proc, n, k)
         /\ p \in Process /\ p.pc = "loop" /\ p.i = f /\ Resting(p)
         /\ p.unsuccess_flag = 0
         /\ Remembers(p) /\ Finish(p).pc = "loop" /\ Remembers(Finish(p))
<1> DEFINE e == net.fdt[n][f]
           w == AfterRead(n, f)
           p == WithBuffer(n, f)
<1>1. /\ e \in End /\ p \in Process /\ p.pc = "loop" /\ p.i = f /\ Resting(p)
  BY ReceiveSafe
<1>2. -e \in End /\ -(-e) = e /\ Holding(net, n, e)
  <2>1. Holding(net, n, e)
    BY <1>1, ReceiveSafe DEF Holding
  <2> HIDE DEF e
  <2> QED
    BY <1>1, <2>1, EndFacts, Mirror
<1>3. p.unsuccess_flag = 0
  BY ReceiveMemory
<1>4. Remembers(p) /\ Finish(p).pc = "loop" /\ Remembers(Finish(p))
  BY ReceiveMemory
<1>5. proc[n].pc = "loop" /\ Incoming(n, f).word \in words
  BY DEF Receives, Watched
<1>6. /\ Safe(n, w) /\ Fewer(net, w) /\ Sound(w)
      /\ w.fdt = net.fdt /\ w.open = net.open /\ w.made = net.made
      /\ w.inq = [net.inq EXCEPT ![e] = <<>>]
      /\ \A k \in Conn : ~ Reads(net, proc, n, k)
  BY ReceiveKernel
<1> QED
  BY <1>1, <1>2, <1>3, <1>4, <1>5, <1>6

\* What is read came from a controller that asked and waits, from somebody who
\* does not wait, or from nobody who is still there.
LEMMA Heard ==
  ASSUME SInv, Talking, server_len > 1, NEW n \in Server, NEW f \in Fd,
         NEW words, Receives(n, f, words)
  PROVE  LET e == net.fdt[n][f] IN
         \/ ~ net.open[-e]
         \/ Incoming(n, f).word \in
              {"USER_SET_CONFIG", "mount", "MOUNT_SET_ON", "success"}
         \/ /\ -e \in Conn /\ net.inq[-e] = <<>>
            /\ \E a \in Server \ {n} :
                 /\ Reads(net, proc, a, -e)
                 /\ Incoming(n, f).word = Question(proc[a].pc)
<1> DEFINE e == net.fdt[n][f]
           m == Incoming(n, f)
<1>1. /\ e \in End /\ -e \in End /\ -(-e) = e /\ Holding(net, n, e)
      /\ \A k \in Conn : ~ Reads(net, proc, n, k)
  BY ReceiveTalk
<1>2. Sound(net) /\ Talk(net, proc) /\ \A a \in Server : Settled(a, net, proc[a])
  BY DEF Talking, Conversation, Each
<1> HIDE DEF e
<1>3. CASE net.inq[e] = <<>>
  <2>1. net.err[e] # "none"
    BY <1>3 DEF Receives, e
  <2> QED
    BY <1>1, <1>2, <2>1 DEF Sound, ClosedEmpty, e
<1>4. CASE net.inq[e] # <<>>
  <2>1. m = Head(net.inq[e])
    BY <1>4 DEF Incoming, e
  <2>2. \A W : AtMost(net.inq[e], W) => m.word \in W
    BY <1>4, <2>1 DEF AtMost
  <2> HIDE DEF m
  <2>3. CASE e \in Conn
    <3>1. \A a \in Server : ~ Reads(net, proc, a, e)
      BY <1>1, <1>2, <2>3, ReadsHeld DEF Sound, OneHolder, Holding
    <3>2. Idle(net, e)
      BY <1>2, <2>3, <3>1 DEF Talk
    <3> QED
      BY <2>2, <3>2 DEF Idle, m
  <2>4. CASE -e \in Conn /\ \E a \in Server : Reads(net, proc, a, -e)
    <3>1. PICK a \in Server : Reads(net, proc, a, -e)
      BY <2>4
    <3>2. a # n
      BY <1>1, <2>4, <3>1
    <3>3. InTurn(net, -e, proc[a].pc)
      BY <1>2, <2>4, <3>1 DEF Talk
    <3>4. net.inq[-e] = <<>> /\ m.word = Question(proc[a].pc)
      BY <1>1, <1>4, <2>2, <3>3 DEF InTurn
    <3> QED
      BY <2>4, <3>1, <3>2, <3>4 DEF e, m
  <2>5. CASE -e \in Conn /\ \A a \in Server : ~ Reads(net, proc, a, -e)
    <3>1. Idle(net, -e)
      BY <1>2, <2>5 DEF Talk
    <3>2. net.open[-e] => m.word \in
            {"USER_SET_CONFIG", "mount", "MOUNT_SET_ON", "success"}
      <4>1. net.inq[e] \in Seq(Message)
        BY <1>1, NetSafe, KernelFields DEF Safe, KernelOf
      <4>2. 1 \in 1..Len(net.inq[e]) /\ m = net.inq[e][1]
        BY <1>4, <2>1, <4>1, EmptySeq
      <4> QED
        BY <1>1, <3>1, <4>2 DEF Idle
    <3> QED
      BY <3>2 DEF e, m
  <2>6. e \in Conn \/ -e \in Conn
    BY <1>1, BoundsAssumption DEF End, Conn
  <2> QED
    BY <2>3, <2>4, <2>5, <2>6
<1> QED
  BY <1>3, <1>4

-----------------------------------------------------------------------------
(* The handlers that do not block.                                         *)

\* A question that is answered at once.
LEMMA AnswerTalk ==
  ASSUME SInv, Talking, server_len > 1, NEW n \in Server, NEW f \in Fd,
         NEW W, Receives(n, f, {W}), NEW m \in Message,
         W \notin {"USER_SET_CONFIG", "mount", "MOUNT_SET_ON", "success", "config"},
         m.word # "success",
         \A pc \in Reading : W = Question(pc) => m.word = Answer(pc),
         Reply(n, AfterRead(n, f), net.fdt[n][f], m, Finish(WithBuffer(n, f))),
         UNCHANGED host
  PROVE  Talking'
<1> DEFINE e == net.fdt[n][f]
           w == AfterRead(n, f)
           p == WithBuffer(n, f)
           q == [proc EXCEPT ![n] = Finish(p)]
           v == Write(w, e, m)
<1>1. /\ e \in End /\ -e \in End /\ -(-e) = e /\ Holding(net, n, e)
      /\ Safe(n, w) /\ Fewer(net, w) /\ Sound(w)
      /\ w.fdt = net.fdt /\ w.open = net.open
      /\ w.inq = [net.inq EXCEPT ![e] = <<>>]
      /\ Incoming(n, f).word = W
      /\ \A k \in Conn : ~ Reads(net, proc, n, k)
      /\ Finish(p).pc = "loop" /\ Remembers(Finish(p))
  BY ReceiveTalk
<1>2. /\ q[n] = Finish(p) /\ \A a \in Server \ {n} : q[a] = proc[a]
      /\ OthersKept(n, q, host') /\ OthersKept(n, proc, host')
  BY DEF SInv, IInv, OthersKept
<1>3. net \in Kernel(Message) /\ w \in Kernel(Message) /\ KernelOf(n, w, Message)
  BY <1>1, NetSafe DEF Safe, KernelOf
<1>4. \A a \in Server, x \in End : Holding(w, a, x) <=> Holding(net, a, x)
  BY <1>1 DEF Holding
<1> HIDE DEF e, w, p, q
<1>5. Conversation(w, q, host')
  BY <1>1, <1>2, <1>3, RestTalk
<1>6. ASSUME w.open[-e]
      PROVE  MayWrite(w, q, host', n, e, m)
  <2>1. PICK a \in Server \ {n} :
          /\ -e \in Conn /\ net.inq[-e] = <<>> /\ Reads(net, proc, a, -e)
          /\ W = Question(proc[a].pc)
    BY <1>1, <1>6, Heard DEF e
  <2>2. proc[a].pc \in Reading /\ m.word = Answer(proc[a].pc)
    BY <2>1 DEF Reads
  <2>3. proc[a].pc # "read_result"
    BY <2>1 DEF Question
  <2>4. \A b \in Server : \A k : Reads(w, q, b, k) <=> Reads(net, proc, b, k) /\ b # n
    BY <1>1, <1>2 DEF Reads, Reading
  <2>5. \A b \in Server : Reads(w, q, b, -e) => b = a
    BY <2>1, <2>4, OneReader DEF Talking, Conversation, Sound, Each
  <2>6. net.inq \in [End -> Seq(Message)]
    BY <1>3, KernelFields
  <2>7. w.inq[-e] = <<>> /\ w.inq[e] = <<>>
    BY <1>1, <2>1, <2>6
  <2>8. v.inq[-e] = Append(<<>>, m) /\ v.inq[e] = <<>>
    <3>1. e # -e
      BY <1>1, BoundsAssumption DEF End
    <3>2. /\ \A x \in End : x # -e => v.inq[x] = w.inq[x]
          /\ v.inq[-e] = Append(w.inq[-e], m)
      <4>1. e \in End /\ w \in Kernel(Message) /\ w.open[-e]
        BY <1>1, <1>3, <1>6
      <4> QED
        BY <4>1, WriteExact
    <3> QED
      BY <1>1, <2>7, <3>1, <3>2
  <2>9. e \notin Conn
    BY <1>1, <2>1, BoundsAssumption DEF End, Conn
  <2> HIDE DEF v
  <2>10. InTurn(v, -e, proc[a].pc)
    <3>1. -e \notin w.kept
      BY <1>1, <2>1 DEF Fewer, Talking, Conversation, Talk, InTurn
    <3>2. v.kept = w.kept
      BY <1>1, <1>3, WriteExact DEF v
    <3> QED
      BY <1>1, <2>2, <2>8, <3>1, <3>2 DEF InTurn, AtMost
  <2>11. ASSUME NEW b \in Server, q[b].pc \in Configures
         PROVE  w.fdt[b][q[b].i] # e
    <3>1. AboutToAnswer(w, q, b) /\ Sound(w)
      BY <1>5 DEF Conversation, Each
    <3>2. q[b].i \in Fd /\ b # n
      BY <1>1, <1>2, <2>11, <3>1 DEF AboutToAnswer, Configures
    <3> QED
      BY <1>1, <3>1, <3>2 DEF Sound, OneHolder, e
  <2>12. ASSUME NEW k \in Conn \cap {e, -e}
         PROVE  /\ \A b \in Server : Reads(w, q, b, k) => InTurn(v, k, q[b].pc)
                /\ (\A b \in Server : ~ Reads(w, q, b, k)) => Idle(v, k)
                /\ \A b \in Server : q[b].pc \in Configures =>
                                       w.fdt[b][q[b].i] # -k
    <3>1. k = -e /\ -k = e
      BY <1>1, <2>9
    <3>2. Reads(w, q, a, k) /\ q[a].pc = proc[a].pc
      BY <1>2, <2>1, <2>4, <3>1
    <3> QED
      BY <2>5, <2>10, <2>11, <3>1, <3>2
  <2>13. \A b \in Server : Reads(w, q, b, -e) => q[b].pc # "read_result"
    BY <1>2, <2>3, <2>5
  <2> QED
    BY <2>12, <2>13 DEF MayWrite, v
<1>7. MayWrite(w, q, host', n, e, m)
  BY <1>6 DEF MayWrite
<1>8. /\ Reply(n, w, e, m, Finish(p)) /\ Holding(w, n, e)
      /\ \A x \in End : Holding(net, n, x) => Holding(w, n, x)
  BY <1>1, <1>4 DEF e, w, p
<1> QED
  BY <1>1, <1>2, <1>5, <1>7, <1>8, ReplyTalk DEF q

LEMMA ControllerSetConfigTalk ==
  ASSUME SInv, Talking, server_len > 1, NEW n \in Server, NEW f \in Fd,
         ControllerSetConfig(n, f)
  PROVE  Talking'
<1> DEFINE m == Say("CONTROL_SET_ON")
<1>1. m \in Message /\ m.word = "CONTROL_SET_ON"
  BY SayMessage DEF Word, Command
<1>2. \A pc \in Reading : "CONTROLLER_SET_CONFIG" = Question(pc) =>
                            m.word = Answer(pc)
  BY <1>1 DEF Question, Answer, Reading
<1>3. /\ Receives(n, f, {"CONTROLLER_SET_CONFIG"}) /\ UNCHANGED host
      /\ Reply(n, AfterRead(n, f), net.fdt[n][f], m, Finish(WithBuffer(n, f)))
  BY DEF ControllerSetConfig
<1> HIDE DEF m
<1> QED
  BY <1>1, <1>2, <1>3, AnswerTalk

LEMMA NbdSetOnTalk ==
  ASSUME SInv, Talking, server_len > 1, NEW n \in Server, NEW f \in Fd,
         NbdSetOn(n, f)
  PROVE  Talking'
<1> DEFINE m == Say("NBD_CLIENT_LOAD")
<1>1. m \in Message /\ m.word = "NBD_CLIENT_LOAD"
  BY SayMessage DEF Word, Command
<1>2. \A pc \in Reading : "NBD_SET_ON" = Question(pc) => m.word = Answer(pc)
  BY <1>1 DEF Question, Answer, Reading
<1>3. Receives(n, f, {"NBD_SET_ON"}) /\ UNCHANGED host
  BY DEF NbdSetOn
<1>4. CASE Reply(n, AfterRead(n, f), net.fdt[n][f], m, Finish(WithBuffer(n, f)))
  BY <1>1, <1>2, <1>3, <1>4, AnswerTalk
<1>5. CASE Die(n, AfterRead(n, f))
  <2>1. /\ Safe(n, AfterRead(n, f)) /\ Fewer(net, AfterRead(n, f))
        /\ Sound(AfterRead(n, f)) /\ AfterRead(n, f).fdt = net.fdt
    BY <1>3, ReceiveKernel
  <2>2. OthersKept(n, proc', host') /\ host'[n].vrd = host[n].vrd
    BY <1>3, <1>5 DEF OthersKept, Die, SInv, IInv
  <2> QED
    BY <1>5, <2>1, <2>2, DieTalk DEF Holding
<1> QED
  BY <1>4, <1>5 DEF NbdSetOn

LEMMA SetConfigTalk ==
  ASSUME SInv, Talking, server_len > 1, NEW n \in Server, NEW f \in Fd,
         SetConfig(n, f)
  PROVE  Talking'
<1> DEFINE e == net.fdt[n][f]
           m == Incoming(n, f)
           w == AfterRead(n, f)
           p == WithBuffer(n, f)
           v == Take(w, n, File)
           h == IF HasFd(w, n) THEN StoreConfig(n, m) ELSE host[n]
<1>1. /\ e \in End /\ -e \in End /\ -(-e) = e /\ Holding(net, n, e)
      /\ Safe(n, w) /\ Fewer(net, w) /\ Sound(w)
      /\ w.fdt = net.fdt /\ w.open = net.open
      /\ w.inq = [net.inq EXCEPT ![e] = <<>>]
      /\ m.word \in Word \ Command
      /\ proc[n].pc = "loop" /\ \A k \in Conn : ~ Reads(net, proc, n, k)
      /\ p \in Process /\ p.pc = "loop" /\ p.i = f /\ Remembers(p)
  BY ReceiveTalk DEF SetConfig
<1>2. host[n] \in Host /\ host \in [Server -> Host] /\ proc \in [Server -> Process]
  BY DEF SInv, IInv
<1>3. h.vrd = host[n].vrd
  BY <1>2 DEF StoreConfig, Host
<1>4. \A x \in End : Holding(net, n, x) => Holding(w, n, x)
  BY <1>1 DEF Holding
<1>5. /\ Safe(n, v) /\ Fewer(net, v) /\ Sound(v)
      /\ \A x \in End : Holding(net, n, x) => Holding(v, n, x)
      /\ \A g \in Fd : w.fdt[n][g] # Free => v.fdt[n][g] = w.fdt[n][g]
      /\ v.inq = w.inq /\ v.open = w.open
  BY <1>1, <1>4, TakeTalk
<1>6. v.fdt[n][f] = e
  BY <1>1, <1>5 DEF End, Free
<1>7. CASE p.success_flag = 1
  <2>1. Become(n, w, p) /\ UNCHANGED host
    BY <1>7 DEF SetConfig
  <2>2. OthersKept(n, proc, host') /\ host'[n].vrd = host[n].vrd
    BY <2>1 DEF OthersKept
  <2> HIDE DEF w, p
  <2> QED
    BY <1>1, <2>1, <2>2, BecomeTalk
<1>8. CASE Die(n, v) /\ host' = [host EXCEPT ![n] = h]
  <2>1. OthersKept(n, proc', host') /\ host'[n].vrd = host[n].vrd
    BY <1>2, <1>3, <1>8 DEF OthersKept, Die
  <2> HIDE DEF v
  <2> QED
    BY <1>5, <1>8, <2>1, DieTalk
<1>9. ASSUME ReadDMBDRemoteOk(n, v, h), NEW ok \in InsmodBestio(n),
             host' = [host EXCEPT ![n] = [h EXCEPT !.bestio = ok \/ h.bestio]],
             Become(n, v, AfterInsmod(p, ok))
      PROVE  Talking'
  <2>1. host'[n].vrd = host[n].vrd /\ OthersKept(n, proc, host')
    <3>1. h \in Host \/ h = host[n] \/ h = StoreConfig(n, m)
      OBVIOUS
    <3>2. [h EXCEPT !.bestio = ok \/ h.bestio].vrd = h.vrd
      BY <1>2 DEF StoreConfig, Host
    <3> HIDE DEF h
    <3> QED
      BY <1>2, <1>3, <1>9, <3>2 DEF OthersKept
  <2>2. CASE ~ ok
    <3>1. Become(n, v, p)
      BY <1>9, <2>2 DEF AfterInsmod
    <3> HIDE DEF v, p
    <3> QED
      BY <1>1, <1>5, <2>1, <3>1, BecomeTalk
  <2>3. CASE ok
    <3> DEFINE q == [p EXCEPT !.pc = "config"]
    <3>1. net' = v /\ proc' = [proc EXCEPT ![n] = q]
      BY <1>9, <2>3 DEF AfterInsmod, Become
    <3>2. q.pc = "config" /\ q.i = f /\ Remembers(q)
      BY <1>1 DEF Process, Remembers
    <3> HIDE DEF q
    <3>3. proc'[n] = q /\ \A a \in Server \ {n} : proc'[a] = proc[a]
      BY <1>2, <3>1
    <3>4. net.open[-e] => m.word # "success"
      <4>1. m.word = "success" => h.dmbd_config = Garbage \/ ~ HasFd(w, n)
        BY <1>2 DEF StoreConfig, Host
      <4>2. HasFd(w, n)
        <5>1. CASE ~ HasFd(w, n)
          <6>1. v = w
            BY <5>1 DEF Take
          <6> QED
            BY <1>9, <6>1, <5>1 DEF ReadDMBDRemoteOk
        <5> QED
          BY <5>1
      <4> QED
        BY <1>9, <4>1, <4>2 DEF ReadDMBDRemoteOk
    <3>5. ASSUME v.open[-e]
          PROVE  /\ -e \in Conn /\ v.inq[e] = <<>> /\ v.inq[-e] = <<>>
                 /\ \E a \in Server : /\ Reads(v, proc', a, -e)
                                      /\ proc'[a].pc = "read_result"
      <4>1. m.word \notin {"USER_SET_CONFIG", "mount", "MOUNT_SET_ON", "success"}
        BY <1>1, <1>5, <3>4, <3>5 DEF Command
      <4>2. PICK a \in Server \ {n} :
              /\ -e \in Conn /\ net.inq[-e] = <<>> /\ Reads(net, proc, a, -e)
              /\ m.word = Question(proc[a].pc)
        BY <1>1, <1>5, <3>5, <4>1, Heard DEF SetConfig
      <4>3. proc[a].pc = "read_result"
        BY <1>1, <4>2 DEF Reads, Reading, Question, Command
      <4>4. Settled(a, net, proc[a]) /\ KernelOf(n, v, Message)
        BY <1>5 DEF Talking, Conversation, Each, Safe
      <4>5. Reads(v, proc', a, -e)
        BY <3>3, <4>2, <4>4 DEF Reads, Settled, KernelOf
      <4>6. net.inq \in [End -> Seq(Message)]
        BY NetSafe, KernelFields DEF Safe, KernelOf
      <4> HIDE DEF w, v, e
      <4>7. v.inq[e] = <<>> /\ v.inq[-e] = <<>>
        BY <1>1, <1>5, <4>2, <4>6
      <4> QED
        BY <3>3, <4>2, <4>3, <4>5, <4>7
    <3>6. AboutToAnswer(v, proc', n)
      BY <1>1, <1>6, <3>2, <3>3, <3>5 DEF AboutToAnswer
    <3>7. Onward(net, v, proc, proc', host, host', n)
      BY <2>1, <3>2, <3>3, <3>6 DEF Onward, Settled, Reading, Working
    <3>8. \A k \in Conn : ~ Reads(v, proc', n, k)
      BY <3>2, <3>3 DEF Reads, Reading
    <3>9. \A k \in Conn : Holding(net, n, -k) => ~ Holding(net, n, k)
      BY NotBothEnds
    <3>10. \A a \in Server \ {n} :
             /\ proc'[a] = proc[a] /\ host'[a].vrd = host[a].vrd
             /\ \A g \in Fd : v.fdt[a][g] = net.fdt[a][g]
      BY <1>5, <2>1, <3>3 DEF OthersKept, Safe, KernelOf
    <3>11. net \in Kernel(Message) /\ v \in Kernel(Message)
      BY <1>5, NetSafe DEF Safe, KernelOf
    <3>12. Fewer(net, v) /\ \A k \in Conn : ~ Reads(net, proc, n, k)
      BY <1>1, <1>5
    <3>13. Conversation(net, proc, host)
      BY DEF Talking
    <3> HIDE DEF v
    <3>14. Conversation(v, proc', host')
      BY <3>7, <3>8, <3>9, <3>10, <3>11, <3>12, <3>13, ShrinkTalk
    <3> QED
      BY <3>1, <3>14 DEF Talking
  <2> QED
    BY <2>2, <2>3 DEF InsmodBestio
<1> QED
  BY <1>7, <1>8, <1>9 DEF SetConfig

\* The kernel before a step.
LEMMA NetTalk ==
  ASSUME SInv, Talking, NEW n \in Server
  PROVE  /\ Safe(n, net) /\ Sound(net) /\ Fewer(net, net)
         /\ net \in Kernel(Message) /\ KernelOf(n, net, Message)
         /\ net.inq \in [End -> Seq(Message)]
<1>1. Safe(n, net) /\ Sound(net)
  BY NetSafe DEF Talking, Conversation
<1>2. ASSUME NEW a \in Server, NEW k \in Conn, Waits(net, a, k)
      PROVE  net.open[-k]
  BY <1>1, <1>2 DEF Waits, Sound, WaitingFresh
<1>3. Fewer(net, net)
  BY <1>1, <1>2 DEF Fewer, Sound, HeldOpen
<1> QED
  BY <1>1, <1>3, KernelFields DEF Safe, KernelOf

\* What a daemon holds, too, is nobody's to read from.
LEMMA InheritTalk ==
  ASSUME NEW w \in Kernel(Message), NEW n \in Server, NEW p, NEW h,
         Conversation(w, p, h), p[n].pc \notin Reading, Wired(w)
  PROVE  Conversation(Inherit(w, n), p, h)
<1> DEFINE v == Inherit(w, n)
<1>1. /\ v.fdt = w.fdt /\ v.inq = w.inq /\ v.err = w.err /\ v.open = w.open
      /\ v.backlog = w.backlog /\ v.made = w.made
      /\ v.kept = w.kept \cup Held(w, n)
  BY DEF Inherit, Kernel
<1> HIDE DEF v
<1>2. \A k \in Conn : k > w.made => k \notin Held(w, n) /\ -k \notin Held(w, n)
  BY DEF Wired, Untouched, Holding, Held
<1>3. Sound(v)
  BY <1>1, <1>2 DEF Conversation, Sound, OneHolder, HeldOpen, WaitingFresh,
                    OneListener, ClosedEmpty, UnusedClosed, Holding
<1>4. \A a \in Server : \A x : /\ Holding(v, a, x) <=> Holding(w, a, x)
                               /\ Reads(v, p, a, x) <=> Reads(w, p, a, x)
  BY <1>1 DEF Holding, Reads
<1>5. Talk(v, p)
  <2>1. ASSUME NEW a \in Server, NEW k \in Conn, Reads(w, p, a, k)
        PROVE  k \notin Held(w, n)
    <3>1. a # n
      BY <2>1 DEF Reads
    <3>2. Holding(w, a, k)
      BY <2>1, ReadsHeld DEF Conversation, Each
    <3> QED
      BY <3>1, <3>2, EndFacts DEF Conversation, Sound, OneHolder, Holding, Held
  <2>2. \A a \in Server, k \in Conn : Reads(v, p, a, k) => InTurn(v, k, p[a].pc)
    BY <1>1, <1>4, <2>1 DEF Conversation, Talk, InTurn
  <2>3. \A k \in Conn : Idle(w, k) => Idle(v, k)
    BY <1>1, <1>4 DEF Idle
  <2> QED
    BY <1>4, <2>2, <2>3 DEF Conversation, Talk
<1>6. \A a \in Server : Each(w, p, h, a) => Each(v, p, h, a)
  BY <1>1, <1>4 DEF Each, Settled, AboutToAnswer, Deaf, Working, Unreported,
                    SuccessAt
<1> QED
  BY <1>3, <1>5, <1>6 DEF Conversation, v

\* The daemon starts behind the back of the controller that waits.
LEMMA StartNbdServerTalk ==
  ASSUME SInv, Talking, NEW n \in Server, StartNbdServer(n) PROVE Talking'
<1> DEFINE q == [proc[n] EXCEPT !.pc = "answer"]
           Q == [proc EXCEPT ![n] = q]
<1>1. /\ proc[n].pc = "config" /\ proc' = Q
      /\ net' \in {net, Inherit(net, n)}
  BY DEF StartNbdServer, Become
<1>2. proc \in [Server -> Process] /\ host \in [Server -> Host]
  BY DEF SInv, IInv
<1>3. /\ q.pc = "answer" /\ q.i = proc[n].i /\ q.sock = proc[n].sock
      /\ Remembers(proc[n]) => Remembers(q)
  BY <1>1, <1>2 DEF Process, Remembers
<1>4. \A a \in Server : host'[a].vrd = host[a].vrd
  BY <1>2 DEF StartNbdServer, Host
<1>5. Q[n] = q /\ \A a \in Server \ {n} : Q[a] = proc[a]
  BY <1>2
<1> HIDE DEF q, Q
<1>6. Safe(n, net) /\ Fewer(net, net) /\ net \in Kernel(Message)
  BY NetTalk
<1>7. \A a \in Server : \A x : Reads(net, Q, a, x) <=> Reads(net, proc, a, x)
  BY <1>1, <1>3, <1>5 DEF Reads, Reading
<1>8. ~ Working(net, Q, n)
  BY <1>3, <1>5 DEF Working
<1>9. AboutToAnswer(net, Q, n)
  <2>1. AboutToAnswer(net, proc, n)
    BY DEF Talking, Conversation, Each
  <2>2. \A a \in Server : proc[a].pc = "read_result" => Q[a].pc = "read_result"
    BY <1>1, <1>5
  <2> QED
    BY <1>1, <1>3, <1>5, <1>7, <2>1, <2>2 DEF AboutToAnswer, Configures
<1>10. Onward(net, net, proc, Q, host, host', n)
  BY <1>1, <1>3, <1>4, <1>5, <1>8, <1>9
     DEF Onward, Settled, Reading, Talking, Conversation, Each
<1>11. \A k \in Conn : Holding(net, n, -k) => ~ Holding(net, n, k)
  BY NotBothEnds
<1>12. \A k : ~ Reads(net, proc, n, k)
  BY <1>1 DEF Reads, Reading
<1>13. Conversation(net, Q, host')
  BY <1>4, <1>5, <1>6, <1>7, <1>10, <1>11, <1>12, ShrinkTalk DEF Talking
<1>14. Q[n].pc \notin Reading /\ Wired(net)
  BY <1>3, <1>5 DEF Reading, SInv
<1>15. Conversation(Inherit(net, n), Q, host')
  BY <1>6, <1>13, <1>14, InheritTalk
<1> QED
  BY <1>1, <1>13, <1>15 DEF Talking

\* The answer of a host that has configured itself goes to the controller that
\* sent the configuration, which reads it next, or to nobody.
LEMMA SetConfigDoneTalk ==
  ASSUME SInv, Talking, server_len > 1, NEW n \in Server, SetConfigDone(n)
  PROVE  Talking'
<1> DEFINE e == net.fdt[n][proc[n].i]
           m == Say("success")
           r == Finish(proc[n])
           q == [proc EXCEPT ![n] = r]
           v == Write(net, e, m)
<1>1. /\ e \in End /\ -e \in End /\ -(-e) = e /\ Holding(net, n, e)
      /\ net.open[-e] =>
           /\ -e \in Conn /\ net.inq[e] = <<>> /\ net.inq[-e] = <<>>
           /\ \E a \in Server : Reads(net, proc, a, -e) /\ proc[a].pc = "read_result"
  <2>1. AboutToAnswer(net, proc, n) /\ proc[n].pc = "answer"
    BY DEF Talking, Conversation, Each, SetConfigDone
  <2>2. e \in End /\ Holding(net, n, e)
    BY <2>1 DEF AboutToAnswer, Holding, Configures
  <2> QED
    BY <2>1, <2>2, EndFacts, Mirror DEF AboutToAnswer, Configures
<1>2. /\ Safe(n, net) /\ Sound(net) /\ Fewer(net, net)
      /\ net \in Kernel(Message) /\ KernelOf(n, net, Message)
  BY NetTalk
<1>3. proc[n].pc = "answer" /\ r.pc = "loop" /\ Remembers(r)
  <2>1. proc[n].pc = "answer" /\ proc[n].unsuccess_flag = 0
    BY DEF Talking, Conversation, Each, Remembers, SetConfigDone
  <2>2. Resting(proc[n]) /\ proc[n] \in Process
    BY <2>1, RestingFacts
  <2> QED
    BY <2>1, <2>2, FinishLoops
<1>4. \A k \in Conn : ~ Reads(net, proc, n, k)
  BY <1>3 DEF Reads, Reading
<1>5. /\ q[n] = r /\ \A a \in Server \ {n} : q[a] = proc[a]
      /\ OthersKept(n, q, host') /\ OthersKept(n, proc, host')
      /\ host'[n].vrd = host[n].vrd
  BY DEF SInv, IInv, OthersKept, SetConfigDone, Host
<1>6. m \in Message /\ m.word = "success"
  BY SayMessage DEF Word, Command
<1>7. Reply(n, net, e, m, r)
  BY DEF SetConfigDone
<1> HIDE DEF e, r, q, m
<1>8. Conversation(net, q, host')
  BY <1>2, <1>3, <1>4, <1>5, RestTalk
<1>9. ASSUME net.open[-e]
      PROVE  MayWrite(net, q, host', n, e, m)
  <2>1. PICK a \in Server :
          /\ -e \in Conn /\ net.inq[e] = <<>> /\ net.inq[-e] = <<>>
          /\ Reads(net, proc, a, -e) /\ proc[a].pc = "read_result"
    BY <1>1, <1>9
  <2>2. a # n /\ q[a] = proc[a]
    BY <1>3, <1>5, <2>1
  <2>3. \A b \in Server : \A k : Reads(net, q, b, k) <=> Reads(net, proc, b, k) /\ b # n
    BY <1>3, <1>5 DEF Reads, Reading
  <2>4. \A b \in Server : Reads(net, q, b, -e) => b = a
    BY <2>1, <2>3, OneReader DEF Talking, Conversation, Sound, Each
  <2>5. v.inq[-e] = Append(<<>>, m) /\ v.inq[e] = <<>>
    <3>1. e # -e
      BY <1>1, BoundsAssumption DEF End
    <3>2. /\ \A x \in End : x # -e => v.inq[x] = net.inq[x]
          /\ v.inq[-e] = Append(net.inq[-e], m)
      BY <1>1, <1>2, <1>6, <1>9, WriteExact
    <3> QED
      BY <1>1, <2>1, <3>1, <3>2
  <2>6. e \notin Conn
    BY <1>1, <2>1, BoundsAssumption DEF End, Conn
  <2> HIDE DEF v
  <2>7. InTurn(v, -e, q[a].pc)
    <3>1. -e \notin net.kept
      BY <2>1 DEF Talking, Conversation, Talk, InTurn
    <3>2. v.kept = net.kept
      BY <1>1, <1>2, <1>6, WriteExact DEF v
    <3> QED
      BY <1>1, <1>6, <2>1, <2>2, <2>5, <3>1, <3>2 DEF InTurn, AtMost, Answer
  <2>8. ASSUME NEW b \in Server, q[b].pc \in Configures
        PROVE  net.fdt[b][q[b].i] # e
    <3>1. q[b].i \in Fd /\ b # n
      <4>1. b # n
        BY <1>3, <1>5, <2>8 DEF Configures
      <4> QED
        BY <1>8, <2>8, <4>1 DEF Conversation, Each, AboutToAnswer
    <3>2. proc[n].i \in Fd
      BY <1>3 DEF Talking, Conversation, Each, AboutToAnswer, Configures
    <3> QED
      BY <1>1, <1>2, <3>1, <3>2 DEF Sound, OneHolder, e
  <2>9. ASSUME NEW k \in Conn \cap {e, -e}
        PROVE  /\ \A b \in Server : Reads(net, q, b, k) => InTurn(v, k, q[b].pc)
               /\ (\A b \in Server : ~ Reads(net, q, b, k)) => Idle(v, k)
               /\ \A b \in Server : q[b].pc \in Configures =>
                                      net.fdt[b][q[b].i] # -k
    <3>1. k = -e /\ -k = e
      BY <1>1, <2>6
    <3>2. Reads(net, q, a, k)
      BY <2>1, <2>2, <2>3, <3>1
    <3> QED
      BY <2>4, <2>7, <2>8, <3>1, <3>2
  <2>10. ASSUME server_len <= 2, NEW b \in Server, NEW k \in Conn,
                Reads(net, q, b, k)
         PROVE  ~ Holding(net, a, -k)
    <3>1. b = a
      BY <2>2, <2>3, <2>10, AtMostTwo
    <3>2. Holding(net, a, k)
      BY <2>3, <2>10, <3>1, ReadsHeld DEF Talking, Conversation, Each
    <3> QED
      BY <3>2, NotBothEnds
  <2>11. \E b \in Server : Reads(net, q, b, -e) /\ q[b].pc = "read_result"
    BY <2>1, <2>2, <2>3
  <2> QED
    BY <2>4, <2>9, <2>10, <2>11 DEF MayWrite, v
<1>10. MayWrite(net, q, host', n, e, m)
  BY <1>9 DEF MayWrite
<1> QED
  BY <1>1, <1>2, <1>5, <1>6, <1>7, <1>8, <1>10, ReplyTalk DEF q

LEMMA ReadEofTalk ==
  ASSUME SInv, Talking, NEW n \in Server, NEW f \in Fd, ReadEof(n, f)
  PROVE  Talking'
<1> DEFINE w == Close(net, n, f)
           q == [proc[n] EXCEPT !.buffer = Empty]
<1>1. Become(n, w, q) /\ UNCHANGED host /\ proc[n].pc = "loop"
  BY DEF ReadEof, Watched
<1>2. Safe(n, w) /\ Fewer(net, w)
  BY NetTalk, CloseSafe, CloseFewer
<1>3. q.pc = "loop" /\ Remembers(q)
  BY <1>1 DEF Talking, Conversation, Each, Remembers, SInv, IInv, Process
<1>4. OthersKept(n, proc, host') /\ host'[n].vrd = host[n].vrd
  BY <1>1 DEF OthersKept
<1>5. \A k \in Conn : ~ Reads(net, proc, n, k)
  BY <1>1 DEF Reads, Reading
<1> HIDE DEF w, q
<1> QED
  BY <1>1, <1>2, <1>3, <1>4, <1>5, BecomeTalk

LEMMA MountSetOnTalk ==
  ASSUME SInv, Talking, server_len > 1, NEW n \in Server, NEW f \in Fd,
         MountSetOn(n, f)
  PROVE  Talking'
<1> DEFINE w == AfterRead(n, f)
           p == WithBuffer(n, f)
<1>1. /\ Safe(n, w) /\ Fewer(net, w) /\ Sound(w) /\ w.fdt = net.fdt
      /\ \A k \in Conn : ~ Reads(net, proc, n, k)
      /\ Finish(p).pc = "loop" /\ Remembers(Finish(p))
  <2> DEFINE S == {"MOUNT_SET_ON"}
  <2>1. Receives(n, f, S)
    BY DEF MountSetOn
  <2> HIDE DEF S
  <2>2. Safe(n, w) /\ Fewer(net, w) /\ Sound(w) /\ w.fdt = net.fdt
    BY <2>1, ReceiveKernel
  <2>3. Finish(p).pc = "loop" /\ Remembers(Finish(p))
    BY <2>1, ReceiveMemory
  <2>4. \A k \in Conn : ~ Reads(net, proc, n, k)
    BY <2>1, ReceiveKernel
  <2> QED
    BY <2>2, <2>3, <2>4
<1>2. CASE Die(n, w) /\ UNCHANGED host
  <2>1. OthersKept(n, proc', host') /\ host'[n].vrd = host[n].vrd
    BY <1>2 DEF OthersKept, Die, SInv, IInv
  <2> QED
    BY <1>1, <1>2, <2>1, DieTalk DEF Holding
<1>3. CASE /\ host' = [host EXCEPT ![n].mount_file = Incoming(n, f).arg]
           /\ Become(n, w, Finish(p))
  <2>1. OthersKept(n, proc, host') /\ host'[n].vrd = host[n].vrd
    BY <1>3 DEF OthersKept, SInv, IInv, Host
  <2> HIDE DEF w, p
  <2> QED
    BY <1>1, <1>3, <2>1, BecomeTalk
<1> QED
  BY <1>2, <1>3 DEF MountSetOn

LEMMA CrashTalk ==
  ASSUME SInv, Talking, NEW n \in Server, Crash(n) PROVE Talking'
<1>1. Die(n, net) /\ UNCHANGED host
  BY DEF Crash
<1>2. OthersKept(n, proc', host') /\ host'[n].vrd = host[n].vrd
  BY <1>1 DEF OthersKept, Die, SInv, IInv
<1> QED
  BY <1>1, <1>2, NetTalk, DieTalk

LEMMA RestartTalk ==
  ASSUME SInv, Talking, NEW n \in Server, Restart(n) PROVE Talking'
<1>1. /\ proc[n].pc = "down" /\ proc' = [proc EXCEPT ![n] = Started]
      /\ UNCHANGED <<net, host>>
  BY DEF Restart
<1>2. /\ OthersKept(n, proc', host') /\ host'[n].vrd = host[n].vrd
      /\ proc'[n] = Started
  BY <1>1 DEF OthersKept, SInv, IInv
<1>3. proc'[n].pc = "loop" /\ Remembers(proc'[n])
  BY <1>2 DEF Started, Remembers
<1>4. \A k \in Conn : ~ Reads(net, proc, n, k)
  BY <1>1 DEF Reads, Reading
<1>5. Conversation(net, proc', host')
  BY <1>2, <1>3, <1>4, NetTalk, RestTalk
<1> QED
  BY <1>1, <1>5 DEF Talking

\* Nothing was written yet to what waits to be accepted.
LEMMA AcceptClientTalk ==
  ASSUME SInv, Talking, NEW n \in Server, AcceptClient(n) PROVE Talking'
<1> DEFINE v == Accept(net, n)
           f == LowestFd(net, n)
           k == Head(net.backlog[n])
<1>1. /\ Safe(n, net) /\ Sound(net) /\ Fewer(net, net) /\ net \in Kernel(Message)
  BY NetTalk
<1>2. /\ proc[n].pc = "loop" /\ net.backlog[n] # <<>> /\ UNCHANGED host
      /\ OthersKept(n, proc, host') /\ host'[n].vrd = host[n].vrd
  BY DEF AcceptClient, OthersKept
<1>3. ASSUME NEW x
      PROVE  LET q == [proc[n] EXCEPT !.client_sock = x] IN
             q.pc = "loop" /\ Remembers(q)
  BY <1>2 DEF Talking, Conversation, Each, Remembers, SInv, IInv, Process
<1>4. \A l \in Conn : ~ Reads(net, proc, n, l)
  BY <1>2 DEF Reads, Reading
<1>5. CASE ~ HasFd(net, n)
  <2> DEFINE q == [proc[n] EXCEPT !.client_sock = NoFd]
  <2>1. Become(n, net, q)
    BY <1>5 DEF AcceptClient
  <2>2. q.pc = "loop" /\ Remembers(q)
    BY <1>3
  <2> HIDE DEF q
  <2> QED
    BY <1>1, <1>2, <1>4, <2>1, <2>2, BecomeTalk
<1>6. CASE HasFd(net, n)
  <2> DEFINE q == [proc[n] EXCEPT !.client_sock = LowestFd(net, n)]
  <2>1. net' = v /\ proc' = [proc EXCEPT ![n] = q]
    BY <1>6 DEF AcceptClient, Become
  <2>2. q.pc = "loop" /\ Remembers(q)
    BY <1>3
  <2> HIDE DEF q
  <2>3. proc'[n] = q /\ \A a \in Server \ {n} : proc'[a] = proc[a]
    BY <2>1 DEF SInv, IInv
  <2>4. /\ Sound(v) /\ v.inq = net.inq /\ v.open = net.open
        /\ v.kept = net.kept
        /\ k \in Conn /\ net.inq[k] = <<>>
        /\ f \in Fd /\ net.fdt[n][f] = Free /\ v.fdt[n][f] = -k
        /\ \A a \in Server, g \in Fd :
             g # f \/ a # n => v.fdt[a][g] = net.fdt[a][g]
    <3>1. net \in Kernel(Message) /\ HasFd(net, n) /\ net.backlog[n] # <<>>
          /\ Sound(net)
      BY <1>1, <1>2, <1>6
    <3> QED
      BY <3>1, AcceptSound
  <2>5. -k \in End /\ -(-k) = k
    BY <2>4, EndFacts DEF Conn
  <2> HIDE DEF v, k, f
  <2>7. \A a \in Server, x \in End : x # -k => (Holding(v, a, x) <=> Holding(net, a, x))
    <3> SUFFICES ASSUME NEW a \in Server, NEW x \in End, x # -k
                 PROVE  \A g \in Fd : v.fdt[a][g] = x <=> net.fdt[a][g] = x
      BY DEF Holding
    <3> QED
      BY <2>4 DEF End, Free
  <2>8. \A a \in Server \ {n} : /\ \A x : Holding(v, a, x) <=> Holding(net, a, x)
                                /\ \A g \in Fd : v.fdt[a][g] = net.fdt[a][g]
    BY <2>4 DEF Holding
  <2>9. \A a \in Server : Settled(a, net, proc[a])
    BY DEF Talking, Conversation, Each
  <2>10. \A a \in Server : \A x : Reads(v, proc', a, x) <=> Reads(net, proc, a, x)
    <3>1. ~ proc[n].pc \in Reading /\ ~ proc'[n].pc \in Reading
      BY <1>2, <2>2, <2>3 DEF Reading
    <3> QED
      BY <2>3, <2>8, <2>9, <3>1 DEF Reads, Settled
  <2>11. \A l \in Conn : l # -k
    BY <2>4 DEF Conn
  <2>12. Talk(v, proc')
    <3>1. Talk(net, proc)
      BY DEF Talking, Conversation
    <3>2. ASSUME NEW l \in Conn PROVE Idle(net, l) => Idle(v, l)
      BY <2>4, <2>7, <2>11, EndFacts DEF Idle
    <3>3. ASSUME NEW l \in Conn, NEW pc PROVE InTurn(net, l, pc) => InTurn(v, l, pc)
      BY <2>4 DEF InTurn
    <3>4. \A a \in Server, l \in Conn : Reads(v, proc', a, l) => proc'[a] = proc[a]
      BY <1>4, <2>3, <2>10
    <3> QED
      BY <2>10, <3>1, <3>2, <3>3, <3>4 DEF Talk
  <2>13. ASSUME NEW a \in Server PROVE Each(v, proc', host', a)
    <3>1. Each(net, proc, host, a)
      BY DEF Talking, Conversation
    <3>2. Settled(a, v, proc'[a]) /\ Remembers(proc'[a])
      BY <2>2, <2>3, <2>8, <3>1 DEF Each, Settled, Reading
    <3>3. AboutToAnswer(v, proc', a)
      <4>1. CASE a = n
        BY <2>2, <2>3, <4>1 DEF AboutToAnswer, Configures
      <4>2. CASE a # n
        <5>1. proc'[a] = proc[a] /\ AboutToAnswer(net, proc, a)
          BY <2>3, <3>1, <4>2 DEF Each
        <5>2. ASSUME NEW b \in Server, NEW x, Reads(net, proc, b, x),
                     proc[b].pc = "read_result"
              PROVE  Reads(v, proc', b, x) /\ proc'[b].pc = "read_result"
          BY <1>2, <2>3, <2>10, <5>2
        <5>3. \A g \in Fd : v.fdt[a][g] = net.fdt[a][g]
          BY <2>8, <4>2
        <5> QED
          BY <2>4, <5>1, <5>2, <5>3 DEF AboutToAnswer
      <4> QED
        BY <4>1, <4>2
    <3>4. Deaf(v, proc', a)
      <4>1. CASE a = n
        BY <2>2, <2>3, <4>1 DEF Deaf, Working
      <4>2. CASE a # n
        BY <2>3, <2>4, <2>8, <2>10, <3>1, <4>2 DEF Each, Deaf, Working, Settled, Reading
      <4> QED
        BY <4>1, <4>2
    <3>5. Unreported(v, proc', host', a)
      <4> SUFFICES ASSUME ~ host[a].vrd \/ proc[a].pc \in {"read_nbd", "report"},
                          NEW x \in End, Holding(v, a, x), SuccessAt(net, -x)
                   PROVE  \E b \in Server : /\ Reads(net, proc, b, -x)
                                            /\ proc'[b].pc = "read_result"
        BY <1>2, <2>2, <2>3, <2>4, <2>10 DEF Unreported, SuccessAt
      <4>1. x # -k
        BY <2>4, <2>5 DEF SuccessAt
      <4>2. PICK b \in Server : Reads(net, proc, b, -x) /\ proc[b].pc = "read_result"
        BY <2>7, <3>1, <4>1 DEF Each, Unreported
      <4> QED
        BY <1>2, <2>3, <4>2
    <3> QED
      BY <3>2, <3>3, <3>4, <3>5 DEF Each
  <2> QED
    BY <2>1, <2>4, <2>12, <2>13 DEF Talking, Conversation
<1> QED
  BY <1>5, <1>6

-----------------------------------------------------------------------------
(* The coordinator.                                                        *)

\* A question on a connection of its own, or an announcement.
LEMMA SendTalk ==
  ASSUME NEW w \in Kernel(Message), NEW n \in Server, NEW m \in Message,
         Reaches(n, w), w.made < MaxConns,
         NEW p, NEW q, NEW h, NEW g, Conversation(w, p, h),
         \A a \in Server \ {n} : q[a] = p[a] /\ g[a].vrd = h[a].vrd,
         p[n].pc \notin Reading, q[n].pc \notin Configures, Remembers(q[n]),
         q[n].pc \notin Reading => m.word = "MOUNT_SET_ON",
         q[n].pc \in Reading => /\ q[n].sock = LowestFd(w, n)
                                /\ m.word = Question(q[n].pc),
         q[n].pc \in {"assemble", "module", "read_nbd", "report"} =>
           p[n].pc \in {"assemble", "module", "report"},
         ~ g[n].vrd \/ q[n].pc \in {"read_nbd", "report"} =>
           ~ h[n].vrd \/ p[n].pc = "report"
  PROVE  Conversation(SendTo(n, w, m), q, g)
<1> DEFINE v == SendTo(n, w, m)
           k == w.made + 1
           f == LowestFd(w, n)
<1>1. /\ Sound(v) /\ v \in Kernel(Message)
      /\ k \in Conn /\ f \in Fd /\ w.fdt[n][f] = Free /\ v.fdt[n][f] = k
      /\ \A a \in Server, x \in Fd :
           <<a, x>> # <<n, f>> => v.fdt[a][x] = w.fdt[a][x]
      /\ v.inq[-k] = <<m>> /\ v.inq[k] = <<>> /\ w.inq[-k] = <<>>
      /\ \A x \in End : x # -k => v.inq[x] = w.inq[x]
      /\ \A x \in End : v.open[x] <=> x \in {k, -k} \/ w.open[x]
      /\ v.kept = w.kept /\ k \notin w.kept
      /\ \A a \in Server : ~ Holding(w, a, k) /\ ~ Holding(w, a, -k)
  BY SendExact DEF Conversation
<1>2. q[n].pc \in Reading => q[n].sock = f
  OBVIOUS
<1> HIDE DEF v, k, f
<1>3. /\ k \in End /\ -k \in End /\ -(-k) = k /\ k # -k
      /\ \A l \in Conn : l # -k
  BY <1>1, EndFacts, BoundsAssumption DEF Conn, End
<1>4. \A a \in Server \ {n} : \A x \in Fd : v.fdt[a][x] = w.fdt[a][x]
  BY <1>1
<1>5. \A a \in Server, x \in End : x # k => (Holding(v, a, x) <=> Holding(w, a, x))
  <2> SUFFICES ASSUME NEW a \in Server, NEW x \in End, x # k
               PROVE  \A y \in Fd : v.fdt[a][y] = x <=> w.fdt[a][y] = x
    BY DEF Holding
  <2> QED
    BY <1>1 DEF End, Free
<1>6. \A a \in Server : /\ Settled(a, w, p[a]) /\ Each(w, p, h, a)
  BY DEF Conversation, Each
<1>7. \A a \in Server \ {n} : \A x : Reads(v, q, a, x) <=> Reads(w, p, a, x)
  BY <1>4, <1>6 DEF Reads, Settled
<1>8. \A x : Reads(v, q, n, x) <=> q[n].pc \in Reading /\ x = k
  BY <1>1, <1>2 DEF Reads
<1>9. \A x : ~ Reads(w, p, n, x)
  BY DEF Reads
<1>10. \A a \in Server : ~ Reads(w, p, a, k)
  BY <1>1, <1>6, ReadsHeld
<1>11. ASSUME NEW l \in Conn, l # k
       PROVE  /\ v.inq[l] = w.inq[l] /\ v.inq[-l] = w.inq[-l]
              /\ v.open[l] <=> w.open[l]
              /\ \A a \in Server : Holding(v, a, l) <=> Holding(w, a, l)
  <2>1. l \in End /\ -l \in End /\ l # -k /\ -l # -k
    BY <1>1, <1>3, <1>11, EndFacts DEF Conn
  <2> QED
    BY <1>1, <1>5, <1>11, <2>1
<1>12. Talk(v, q)
  <2>1. Talk(w, p) /\ AtMost(<<m>>, {m.word})
    BY DEF Conversation, AtMost
  <2>2. ASSUME NEW a \in Server, NEW l \in Conn, Reads(v, q, a, l)
        PROVE  InTurn(v, l, q[a].pc)
    <3>1. CASE a = n
      <4>1. l = k /\ q[n].pc \in Reading
        BY <1>8, <2>2, <3>1
      <4>2. InTurn(v, k, q[n].pc)
        BY <1>1, <2>1, <4>1 DEF InTurn, AtMost
      <4> QED
        BY <3>1, <4>1, <4>2
    <3>2. CASE a # n
      <4>1. Reads(w, p, a, l) /\ l # k /\ q[a] = p[a]
        BY <1>7, <1>10, <2>2, <3>2
      <4>2. InTurn(w, l, p[a].pc)
        BY <2>1, <4>1 DEF Talk
      <4> QED
        BY <1>1, <1>11, <4>1, <4>2 DEF InTurn
    <3> QED
      BY <3>1, <3>2
  <2>3. ASSUME NEW l \in Conn, \A a \in Server : ~ Reads(v, q, a, l)
        PROVE  Idle(v, l)
    <3>1. CASE l = k
      <4>1. m.word = "MOUNT_SET_ON"
        BY <1>8, <2>3, <3>1
      <4>2. "MOUNT_SET_ON" \in Word
        BY DEF Word, Command
      <4>3. AtMost(v.inq[-k], Word)
        BY <1>1, <2>1, <4>1, <4>2 DEF AtMost
      <4>4. \A j \in 1..Len(v.inq[-k]) : v.inq[-k][j].word = "MOUNT_SET_ON"
        BY <1>1, <4>1
      <4>5. Idle(v, k)
        BY <1>1, <4>3, <4>4 DEF Idle, AtMost
      <4> QED
        BY <3>1, <4>5
    <3>2. CASE l # k
      <4>1. \A a \in Server : ~ Reads(w, p, a, l)
        BY <1>7, <1>9, <2>3
      <4>2. Idle(w, l)
        BY <2>1, <4>1 DEF Talk
      <4> QED
        BY <1>11, <3>2, <4>2 DEF Idle
    <3> QED
      BY <3>1, <3>2
  <2> QED
    BY <2>2, <2>3 DEF Talk
<1>13. ASSUME NEW a \in Server, NEW x, Reads(w, p, a, x)
       PROVE  Reads(v, q, a, x) /\ q[a] = p[a]
  BY <1>7, <1>9, <1>13
<1>14. \A a \in Server : Settled(a, v, q[a]) /\ Remembers(q[a])
  <2>1. Settled(n, v, q[n])
    BY <1>1, <1>2 DEF Settled
  <2> QED
    BY <1>4, <1>6, <2>1 DEF Settled, Each
<1>15. ASSUME NEW a \in Server PROVE AboutToAnswer(v, q, a)
  <2> SUFFICES ASSUME a # n, p[a].pc \in Configures, q[a] = p[a]
               PROVE  AboutToAnswer(v, q, a)
    BY DEF AboutToAnswer
  <2>1. AboutToAnswer(w, p, a)
    BY <1>6 DEF Each
  <2>2. PICK e \in End :
          /\ p[a].i \in Fd /\ w.fdt[a][p[a].i] = e
          /\ w.open[-e] =>
               /\ -e \in Conn /\ w.inq[e] = <<>> /\ w.inq[-e] = <<>>
               /\ \E b \in Server : Reads(w, p, b, -e) /\ p[b].pc = "read_result"
    BY <2>1 DEF AboutToAnswer
  <2>3. v.fdt[a][p[a].i] = e /\ Holding(w, a, e)
    BY <1>4, <2>2 DEF Holding
  <2>4. e # k /\ e # -k /\ -e \in End /\ -e # k /\ -e # -k
    BY <1>1, <1>3, <2>3, EndFacts, BoundsAssumption DEF End
  <2>5. /\ v.inq[e] = w.inq[e] /\ v.inq[-e] = w.inq[-e]
        /\ v.open[-e] <=> w.open[-e]
    BY <1>1, <2>4
  <2> QED
    BY <1>13, <2>2, <2>3, <2>5 DEF AboutToAnswer
<1>16. ASSUME NEW a \in Server PROVE Deaf(v, q, a)
  <2> SUFFICES ASSUME server_len <= 2, Working(v, q, a), NEW b \in Server,
                      NEW l \in Conn, Reads(v, q, b, l)
               PROVE  ~ Holding(v, a, -l)
    BY DEF Deaf
  <2>1. -l \in End /\ -l # k
    BY <1>1, EndFacts DEF Conn
  <2>2. CASE l = k
    BY <1>1, <1>5, <2>1, <2>2
  <2>3. CASE l # k
    <3>1. Reads(w, p, b, l)
      BY <1>7, <1>8, <2>3
    <3>2. Working(w, p, a)
      <4>1. CASE a = n
        <5>1. ~ (q[n].pc = "read_result" /\ v.inq[v.fdt[n][q[n].sock]] # <<>>)
          BY <1>1, <1>2 DEF Reading
        <5> QED
          BY <4>1, <5>1 DEF Working
      <4>2. CASE a # n
        <5>1. q[a] = p[a]
          BY <4>2
        <5>2. CASE p[a].pc = "read_result"
          <6>1. p[a].sock \in Fd /\ w.fdt[a][p[a].sock] \in Conn
            BY <1>6, <5>2 DEF Settled, Reading
          <6>2. /\ v.fdt[a][p[a].sock] = w.fdt[a][p[a].sock]
                /\ w.fdt[a][p[a].sock] # k
            BY <1>1, <1>4, <4>2, <6>1 DEF Holding
          <6> QED
            BY <1>11, <5>1, <5>2, <6>1, <6>2 DEF Working
        <5> QED
          BY <5>1, <5>2 DEF Working
      <4> QED
        BY <4>1, <4>2
    <3>3. ~ Holding(w, a, -l)
      BY <1>6, <3>1, <3>2 DEF Each, Deaf
    <3> QED
      BY <1>5, <2>1, <3>3
  <2> QED
    BY <2>2, <2>3
<1>17. ASSUME NEW a \in Server PROVE Unreported(v, q, g, a)
  <2> SUFFICES ASSUME ~ g[a].vrd \/ q[a].pc \in {"read_nbd", "report"},
                      NEW e \in End, Holding(v, a, e), SuccessAt(v, -e)
               PROVE  \E b \in Server : /\ Reads(v, q, b, -e)
                                        /\ q[b].pc = "read_result"
    BY DEF Unreported
  <2>1. ~ h[a].vrd \/ p[a].pc \in {"read_nbd", "report"}
    <3>1. CASE a = n
      BY <3>1
    <3>2. CASE a # n
      BY <3>2
    <3> QED
      BY <3>1, <3>2
  <2>2. -e \in End /\ -(-e) = e
    BY EndFacts, Mirror
  <2>3. e # k
    <3>1. SUFFICES ASSUME e = k PROVE FALSE
      OBVIOUS
    <3>2. m.word = "success"
      BY <1>1, <3>1 DEF SuccessAt
    <3> QED
      BY <3>2 DEF Question, Reading
  <2>4. Holding(w, a, e) /\ -e # -k
    BY <1>3, <1>5, <2>2, <2>3
  <2>5. SuccessAt(w, -e)
    BY <1>1, <2>2, <2>4 DEF SuccessAt
  <2>6. PICK b \in Server : Reads(w, p, b, -e) /\ p[b].pc = "read_result"
    BY <1>6, <2>1, <2>4, <2>5 DEF Each, Unreported
  <2> QED
    BY <1>13, <2>6
<1> QED
  BY <1>1, <1>12, <1>14, <1>15, <1>16, <1>17 DEF Conversation, Each, v

\* socket() and connect() from select, when nobody is reached.
LEMMA NoSendTalk ==
  ASSUME SInv, Talking, NEW n \in Server, NEW w, NEW m, NEW q,
         Safe(n, w), Fewer(net, w), Sound(w), w.fdt = net.fdt,
         ~ Reaches(n, w), Become(n, SendTo(n, w, m), q),
         OthersKept(n, proc, host'), host[n].vrd => host'[n].vrd,
         q.pc \in {"loop", "down"}, Remembers(q),
         \A k \in Conn : ~ Reads(net, proc, n, k)
  PROVE  Talking'
<1> DEFINE v == Take(w, n, Unconnected)
<1>1. SendTo(n, w, m) = v
  BY DEF SendTo
<1>2. Safe(n, v) /\ Fewer(net, v)
  BY TakeTalk DEF Holding
<1> HIDE DEF v
<1> QED
  BY <1>1, <1>2, BecomeTalk

LEMMA MountTalk ==
  ASSUME SInv, Talking, server_len > 1, NEW n \in Server, NEW f \in Fd,
         Mount(n, f)
  PROVE  Talking'
<1> DEFINE w == AfterRead(n, f)
           p == WithBuffer(n, f)
           m == [word |-> "MOUNT_SET_ON", arg |-> n]
           S == {"mount"}
<1>1. Receives(n, f, S) /\ net.made < MaxConns
  BY DEF Mount, Room
<1>2. /\ Safe(n, w) /\ Fewer(net, w) /\ Sound(w) /\ w.fdt = net.fdt
      /\ w.made = net.made
  <2> HIDE DEF S
  <2> QED
    BY <1>1, ReceiveKernel
<1>3. p.pc = "loop" /\ Remembers(p) /\ Finish(p).pc = "loop" /\ Remembers(Finish(p))
  <2> HIDE DEF S
  <2> QED
    BY <1>1, ReceiveMemory
<1>4. \A k \in Conn : ~ Reads(net, proc, n, k)
  <2> HIDE DEF S
  <2> QED
    BY <1>1, ReceiveKernel
<1>5. ASSUME NEW h, host' = [host EXCEPT ![n] = h], h.vrd = host[n].vrd
      PROVE  OthersKept(n, proc, host') /\ host'[n].vrd = host[n].vrd
  BY <1>5 DEF OthersKept, SInv, IInv
<1>6. proc \in [Server -> Process] /\ host[n] \in Host /\ host \in [Server -> Host]
  BY DEF SInv, IInv
<1>7. CASE Become(n, w, p) /\ UNCHANGED host
  <2>1. OthersKept(n, proc, host') /\ host'[n].vrd = host[n].vrd
    BY <1>7 DEF OthersKept
  <2> HIDE DEF w, p
  <2> QED
    BY <1>2, <1>3, <1>4, <1>7, <2>1, BecomeTalk
<1>8. CASE Die(n, w) /\ host' = [host EXCEPT ![n].mounted = TRUE]
  <2>1. OthersKept(n, proc', host') /\ host'[n].vrd = host[n].vrd
    BY <1>6, <1>8 DEF OthersKept, Die, Host
  <2> HIDE DEF w, p
  <2> QED
    BY <1>2, <1>8, <2>1, DieTalk DEF Holding
<1>9. CASE /\ host' = [host EXCEPT ![n] =
                         [host[n] EXCEPT !.mounted = TRUE, !.mount_file = n]]
           /\ Become(n, SendTo(n, w, m), Finish(p))
  <2>1. OthersKept(n, proc, host') /\ host'[n].vrd = host[n].vrd
    BY <1>5, <1>6, <1>9 DEF Host
  <2>2. CASE ~ Reaches(n, w)
    <3> HIDE DEF w, p, m
    <3> QED
      BY <1>2, <1>3, <1>4, <1>9, <2>1, <2>2, NoSendTalk
  <2>3. CASE Reaches(n, w)
    <3>1. net' = SendTo(n, w, m) /\ proc' = [proc EXCEPT ![n] = Finish(p)]
      BY <1>9 DEF Become
    <3>2. m \in Message /\ m.word = "MOUNT_SET_ON"
      BY DEF Message
    <3> HIDE DEF w, p, m
    <3>3. /\ proc'[n].pc = "loop" /\ Remembers(proc'[n])
          /\ OthersKept(n, proc', host')
      BY <1>3, <1>6, <2>1, <3>1 DEF OthersKept
    <3>4. KernelOf(n, w, Message) /\ w \in Kernel(Message)
      BY <1>2 DEF Safe, KernelOf
    <3>5. Conversation(w, proc', host')
      BY <1>2, <1>4, <2>1, <3>3, <3>4, RestTalk
    <3>6. proc'[n].pc \notin Reading
      BY <3>3 DEF Reading
    <3> QED
      BY <1>1, <1>2, <2>3, <3>1, <3>2, <3>3, <3>4, <3>5, <3>6, SendTalk
         DEF Talking, Configures
  <2> QED
    BY <2>2, <2>3
<1> QED
  BY <1>7, <1>8, <1>9 DEF Mount, MountMsgSend

LEMMA UserSetConfigTalk ==
  ASSUME SInv, Talking, server_len > 1, NEW n \in Server, NEW f \in Fd,
         UserSetConfig(n, f)
  PROVE  Talking'
<1> DEFINE w == AfterRead(n, f)
           p == WithBuffer(n, f)
           m == Say("CONTROLLER_SET_CONFIG")
           q == [p EXCEPT !.pc = "read_on", !.sock = LowestFd(w, n)]
           P == [proc EXCEPT ![n] = p]
           S == {"USER_SET_CONFIG"}
<1>1. Receives(n, f, S) /\ net.made < MaxConns /\ UNCHANGED host
  BY DEF UserSetConfig, Room
<1>2. /\ Safe(n, w) /\ Fewer(net, w) /\ Sound(w) /\ w.fdt = net.fdt
      /\ w.made = net.made
  <2> HIDE DEF S
  <2> QED
    BY <1>1, ReceiveKernel
<1>3. p.pc = "loop" /\ Remembers(p) /\ p \in Process
  <2> HIDE DEF S
  <2> QED
    BY <1>1, ReceiveMemory
<1>4. Finish(p).pc = "loop" /\ Remembers(Finish(p))
  <2> HIDE DEF S
  <2> QED
    BY <1>1, ReceiveMemory
<1>5. \A k \in Conn : ~ Reads(net, proc, n, k)
  <2> HIDE DEF S
  <2> QED
    BY <1>1, ReceiveKernel
<1>6. proc \in [Server -> Process] /\ OthersKept(n, proc, host')
      /\ host'[n].vrd = host[n].vrd
  BY <1>1 DEF SInv, IInv, OthersKept
<1>7. m \in Message /\ m.word = "CONTROLLER_SET_CONFIG"
  BY SayMessage DEF Word, Command
<1>8. Become(n, SendTo(n, w, m), IF Reaches(n, w) THEN q ELSE Finish(p))
  BY DEF UserSetConfig
<1>9. q.pc = "read_on" /\ q.sock = LowestFd(w, n) /\ Remembers(q)
  BY <1>3 DEF Remembers, Process
<1> HIDE DEF w, p, m, q
<1>10. CASE ~ Reaches(n, w)
  BY <1>2, <1>4, <1>5, <1>6, <1>8, <1>10, NoSendTalk
<1>11. CASE Reaches(n, w)
  <2>1. net' = SendTo(n, w, m) /\ proc' = [proc EXCEPT ![n] = q]
    BY <1>8, <1>11 DEF Become
  <2>2. P[n] = p /\ proc'[n] = q /\ \A a \in Server \ {n} : proc'[a] = P[a]
    BY <1>6, <2>1
  <2>3. OthersKept(n, P, host)
    BY <1>6 DEF OthersKept
  <2> HIDE DEF P
  <2>4. KernelOf(n, w, Message) /\ w \in Kernel(Message)
    BY <1>2 DEF Safe, KernelOf
  <2>5. Conversation(w, P, host)
    BY <1>2, <1>3, <1>5, <2>2, <2>3, <2>4, RestTalk
  <2>6. P[n].pc \notin Reading
    BY <1>3, <2>2 DEF Reading
  <2>7. proc'[n].pc \in Reading => m.word = Question(proc'[n].pc)
    BY <1>7, <1>9, <2>2 DEF Question
  <2>8. proc'[n].pc \in Reading
    BY <1>9, <2>2 DEF Reading
  <2> QED
    BY <1>1, <1>2, <1>7, <1>9, <1>11, <2>1, <2>2, <2>4, <2>5, <2>6, <2>7, <2>8,
       SendTalk DEF Talking, Configures
<1> QED
  BY <1>10, <1>11

\* What a controller blocked in a read finds: the answer or nobody.
LEMMA ReadingTalk ==
  ASSUME SInv, Talking, NEW n \in Server, proc[n].pc \in Reading,
         Readable(net, SockEnd(n))
  PROVE  LET e == SockEnd(n)
             w == Drain(net, e) IN
         /\ e \in Conn /\ e \in End /\ -e \in End /\ Holding(net, n, e)
         /\ proc[n].sock \in Fd
         /\ \A k : Reads(net, proc, n, k) <=> k = e
         /\ Safe(n, w) /\ Fewer(net, w) /\ Sound(w)
         /\ w.fdt = net.fdt /\ w.open = net.open
         /\ net.inq[e] # <<>> \/ ~ net.open[-e]
         /\ w.inq[e] = <<>> /\ w.inq[-e] = <<>>
         /\ net.inq[e] # <<>> => Head(net.inq[e]).word = Answer(proc[n].pc)
         /\ net.err[e] = "reset" => ~ net.open[-e]
<1> DEFINE e == SockEnd(n)
           w == Drain(net, e)
<1>1. e \in Conn /\ proc[n].sock \in Fd /\ Holding(net, n, e)
  BY DEF Talking, Conversation, Each, Settled, SockEnd, Holding
<1>2. \A k : Reads(net, proc, n, k) <=> k = e
  BY DEF Reads, SockEnd
<1> HIDE DEF e
<1>3. e \in End /\ -e \in End /\ e # -e
  BY <1>1, EndFacts DEF Conn
<1>4. /\ Safe(n, w) /\ Fewer(net, w) /\ Sound(w)
      /\ w.fdt = net.fdt /\ w.open = net.open
      /\ w.inq = [net.inq EXCEPT ![e] = <<>>]
  BY <1>3, DrainTalk
<1>5. Sound(net) /\ net.inq \in [End -> Seq(Message)]
  BY NetTalk
<1>6. InTurn(net, e, proc[n].pc)
  BY <1>1, <1>2 DEF Talking, Conversation, Talk
<1>7. net.err[e] # "none" => ~ net.open[-e]
  BY <1>3, <1>5 DEF Sound, ClosedEmpty
<1>8. net.inq[e] # <<>> \/ ~ net.open[-e]
  BY <1>7 DEF Readable, Hung, e
<1>9. net.inq[-e] = <<>>
  BY <1>3, <1>5, <1>6, <1>8 DEF Sound, ClosedEmpty, InTurn
<1>10. w.inq[e] = <<>> /\ w.inq[-e] = <<>>
  BY <1>3, <1>4, <1>5, <1>9
<1>11. net.inq[e] # <<>> => Head(net.inq[e]).word = Answer(proc[n].pc)
  BY <1>6 DEF InTurn, AtMost
<1> QED
  BY <1>1, <1>2, <1>3, <1>4, <1>7, <1>8, <1>10, <1>11 DEF e

\* The process n has read, and goes on without writing.
LEMMA OnwardTalk ==
  ASSUME SInv, Talking, NEW n \in Server, NEW w,
         Safe(n, w), Fewer(net, w), NEW q, Become(n, w, q),
         OthersKept(n, proc, host'),
         \A k \in Conn : Reads(net, proc, n, k) => Leaves(net, w, n, k),
         q.pc \notin Reading \cup Configures, Remembers(q),
         q.pc \in {"assemble", "module", "report"} => Working(net, proc, n),
         ~ host'[n].vrd \/ q.pc = "report" =>
           ~ host[n].vrd \/ proc[n].pc \in {"read_nbd", "report"}
  PROVE  Talking'
<1>1. net' = w /\ proc' = [proc EXCEPT ![n] = q]
  BY DEF Become
<1>2. proc'[n] = q /\ \A a \in Server \ {n} : proc'[a] = proc[a]
  BY <1>1 DEF SInv, IInv
<1>3. Onward(net, w, proc, proc', host, host', n)
  BY <1>2 DEF Onward, Settled, AboutToAnswer, Working, Reading
<1>4. \A k \in Conn : ~ Reads(w, proc', n, k)
  BY <1>2 DEF Reads
<1>5. \A k \in Conn : Holding(net, n, -k) => ~ Holding(net, n, k)
  BY NotBothEnds
<1>6. \A a \in Server \ {n} :
        /\ proc'[a] = proc[a] /\ host'[a].vrd = host[a].vrd
        /\ \A f \in Fd : w.fdt[a][f] = net.fdt[a][f]
  BY <1>2 DEF OthersKept, Safe, KernelOf
<1>7. net \in Kernel(Message) /\ w \in Kernel(Message)
  BY NetTalk DEF Safe, KernelOf
<1>8. Conversation(w, proc', host')
  BY <1>3, <1>4, <1>5, <1>6, <1>7, ShrinkTalk DEF Talking
<1> QED
  BY <1>1, <1>8 DEF Talking

LEMMA MsgSendReadResultTalk ==
  ASSUME SInv, Talking, server_len > 1, NEW n \in Server, MsgSendReadResult(n)
  PROVE  Talking'
<1> DEFINE e == SockEnd(n)
           w == Drain(net, e)
<1>1. proc[n].pc = "read_result" /\ proc[n].pc \in Reading /\ Readable(net, e)
      /\ UNCHANGED host
  BY DEF MsgSendReadResult, Reading
<1>2. /\ \A k : Reads(net, proc, n, k) <=> k = e
      /\ Safe(n, w) /\ Fewer(net, w)
      /\ net.inq[e] # <<>> \/ ~ net.open[-e]
      /\ w.inq[e] = <<>> /\ w.inq[-e] = <<>>
      /\ net.inq[e] # <<>> => Head(net.inq[e]).word = "success"
  BY <1>1, ReadingTalk DEF Answer
<1>3. Remembers(proc[n]) /\ proc[n] \in Process
  BY DEF Talking, Conversation, Each, SInv, IInv
<1>4. Resting(proc[n])
  BY <1>1, RestingFacts
<1>5. PICK reply \in Answers(n, {proc[n].reply}) :
        Become(n, w,
          Finish([proc[n] EXCEPT
            !.reply = "eof", !.sock = NoFd,
            !.count = IF reply = "success" THEN @ + 1 ELSE @,
            !.unsuccess_flag = IF reply = "unsuccess" THEN 1 ELSE @]))
  BY DEF MsgSendReadResult
<1> DEFINE p == [proc[n] EXCEPT
                   !.reply = "eof", !.sock = NoFd,
                   !.count = IF reply = "success" THEN @ + 1 ELSE @,
                   !.unsuccess_flag = IF reply = "unsuccess" THEN 1 ELSE @]
           q == Finish(p)
<1>6. /\ reply # "unsuccess"
      /\ reply = "success" => net.inq[e] # <<>>
  BY <1>1, <1>2, <1>3, <1>5 DEF Answers, Remembers
<1>7. /\ p.unsuccess_flag = 0 /\ p.nbd_count = 0
      /\ p.count = IF reply = "success" THEN proc[n].count + 1 ELSE proc[n].count
  BY <1>3, <1>4, <1>6 DEF Remembers, Resting, Process
<1>8. proc[n].count # server_len - 1
  BY <1>3, <1>4, ServerLen DEF Resting, Process
<1>9. /\ q.pc \in {"loop", "assemble"} /\ q.unsuccess_flag = 0
      /\ q.pc = "assemble" => reply = "success"
  <2>1. p.count = server_len - 1 => reply = "success"
    BY <1>7, <1>8
  <2>2. \A x : LET r == [p EXCEPT !.pc = x] IN r.pc = x /\ r.unsuccess_flag = 0
    BY <1>3, <1>7 DEF Process
  <2> HIDE DEF p
  <2>3. q = [p EXCEPT !.pc = IF p.count = server_len - 1 THEN "assemble" ELSE "loop"]
    BY <1>7, ServerLen DEF Finish
  <2> QED
    BY <2>1, <2>2, <2>3
<1>10. Become(n, w, q)
  BY <1>5
<1> HIDE DEF q, p
<1>11. q.pc = "assemble" => Working(net, proc, n)
  BY <1>1, <1>6, <1>9 DEF Working, SockEnd
<1>12. Remembers(q) /\ q.pc \notin Reading \cup Configures
  BY <1>9 DEF Remembers, Reading, Configures
<1>13. \A k \in Conn : Reads(net, proc, n, k) => Leaves(net, w, n, k)
  BY <1>2 DEF Leaves
<1>14. OthersKept(n, proc, host') /\ host'[n].vrd = host[n].vrd
  BY <1>1 DEF OthersKept
<1> HIDE DEF w, e
<1> QED
  BY <1>2, <1>9, <1>10, <1>11, <1>12, <1>13, <1>14, OnwardTalk

\* The second question of msg_send, on the connection of the first.
LEMMA ReadOnTalk ==
  ASSUME SInv, Talking, NEW n \in Server, proc[n].pc = "read_on",
         Readable(net, SockEnd(n)), NEW q, q.pc = "read_result",
         q.sock = proc[n].sock, Remembers(q), NEW v,
         Safe(n, v), Fewer(net, v),
         v.inq[SockEnd(n)] = <<>>, v.inq[-SockEnd(n)] = <<>>,
         v.fdt[n][proc[n].sock] = SockEnd(n)
  PROVE  Conversation(v, [proc EXCEPT ![n] = q], host)
<1> DEFINE e == SockEnd(n)
           Q == [proc EXCEPT ![n] = q]
<1>1. proc[n].pc \in Reading
  BY DEF Reading
<1>2. /\ e \in Conn /\ e \in End /\ proc[n].sock \in Fd
      /\ \A k : Reads(net, proc, n, k) <=> k = e
      /\ net.inq[e] # <<>> \/ ~ net.open[-e]
  BY <1>1, ReadingTalk
<1>3. Q[n] = q /\ \A a \in Server \ {n} : Q[a] = proc[a]
  BY DEF SInv, IInv
<1>4. v.open[e]
  BY <1>2 DEF Fewer, Holding
<1>5. ~ Working(v, Q, n)
  BY <1>3 DEF Working, SockEnd
<1> HIDE DEF e, Q
<1>6. \A k : Reads(v, Q, n, k) <=> k = e
  BY <1>3 DEF Reads, Reading, e
<1>7. Onward(net, v, proc, Q, host, host, n)
  BY <1>2, <1>3, <1>5 DEF Onward, Settled, AboutToAnswer, e, Configures
<1>8. Leaves(net, v, n, e)
  BY <1>2 DEF Leaves, e
<1>9. \A k \in Conn : Holding(net, n, -k) => ~ Holding(net, n, k)
  BY NotBothEnds
<1>10. \A a \in Server \ {n} :
         /\ Q[a] = proc[a] /\ \A f \in Fd : v.fdt[a][f] = net.fdt[a][f]
  BY <1>3 DEF Safe, KernelOf
<1>11. net \in Kernel(Message) /\ v \in Kernel(Message)
  BY NetTalk DEF Safe, KernelOf
<1>12. Conversation(net, proc, host)
  BY DEF Talking
<1>13. \A k \in Conn : Reads(net, proc, n, k) =>
          \/ Reads(v, Q, n, k) /\ Q[n].pc = proc[n].pc
          \/ Leaves(net, v, n, k) /\ (Reads(v, Q, n, k) => v.open[k])
  BY <1>2, <1>4, <1>8 DEF e
<1>14. \A k \in Conn : Reads(v, Q, n, k) => Reads(net, proc, n, k)
  BY <1>2, <1>6 DEF e
<1>15. Conversation(v, Q, host)
  BY <1>7, <1>9, <1>10, <1>11, <1>12, <1>13, <1>14, ShrinkTalk
<1> QED
  BY <1>15 DEF Q

LEMMA MsgSendReadOnTalk ==
  ASSUME SInv, Talking, server_len > 1, NEW n \in Server, MsgSendReadOn(n)
  PROVE  Talking'
<1> DEFINE e == SockEnd(n)
           w == Drain(net, e)
           u == Take(w, n, File)
<1>1. proc[n].pc = "read_on" /\ proc[n].pc \in Reading /\ Readable(net, e)
      /\ UNCHANGED host
  BY DEF MsgSendReadOn, Reading
<1>2. /\ e \in Conn /\ e \in End /\ -e \in End /\ Holding(net, n, e)
      /\ proc[n].sock \in Fd
      /\ \A k : Reads(net, proc, n, k) <=> k = e
      /\ Safe(n, w) /\ Fewer(net, w) /\ Sound(w)
      /\ w.fdt = net.fdt /\ w.open = net.open
      /\ w.inq[e] = <<>> /\ w.inq[-e] = <<>>
  BY <1>1, ReadingTalk
<1>3. proc \in [Server -> Process] /\ Remembers(proc[n]) /\ host \in [Server -> Host]
  BY DEF Talking, Conversation, Each, SInv, IInv
<1>4. PICK reply \in Answers(n, {"CONTROL_SET_ON", "eof"}),
           c \in (IF HasFd(w, n) THEN {host[n].dmbd_config}
                  ELSE Config \cup {Garbage}) :
        LET p == [proc[n] EXCEPT !.pc = "read_result", !.reply = reply] IN
        IF reply = "CONTROL_SET_ON"
        THEN Reply(n, u, e, [word |-> "config", arg |-> c], p)
        ELSE Become(n, w, p)
  BY DEF MsgSendReadOn
<1> DEFINE q == [proc[n] EXCEPT !.pc = "read_result", !.reply = reply]
           m == [word |-> "config", arg |-> c]
           Q == [proc EXCEPT ![n] = q]
<1>5. reply \in {"CONTROL_SET_ON", "eof"}
  <2>1. net.inq[e] # <<>> => Head(net.inq[e]).word = "CONTROL_SET_ON"
    BY <1>1, ReadingTalk DEF Answer
  <2> QED
    BY <1>4, <2>1 DEF Answers
<1>6. q.pc = "read_result" /\ q.sock = proc[n].sock /\ Remembers(q)
  BY <1>3, <1>5 DEF Process, Remembers
<1>7. m \in Message /\ m.word = "config"
  BY <1>3, <1>4 DEF Message, Host
<1>8. Q[n] = q /\ \A a \in Server \ {n} : Q[a] = proc[a]
  BY <1>3
<1>9. IF reply = "CONTROL_SET_ON" THEN Reply(n, u, e, m, q) ELSE Become(n, w, q)
  BY <1>4
<1>10. w.fdt[n][proc[n].sock] = e
  BY <1>2 DEF SockEnd
<1>11. OthersKept(n, proc, host') /\ host'[n].vrd = host[n].vrd
  BY <1>1 DEF OthersKept
<1> HIDE DEF q, m
<1>12. CASE reply # "CONTROL_SET_ON"
  <2>1. net' = w /\ proc' = Q
    BY <1>9, <1>12 DEF Become
  <2>2. Conversation(w, Q, host)
    BY <1>1, <1>2, <1>6, <1>10, ReadOnTalk
  <2> HIDE DEF w, Q
  <2> QED
    BY <1>1, <2>1, <2>2 DEF Talking
<1>13. CASE reply = "CONTROL_SET_ON"
  <2>1. /\ Safe(n, u) /\ Fewer(net, u) /\ Sound(u)
        /\ \A x \in End : Holding(net, n, x) => Holding(u, n, x)
        /\ \A f \in Fd : w.fdt[n][f] # Free => u.fdt[n][f] = w.fdt[n][f]
        /\ u.inq = w.inq /\ u.open = w.open
    BY <1>2, TakeTalk DEF Holding
  <2>2. u.fdt[n][proc[n].sock] = e
    BY <1>2, <1>10, <2>1 DEF End, Free
  <2>3. Conversation(u, Q, host)
    BY <1>1, <1>2, <1>6, <2>1, <2>2, ReadOnTalk
  <2> DEFINE v == Write(u, e, m)
  <2>4. u \in Kernel(Message) /\ Sound(net) /\ KernelOf(n, u, Message)
    BY <2>1, NetTalk DEF Safe, KernelOf
  <2> HIDE DEF u, w, e, Q
  <2>5. ASSUME u.open[-e] PROVE MayWrite(u, Q, host', n, e, m)
    <3>1. e # -e /\ -e \notin Conn
      BY <1>2, BoundsAssumption DEF Conn
    <3>2. v.inq[e] = <<>> /\ v.inq[-e] = Append(<<>>, m)
      <4>1. /\ \A x \in End : x # -e => v.inq[x] = u.inq[x]
            /\ v.inq[-e] = Append(u.inq[-e], m)
        BY <1>2, <1>7, <2>4, <2>5, WriteExact
      <4> QED
        BY <1>2, <2>1, <3>1, <4>1
    <3>3. Reads(u, Q, n, e)
      BY <1>6, <1>8, <2>2 DEF Reads, Reading
    <3>4. \A a \in Server : Reads(u, Q, a, e) => a = n
      BY <1>2, <2>3, <3>3, OneReader DEF Conversation, Sound, Each
    <3>9. v.kept = u.kept /\ e \notin u.kept
      <4>1. InTurn(u, e, Q[n].pc)
        BY <1>2, <2>3, <3>3 DEF Conversation, Talk
      <4> QED
        BY <1>2, <1>7, <2>4, <4>1, WriteExact DEF InTurn
    <3> HIDE DEF v
    <3>5. InTurn(v, e, Q[n].pc)
      BY <1>6, <1>7, <1>8, <3>2, <3>9 DEF InTurn, AtMost, Question
    <3>6. ASSUME NEW a \in Server, Q[a].pc \in Configures
          PROVE  u.fdt[a][Q[a].i] # -e
      <4>1. a # n /\ Q[a] = proc[a]
        BY <1>6, <1>8, <3>6 DEF Configures
      <4>2. AboutToAnswer(net, proc, a)
        BY DEF Talking, Conversation, Each
      <4>3. proc[a].i \in Fd /\ net.fdt[a][proc[a].i] # -e
        <5>1. SUFFICES ASSUME net.fdt[a][proc[a].i] = -e, proc[a].i \in Fd
                       PROVE  FALSE
          BY <3>6, <4>1, <4>2 DEF AboutToAnswer
        <5>2. net.open[e] /\ -(-e) = e
          BY <1>2, <2>4, Mirror DEF Sound, HeldOpen
        <5>3. PICK b \in Server : Reads(net, proc, b, e) /\ proc[b].pc = "read_result"
          BY <3>6, <4>1, <4>2, <5>1, <5>2 DEF AboutToAnswer
        <5>4. b = n
          BY <1>2, <5>3, OneReader DEF Talking, Conversation, Sound, Each
        <5> QED
          BY <1>1, <5>3, <5>4
      <4> QED
        BY <2>4, <4>1, <4>3 DEF KernelOf
    <3>7. \A a \in Server : ~ Reads(u, Q, a, -e)
      BY <2>3, <3>1, ReadsHeld DEF Conversation, Each
    <3>8. ASSUME NEW k \in Conn \cap {e, -e}
          PROVE  /\ \A a \in Server : Reads(u, Q, a, k) => InTurn(v, k, Q[a].pc)
                 /\ (\A a \in Server : ~ Reads(u, Q, a, k)) => Idle(v, k)
                 /\ \A a \in Server : Q[a].pc \in Configures =>
                                        u.fdt[a][Q[a].i] # -k
      <4>1. k = e
        BY <3>1
      <4> QED
        BY <3>3, <3>4, <3>5, <3>6, <4>1
    <3> QED
      BY <1>7, <3>7, <3>8 DEF MayWrite, v
  <2>6. MayWrite(u, Q, host', n, e, m)
    BY <2>5 DEF MayWrite
  <2>7. Reply(n, u, e, m, q) /\ Holding(u, n, e)
    BY <1>2, <1>9, <1>13, <2>1 DEF u, w, e
  <2> QED
    BY <1>1, <1>2, <1>7, <1>11, <2>1, <2>3, <2>6, <2>7, ReplyTalk DEF Q
<1> QED
  BY <1>12, <1>13

LEMMA AssembleTalk ==
  ASSUME SInv, Talking, NEW n \in Server, Assemble(n) PROVE Talking'
<1> DEFINE q == [proc[n] EXCEPT !.pc = "module"]
           Q == [proc EXCEPT ![n] = q]
<1>1. proc[n].pc = "assemble"
  BY DEF Assemble
<1>2. Safe(n, net) /\ Fewer(net, net) /\ Sound(net) /\ net \in Kernel(Message)
  BY NetTalk
<1>3. proc \in [Server -> Process] /\ host \in [Server -> Host]
      /\ Remembers(proc[n])
  BY DEF Talking, Conversation, Each, SInv, IInv
<1>4. CASE Die(n, net) /\ UNCHANGED host
  <2>1. OthersKept(n, proc', host') /\ host'[n].vrd = host[n].vrd
    BY <1>3, <1>4 DEF OthersKept, Die
  <2> QED
    BY <1>2, <1>4, <2>1, DieTalk
<1>5. CASE proc' = Q /\ net' \in {net, Inherit(net, n)}
           /\ OthersKept(n, proc, host') /\ host'[n].vrd = host[n].vrd
  <2>1. q.pc = "module" /\ Remembers(q)
    BY <1>3 DEF Process, Remembers
  <2>2. Q[n] = q /\ OthersKept(n, Q, host')
    BY <1>3, <1>5 DEF OthersKept
  <2> HIDE DEF q, Q
  <2>3. \A k \in Conn : ~ Reads(net, proc, n, k) /\ ~ Reads(net, Q, n, k)
    BY <1>1, <2>1, <2>2 DEF Reads, Reading
  <2>4. Onward(net, net, proc, Q, host, host', n)
    BY <1>1, <1>5, <2>1, <2>2
       DEF Onward, Settled, AboutToAnswer, Configures, Working, Reading
  <2>5. \A k \in Conn : Holding(net, n, -k) => ~ Holding(net, n, k)
    BY NotBothEnds
  <2>6. Conversation(net, Q, host')
    BY <1>2, <2>2, <2>3, <2>4, <2>5, ShrinkTalk DEF Talking, OthersKept
  <2>7. Q[n].pc \notin Reading /\ Wired(net)
    BY <2>1, <2>2 DEF Reading, SInv
  <2>8. Conversation(Inherit(net, n), Q, host')
    BY <1>2, <2>6, <2>7, InheritTalk
  <2> QED
    BY <1>5, <2>6, <2>8 DEF Talking
<1>6. ASSUME NEW ok, NEW T,
             host' = [host EXCEPT ![n] =
               [host[n] EXCEPT !.bestio = ok \/ @, !.attached = @ \cup T]]
      PROVE  OthersKept(n, proc, host') /\ host'[n].vrd = host[n].vrd
  BY <1>3, <1>6 DEF OthersKept, Host
<1>7. CASE ~ ReadDMBDRemoteOk(n, net, host[n])
  BY <1>4, <1>7 DEF Assemble
<1>8. CASE ReadDMBDRemoteOk(n, net, host[n])
  <2>1. PICK ok \in InsmodBestio(n), T \in NbdClient(n) :
          \E stays \in (IF T \subseteq host[n].attached THEN {FALSE} ELSE BOOLEAN) :
            /\ host' = [host EXCEPT ![n] =
                 [host[n] EXCEPT !.bestio = ok \/ @, !.attached = @ \cup T]]
            /\ Become(n, IF stays THEN Inherit(net, n) ELSE net, q)
    BY <1>8 DEF Assemble
  <2> HIDE DEF q
  <2>2. net' \in {net, Inherit(net, n)} /\ proc' = Q
    BY <2>1 DEF Become
  <2>3. OthersKept(n, proc, host') /\ host'[n].vrd = host[n].vrd
    BY <1>6, <2>1
  <2> QED
    BY <1>5, <2>2, <2>3
<1> QED
  BY <1>7, <1>8

LEMMA AssembleModuleTalk ==
  ASSUME SInv, Talking, server_len > 1, NEW n \in Server, AssembleModule(n)
  PROVE  Talking'
<1> DEFINE m == Say("NBD_SET_ON")
           r == FinishAssembly(proc[n])
           q == [proc[n] EXCEPT !.pc = "read_nbd", !.sock = LowestFd(net, n)]
<1>1. proc[n].pc = "module" /\ net.made < MaxConns
  BY DEF AssembleModule, Room
<1>2. Safe(n, net) /\ Fewer(net, net) /\ Sound(net) /\ net \in Kernel(Message)
  BY NetTalk
<1>3. proc \in [Server -> Process] /\ host \in [Server -> Host]
      /\ Remembers(proc[n])
  BY DEF Talking, Conversation, Each, SInv, IInv
<1>4. proc[n].nbd_count = 0
  BY <1>1 DEF SInv, Counted
<1>5. r.pc = "loop" /\ Remembers(r)
  <2> DEFINE t == [proc[n] EXCEPT !.count = 0]
  <2>1. t.nbd_count = 0 /\ t.unsuccess_flag = 0 /\ t \in Process
    BY <1>3, <1>4 DEF Process, Remembers
  <2>2. r = [t EXCEPT !.pc = IF t.nbd_count = server_len - 1 \/ t.unsuccess_flag = 1
                             THEN "report" ELSE "loop"]
    BY DEF FinishAssembly
  <2> HIDE DEF r, t
  <2>3. r = [t EXCEPT !.pc = "loop"]
    BY <2>1, <2>2, ServerLen
  <2> QED
    BY <2>1, <2>3 DEF Process, Remembers
<1>6. q.pc = "read_nbd" /\ q.sock = LowestFd(net, n) /\ Remembers(q)
  BY <1>3 DEF Process, Remembers
<1>7. m \in Message /\ m.word = "NBD_SET_ON"
  BY SayMessage DEF Word, Command
<1>8. PICK ok \in InsmodVrd(n) :
        /\ host' = [host EXCEPT ![n].vrd = ok \/ @]
        /\ IF ok /\ proc[n].count # 0
           THEN Become(n, SendTo(n, net, m), IF Reaches(n, net) THEN q ELSE r)
           ELSE Become(n, net, r)
  BY DEF AssembleModule
<1>9. OthersKept(n, proc, host') /\ (host[n].vrd => host'[n].vrd)
  BY <1>3, <1>8 DEF OthersKept, Host
<1>10. \A k \in Conn : ~ Reads(net, proc, n, k)
  BY <1>1 DEF Reads, Reading
<1> HIDE DEF m, r, q
<1>11. CASE Become(n, net, r)
  BY <1>2, <1>5, <1>9, <1>10, <1>11, BecomeTalk
<1>12. CASE ok /\ Become(n, SendTo(n, net, m), r) /\ ~ Reaches(n, net)
  BY <1>2, <1>5, <1>9, <1>10, <1>12, NoSendTalk
<1>13. CASE ok /\ Become(n, SendTo(n, net, m), q) /\ Reaches(n, net)
  <2>1. net' = SendTo(n, net, m) /\ proc' = [proc EXCEPT ![n] = q]
    BY <1>13 DEF Become
  <2>2. /\ proc'[n] = q
        /\ \A a \in Server \ {n} : proc'[a] = proc[a] /\ host'[a].vrd = host[a].vrd
    BY <1>3, <1>9, <2>1 DEF OthersKept
  <2>3. ~ host[n].vrd
    BY <1>8, <1>13 DEF InsmodVrd
  <2>4. /\ proc[n].pc \notin Reading /\ proc'[n].pc \in Reading
        /\ proc'[n].pc \notin Configures
    BY <1>1, <1>6, <2>2 DEF Reading, Configures
  <2>5. m.word = Question(proc'[n].pc)
    BY <1>6, <1>7, <2>2 DEF Question
  <2>6. Conversation(net, proc, host)
    BY DEF Talking
  <2> QED
    BY <1>1, <1>2, <1>6, <1>7, <1>13, <2>1, <2>2, <2>3, <2>4, <2>5, <2>6,
       SendTalk DEF Talking
<1> QED
  BY <1>8, <1>11, <1>12, <1>13

LEMMA NbdMsgSendReadTalk ==
  ASSUME SInv, Talking, server_len > 1, NEW n \in Server, NbdMsgSendRead(n)
  PROVE  Talking'
<1> DEFINE e == SockEnd(n)
           w == Drain(net, e)
<1>1. proc[n].pc = "read_nbd" /\ proc[n].pc \in Reading /\ Readable(net, e)
      /\ UNCHANGED host
  BY DEF NbdMsgSendRead, Reading
<1>2. /\ \A k : Reads(net, proc, n, k) <=> k = e
      /\ Safe(n, w) /\ Fewer(net, w)
      /\ net.inq[e] # <<>> \/ ~ net.open[-e]
      /\ w.inq[e] = <<>> /\ w.inq[-e] = <<>>
  BY <1>1, ReadingTalk
<1>3. Remembers(proc[n]) /\ proc[n] \in Process
  BY DEF Talking, Conversation, Each, SInv, IInv
<1>4. PICK reply \in (IF net.inq[SockEnd(n)] = <<>>
                    THEN {"NBD_CLIENT_LOAD", "eof"} ELSE Answers(n, {})) :
       Become(n, w,
         FinishAssembly([proc[n] EXCEPT
           !.sock = NoFd,
           !.nbd_count = IF reply = "NBD_CLIENT_LOAD" THEN @ + 1 ELSE @]))
  BY Zenon DEF NbdMsgSendRead
<1> DEFINE p == [proc[n] EXCEPT
                   !.sock = NoFd,
                   !.nbd_count = IF reply = "NBD_CLIENT_LOAD" THEN @ + 1 ELSE @]
           q == FinishAssembly(p)
           t == [p EXCEPT !.count = 0]
<1>5. t \in Process /\ t.unsuccess_flag = 0
  <2> DEFINE x == IF reply = "NBD_CLIENT_LOAD" THEN proc[n].nbd_count + 1
                  ELSE proc[n].nbd_count
  <2>1. x \in Nat
    BY <1>3 DEF Process
  <2>2. t = [proc[n] EXCEPT !.sock = NoFd, !.nbd_count = x, !.count = 0]
    BY <1>3 DEF Process
  <2> HIDE DEF t, x
  <2> QED
    BY <1>3, <2>1, <2>2 DEF Process, Remembers
<1>6. q = [t EXCEPT !.pc = IF t.nbd_count = server_len - 1 \/ t.unsuccess_flag = 1
                           THEN "report" ELSE "loop"]
  BY DEF FinishAssembly
<1>7. Become(n, w, q)
  BY <1>4
<1> HIDE DEF p, q, t
<1>8. q.pc \in {"loop", "report"} /\ Remembers(q)
  BY <1>5, <1>6 DEF Process, Remembers
<1>9. q.pc \notin Reading \cup Configures /\ Working(net, proc, n)
  BY <1>1, <1>8 DEF Reading, Working, Configures
<1>10. \A k \in Conn : Reads(net, proc, n, k) => Leaves(net, w, n, k)
  BY <1>2 DEF Leaves
<1>11. OthersKept(n, proc, host') /\ host'[n].vrd = host[n].vrd
  BY <1>1 DEF OthersKept
<1> HIDE DEF w, e
<1> QED
  BY <1>1, <1>2, <1>7, <1>8, <1>9, <1>10, <1>11, OnwardTalk

\* The last report: to a connection that nobody reads, and on whose queues no
\* report waits.
LEMMA ReportMay ==
  ASSUME SInv, Talking, NEW n \in Server, proc[n].pc = "report",
         server_len <= 2, host[n].vrd,
         NEW s \in End, Holding(net, n, s), NEW m \in Message, m.word = "success",
         NEW P, P[n].pc = "loop", \A a \in Server \ {n} : P[a] = proc[a],
         net.open[-s]
  PROVE  MayWrite(net, P, host, n, s, m)
<1> DEFINE v == Write(net, s, m)
<1>1. /\ -s \in End /\ -(-s) = s /\ s # -s /\ net \in Kernel(Message)
      /\ Sound(net) /\ net.open[s] /\ net.inq \in [End -> Seq(Message)]
  <2>1. Sound(net) /\ net \in Kernel(Message) /\ net.inq \in [End -> Seq(Message)]
    BY NetTalk
  <2>2. net.open[s]
    BY <2>1 DEF Sound, HeldOpen
  <2>3. -s \in End /\ s # -s
    BY BoundsAssumption DEF End
  <2> QED
    BY <2>1, <2>2, <2>3, Mirror
<1>2. ASSUME NEW a \in Server, NEW x, Reads(net, P, a, x)
      PROVE  a # n /\ P[a] = proc[a] /\ x \in Conn /\ x # s /\ x # -s
  <2>1. a # n
    BY <1>2 DEF Reads, Reading
  <2>2. P[a] = proc[a] /\ Reads(net, proc, a, x)
    BY <1>2, <2>1 DEF Reads
  <2>3. x \in Conn /\ Holding(net, a, x)
    BY <2>2 DEF Talking, Conversation, Each, Settled, Reads, Holding
  <2>4. x # s
    BY <1>1, <2>1, <2>3 DEF Sound, OneHolder, Holding
  <2>5. Working(net, proc, n)
    BY DEF Working
  <2>6. ~ Holding(net, n, -x)
    BY <2>2, <2>3, <2>5 DEF Talking, Conversation, Each, Deaf
  <2> QED
    BY <1>1, <2>1, <2>2, <2>3, <2>4, <2>6
<1>3. ASSUME NEW a \in Server, NEW x, x \in {s, -s} PROVE ~ Reads(net, proc, a, x)
  <2>1. a # n => P[a] = proc[a]
    OBVIOUS
  <2>2. Reads(net, proc, a, x) => a # n
    BY DEF Reads, Reading
  <2> QED
    BY <1>2, <1>3, <2>1, <2>2 DEF Reads
<1>4. ~ SuccessAt(net, -s)
  BY <1>3 DEF Talking, Conversation, Each, Unreported
<1>5. ASSUME NEW a \in Server, P[a].pc \in Configures
      PROVE  net.fdt[a][P[a].i] \notin {s, -s}
  <2>1. a # n /\ P[a] = proc[a] /\ AboutToAnswer(net, proc, a)
    BY <1>5 DEF Talking, Conversation, Each, Configures
  <2>2. PICK e \in End : /\ proc[a].i \in Fd /\ net.fdt[a][proc[a].i] = e
                         /\ net.open[-e] =>
                              \E b \in Server : Reads(net, proc, b, -e)
    BY <1>5, <2>1 DEF AboutToAnswer
  <2>3. e # s
    BY <1>1, <2>1, <2>2 DEF Sound, OneHolder, Holding
  <2>4. e # -s
    BY <1>1, <1>3, <2>2
  <2> QED
    BY <2>1, <2>2, <2>3, <2>4
<1>6. /\ v.open = net.open /\ v.fdt = net.fdt
      /\ \A x \in End : x # -s => v.inq[x] = net.inq[x]
      /\ v.inq[-s] = Append(net.inq[-s], m)
  BY <1>1, WriteExact
<1>7. \A j \in 1..Len(net.inq[-s]) : net.inq[-s][j].word # "success"
  BY <1>4 DEF SuccessAt
<1> HIDE DEF v
<1>8. CASE s \in Conn
  <2>1. Idle(net, s)
    BY <1>3, <1>8 DEF Talking, Conversation, Talk
  <2>2. \A j \in 1..Len(net.inq[-s]) : net.inq[-s][j].word = "MOUNT_SET_ON"
    BY <1>7, <2>1 DEF Idle
  <2>3. net.inq[-s] = <<>> \/ Len(net.inq[-s]) = 1
    BY <1>1, <1>7, <2>1 DEF Idle, AtMost, MisledReport
  <2>4. \/ v.inq[-s] = <<m>>
        \/ /\ Len(v.inq[-s]) = 2 /\ v.inq[-s][1].word = "MOUNT_SET_ON"
           /\ v.inq[-s][2] = m
    <3>1. v.inq[-s] = Append(net.inq[-s], m) /\ net.inq[-s] \in Seq(Message)
      BY <1>1, <1>6
    <3>2. CASE net.inq[-s] = <<>>
      BY <3>1, <3>2
    <3>3. CASE Len(net.inq[-s]) = 1
      BY <2>2, <3>1, <3>3
    <3> QED
      BY <2>3, <3>2, <3>3
  <2>5. v.inq[s] = net.inq[s]
    BY <1>1, <1>6
  <2>6. AtMost(v.inq[-s], Word) \/ MisledReport(v.inq[-s])
    <3>1. m.word \in Word
      BY DEF Word, Command
    <3>2. \A q : q = <<m>> => Len(q) = 1 /\ q[1] = m
      OBVIOUS
    <3> QED
      BY <2>4, <3>1, <3>2 DEF AtMost, MisledReport
  <2>7. \A j \in 1..Len(v.inq[-s]) : v.inq[-s][j].word \in {"MOUNT_SET_ON", "success"}
    BY <2>4
  <2>8. Idle(v, s)
    BY <1>1, <2>1, <2>5, <2>6, <2>7 DEF Idle
  <2> QED
    BY <1>1, <1>2, <1>5, <1>8, <2>8, EndFacts DEF MayWrite, v, Conn
<1>9. CASE -s \in Conn
  <2>1. Idle(net, -s)
    BY <1>3, <1>9 DEF Talking, Conversation, Talk
  <2>2. net.inq[-s] = <<>>
    BY <1>7, <2>1 DEF Idle, AtMost
  <2>3. v.inq[-s] = <<m>> /\ v.inq[s] = net.inq[s]
    BY <1>1, <1>6, <2>2
  <2>4. \A a \in Server : Holding(v, a, -s) <=> Holding(net, a, -s)
    BY <1>6 DEF Holding
  <2>5. Idle(v, -s)
    BY <1>1, <1>6, <2>1, <2>3, <2>4 DEF Idle, AtMost
  <2>6. s \notin Conn
    BY <1>9, BoundsAssumption DEF Conn, End
  <2> QED
    BY <1>1, <1>2, <1>5, <2>5, <2>6 DEF MayWrite, v
<1> QED
  BY <1>8, <1>9, EndFacts DEF End, Conn

LEMMA ReportTalk ==
  ASSUME SInv, Talking, server_len > 1, NEW n \in Server, Report(n)
  PROVE  Talking'
<1> DEFINE s == IF proc[n].client_sock = NoFd THEN Free
                ELSE net.fdt[n][proc[n].client_sock]
           m == Say("success")
           q == [proc[n] EXCEPT
                   !.success_flag = 1, !.nbd_count = 0,
                   !.pc = IF proc[n].unsuccess_flag = 1 THEN "report" ELSE "loop"]
           P == [proc EXCEPT ![n] = q]
<1>1. proc[n].pc = "report"
  BY DEF Report
<1>2. proc[n] \in Process /\ proc \in [Server -> Process] /\ Remembers(proc[n])
  BY DEF Talking, Conversation, Each, SInv, IInv
<1>3. proc[n].nbd_count = server_len - 1 /\ proc[n].unsuccess_flag = 0
  BY <1>1, <1>2 DEF Remembers
<1>4. host[n].vrd /\ server_len <= 2
  <2>1. proc[n].nbd_count > 0
    BY <1>3, ServerLen
  <2>2. host[n].vrd
    BY <2>1 DEF SInv, Counted
  <2> QED
    BY <2>2, ServerLen DEF SInv, OnlyTwoServersAssemble
<1>5. q.pc = "loop" /\ Remembers(q)
  BY <1>2, <1>3 DEF Process, Remembers
<1>6. P[n] = q /\ \A a \in Server \ {n} : P[a] = proc[a]
  BY <1>2
<1>7. /\ Safe(n, net) /\ Fewer(net, net) /\ Sound(net)
      /\ KernelOf(n, net, Message)
  BY NetTalk
<1>8. \A k \in Conn : ~ Reads(net, proc, n, k)
  BY <1>1 DEF Reads, Reading
<1>9. m \in Message /\ m.word = "success"
  BY SayMessage DEF Word, Command
<1>10. \/ Die(n, net) /\ host' = host
       \/ s \in End /\ Reply(n, net, s, m, q) /\ host' = host
       \/ /\ Become(n, net, q)
          /\ \/ host' = host
             \/ \E text : host' = [host EXCEPT ![n].dmbd_config = text]
  <2>1. IF ReadDMBDRemoteOk(n, net, host[n]) THEN WriteClientSock(n, "success", q)
        ELSE Die(n, net) /\ UNCHANGED host
    BY <1>3 DEF Report
  <2> HIDE DEF q
  <2> QED
    BY <2>1 DEF WriteClientSock
<1>11. host'[n].vrd = host[n].vrd /\ \A a \in Server \ {n} : host'[a] = host[a]
  <2>1. ASSUME NEW text, host' = [host EXCEPT ![n].dmbd_config = text]
        PROVE  host'[n].vrd = host[n].vrd /\ \A a \in Server \ {n} : host'[a] = host[a]
    BY <2>1 DEF SInv, IInv, Host
  <2> QED
    BY <1>10, <2>1
<1>12. s \in End => Holding(net, n, s)
  <2>1. proc[n].client_sock # NoFd => proc[n].client_sock \in Fd
    BY <1>2 DEF Process
  <2> QED
    BY <2>1 DEF Holding, End, Free
<1> HIDE DEF s, m, q, P
<1>13. OthersKept(n, P, host') /\ OthersKept(n, proc, host')
  BY <1>6, <1>11 DEF OthersKept
<1>14. CASE Die(n, net)
  <2>1. OthersKept(n, proc', host')
    BY <1>2, <1>11, <1>14 DEF OthersKept, Die
  <2> QED
    BY <1>7, <1>11, <1>14, <2>1, DieTalk
<1>15. CASE Become(n, net, q)
  BY <1>5, <1>7, <1>8, <1>11, <1>15, <1>13, BecomeTalk
<1>16. CASE s \in End /\ Reply(n, net, s, m, q) /\ host' = host
  <2>1. Conversation(net, P, host')
    BY <1>5, <1>6, <1>7, <1>8, <1>11, <1>13, RestTalk
  <2>2. CASE net.open[-s]
    <3>1. MayWrite(net, P, host', n, s, m)
      BY <1>1, <1>4, <1>5, <1>6, <1>9, <1>12, <1>16, <2>2, ReportMay
    <3> QED
      BY <1>7, <1>9, <1>11, <1>12, <1>16, <1>13, <2>1, <3>1, ReplyTalk DEF P
  <2>3. CASE ~ net.open[-s]
    <3>1. MayWrite(net, P, host', n, s, m)
      BY <2>3 DEF MayWrite
    <3> QED
      BY <1>7, <1>9, <1>11, <1>12, <1>16, <1>13, <2>1, <3>1, ReplyTalk DEF P
  <2> QED
    BY <2>2, <2>3
<1> QED
  BY <1>10, <1>14, <1>15, <1>16

-----------------------------------------------------------------------------
(* The clients.                                                            *)

LEMMA NetKernel == ASSUME SInv PROVE net \in Kernel(Message)
<1>1. Facts \subseteq Message /\ net \in Kernel(Facts)
  BY DEF Facts, SInv, IInv
<1> QED
  BY <1>1, KernelMonotone

\* A client connects and writes its request to a connection that is new.
LEMMA AskTalk ==
  ASSUME Talking, net \in Kernel(Message), NEW n \in Server, net.made < MaxConns,
         NEW m \in Message, m.word \in {"USER_SET_CONFIG", "mount"}
  PROVE  LET k == net.made + 1
             v == Write(Connect(net, n), k, m) IN
         /\ Conversation(v, proc, host) /\ v \in Kernel(Message)
         /\ k \in Conn /\ \A a \in Server : ~ Holding(v, a, k)
         /\ v.inq[k] = <<>>
<1> DEFINE k == net.made + 1
           u == Connect(net, n)
           v == Write(u, k, m)
<1>1. /\ u.fdt = net.fdt /\ u.inq = net.inq /\ u.made = k /\ k \in Conn
      /\ u.kept = net.kept
      /\ \A e \in End : u.open[e] <=> e \in {k, -k} \/ net.open[e]
  BY ConnectExact
<1>2. Sound(net) /\ Sound(u) /\ u \in Kernel(Message)
  BY ConnectSound, ConnectKernel DEF Talking, Conversation
<1>3. /\ k \in End /\ -k \in End /\ -(-k) = k /\ -k \notin Conn /\ -k # k
      /\ k > net.made
  <2>1. k > net.made
    BY DEF Kernel
  <2>2. k \in Conn /\ k \in End /\ -k \in End
    BY <1>1, EndFacts
  <2> HIDE DEF k
  <2> QED
    BY <2>1, <2>2, BoundsAssumption DEF Conn
<1>4. /\ net.inq[k] = <<>> /\ net.inq[-k] = <<>>
      /\ \A a \in Server : ~ Holding(net, a, k) /\ ~ Holding(net, a, -k)
  BY <1>1, <1>2, <1>3, UnusedUntouched
<1>5. \A a \in Server : ~ Waits(u, a, -k)
  BY <1>2, <1>3, BacklogConn DEF Waits
<1> HIDE DEF k, u
<1>6. /\ v.fdt = net.fdt /\ v \in Kernel(Message) /\ Sound(v)
      /\ v.open = u.open /\ v.kept = net.kept
      /\ \A x \in End : x # -k => v.inq[x] = net.inq[x]
      /\ v.inq[-k] = <<m>>
  <2>1. u.open[k] /\ u.open[-k]
    BY <1>1, <1>3
  <2>2. Sound(v) /\ v \in Kernel(Message)
    BY <1>2, <1>3, <1>5, <2>1, WriteSound, WriteKernel
  <2>3. /\ v.fdt = u.fdt /\ v.open = u.open /\ v.kept = u.kept
        /\ \A x \in End : x # -k => v.inq[x] = u.inq[x]
        /\ v.inq[-k] = Append(u.inq[-k], m)
    BY <1>2, <1>3, <2>1, WriteExact
  <2>4. Append(u.inq[-k], m) = <<m>>
    BY <1>1, <1>4
  <2> HIDE DEF v
  <2> QED
    BY <1>1, <2>2, <2>3, <2>4
<1> HIDE DEF v
<1>7. /\ \A x \in End : x \notin {k, -k} =>
           /\ -x \notin {k, -k} /\ -x \in End
           /\ v.inq[x] = net.inq[x] /\ v.inq[-x] = net.inq[-x]
           /\ (v.open[x] <=> net.open[x]) /\ (v.open[-x] <=> net.open[-x])
  <2>1. \A x \in End : -x \in End /\ (-x = k => x = -k) /\ (-x = -k => x = k)
    BY <1>3, EndFacts DEF End
  <2> QED
    BY <1>1, <1>6, <2>1
<1>8. \A a \in Server : \A x : /\ Holding(v, a, x) <=> Holding(net, a, x)
                               /\ Reads(v, proc, a, x) <=> Reads(net, proc, a, x)
  BY <1>6 DEF Holding, Reads
<1>9. ASSUME NEW a \in Server, NEW x, Reads(net, proc, a, x)
      PROVE  x \in Conn /\ x \in End /\ Holding(net, a, x) /\ x \notin {k, -k}
  <2>1. x \in Conn /\ Holding(net, a, x)
    BY <1>9 DEF Talking, Conversation, Each, Settled, Reads, Holding
  <2> QED
    BY <1>4, <2>1, EndFacts
<1>10. Talk(v, proc)
  <2>1. ASSUME NEW a \in Server, NEW x \in Conn, Reads(v, proc, a, x)
        PROVE  InTurn(v, x, proc[a].pc)
    <3>1. Reads(net, proc, a, x) /\ x \in End /\ x \notin {k, -k}
      BY <1>8, <1>9, <2>1
    <3>2. InTurn(net, x, proc[a].pc)
      BY <3>1 DEF Talking, Conversation, Talk
    <3> QED
      BY <1>6, <1>7, <3>1, <3>2 DEF InTurn
  <2>2. ASSUME NEW x \in Conn, \A a \in Server : ~ Reads(v, proc, a, x), x # k
        PROVE  Idle(v, x)
    <3>1. Idle(net, x)
      BY <1>8, <2>2 DEF Talking, Conversation, Talk
    <3>2. x \in End /\ x \notin {k, -k}
      BY <1>3, <2>2, EndFacts
    <3> QED
      BY <1>7, <1>8, <3>1, <3>2 DEF Idle
  <2>3. Idle(v, k)
    <3>1. m.word \in Word
      BY DEF Word, Command
    <3>2. AtMost(v.inq[k], {"success"})
      BY <1>3, <1>4, <1>6 DEF AtMost
    <3>3. Len(v.inq[-k]) = 1 /\ v.inq[-k][1] = m
      BY <1>6
    <3>4. \A j \in 1..Len(v.inq[-k]) : v.inq[-k][j] = m
      BY <3>3
    <3>5. AtMost(v.inq[-k], Word)
      BY <3>1, <3>3 DEF AtMost
    <3>6. ~ \E a \in Server : Holding(v, a, k)
      BY <1>4, <1>8
    <3> QED
      BY <3>2, <3>4, <3>5, <3>6 DEF Idle
  <2> QED
    BY <2>1, <2>2, <2>3 DEF Talk
<1>11. ASSUME NEW a \in Server PROVE Each(v, proc, host, a)
  <2>1. Each(net, proc, host, a)
    BY DEF Talking, Conversation
  <2>2. Settled(a, v, proc[a]) /\ Remembers(proc[a])
    BY <1>6, <2>1 DEF Each, Settled
  <2>3. AboutToAnswer(v, proc, a)
    <3> SUFFICES ASSUME proc[a].pc \in Configures
                 PROVE  AboutToAnswer(v, proc, a)
      BY DEF AboutToAnswer
    <3>1. PICK e \in End :
            /\ proc[a].i \in Fd /\ net.fdt[a][proc[a].i] = e
            /\ net.open[-e] =>
                 /\ -e \in Conn /\ net.inq[e] = <<>> /\ net.inq[-e] = <<>>
                 /\ \E b \in Server : Reads(net, proc, b, -e)
                                      /\ proc[b].pc = "read_result"
      BY <2>1 DEF Each, AboutToAnswer
    <3>2. e \notin {k, -k}
      BY <1>4, <3>1 DEF Holding
    <3> QED
      BY <1>6, <1>7, <1>8, <3>1, <3>2 DEF AboutToAnswer
  <2>4. Deaf(v, proc, a)
    <3>1. Working(v, proc, a) => Working(net, proc, a)
      <4>1. proc[a].pc = "read_result" =>
              LET x == net.fdt[a][proc[a].sock] IN x \in End /\ x \notin {k, -k}
        BY <1>9 DEF Reads, Reading
      <4> QED
        BY <1>6, <1>7, <4>1 DEF Working
    <3> QED
      BY <1>8, <2>1, <3>1 DEF Each, Deaf
  <2>5. Unreported(v, proc, host, a)
    <3> SUFFICES ASSUME ~ host[a].vrd \/ proc[a].pc \in {"read_nbd", "report"},
                        NEW e \in End, Holding(v, a, e), SuccessAt(v, -e)
                 PROVE  \E b \in Server : /\ Reads(v, proc, b, -e)
                                          /\ proc[b].pc = "read_result"
      BY DEF Unreported
    <3>1. Holding(net, a, e) /\ e \notin {k, -k}
      BY <1>4, <1>8
    <3>2. SuccessAt(net, -e)
      BY <1>7, <3>1 DEF SuccessAt
    <3> QED
      BY <1>8, <2>1, <3>1, <3>2 DEF Each, Unreported
  <2> QED
    BY <2>2, <2>3, <2>4, <2>5 DEF Each
<1>12. v.inq[k] = <<>> /\ \A a \in Server : ~ Holding(v, a, k)
  BY <1>3, <1>4, <1>6, <1>8
<1> QED
  BY <1>1, <1>6, <1>10, <1>11, <1>12 DEF Conversation, k, u, v

\* A client closes a connection that no controller opened.
LEMMA HangUpFewer ==
  ASSUME NEW Msg, NEW w \in Kernel(Msg), NEW k \in Conn, Sound(w),
         \A a \in Server : ~ Holding(w, a, k)
  PROVE  Fewer(w, CloseEnds(w, {k}, {}))
<1> DEFINE E == {k}
           U == {}
           v == CloseEnds(w, E, U)
<1>1. /\ v.fdt = w.fdt /\ v.backlog = w.backlog /\ v.made = w.made
      /\ v.kept = w.kept
      /\ \A x \in End : v.inq[x] = IF x \in E THEN <<>> ELSE w.inq[x]
      /\ \A x \in End : v.open[x] <=> x \notin E /\ w.open[x]
      /\ \A x \in End : v.err[x] = w.err[x] \/ (-x \in E /\ w.open[x])
  <2> HIDE DEF E, U
  <2> QED
    BY CloseEndsExact
<1> HIDE DEF v
<1>2. ASSUME NEW m \in Server, NEW x \in End, Holding(v, m, x) PROVE v.open[x]
  <2>1. Holding(w, m, x)
    BY <1>1, <1>2 DEF Holding
  <2>2. w.open[x] /\ x # k
    BY <2>1 DEF Sound, HeldOpen
  <2> QED
    BY <1>1, <2>2
<1>3. ASSUME NEW m \in Server, NEW l \in Conn, Waits(v, m, l) PROVE v.open[-l]
  <2>1. w.open[-l] /\ -l \in End /\ -l # k
    BY <1>1, <1>3, EndFacts, BoundsAssumption DEF Sound, WaitingFresh, Waits, Conn
  <2> QED
    BY <1>1, <2>1
<1>4. \A x \in End : v.err[x] # "none" =>
        w.err[x] # "none" \/ (w.open[x] /\ ~ v.open[-x])
  BY <1>1, EndFacts
<1>5. \A x \in End : ~ v.open[x] => ~ w.open[x] \/ v.inq[x] = <<>>
  BY <1>1
<1> QED
  BY <1>1, <1>2, <1>3, <1>4, <1>5 DEF Fewer, v

\* A connection that nobody opened among the controllers goes, or is read.
LEMMA ClientTalk ==
  ASSUME NEW w \in Kernel(Message), NEW v \in Kernel(Message), Fewer(w, v),
         Conversation(w, proc, host), v.fdt = w.fdt
  PROVE  Conversation(v, proc, host)
<1>1. None \notin Server
  BY ConfigAssumption
<1> QED
  BY <1>1, FewerTalk

LEMMA RequestTalk ==
  ASSUME SInv, Talking, NEW c, NEW n \in Server,
         NEW word \in {"USER_SET_CONFIG", "mount"}, NEW after,
         Request(c, n, word, after)
  PROVE  Talking'
<1> DEFINE k == net.made + 1
           m == Say(word)
           w == Write(Connect(net, n), k, m)
           v == CloseEnds(w, {k}, {})
<1>1. net.made < MaxConns /\ UNCHANGED <<proc, host>>
      /\ (UNCHANGED net \/ net' = w \/ net' = v)
  BY DEF Request, Room
<1>2. m \in Message /\ m.word \in {"USER_SET_CONFIG", "mount"}
  BY SayMessage DEF Word, Command
<1> HIDE DEF m
<1>3. /\ Conversation(w, proc, host) /\ w \in Kernel(Message)
      /\ k \in Conn /\ \A a \in Server : ~ Holding(w, a, k)
  BY <1>1, <1>2, NetKernel, AskTalk
<1> HIDE DEF w, k
<1>4. v \in Kernel(Message) /\ v.fdt = w.fdt /\ Fewer(w, v)
  BY <1>3, CloseEndsKernel, HangUpFewer DEF Conversation
<1>5. Conversation(v, proc, host)
  BY <1>3, <1>4, ClientTalk
<1> QED
  BY <1>1, <1>3, <1>5 DEF Talking

LEMMA SetupReadTalk ==
  ASSUME SInv, Talking, NEW c \in SetupClient, SetupRead(c) PROVE Talking'
<1> DEFINE k == client[c].end
           w == Drain(net, k)
           v == CloseEnds(w, {k}, {})
<1>1. UNCHANGED <<proc, host>> /\ (net' = w \/ net' = v) /\ k # 0
  <2>1. UNCHANGED <<proc, host>> /\ (net' = w \/ net' = v)
    BY DEF SetupRead
  <2>2. client[c].st \in {"waiting", "missed"}
    BY DEF SetupRead
  <2>3. k # 0
    BY <2>2 DEF SInv, Asked, Client
  <2> QED
    BY <2>1, <2>3
<1>2. k \in Conn /\ k \in End /\ \A n \in Server : ~ Holding(net, n, k)
  <2>1. c \in Client /\ client[c] \in ClientState
    BY DEF SInv, IInv, Client
  <2> QED
    BY <1>1, <2>1, EndFacts DEF SInv, Private, ClientState
<1>3. net \in Kernel(Message) /\ Conversation(net, proc, host) /\ Sound(net)
  BY NetKernel DEF Talking, Conversation
<1> HIDE DEF k
<1>4. w \in Kernel(Message) /\ w.fdt = net.fdt /\ Fewer(net, w) /\ Sound(w)
  BY <1>2, <1>3, DrainKernel, DrainFewer, FewerSound
<1>5. \A n \in Server : ~ Holding(w, n, k)
  BY <1>2, <1>4 DEF Holding
<1> HIDE DEF w
<1>6. v \in Kernel(Message) /\ v.fdt = w.fdt /\ Fewer(w, v)
  BY <1>2, <1>4, <1>5, CloseEndsKernel, HangUpFewer
<1>7. Conversation(w, proc, host)
  BY <1>3, <1>4, ClientTalk
<1>8. Conversation(v, proc, host)
  BY <1>4, <1>6, <1>7, ClientTalk
<1> QED
  BY <1>1, <1>7, <1>8 DEF Talking

-----------------------------------------------------------------------------
LEMMA InitTalk == ASSUME Init PROVE Talking
<1>1. /\ \A e \in End : /\ net.inq[e] = <<>> /\ net.err[e] = "none"
                        /\ ~ net.open[e]
      /\ \A n \in Server : \A f \in Fd : net.fdt[n][f] = Free
      /\ \A n \in Server : net.backlog[n] = <<>>
      /\ net.kept = {}
  BY DEF Init, Boot
<1>2. /\ \A e \in End : -e \in End /\ ~ SuccessAt(net, e)
      /\ \A n \in Server : \A e \in End : ~ Holding(net, n, e)
      /\ \A k \in Conn : k \in End /\ -k \in End
  BY <1>1, EndFacts DEF SuccessAt, Holding, End, Free
<1>3. \A n \in Server : /\ proc[n].pc = "loop" /\ proc[n].unsuccess_flag = 0
  BY DEF Init, Started
<1>4. Sound(net)
  <2>1. OneHolder(net)
    BY <1>1 DEF OneHolder, End, Free
  <2>2. WaitingFresh(net) /\ OneListener(net)
    BY <1>1 DEF WaitingFresh, OneListener
  <2> QED
    BY <1>1, <1>2, <2>1, <2>2 DEF Sound, HeldOpen, ClosedEmpty, UnusedClosed
<1>5. Talk(net, proc)
  <2>1. \A n \in Server : \A k \in Conn : ~ Reads(net, proc, n, k)
    BY <1>3 DEF Reads, Reading
  <2>2. \A k \in Conn : Idle(net, k)
    BY <1>1, <1>2 DEF Idle, AtMost
  <2> QED
    BY <2>1, <2>2 DEF Talk
<1>6. \A n \in Server : Each(net, proc, host, n)
  <2> TAKE n \in Server
  <2>1. Settled(n, net, proc[n]) /\ Remembers(proc[n])
    BY <1>3 DEF Settled, Reading, Remembers
  <2>2. AboutToAnswer(net, proc, n) /\ Deaf(net, proc, n)
    BY <1>3 DEF AboutToAnswer, Deaf, Working, Configures
  <2>3. Unreported(net, proc, host, n)
    BY <1>2 DEF Unreported
  <2> QED
    BY <2>1, <2>2, <2>3 DEF Each
<1> QED
  BY <1>4, <1>5, <1>6 DEF Talking, Conversation

LEMMA HandleTalk ==
  ASSUME SInv, Talking, server_len > 1, NEW n \in Server, Handle(n)
  PROVE  Talking'
<1>1. CASE AcceptClient(n)
  BY <1>1, AcceptClientTalk
<1>2. ASSUME NEW f \in Fd,
             \/ ReadEof(n, f) \/ ControllerSetConfig(n, f) \/ SetConfig(n, f)
             \/ Mount(n, f) \/ MountSetOn(n, f) \/ NbdSetOn(n, f)
             \/ UserSetConfig(n, f)
      PROVE  Talking'
  <2>1. CASE ReadEof(n, f)
    BY <2>1, ReadEofTalk
  <2>2. CASE ControllerSetConfig(n, f)
    BY <2>2, ControllerSetConfigTalk
  <2>3. CASE SetConfig(n, f)
    BY <2>3, SetConfigTalk
  <2>4. CASE Mount(n, f)
    BY <2>4, MountTalk
  <2>5. CASE MountSetOn(n, f)
    BY <2>5, MountSetOnTalk
  <2>6. CASE NbdSetOn(n, f)
    BY <2>6, NbdSetOnTalk
  <2>7. CASE UserSetConfig(n, f)
    BY <2>7, UserSetConfigTalk
  <2> QED
    BY <1>2, <2>1, <2>2, <2>3, <2>4, <2>5, <2>6, <2>7
<1>3. CASE StartNbdServer(n) \/ SetConfigDone(n)
  BY <1>3, StartNbdServerTalk, SetConfigDoneTalk
<1>4. CASE MsgSendReadOn(n)
  BY <1>4, MsgSendReadOnTalk
<1>5. CASE MsgSendReadResult(n)
  BY <1>5, MsgSendReadResultTalk
<1>6. CASE Assemble(n)
  BY <1>6, AssembleTalk
<1>7. CASE AssembleModule(n)
  BY <1>7, AssembleModuleTalk
<1>8. CASE NbdMsgSendRead(n)
  BY <1>8, NbdMsgSendReadTalk
<1>9. CASE Report(n)
  BY <1>9, ReportTalk
<1> QED
  BY <1>1, <1>2, <1>3, <1>4, <1>5, <1>6, <1>7, <1>8, <1>9 DEF Handle

LEMMA NextTalk ==
  ASSUME SInv, Talking, server_len > 1, [Next]_vars PROVE Talking'
<1>1. CASE UNCHANGED vars
  BY <1>1 DEF vars, Talking
<1>2. ASSUME NEW n \in Server, Handle(n) PROVE Talking'
  BY <1>2, HandleTalk
<1>3. ASSUME NEW n \in Server, Crash(n) PROVE Talking'
  BY <1>3, CrashTalk
<1>4. ASSUME NEW n \in Server, Restart(n) PROVE Talking'
  BY <1>4, RestartTalk
<1>5. CASE Ask
  <2>1. ASSUME NEW n \in Server, NEW c \in SetupClient, SetupRequest(c, n)
        PROVE  Talking'
    BY <2>1, RequestTalk DEF SetupRequest
  <2>2. ASSUME NEW n \in Server, NEW c \in MountClient, MountRequest(c, n)
        PROVE  Talking'
    BY <2>2, RequestTalk DEF MountRequest
  <2> QED
    BY <1>5, <2>1, <2>2 DEF Ask
<1>6. ASSUME NEW c \in SetupClient, SetupRead(c) PROVE Talking'
  BY <1>6, SetupReadTalk
<1> QED
  BY <1>1, <1>2, <1>3, <1>4, <1>5, <1>6 DEF Next

\* Every behaviour of a cluster of two or more keeps to the conversation.
THEOREM ConversationInvariance ==
  ASSUME server_len >= 2
  PROVE  Spec => []Talking
<1>1. Init => Talking
  BY InitTalk
<1>2. SInv /\ Talking /\ [Next]_vars => Talking'
  BY NextTalk, ServerLen
<1> QED
  BY <1>1, <1>2, SetupInvariance, PTL DEF Spec

\* With two servers or more, messages that nothing keeps apart meet in a queue
\* in one case, and a controller that has sent one question is not sent another
\* answer: for any number of hosts, clients, descriptors, crashes and faults.
THEOREM MessagesKeptApart == Spec => []OneMessageAtATime
<1>1. Talking => OneMessageAtATime
  <2> SUFFICES ASSUME Talking, NEW e \in End
               PROVE  Len(net.inq[e]) <= 1 \/ MisledReport(net.inq[e])
    BY DEF OneMessageAtATime, MisledReport
  <2>1. \A s : \A W : AtMost(s, W) => Len(s) <= 1
    BY DEF AtMost
  <2>2. ASSUME NEW k \in Conn
        PROVE  \A x \in {k, -k} : Len(net.inq[x]) <= 1 \/ MisledReport(net.inq[x])
    <3>1. CASE \E n \in Server : Reads(net, proc, n, k)
      <4>1. PICK n \in Server : InTurn(net, k, proc[n].pc)
        BY <3>1 DEF Talking, Conversation, Talk
      <4> QED
        BY <2>1, <4>1 DEF InTurn
    <3>2. CASE \A n \in Server : ~ Reads(net, proc, n, k)
      <4>1. Idle(net, k)
        BY <3>2 DEF Talking, Conversation, Talk
      <4> QED
        BY <2>1, <4>1 DEF Idle
    <3> QED
      BY <3>1, <3>2
  <2>3. e \in Conn \/ (-e \in Conn /\ -(-e) = e)
    BY BoundsAssumption DEF End, Conn
  <2> QED
    BY <2>2, <2>3
<1>2. CASE server_len >= 2
  BY <1>1, <1>2, ConversationInvariance, PTL
<1>3. CASE ~ (server_len >= 2)
  <2>1. OneMessageAtATime
    BY <1>3 DEF OneMessageAtATime
  <2> QED
    BY <2>1, PTL
<1> QED
  BY <1>2, <1>3

THEOREM AnswersKeepStep == Spec => []AnswersInStep
<1>1. SInv /\ (server_len > 1 => Talking) => AnswersInStep
  <2> SUFFICES ASSUME SInv, server_len > 1 => Talking, NEW n \in Server,
                      proc[n].pc \in Reading
               PROVE  LET k == SockEnd(n)
                          a == Answer(proc[n].pc)
                      IN  /\ net.inq[k] \in {<<>>, <<Say(a)>>}
                          /\ net.inq[k] = <<>> \/ net.inq[-k] = <<>>
    BY DEF AnswersInStep, Reading, Answer
  <2> DEFINE k == SockEnd(n)
             a == Answer(proc[n].pc)
  <2>1. Talking
    BY ServerLen DEF SInv, Counted
  <2>2. k \in Conn /\ k \in End /\ Reads(net, proc, n, k)
    BY <2>1, EndFacts DEF Talking, Conversation, Each, Settled, SockEnd, Reads
  <2>3. InTurn(net, k, proc[n].pc)
    BY <2>1, <2>2 DEF Talking, Conversation, Talk
  <2>4. net.inq[k] \in Seq(Message)
    BY <2>2, NetKernel, KernelFields
  <2>5. a \in {"CONTROL_SET_ON", "success", "NBD_CLIENT_LOAD"}
    BY DEF Answer, Reading
  <2>6. \A m \in Message : m.word = a => m = Say(a)
    BY <2>5 DEF Message, Say
  <2> HIDE DEF k, a
  <2>7. AtMost(net.inq[k], {a})
    BY <2>3 DEF InTurn, a
  <2>8. CASE net.inq[k] = <<>>
    BY <2>8 DEF k, a
  <2>9. CASE Len(net.inq[k]) = 1 /\ net.inq[k][1].word = a
    <3>1. net.inq[k][1] \in Message /\ net.inq[k] = <<net.inq[k][1]>>
      BY <2>4, <2>9
    <3>2. net.inq[k] = <<Say(a)>>
      BY <2>6, <2>9, <3>1
    <3> QED
      BY <2>3, <3>2 DEF InTurn, k, a
  <2> QED
    BY <2>7, <2>8, <2>9 DEF AtMost
<1>2. CASE server_len > 1
  <2>1. server_len >= 2
    BY <1>2, ServerLen
  <2> QED
    BY <1>1, <2>1, SetupInvariance, ConversationInvariance, PTL
<1>3. CASE ~ (server_len > 1)
  <2>1. SInv => AnswersInStep
    BY <1>1, <1>3
  <2> QED
    BY <2>1, SetupInvariance, PTL
<1> QED
  BY <1>2, <1>3

-----------------------------------------------------------------------------
(* One dmbd_config for all: what a coordinator reported success for.       *)

Quiet == \A c \in MountClient : client[c].st = "init"

\* A handler opens a file and reads another: two descriptors are enough.
Spare ==
  \A n \in Server : \E f, g \in Fd :
    f # g /\ net.fdt[n][f] = Free /\ net.fdt[n][g] = Free

\* No connection is cut: who accepted it closes it last.
Unbroken(w) ==
  /\ \A e \in End : w.err[e] = "none"
  /\ \A k \in Conn : w.open[k] => w.open[-k]

\* What goes to a listener is the request of a client, or the question that a
\* controller waits to see answered; it asks with the dmbd_config it has.
SentOn(w, p, h, k) ==
  \A j \in 1..Len(w.inq[-k]) :
    LET m == w.inq[-k][j] IN
    \/ m.word = "USER_SET_CONFIG"
    \/ \E n \in Server : /\ Reads(w, p, n, k)
                         /\ m.word = Question(p[n].pc)
                         /\ m.word = "config" => m.arg = h[n].dmbd_config

\* Until it reports, a host has closed nothing, and client_sock names a
\* connection that it accepted.
ToReport(p, h, n) == ~ h[n].vrd \/ p[n].pc \in {"read_nbd", "report"}

NamesClient(w, p, n) ==
  p[n].client_sock # NoFd =>
    \E k \in Conn : w.fdt[n][p[n].client_sock] = -k

Keeps(w, n) ==
  \A k \in Conn : Holding(w, n, -k) \/ Waits(w, n, k) => w.open[k]

\* A host that configured itself has the dmbd_config of the one that asked.
Configured(w, p, h, n) ==
  p[n].pc \in Configures =>
    \E a \in Server : /\ Reads(w, p, a, -w.fdt[n][p[n].i])
                      /\ p[a].pc = "read_result"
                      /\ h[a].dmbd_config = h[n].dmbd_config

Alike(h) == \A n, m \in Server : h[n].dmbd_config = h[m].dmbd_config

Bound(w, p, n) == Working(w, p, n) \/ p[n].success_flag = 1

SteadyHost(w, p, h, n) ==
  /\ p[n].pc # "down"
  /\ h[n].dmbd_config # Garbage
  /\ ToReport(p, h, n) => NamesClient(w, p, n) /\ Keeps(w, n)
  /\ Configured(w, p, h, n)
  /\ p[n].success_flag = 1 => h[n].vrd

Steady(w, p, h) ==
  /\ Unbroken(w)
  /\ \A k \in Conn : SentOn(w, p, h, k)
  /\ \A n \in Server : SteadyHost(w, p, h, n)
  /\ server_len <= 2 => \A n \in Server : Bound(w, p, n) => Alike(h)

Agreed == Steady(net, proc, host)

-----------------------------------------------------------------------------
(* Calls that cut no connection.                                           *)

Gentle(n, w, v) ==
  /\ Unbroken(w) => Unbroken(v)
  /\ \A k \in Conn : w.open[k] => v.open[k]
  /\ \A m \in Server, k \in Conn :
       Holding(v, m, -k) \/ Waits(v, m, k) =>
         Holding(w, m, -k) \/ Waits(w, m, k) \/ v.open[k]
  /\ \A m \in Server \ {n}, f \in Fd : v.fdt[m][f] = w.fdt[m][f]

LEMMA GentleTransitive ==
  ASSUME NEW n, NEW u, NEW w, NEW v, Gentle(n, u, w), Gentle(n, w, v)
  PROVE  Gentle(n, u, v)
BY DEF Gentle

LEMMA GentleSame == ASSUME NEW n, NEW w PROVE Gentle(n, w, w)
BY DEF Gentle

LEMMA DrainGentle ==
  ASSUME NEW Msg, NEW w \in Kernel(Msg), NEW e \in End, NEW n
  PROVE  Gentle(n, w, Drain(w, e))
<1> DEFINE v == Drain(w, e)
<1>1. /\ v.fdt = w.fdt /\ v.backlog = w.backlog /\ v.made = w.made
      /\ v.kept = w.kept
      /\ v.open = w.open /\ v.inq = [w.inq EXCEPT ![e] = <<>>]
      /\ \A x \in End : v.err[x] # "none" => w.err[x] # "none"
  BY DrainExact
<1> HIDE DEF v
<1> QED
  BY <1>1 DEF Gentle, Unbroken, Holding, Waits, v

LEMMA TakeGentle ==
  ASSUME NEW Msg, NEW w \in Kernel(Msg), NEW n \in Server,
         NEW s \in Slot, \A k \in Conn : s # -k
  PROVE  Gentle(n, w, Take(w, n, s))
<1> DEFINE v == Take(w, n, s)
<1>1. v.inq = w.inq /\ v.err = w.err /\ v.backlog = w.backlog /\ v.open = w.open
  BY TakeExact
<1>2. \A m \in Server, f \in Fd :
        v.fdt[m][f] = w.fdt[m][f] \/ (m = n /\ v.fdt[m][f] = s)
  BY TakeFields
<1> HIDE DEF v
<1> QED
  BY <1>1, <1>2 DEF Gentle, Unbroken, Holding, Waits, v

LEMMA WriteGentle ==
  ASSUME NEW Msg, NEW w \in Kernel(Msg), NEW e \in End, NEW m \in Msg, NEW n,
         w.open[-e]
  PROVE  Gentle(n, w, Write(w, e, m))
<1> DEFINE v == Write(w, e, m)
<1>1. /\ v.fdt = w.fdt /\ v.backlog = w.backlog /\ v.open = w.open
      /\ v.err = w.err
  BY WriteExact
<1> HIDE DEF v
<1> QED
  BY <1>1 DEF Gentle, Unbroken, Holding, Waits, v

LEMMA ConnectGentle ==
  ASSUME NEW Msg, NEW w \in Kernel(Msg), NEW a \in Server, NEW n,
         w.made < MaxConns
  PROVE  Gentle(n, w, Connect(w, a))
<1> DEFINE k == w.made + 1
           v == Connect(w, a)
<1>1. /\ v.fdt = w.fdt /\ v.err = w.err /\ k \in Conn
      /\ v.backlog = [w.backlog EXCEPT ![a] = Append(w.backlog[a], k)]
      /\ \A e \in End : v.open[e] <=> e \in {k, -k} \/ w.open[e]
  BY ConnectExact
<1>2. w.backlog \in [Server -> Seq(Conn)] /\ w.backlog[a] \in Seq(Conn)
  BY KernelFields
<1>3. /\ v.backlog[a] = Append(w.backlog[a], k)
      /\ \A m \in Server : m # a => v.backlog[m] = w.backlog[m]
  BY <1>1, <1>2
<1> HIDE DEF v, k
<1>4. ASSUME NEW m \in Server, NEW l \in Conn, Waits(v, m, l)
      PROVE  Waits(w, m, l) \/ v.open[l]
  <2>1. CASE m # a
    BY <1>3, <1>4, <2>1 DEF Waits
  <2>2. CASE m = a
    <3>1. PICK j \in 1..Len(v.backlog[a]) : v.backlog[a][j] = l
      BY <1>4, <2>2 DEF Waits
    <3>2. CASE j \in 1..Len(w.backlog[a])
      <4>1. w.backlog[a][j] = l
        BY <1>1, <1>2, <1>3, <3>1, <3>2
      <4> QED
        BY <2>2, <3>2, <4>1 DEF Waits
    <3>3. CASE l = k
      BY <1>1, <3>3, EndFacts
    <3>4. j \in 1..Len(w.backlog[a]) \/ l = k
      BY <1>1, <1>2, <1>3, <3>1
    <3> QED
      BY <3>2, <3>3, <3>4
  <2> QED
    BY <2>1, <2>2
<1>5. Unbroken(w) => Unbroken(v)
  <2>1. -(-k) = k
    BY <1>1 DEF Conn
  <2>2. ASSUME Unbroken(w), NEW l \in Conn, v.open[l] PROVE v.open[-l]
    <3>1. l = k \/ w.open[l]
      BY <1>1, <2>2, EndFacts DEF Conn
    <3> QED
      BY <1>1, <2>2, <3>1, EndFacts DEF Unbroken
  <2> QED
    BY <1>1, <2>2 DEF Unbroken
<1>6. \A l \in Conn : w.open[l] => v.open[l]
  BY <1>1, EndFacts
<1> QED
  BY <1>1, <1>4, <1>5, <1>6 DEF Gentle, Holding, v

LEMMA SendGentle ==
  ASSUME NEW Msg, NEW w \in Kernel(Msg), NEW n \in Server, NEW m \in Msg,
         Reaches(n, w), w.made < MaxConns
  PROVE  Gentle(n, w, SendTo(n, w, m))
<1> DEFINE k == w.made + 1
           u == Connect(w, FirstPeer(n))
           t == Take(u, n, k)
<1>1. FirstPeer(n) \in Server
  BY FirstPeerServer DEF Reaches
<1>2. /\ u \in Kernel(Msg) /\ k \in Conn /\ Gentle(n, w, u)
      /\ \A e \in End : u.open[e] <=> e \in {k, -k} \/ w.open[e]
  BY <1>1, ConnectKernel, ConnectGentle, ConnectExact
<1>3. k \in End /\ k \in Slot /\ -k \in End /\ \A l \in Conn : k # -l
  BY <1>2, EndFacts DEF Conn
<1> HIDE DEF k, u
<1>4. t \in Kernel(Msg) /\ t.open = u.open /\ Gentle(n, u, t)
  BY <1>2, <1>3, TakeKernel, TakeExact, TakeGentle
<1>5. t.open[-k]
  BY <1>2, <1>3, <1>4
<1> HIDE DEF t
<1>6. Gentle(n, t, Write(t, k, m))
  BY <1>3, <1>4, <1>5, WriteGentle
<1>7. Gentle(n, w, Write(t, k, m))
  BY <1>2, <1>4, <1>6, GentleTransitive
<1> QED
  BY <1>7 DEF SendTo, t, u, k

LEMMA AcceptGentle ==
  ASSUME NEW Msg, NEW w \in Kernel(Msg), NEW n \in Server, Sound(w),
         HasFd(w, n), w.backlog[n] # <<>>
  PROVE  Gentle(n, w, Accept(w, n))
<1> DEFINE v == Accept(w, n)
           k == Head(w.backlog[n])
           f == LowestFd(w, n)
<1>1. /\ v.inq = w.inq /\ v.open = w.open /\ k \in Conn
      /\ v.fdt[n][f] = -k
      /\ \A m \in Server, g \in Fd :
           g # f \/ m # n => v.fdt[m][g] = w.fdt[m][g]
  BY AcceptSound
<1>2. v.err = w.err /\ v.backlog = [w.backlog EXCEPT ![n] = Tail(w.backlog[n])]
  BY AcceptFields
<1>3. w.backlog \in [Server -> Seq(Conn)] /\ w.backlog[n] \in Seq(Conn)
  BY KernelFields
<1>4. 1 \in 1..Len(w.backlog[n]) /\ w.backlog[n][1] = k
  BY <1>3, HeadTailProperties
<1> HIDE DEF v, k, f
<1>5. ASSUME NEW m \in Server, NEW l \in Conn, Holding(v, m, -l)
      PROVE  Holding(w, m, -l) \/ Waits(w, m, l)
  <2>1. PICK g \in Fd : v.fdt[m][g] = -l
    BY <1>5 DEF Holding
  <2>2. CASE m = n /\ g = f
    <3>1. l = k
      BY <1>1, <2>1, <2>2 DEF Conn
    <3> QED
      BY <1>4, <2>2, <3>1 DEF Waits
  <2>3. CASE m # n \/ g # f
    BY <1>1, <2>1, <2>3 DEF Holding
  <2> QED
    BY <2>2, <2>3
<1>6. ASSUME NEW m \in Server, NEW l \in Conn, Waits(v, m, l)
      PROVE  Waits(w, m, l)
  <2>1. CASE m # n
    BY <1>2, <1>3, <1>6, <2>1 DEF Waits
  <2>2. CASE m = n
    <3>1. v.backlog[n] = Tail(w.backlog[n])
      BY <1>2, <1>3
    <3>2. PICK j \in 1..Len(v.backlog[n]) : v.backlog[n][j] = l
      BY <1>6, <2>2 DEF Waits
    <3>3. j + 1 \in 1..Len(w.backlog[n]) /\ w.backlog[n][j + 1] = l
      BY <1>3, <1>4, <3>1, <3>2, HeadTailProperties
    <3> QED
      BY <2>2, <3>3 DEF Waits
  <2> QED
    BY <2>1, <2>2
<1>7. Unbroken(w) => Unbroken(v)
  BY <1>1, <1>2 DEF Unbroken
<1> QED
  BY <1>1, <1>5, <1>6, <1>7 DEF Gentle, v

\* The end of a connection that was closed at the other end may go.
LEMMA CloseGentle ==
  ASSUME NEW Msg, NEW w \in Kernel(Msg), NEW n \in Server, NEW f \in Fd,
         NEW k \in Conn, w.fdt[n][f] = -k, ~ w.open[k]
  PROVE  LET v == Close(w, n, f) IN
         /\ Gentle(n, w, v)
         /\ \A x \in End : v.inq[x] = <<>> \/ v.inq[x] = w.inq[x]
<1> DEFINE E == ({w.fdt[n][f]} \cap End) \ w.kept
           u == CloseEnds(w, E, {})
           v == Close(w, n, f)
<1>1. u \in Kernel(Msg)
  BY CloseEndsKernel
<1>2. /\ u.fdt = w.fdt /\ u.backlog = w.backlog /\ u.made = w.made
      /\ \A x \in End : u.inq[x] = IF x \in E THEN <<>> ELSE w.inq[x]
      /\ \A x \in End : u.open[x] <=> x \notin E /\ w.open[x]
      /\ \A x \in End : u.err[x] = w.err[x] \/ (-x \in E /\ w.open[x])
  <2> HIDE DEF E
  <2> QED
    BY CloseEndsExact
<1>3. v = [u EXCEPT !.fdt[n][f] = Free] /\ Free \in Slot /\ Free \notin End
  <2>1. v = [u EXCEPT !.fdt[n][f] = Free]
    BY DEF Close
  <2> HIDE DEF u, v, E
  <2> QED
    BY <2>1, EndFacts DEF Free, End
<1>4. E \subseteq {-k} /\ \A x \in End : -x = -k => x = k
  BY EndFacts DEF Conn, End
<1> HIDE DEF u, v, E
<1>5. /\ v.inq = u.inq /\ v.err = u.err /\ v.backlog = u.backlog
      /\ v.open = u.open
  BY <1>1, <1>3 DEF Kernel
<1>6. /\ v.fdt[n][f] = Free
      /\ \A m \in Server, g \in Fd :
           <<m, g>> # <<n, f>> => v.fdt[m][g] = w.fdt[m][g]
  BY <1>1, <1>2, <1>3, TableUpdate
<1>7. \A x \in End : u.err[x] = w.err[x]
  <2> TAKE x \in End
  <2>1. -x \in E /\ w.open[x] => x = k
    BY <1>4
  <2> QED
    BY <1>2, <2>1
<1>8. \A l \in Conn : /\ w.open[l] <=> v.open[l]
                      /\ l = k \/ (v.open[-l] <=> w.open[-l])
  BY <1>2, <1>4, <1>5, EndFacts DEF Conn
<1>9. Unbroken(w) => Unbroken(v)
  BY <1>5, <1>7, <1>8 DEF Unbroken
<1>10. \A m \in Server, l \in Conn : Holding(v, m, -l) => Holding(w, m, -l)
  BY <1>3, <1>6, EndFacts DEF Holding
<1>11. \A m \in Server, l \in Conn : Waits(v, m, l) => Waits(w, m, l)
  BY <1>2, <1>5 DEF Waits
<1>12. \A m \in Server \ {n}, g \in Fd : v.fdt[m][g] = w.fdt[m][g]
  BY <1>6
<1>13. Gentle(n, w, v)
  BY <1>8, <1>9, <1>10, <1>11, <1>12 DEF Gentle
<1> QED
  BY <1>2, <1>5, <1>13 DEF v

\* A program that inherits the connections cuts none.
LEMMA InheritGentle ==
  ASSUME NEW Msg, NEW w \in Kernel(Msg), NEW n \in Server,
         NEW v \in {w, Inherit(w, n)}
  PROVE  /\ v.fdt = w.fdt /\ v.inq = w.inq
         /\ Gentle(n, w, v)
<1>1. /\ v.fdt = w.fdt /\ v.inq = w.inq /\ v.err = w.err /\ v.open = w.open
      /\ v.backlog = w.backlog
  BY DEF Inherit, Kernel
<1> QED
  BY <1>1 DEF Gentle, Unbroken, Holding, Waits

-----------------------------------------------------------------------------
(* A step of n that cuts no connection.                                    *)

\* What n asked before it still asks.
Stays(n, k) ==
  Reads(net, proc, n, k) =>
    /\ Reads(net', proc', n, k) /\ proc'[n].pc = proc[n].pc
    /\ host'[n].dmbd_config = host[n].dmbd_config

\* A step of one controller keeps the agreement when it cuts no connection, what
\* it writes may be on its way, what it asked it still asks, and the configurations
\* were alike or stay what they were.
LEMMA SteadyStep ==
  ASSUME SInv, Talking, Agreed, NEW n \in Server, Gentle(n, net, net'),
         \A m \in Server \ {n} : proc'[m] = proc[m] /\ host'[m] = host[m],
         proc'[n].pc # "down", host'[n].dmbd_config # Garbage,
         ToReport(proc', host', n) =>
           ToReport(proc, host, n) /\ NamesClient(net', proc', n),
         Configured(net', proc', host', n),
         proc'[n].success_flag = 1 => host'[n].vrd,
         \A k \in Conn : \/ net'.inq[-k] = <<>>
                         \/ net'.inq[-k] = net.inq[-k] /\ Stays(n, k)
                         \/ SentOn(net', proc', host', k),
         \A k \in Conn : Stays(n, k) \/ proc[n].pc # "read_result"
                                     \/ net.inq[k] # <<>>,
         server_len <= 2 =>
           \/ Alike(host')
           \/ /\ host'[n].dmbd_config = host[n].dmbd_config
              /\ \A m \in Server : Bound(net', proc', m) => Bound(net, proc, m)
  PROVE  Agreed'
<1>1. \A m \in Server \ {n} : \A k : Reads(net, proc, m, k) =>
        /\ Reads(net', proc', m, k) /\ proc'[m].pc = proc[m].pc
        /\ host'[m].dmbd_config = host[m].dmbd_config
  <2> SUFFICES ASSUME NEW m \in Server \ {n}, NEW k, Reads(net, proc, m, k)
               PROVE  Reads(net', proc', m, k)
    OBVIOUS
  <2>1. proc[m].sock \in Fd
    BY DEF Reads, Talking, Conversation, Each, Settled
  <2> QED
    BY <2>1 DEF Reads, Gentle
<1>2. Unbroken(net')
  BY DEF Gentle, Agreed, Steady
<1>3. ASSUME NEW k \in Conn PROVE SentOn(net', proc', host', k)
  <2>1. CASE net'.inq[-k] = <<>>
    BY <2>1 DEF SentOn
  <2>2. CASE net'.inq[-k] = net.inq[-k] /\ Stays(n, k)
    <3>1. SentOn(net, proc, host, k)
      BY DEF Agreed, Steady
    <3>2. \A a \in Server : Reads(net, proc, a, k) =>
            /\ Reads(net', proc', a, k) /\ proc'[a].pc = proc[a].pc
            /\ host'[a].dmbd_config = host[a].dmbd_config
      BY <1>1, <2>2 DEF Stays
    <3> QED
      BY <2>2, <3>1, <3>2 DEF SentOn
  <2> QED
    BY <2>1, <2>2
<1>4. ASSUME NEW m \in Server PROVE SteadyHost(net', proc', host', m)
  <2>1. SteadyHost(net, proc, host, m)
    BY DEF Agreed, Steady
  <2>2. ToReport(proc', host', m) => ToReport(proc, host, m)
    BY DEF ToReport
  <2>3. ToReport(proc', host', m) => Keeps(net', m)
    BY <2>1, <2>2 DEF SteadyHost, Keeps, Gentle
  <2>4. CASE m = n
    BY <2>1, <2>3, <2>4 DEF SteadyHost
  <2>5. CASE m # n
    <3>1. proc'[m] = proc[m] /\ host'[m] = host[m]
          /\ \A f \in Fd : net'.fdt[m][f] = net.fdt[m][f]
      BY <2>5 DEF Gentle
    <3>2. proc[m].client_sock # NoFd => proc[m].client_sock \in Fd
      BY DEF SInv, IInv, Process
    <3>3. NamesClient(net, proc, m) => NamesClient(net', proc', m)
      BY <3>1, <3>2 DEF NamesClient
    <3>4. ASSUME proc[m].pc \in Configures
          PROVE  Configured(net', proc', host', m)
      <4> DEFINE e == net.fdt[m][proc[m].i]
      <4>1. PICK a \in Server : /\ Reads(net, proc, a, -e)
                                /\ proc[a].pc = "read_result"
                                /\ host[a].dmbd_config = host[m].dmbd_config
        BY <2>1, <3>4 DEF SteadyHost, Configured
      <4>2. proc[m].i \in Fd /\ e \in End /\ -e \in Conn /\ net.open[-e]
            /\ net.inq[-e] = <<>>
        <5>1. AboutToAnswer(net, proc, m)
          BY DEF Talking, Conversation, Each
        <5>2. proc[m].i \in Fd /\ e \in End
          BY <3>4, <5>1 DEF AboutToAnswer
        <5>3. -e \in Conn /\ net.open[-e]
          BY <4>1, <5>2, ReadsHeld, EndFacts DEF Talking, Conversation, Each, Sound, HeldOpen
        <5> QED
          BY <3>4, <5>1, <5>2, <5>3 DEF AboutToAnswer
      <4>3. net'.fdt[m][proc'[m].i] = e
        BY <3>1, <4>2
      <4> HIDE DEF e
      <4>4. CASE a = n
        <5>1. Stays(n, -e)
          BY <4>1, <4>2, <4>4
        <5> QED
          BY <3>1, <4>1, <4>3, <4>4, <5>1 DEF Stays, Configured
      <4>5. CASE a # n
        BY <1>1, <3>1, <4>1, <4>3, <4>5 DEF Configured
      <4> QED
        BY <4>4, <4>5
    <3>5. Configured(net', proc', host', m)
      BY <3>1, <3>4 DEF Configured
    <3> QED
      BY <2>1, <2>2, <2>3, <3>1, <3>3, <3>5 DEF SteadyHost
  <2> QED
    BY <2>4, <2>5
<1>5. ASSUME server_len <= 2, NEW m \in Server, Bound(net', proc', m)
      PROVE  Alike(host')
  <2>1. CASE Bound(net, proc, m) /\ host'[n].dmbd_config = host[n].dmbd_config
    <3>1. Alike(host)
      BY <1>5, <2>1 DEF Agreed, Steady
    <3>2. \A a \in Server : host'[a].dmbd_config = host[a].dmbd_config
      BY <2>1
    <3> QED
      BY <3>1, <3>2 DEF Alike
  <2> QED
    BY <1>5, <2>1
<1> QED
  BY <1>2, <1>3, <1>4, <1>5 DEF Agreed, Steady

\* Nobody but n is bound by what n does, unless n answers it.
LEMMA OthersBound ==
  ASSUME Talking, NEW n \in Server, NEW m \in Server \ {n},
         Gentle(n, net, net'), proc'[m] = proc[m],
         \A k \in Conn : Reads(net, proc, m, k) /\ proc[m].pc = "read_result" =>
           net'.inq[k] = <<>> \/ net'.inq[k] = net.inq[k],
         Bound(net', proc', m)
  PROVE  Bound(net, proc, m)
<1>1. CASE proc[m].pc = "read_result" /\ net'.inq[net'.fdt[m][proc[m].sock]] # <<>>
  <2> DEFINE k == net.fdt[m][proc[m].sock]
  <2>1. proc[m].sock \in Fd /\ k \in Conn /\ Reads(net, proc, m, k)
    BY <1>1 DEF Talking, Conversation, Each, Settled, Reading, Reads
  <2>2. net'.fdt[m][proc[m].sock] = k
    BY <2>1 DEF Gentle
  <2>3. net.inq[k] # <<>>
    BY <1>1, <2>1, <2>2
  <2> QED
    BY <1>1, <2>3 DEF Bound, Working
<1>2. CASE proc[m].pc \in {"assemble", "module", "read_nbd", "report"}
           \/ proc[m].success_flag = 1
  BY <1>2 DEF Bound, Working
<1> QED
  BY <1>1, <1>2 DEF Bound, Working

\* A host that is not in a read() before its step has no question to repeat.
LEMMA NotAsking ==
  ASSUME NEW n \in Server, proc[n].pc \notin Reading
  PROVE  \A k \in Conn : Stays(n, k)
BY DEF Stays, Reads

\* Who is heard: a client, or another controller that waits.
LEMMA Receives1 ==
  ASSUME SInv, Talking, Agreed, server_len > 1, NEW n \in Server, NEW f \in Fd,
         NEW words, Receives(n, f, words)
  PROVE  LET k == -net.fdt[n][f]
             m == Incoming(n, f) IN
         /\ k \in Conn /\ k \in End /\ -k \in End /\ net.fdt[n][f] = -k
         /\ Holding(net, n, -k) /\ m.word \in words
         /\ \/ m.word = "USER_SET_CONFIG"
            \/ /\ net.open[k] /\ net.inq[k] = <<>>
               /\ \E a \in Server \ {n} :
                    /\ Reads(net, proc, a, k)
                    /\ m.word = Question(proc[a].pc)
                    /\ m.word = "config" => m.arg = host[a].dmbd_config
<1> DEFINE k == -net.fdt[n][f]
           m == Incoming(n, f)
<1>1. /\ net.fdt[n][f] \in End /\ Holding(net, n, net.fdt[n][f])
      /\ m.word \in words /\ proc[n].pc = "loop"
  BY ReceiveTalk
<1>2. net.fdt[n][f] < 0
  BY DEF Receives, Watched
<1>3. k \in Conn /\ -k = net.fdt[n][f]
  BY <1>1, <1>2, BoundsAssumption DEF End, Conn
<1> HIDE DEF k
<1>4. k \in End /\ -k \in End
  BY <1>3, EndFacts
<1>5. Unbroken(net) /\ SentOn(net, proc, host, k)
  BY <1>3 DEF Agreed, Steady
<1>6. net.inq[-k] # <<>>
  <2>1. net.err[-k] # "reset"
    BY <1>4, <1>5 DEF Unbroken
  <2> QED
    BY <1>3, <2>1 DEF Receives
<1>7. net.inq[-k] \in Seq(Message)
  BY <1>4, NetTalk
<1>8. 1 \in 1..Len(net.inq[-k]) /\ m = net.inq[-k][1]
  BY <1>3, <1>6, <1>7 DEF Incoming
<1> HIDE DEF m
<1>9. \/ m.word = "USER_SET_CONFIG"
      \/ \E a \in Server : /\ Reads(net, proc, a, k)
                           /\ m.word = Question(proc[a].pc)
                           /\ m.word = "config" => m.arg = host[a].dmbd_config
  BY <1>5, <1>8 DEF SentOn
<1>10. ASSUME NEW a \in Server, Reads(net, proc, a, k)
       PROVE  a # n /\ net.open[k] /\ net.inq[k] = <<>>
  <2>1. a # n
    BY <1>1, <1>10 DEF Reads, Reading
  <2>2. Holding(net, a, k)
    BY <1>10, ReadsHeld DEF Talking, Conversation, Each
  <2>3. net.open[k]
    BY <1>4, <2>2 DEF Talking, Conversation, Sound, HeldOpen
  <2>4. InTurn(net, k, proc[a].pc)
    BY <1>3, <1>10 DEF Talking, Conversation, Talk
  <2> QED
    BY <1>6, <2>1, <2>3, <2>4 DEF InTurn
<1> QED
  BY <1>1, <1>3, <1>4, <1>9, <1>10 DEF k, m

\* The kernel and the buffer when the message has been read.
LEMMA Receives2 ==
  ASSUME SInv, Talking, Agreed, server_len > 1, NEW n \in Server, NEW f \in Fd,
         NEW words, Receives(n, f, words)
  PROVE  LET k == -net.fdt[n][f]
             w == AfterRead(n, f)
             p == WithBuffer(n, f) IN
         /\ w \in Kernel(Message) /\ Sound(w) /\ Gentle(n, net, w)
         /\ w.fdt = net.fdt /\ w.open = net.open /\ w.made = net.made
         /\ w.inq[-k] = <<>>
         /\ \A x \in End : x # -k => w.inq[x] = net.inq[x]
         /\ Unbroken(w)
         /\ proc[n].pc = "loop" /\ p.pc = "loop" /\ Finish(p).pc = "loop"
         /\ p \in Process /\ p.i = f
         /\ p.success_flag = proc[n].success_flag
         /\ p.client_sock = proc[n].client_sock
         /\ Finish(p).success_flag = proc[n].success_flag
         /\ Finish(p).client_sock = proc[n].client_sock
<1> DEFINE e == net.fdt[n][f]
           w == AfterRead(n, f)
           p == WithBuffer(n, f)
<1>1. e \in End /\ -(-e) = e
  <2>1. e \in End
    BY ReceiveSafe
  <2> HIDE DEF e
  <2> QED
    BY <2>1, Mirror
<1>2. /\ Safe(n, w) /\ Sound(w)
      /\ w.fdt = net.fdt /\ w.open = net.open /\ w.made = net.made
      /\ w.inq = [net.inq EXCEPT ![e] = <<>>]
  BY ReceiveKernel
<1>3. net \in Kernel(Message) /\ net.inq \in [End -> Seq(Message)]
  BY NetTalk
<1>4. Gentle(n, net, w)
  <2> HIDE DEF e
  <2> QED
    BY <1>1, <1>3, DrainGentle DEF AfterRead, e
<1>5. Unbroken(w)
  BY <1>4 DEF Agreed, Steady, Gentle
<1>6. proc[n].pc = "loop" /\ p.pc = "loop" /\ Finish(p).pc = "loop"
      /\ p \in Process /\ p.i = f
  <2>1. proc[n].pc = "loop"
    BY DEF Receives, Watched
  <2>2. p \in Process /\ p.pc = "loop" /\ Finish(p).pc = "loop"
    BY ReceiveMemory
  <2>3. p.i = f
    BY ReceiveSafe
  <2> QED
    BY <2>1, <2>2, <2>3
<1>7. /\ p.success_flag = proc[n].success_flag
      /\ p.client_sock = proc[n].client_sock
  BY DEF WithBuffer, SInv, IInv, Process
<1> HIDE DEF p
<1>8. /\ Finish(p).success_flag = p.success_flag
      /\ Finish(p).client_sock = p.client_sock
  BY <1>6 DEF Finish, Process
<1>9. w \in Kernel(Message)
  BY <1>2 DEF Safe, KernelOf
<1> HIDE DEF w, e
<1>10. w.inq[e] = <<>> /\ \A x \in End : x # e => w.inq[x] = net.inq[x]
  BY <1>1, <1>2, <1>3
<1> QED
  BY <1>1, <1>2, <1>4, <1>5, <1>6, <1>7, <1>8, <1>9, <1>10 DEF w, e, p

\* Where client_sock still points.
LEMMA NamesKept ==
  ASSUME SInv, NEW n \in Server, NEW w,
         proc'[n].client_sock = proc[n].client_sock,
         \A f \in Fd : net.fdt[n][f] # Free => w.fdt[n][f] = net.fdt[n][f],
         NamesClient(net, proc, n)
  PROVE  NamesClient(w, proc', n)
<1>1. proc[n].client_sock # NoFd => proc[n].client_sock \in Fd
  BY DEF SInv, IInv, Process
<1>2. \A k \in Conn : -k # Free
  BY DEF Conn, Free
<1> QED
  BY <1>1, <1>2 DEF NamesClient

\* write() to somebody who is there.
Wrote(w, v, e, m) ==
  /\ v.fdt = w.fdt /\ v.open = w.open
  /\ \A x \in End : x # -e => v.inq[x] = w.inq[x]
  /\ v.inq[-e] = Append(w.inq[-e], m)

\* An answer to somebody who is there arrives, and kills nobody.
LEMMA ReplyReaches ==
  ASSUME NEW n, NEW w \in Kernel(Message), NEW e \in End, NEW m \in Message,
         NEW q, Unbroken(w), w.open[-e], Reply(n, w, e, m, q)
  PROVE  /\ Become(n, Write(w, e, m), q) /\ Gentle(n, w, Write(w, e, m))
         /\ Wrote(w, Write(w, e, m), e, m)
<1>1. ~ Sigpipe(w, e)
  BY DEF Sigpipe, Unbroken
<1>2. Become(n, Write(w, e, m), q)
  BY <1>1 DEF Reply
<1>3. Gentle(n, w, Write(w, e, m))
  BY WriteGentle
<1>4. LET v == Write(w, e, m) IN
         /\ v.fdt = w.fdt /\ v.backlog = w.backlog /\ v.made = w.made
         /\ v.open = w.open /\ v.kept = w.kept
         /\ \A x \in End : x # -e => v.inq[x] = w.inq[x]
         /\ w.open[-e] => /\ v.inq[-e] = Append(w.inq[-e], m)
                          /\ v.err = w.err
         /\ ~ w.open[-e] => /\ v.inq = w.inq
                            /\ \A x \in End : x # e => v.err[x] = w.err[x]
  BY WriteExact
<1> QED
  BY <1>2, <1>3, <1>4 DEF Wrote

-----------------------------------------------------------------------------
(* The handlers.                                                           *)

\* A handler that answers the controller which waits for it, and that has its
\* descriptors, changes neither a configuration nor a question.
LEMMA AnswerSteady ==
  ASSUME SInv, Talking, Agreed, server_len > 1, NEW n \in Server, NEW f \in Fd,
         NEW W \in {"CONTROLLER_SET_CONFIG", "NBD_SET_ON"},
         Receives(n, f, {W}), NEW m \in Message,
         Reply(n, AfterRead(n, f), net.fdt[n][f], m, Finish(WithBuffer(n, f))),
         UNCHANGED host
  PROVE  Agreed'
<1> DEFINE k == -net.fdt[n][f]
           w == AfterRead(n, f)
           q == Finish(WithBuffer(n, f))
           v == Write(w, -k, m)
<1>1. /\ k \in Conn /\ k \in End /\ -k \in End /\ net.fdt[n][f] = -k
      /\ Holding(net, n, -k) /\ Incoming(n, f).word \in {W}
      /\ \/ Incoming(n, f).word = "USER_SET_CONFIG"
         \/ /\ net.open[k] /\ net.inq[k] = <<>>
            /\ \E a \in Server \ {n} :
                 /\ Reads(net, proc, a, k)
                 /\ Incoming(n, f).word = Question(proc[a].pc)
                 /\ Incoming(n, f).word = "config" =>
                      Incoming(n, f).arg = host[a].dmbd_config
  BY Receives1
<1>2. PICK a \in Server \ {n} :
         /\ net.open[k] /\ Reads(net, proc, a, k)
         /\ Question(proc[a].pc) # "config"
  BY <1>1
<1>3. /\ w \in Kernel(Message) /\ Sound(w) /\ Gentle(n, net, w)
      /\ w.fdt = net.fdt /\ w.open = net.open /\ w.made = net.made
      /\ w.inq[-k] = <<>>
      /\ \A x \in End : x # -k => w.inq[x] = net.inq[x]
      /\ Unbroken(w)
      /\ proc[n].pc = "loop" /\ q.pc = "loop"
      /\ q.success_flag = proc[n].success_flag
      /\ q.client_sock = proc[n].client_sock
  BY Receives2
<1>4. Reply(n, w, -k, m, q) /\ -(-k) = k
  BY <1>1 DEF Conn
<1> HIDE DEF k, w, q
<1> DEFINE e == -k
<1>14. e \in End /\ w.open[-e] /\ Reply(n, w, e, m, q)
  BY <1>1, <1>2, <1>3, <1>4
<1> HIDE DEF e
<1>15. /\ Become(n, Write(w, e, m), q) /\ Gentle(n, w, Write(w, e, m))
       /\ Wrote(w, Write(w, e, m), e, m)
  BY <1>3, <1>14, ReplyReaches
<1>5. /\ Become(n, v, q) /\ Gentle(n, w, v)
      /\ v.fdt = w.fdt
      /\ \A x \in End : x # k => v.inq[x] = w.inq[x]
  BY <1>4, <1>15 DEF e, Wrote
<1>6. /\ net' = v /\ proc'[n] = q
      /\ \A b \in Server \ {n} : proc'[b] = proc[b] /\ host'[b] = host[b]
  BY <1>5 DEF Become, SInv, IInv
<1> HIDE DEF v
<1>7. Gentle(n, net, net')
  BY <1>3, <1>5, <1>6, GentleTransitive
<1>8. \A l \in Conn : net'.inq[-l] = <<>> \/ net'.inq[-l] = net.inq[-l]
  BY <1>1, <1>3, <1>5, <1>6, EndFacts DEF Conn
<1>9. \A l \in Conn : Stays(n, l)
  BY <1>3, NotAsking DEF Reading
<1>10. SteadyHost(net, proc, host, n)
  BY DEF Agreed, Steady
<1>11. ToReport(proc', host', n) =>
         ToReport(proc, host, n) /\ NamesClient(net', proc', n)
  <2>1. ToReport(proc', host', n) => ToReport(proc, host, n)
    BY <1>3, <1>6 DEF ToReport
  <2> QED
    BY <1>3, <1>5, <1>6, <1>10, <2>1, NamesKept DEF SteadyHost
<1>12. ASSUME NEW b \in Server, Bound(net', proc', b) PROVE Bound(net, proc, b)
  <2>1. CASE b = n
    BY <1>3, <1>6, <1>12, <2>1 DEF Bound, Working
  <2>2. CASE b # n
    <3>1. ASSUME NEW l \in Conn, Reads(net, proc, b, l), proc[b].pc = "read_result"
          PROVE  net'.inq[l] = net.inq[l]
      <4>1. l # k
        BY <1>1, <1>2, <2>2, <3>1, OneReader DEF Question, Talking, Conversation, Sound, Each
      <4>2. l # -k
        BY <1>1 DEF Conn
      <4> QED
        BY <1>3, <1>5, <1>6, <4>1, <4>2, EndFacts
    <3> QED
      BY <1>6, <1>7, <1>12, <2>2, <3>1, OthersBound
  <2> QED
    BY <2>1, <2>2
<1>13. Configured(net', proc', host', n)
  BY <1>3, <1>6 DEF Configured, Configures
<1> QED
  BY <1>3, <1>6, <1>7, <1>8, <1>9, <1>10, <1>11, <1>12, <1>13, SteadyStep
     DEF SteadyHost

LEMMA ControllerSetConfigSteady ==
  ASSUME SInv, Talking, Agreed, server_len > 1, NEW n \in Server, NEW f \in Fd,
         ControllerSetConfig(n, f)
  PROVE  Agreed'
<1>1. Say("CONTROL_SET_ON") \in Message
  BY SayMessage DEF Word, Command
<1> QED
  BY <1>1, AnswerSteady DEF ControllerSetConfig

\* Where a descriptor is free, one is the lowest.
LEMMA SomeFd ==
  ASSUME NEW w, NEW n, NEW f \in Fd, w.fdt[n][f] = Free
  PROVE  HasFd(w, n)
<1> DEFINE T == {g \in Fd : w.fdt[n][g] = Free}
<1>1. T \subseteq Nat /\ T # {}
  BY DEF Fd
<1>2. PICK x \in T : \A y \in T : ~ (<<y, x>> \in OpToRel(<, Nat))
  BY <1>1, WFMin, NatLessThanWellFounded, Zenon
<1>3. \A y \in T : ~ (y < x)
  BY <1>1, <1>2 DEF OpToRel
<1>4. \A g \in 1..(x - 1) : g \in Fd /\ g < x
  BY BoundsAssumption DEF Fd
<1> QED
  BY <1>3, <1>4 DEF HasFd, IsLowestFree

\* The file can be opened, and has the text that its host was given.
LEMMA ConfigReadable ==
  ASSUME Agreed, Spare, NEW n \in Server, NEW w, w.fdt = net.fdt
  PROVE  HasFd(w, n) /\ ReadDMBDRemoteOk(n, w, host[n])
<1>1. HasFd(w, n)
  BY SomeFd DEF Spare
<1> QED
  BY <1>1 DEF ReadDMBDRemoteOk, Agreed, Steady, SteadyHost

LEMMA NbdSetOnSteady ==
  ASSUME SInv, Talking, Agreed, Spare, server_len > 1, NEW n \in Server,
         NEW f \in Fd, NbdSetOn(n, f)
  PROVE  Agreed'
<1>1. Say("NBD_CLIENT_LOAD") \in Message
  BY SayMessage DEF Word, Command
<1>2. Receives(n, f, {"NBD_SET_ON"}) /\ UNCHANGED host
  BY DEF NbdSetOn
<1>3. AfterRead(n, f).fdt = net.fdt
  BY <1>2, ReceiveKernel
<1>4. ReadDMBDRemoteOk(n, AfterRead(n, f), host[n])
  BY <1>3, ConfigReadable
<1>5. Reply(n, AfterRead(n, f), net.fdt[n][f], Say("NBD_CLIENT_LOAD"),
            Finish(WithBuffer(n, f)))
  BY <1>4 DEF NbdSetOn
<1> QED
  BY <1>1, <1>2, <1>5, AnswerSteady

\* A controller that reads, and waits in select again.
LEMMA LoopSteady ==
  ASSUME SInv, Talking, Agreed, NEW n \in Server, Gentle(n, net, net'),
         proc[n].pc \notin Reading, UNCHANGED host,
         \A b \in Server \ {n} : proc'[b] = proc[b],
         proc'[n].pc = "loop", proc'[n].client_sock = proc[n].client_sock,
         proc'[n].success_flag = proc[n].success_flag,
         \A f \in Fd : net.fdt[n][f] # Free => net'.fdt[n][f] = net.fdt[n][f],
         \A x \in End : net'.inq[x] = <<>> \/ net'.inq[x] = net.inq[x]
  PROVE  Agreed'
<1>1. SteadyHost(net, proc, host, n)
  BY DEF Agreed, Steady
<1>2. ToReport(proc', host', n) =>
        ToReport(proc, host, n) /\ NamesClient(net', proc', n)
  <2>1. ToReport(proc', host', n) => ToReport(proc, host, n)
    BY DEF ToReport
  <2> QED
    BY <1>1, <2>1, NamesKept DEF SteadyHost
<1>3. ASSUME NEW b \in Server, Bound(net', proc', b) PROVE Bound(net, proc, b)
  <2>1. CASE b = n
    BY <1>3, <2>1 DEF Bound, Working
  <2>2. CASE b # n
    BY <1>3, <2>2, OthersBound, EndFacts
  <2> QED
    BY <2>1, <2>2
<1>4. \A l \in Conn : Stays(n, l)
  BY NotAsking
<1>5. Configured(net', proc', host', n)
  BY DEF Configured, Configures
<1>6. \A l \in Conn : net'.inq[-l] = <<>> \/ net'.inq[-l] = net.inq[-l]
  BY EndFacts
<1> QED
  BY <1>1, <1>2, <1>3, <1>4, <1>5, <1>6, SteadyStep DEF SteadyHost

\* Two descriptors: a file, and one more.
LEMMA OneMoreFd ==
  ASSUME Spare, NEW n \in Server, NEW w \in Kernel(Message), w.fdt = net.fdt
  PROVE  HasFd(w, n) /\ HasFd(Take(w, n, File), n)
<1>1. PICK f \in Fd, g \in Fd :
        f # g /\ w.fdt[n][f] = Free /\ w.fdt[n][g] = Free
  BY DEF Spare
<1>2. HasFd(w, n)
  BY <1>1, SomeFd
<1> DEFINE v == Take(w, n, File)
<1>3. File \in Slot
  BY DEF Slot
<1>4. \A h \in Fd : v.fdt[n][h] = w.fdt[n][h] \/ h = LowestFd(w, n)
  BY <1>3, TakeFields
<1> HIDE DEF v
<1>5. \E h \in {f, g} : v.fdt[n][h] = Free
  BY <1>1, <1>4
<1>6. HasFd(v, n)
  BY <1>1, <1>5, SomeFd
<1> QED
  BY <1>2, <1>6 DEF v

\* A host is configured by the controller that waits for it to answer.
LEMMA SetConfigSteady ==
  ASSUME SInv, Talking, Agreed, Spare, server_len > 1, NEW n \in Server,
         NEW f \in Fd, SetConfig(n, f)
  PROVE  Agreed'
<1> DEFINE k == -net.fdt[n][f]
           m == Incoming(n, f)
           w == AfterRead(n, f)
           p == WithBuffer(n, f)
           v == Take(w, n, File)
           h == StoreConfig(n, m)
           W == Word \ Command
<1>1. Receives(n, f, W)
  BY DEF SetConfig
<1> HIDE DEF W
<1>2. /\ k \in Conn /\ k \in End /\ -k \in End /\ net.fdt[n][f] = -k
      /\ Holding(net, n, -k) /\ m.word \in W
      /\ \/ m.word = "USER_SET_CONFIG"
         \/ /\ net.open[k] /\ net.inq[k] = <<>>
            /\ \E a \in Server \ {n} :
                 /\ Reads(net, proc, a, k)
                 /\ m.word = Question(proc[a].pc)
                 /\ m.word = "config" => m.arg = host[a].dmbd_config
  BY <1>1, Receives1
<1>3. PICK a \in Server \ {n} :
         /\ Reads(net, proc, a, k) /\ proc[a].pc = "read_result"
         /\ m.word = "config" /\ m.arg = host[a].dmbd_config
  BY <1>2 DEF W, Word, Command, Question, Reads, Reading
<1>4. /\ w \in Kernel(Message) /\ Sound(w) /\ Gentle(n, net, w)
      /\ w.fdt = net.fdt /\ w.open = net.open /\ w.made = net.made
      /\ w.inq[-k] = <<>>
      /\ \A x \in End : x # -k => w.inq[x] = net.inq[x]
      /\ Unbroken(w)
      /\ proc[n].pc = "loop" /\ p.pc = "loop" /\ Finish(p).pc = "loop"
      /\ p \in Process /\ p.i = f
      /\ p.success_flag = proc[n].success_flag
      /\ p.client_sock = proc[n].client_sock
      /\ Finish(p).success_flag = proc[n].success_flag
      /\ Finish(p).client_sock = proc[n].client_sock
  BY <1>1, Receives2
<1>5. HasFd(w, n) /\ HasFd(v, n)
  BY <1>4, OneMoreFd
<1>6. host \in [Server -> Host] /\ proc \in [Server -> Process]
  BY DEF SInv, IInv
<1>7. /\ h.dmbd_config = host[a].dmbd_config /\ h.vrd = host[n].vrd
  BY <1>3, <1>6 DEF StoreConfig, Host
<1>8. host[a].dmbd_config # Garbage
  BY DEF Agreed, Steady, SteadyHost
<1>9. IF p.success_flag = 1
      THEN Become(n, w, p) /\ UNCHANGED host
      ELSE \E ok \in InsmodBestio(n) :
             /\ host' = [host EXCEPT ![n] = [h EXCEPT !.bestio = ok \/ h.bestio]]
             /\ Become(n, v, AfterInsmod(p, ok))
  BY <1>5, <1>7, <1>8 DEF SetConfig, ReadDMBDRemoteOk
<1> SUFFICES ASSUME p.success_flag # 1
             PROVE  Agreed'
  <2>1. CASE p.success_flag = 1
    <3>1. net' = w /\ proc' = [proc EXCEPT ![n] = p] /\ UNCHANGED host
      BY <1>9, <2>1 DEF Become
    <3>2. proc'[n] = p /\ \A b \in Server \ {n} : proc'[b] = proc[b]
      BY <1>6, <3>1
    <3> HIDE DEF w, p, k
    <3>3. \A x \in End : net'.inq[x] = <<>> \/ net'.inq[x] = net.inq[x]
      BY <1>4, <3>1
    <3> QED
      BY <1>4, <3>1, <3>2, <3>3, LoopSteady DEF Reading
  <2> QED
    BY <2>1
<1>10. PICK ok \in InsmodBestio(n) :
         /\ host' = [host EXCEPT ![n] = [h EXCEPT !.bestio = ok \/ h.bestio]]
         /\ Become(n, v, AfterInsmod(p, ok))
  BY <1>9
<1> DEFINE q == AfterInsmod(p, ok)
<1>11. /\ q.pc \in {"loop", "config"} /\ q.i = f
       /\ q.success_flag = proc[n].success_flag
       /\ q.client_sock = proc[n].client_sock
  BY <1>4 DEF AfterInsmod, Process
<1>12. /\ net' = v /\ proc'[n] = q
       /\ \A b \in Server \ {n} : proc'[b] = proc[b] /\ host'[b] = host[b]
  BY <1>6, <1>10 DEF Become
<1>13. /\ host'[n].dmbd_config = host[a].dmbd_config
       /\ host'[n].vrd = host[n].vrd
  <2>1. [h EXCEPT !.bestio = ok \/ h.bestio].dmbd_config = h.dmbd_config
        /\ [h EXCEPT !.bestio = ok \/ h.bestio].vrd = h.vrd
    BY <1>6 DEF StoreConfig, Host
  <2> HIDE DEF h
  <2> QED
    BY <1>6, <1>7, <1>10, <2>1
<1>14. p.success_flag \in {0, 1}
  BY <1>4 DEF Process
<1> HIDE DEF w, p, q, h
<1>15. Gentle(n, w, v) /\ v.inq = w.inq
       /\ \A b \in Server, g \in Fd :
            w.fdt[b][g] # Free => v.fdt[b][g] = w.fdt[b][g]
  <2>1. File \in Slot /\ \A l \in Conn : File # -l
    BY BoundsAssumption DEF Slot, File, Conn
  <2>2. \A b \in Server, g \in Fd :
          \/ v.fdt[b][g] = w.fdt[b][g]
          \/ b = n /\ g = LowestFd(w, n) /\ HasFd(w, n) /\ v.fdt[b][g] = File
    BY <1>4, <2>1, TakeFields
  <2>3. w.fdt[n][LowestFd(w, n)] = Free
    BY <1>5, LowestFdFree
  <2>4. Gentle(n, w, v)
    BY <1>4, <2>1, TakeGentle
  <2>5. v.inq = w.inq
    BY <1>4, TakeExact
  <2> QED
    BY <2>2, <2>3, <2>4, <2>5
<1> HIDE DEF v
<1>16. Gentle(n, net, net')
  BY <1>4, <1>12, <1>15, GentleTransitive
<1>17. \A g \in Fd : net.fdt[n][g] # Free => net'.fdt[n][g] = net.fdt[n][g]
  BY <1>4, <1>12, <1>15
<1>18. \A l \in Conn : net'.inq[-l] = <<>> \/ net'.inq[-l] = net.inq[-l]
  BY <1>4, <1>12, <1>15, EndFacts
<1>19. SteadyHost(net, proc, host, n)
  BY DEF Agreed, Steady
<1>20. ToReport(proc', host', n) =>
         ToReport(proc, host, n) /\ NamesClient(net', proc', n)
  <2>1. ToReport(proc', host', n) => ToReport(proc, host, n)
    BY <1>11, <1>12, <1>13 DEF ToReport
  <2> QED
    BY <1>11, <1>12, <1>17, <1>19, <2>1, NamesKept DEF SteadyHost
<1>21. Configured(net', proc', host', n)
  <2>1. net'.fdt[n][f] = -k /\ -(-k) = k
    BY <1>2, <1>17 DEF Conn, Free
  <2>2. Reads(net', proc', a, k)
    <3>1. proc[a].sock \in Fd
      BY <1>3 DEF Reads, Talking, Conversation, Each, Settled
    <3> QED
      BY <1>3, <1>12, <1>16, <3>1 DEF Reads, Gentle
  <2> HIDE DEF k
  <2> QED
    BY <1>3, <1>11, <1>12, <1>13, <2>1, <2>2 DEF Configured
<1>22. ASSUME server_len <= 2 PROVE Alike(host')
  <2>1. \A b \in Server : b = n \/ b = a
    BY <1>22, AtMostTwo
  <2>2. \A b \in Server : host'[b].dmbd_config = host[a].dmbd_config
    BY <1>12, <1>13, <2>1
  <2> QED
    BY <2>2 DEF Alike
<1>23. \A l \in Conn : Stays(n, l)
  BY <1>4, NotAsking DEF Reading
<1> QED
  BY <1>8, <1>11, <1>12, <1>13, <1>14, <1>16, <1>18, <1>19, <1>20, <1>21, <1>22,
     <1>23, SteadyStep DEF SteadyHost

LEMMA StartNbdServerSteady ==
  ASSUME SInv, Talking, Agreed, NEW n \in Server, StartNbdServer(n)
  PROVE  Agreed'
<1> DEFINE q == [proc[n] EXCEPT !.pc = "answer"]
<1>1. proc[n].pc = "config" /\ net \in Kernel(Message)
  BY NetTalk DEF StartNbdServer
<1>2. PICK ok \in BOOLEAN :
        /\ host' = [host EXCEPT ![n].nbd_server = ok \/ @]
        /\ Become(n, IF ok THEN Inherit(net, n) ELSE net, q)
  BY DEF StartNbdServer
<1>3. /\ q.pc = "answer" /\ q.success_flag = proc[n].success_flag
      /\ q.client_sock = proc[n].client_sock /\ q.i = proc[n].i
  BY DEF SInv, IInv, Process
<1> HIDE DEF q
<1>4. /\ net' \in {net, Inherit(net, n)} /\ proc'[n] = q
      /\ \A b \in Server \ {n} : proc'[b] = proc[b] /\ host'[b] = host[b]
      /\ host'[n].dmbd_config = host[n].dmbd_config
      /\ host'[n].vrd = host[n].vrd
  BY <1>2 DEF Become, SInv, IInv, Host
<1>5. net'.fdt = net.fdt /\ net'.inq = net.inq /\ Gentle(n, net, net')
  BY <1>1, <1>4, InheritGentle
<1>6. SteadyHost(net, proc, host, n)
  BY DEF Agreed, Steady
<1>7. ToReport(proc', host', n) =>
        ToReport(proc, host, n) /\ NamesClient(net', proc', n)
  BY <1>3, <1>4, <1>5, <1>6 DEF ToReport, SteadyHost, NamesClient
<1>8. ASSUME NEW b \in Server, Bound(net', proc', b) PROVE Bound(net, proc, b)
  BY <1>1, <1>3, <1>4, <1>5, <1>8 DEF Bound, Working
<1>9. \A l \in Conn : Stays(n, l)
  BY <1>1, NotAsking DEF Reading
<1>10. Configured(net', proc', host', n)
  <2>1. PICK a \in Server : /\ Reads(net, proc, a, -net.fdt[n][proc[n].i])
                            /\ proc[a].pc = "read_result"
                            /\ host[a].dmbd_config = host[n].dmbd_config
    BY <1>1, <1>6 DEF SteadyHost, Configured, Configures
  <2>2. a # n
    BY <1>1, <2>1
  <2> QED
    BY <1>3, <1>4, <1>5, <2>1, <2>2 DEF Configured, Reads
<1> QED
  BY <1>3, <1>4, <1>5, <1>6, <1>7, <1>8, <1>9, <1>10, SteadyStep DEF SteadyHost

\* ... which has the dmbd_config that it sent.
LEMMA SetConfigDoneSteady ==
  ASSUME SInv, Talking, Agreed, server_len > 1, NEW n \in Server,
         SetConfigDone(n)
  PROVE  Agreed'
<1> DEFINE e == net.fdt[n][proc[n].i]
           m == Say("success")
           r == Finish(proc[n])
           v == Write(net, e, m)
<1>1. proc[n].pc = "answer"
  BY DEF SetConfigDone
<1>2. proc[n].i \in Fd /\ e \in End /\ SteadyHost(net, proc, host, n)
      /\ Unbroken(net)
  <2>1. AboutToAnswer(net, proc, n)
    BY DEF Talking, Conversation, Each
  <2> QED
    BY <1>1, <2>1 DEF AboutToAnswer, Agreed, Steady, Configures
<1>3. PICK a \in Server : /\ Reads(net, proc, a, -e) /\ proc[a].pc = "read_result"
                          /\ host[a].dmbd_config = host[n].dmbd_config
  BY <1>1, <1>2 DEF SteadyHost, Configured, Configures
<1>4. -e \in Conn /\ -e \in End /\ a # n /\ net.open[-e] /\ -(-e) = e
  <2>1. -e \in Conn /\ Holding(net, a, -e)
    BY <1>3, ReadsHeld DEF Talking, Conversation, Each
  <2>2. -e \in End
    BY <2>1, EndFacts
  <2> QED
    BY <1>1, <1>2, <1>3, <2>1, <2>2, Mirror DEF Talking, Conversation, Sound, HeldOpen
<1>5. net \in Kernel(Message) /\ m \in Message
  BY NetTalk, SayMessage DEF Word, Command
<1>6. /\ r.pc = "loop" /\ r.success_flag = proc[n].success_flag
      /\ r.client_sock = proc[n].client_sock
  <2>1. Resting(proc[n]) /\ proc[n] \in Process
    BY <1>1, RestingFacts
  <2>2. proc[n].unsuccess_flag = 0
    BY DEF Talking, Conversation, Each, Remembers
  <2>3. r.pc = "loop"
    BY <2>1, <2>2, FinishLoops
  <2> QED
    BY <2>1, <2>3 DEF Finish, Process
<1>7. Reply(n, net, e, m, r)
  BY DEF SetConfigDone
<1> HIDE DEF e, m, r
<1>8. Become(n, v, r) /\ Gentle(n, net, v) /\ Wrote(net, v, e, m)
  BY <1>2, <1>4, <1>5, <1>7, ReplyReaches
<1>9. /\ net' = v /\ proc'[n] = r
      /\ \A b \in Server \ {n} : proc'[b] = proc[b] /\ host'[b] = host[b]
      /\ host'[n].dmbd_config = host[n].dmbd_config
      /\ host'[n].vrd = host[n].vrd
  BY <1>8 DEF Become, SetConfigDone, SInv, IInv, Host
<1> HIDE DEF v
<1>10. \A l \in Conn : net'.inq[-l] = net.inq[-l]
  BY <1>4, <1>8, <1>9, EndFacts DEF Wrote, Conn
<1>11. ToReport(proc', host', n) =>
         ToReport(proc, host, n) /\ NamesClient(net', proc', n)
  <2>1. ToReport(proc', host', n) => ToReport(proc, host, n)
    BY <1>6, <1>9 DEF ToReport
  <2> QED
    BY <1>2, <1>6, <1>8, <1>9, <2>1, NamesKept DEF SteadyHost, Wrote
<1>12. ASSUME server_len <= 2 PROVE Alike(host')
  <2>1. \A b \in Server : b = n \/ b = a
    BY <1>4, <1>12, AtMostTwo
  <2>2. \A b \in Server : host'[b].dmbd_config = host[a].dmbd_config
    BY <1>3, <1>9, <2>1
  <2> QED
    BY <2>2 DEF Alike
<1>13. \A l \in Conn : Stays(n, l)
  BY <1>1, NotAsking DEF Reading
<1>14. Configured(net', proc', host', n)
  BY <1>6, <1>9 DEF Configured, Configures
<1> QED
  BY <1>2, <1>6, <1>8, <1>9, <1>10, <1>11, <1>12, <1>13, <1>14, SteadyStep
     DEF SteadyHost

\* A peer can always be reached.
LEMMA PeerReached ==
  ASSUME Agreed, Spare, server_len > 1, NEW n \in Server,
         NEW w \in Kernel(Message), w.fdt = net.fdt
  PROVE  Reaches(n, w)
<1>1. FirstPeer(n) \in Server
  BY FirstPeerServer
<1>2. proc[FirstPeer(n)].pc # "down"
  BY <1>1 DEF Agreed, Steady, SteadyHost
<1> QED
  BY <1>2, OneMoreFd DEF Reaches, Listens

\* A question on a new connection, to which the sender will read the answer.
LEMMA AskSteady ==
  ASSUME NEW n \in Server, NEW w \in Kernel(Message), Sound(w),
         Gentle(n, net, w), w.fdt = net.fdt, w.made < MaxConns, Reaches(n, w),
         \A x \in End : w.inq[x] = <<>> \/ w.inq[x] = net.inq[x],
         NEW m \in Message, m.word # "config",
         net' = SendTo(n, w, m), proc'[n].pc \in Reading,
         proc'[n].sock = LowestFd(w, n), m.word = Question(proc'[n].pc)
  PROVE  /\ Gentle(n, net, net')
         /\ \A f \in Fd : net.fdt[n][f] # Free => net'.fdt[n][f] = net.fdt[n][f]
         /\ \A l \in Conn : \/ net'.inq[-l] = <<>> \/ net'.inq[-l] = net.inq[-l]
                            \/ SentOn(net', proc', host', l)
         /\ \A l \in Conn : net'.inq[l] = <<>> \/ net'.inq[l] = net.inq[l]
<1> DEFINE k == w.made + 1
           g == LowestFd(w, n)
<1>1. LET y == SendTo(n, w, m)
          j == w.made + 1
          i == LowestFd(w, n) IN
      /\ Sound(y) /\ y \in Kernel(Message)
      /\ j \in Conn /\ i \in Fd /\ w.fdt[n][i] = Free /\ y.fdt[n][i] = j
      /\ \A a \in Server, h \in Fd :
           <<a, h>> # <<n, i>> => y.fdt[a][h] = w.fdt[a][h]
      /\ y.inq[-j] = <<m>> /\ y.inq[j] = <<>> /\ w.inq[-j] = <<>>
      /\ \A x \in End : x # -j => y.inq[x] = w.inq[x]
      /\ \A x \in End : y.open[x] <=> x \in {j, -j} \/ w.open[x]
      /\ y.kept = w.kept /\ j \notin w.kept
      /\ \A a \in Server : ~ Holding(w, a, j) /\ ~ Holding(w, a, -j)
  BY SendExact
<1>2. Gentle(n, net, net')
  BY SendGentle, GentleTransitive
<1>3. /\ k \in Conn /\ g \in Fd /\ net'.fdt[n][g] = k
      /\ \A h \in Fd : net.fdt[n][h] # Free => net'.fdt[n][h] = net.fdt[n][h]
      /\ net'.inq[-k] = <<m>>
      /\ \A x \in End : x # -k => net'.inq[x] = w.inq[x]
  BY <1>1
<1> HIDE DEF k, g
<1>4. SentOn(net', proc', host', k)
  <2>1. Reads(net', proc', n, k)
    BY <1>3 DEF Reads, g
  <2>2. \A j \in 1..Len(net'.inq[-k]) : net'.inq[-k][j] = m
    BY <1>3
  <2> QED
    BY <2>1, <2>2 DEF SentOn
<1>5. \A l \in Conn : /\ l \in End /\ -l \in End /\ l # -k
                      /\ -l = -k => l = k
  BY <1>3, EndFacts DEF Conn
<1> QED
  BY <1>2, <1>3, <1>4, <1>5

\* The first question: it asks for nothing yet.
LEMMA UserSetConfigSteady ==
  ASSUME SInv, Talking, Agreed, Spare, server_len > 1, NEW n \in Server,
         NEW f \in Fd, UserSetConfig(n, f)
  PROVE  Agreed'
<1> DEFINE w == AfterRead(n, f)
           p == WithBuffer(n, f)
           m == Say("CONTROLLER_SET_CONFIG")
           q == [p EXCEPT !.pc = "read_on", !.sock = LowestFd(w, n)]
           e == -net.fdt[n][f]
           W == {"USER_SET_CONFIG"}
<1>1. Receives(n, f, W) /\ net.made < MaxConns /\ UNCHANGED host
  BY DEF UserSetConfig, Room
<1> HIDE DEF W
<1>2. /\ w \in Kernel(Message) /\ Sound(w) /\ Gentle(n, net, w)
      /\ w.fdt = net.fdt /\ w.open = net.open /\ w.made = net.made
      /\ w.inq[-e] = <<>>
      /\ \A x \in End : x # -e => w.inq[x] = net.inq[x]
      /\ Unbroken(w)
      /\ proc[n].pc = "loop" /\ p.pc = "loop" /\ Finish(p).pc = "loop"
      /\ p \in Process /\ p.i = f
      /\ p.success_flag = proc[n].success_flag
      /\ p.client_sock = proc[n].client_sock
      /\ Finish(p).success_flag = proc[n].success_flag
      /\ Finish(p).client_sock = proc[n].client_sock
  BY <1>1, Receives2
<1>3. Reaches(n, w)
  BY <1>2, PeerReached
<1>4. Become(n, SendTo(n, w, m), q)
  BY <1>3 DEF UserSetConfig
<1>5. /\ q.pc = "read_on" /\ q.sock = LowestFd(w, n)
      /\ q.success_flag = proc[n].success_flag
      /\ q.client_sock = proc[n].client_sock
  BY <1>2 DEF Process
<1>6. m \in Message /\ m.word = "CONTROLLER_SET_CONFIG"
  BY SayMessage DEF Word, Command
<1> HIDE DEF w, p, q, m, e
<1>7. /\ net' = SendTo(n, w, m) /\ proc'[n] = q
      /\ \A b \in Server \ {n} : proc'[b] = proc[b] /\ host'[b] = host[b]
  BY <1>1, <1>4 DEF Become, SInv, IInv
<1>8. /\ Gentle(n, net, net')
      /\ \A h \in Fd : net.fdt[n][h] # Free => net'.fdt[n][h] = net.fdt[n][h]
      /\ \A l \in Conn : \/ net'.inq[-l] = <<>> \/ net'.inq[-l] = net.inq[-l]
                         \/ SentOn(net', proc', host', l)
      /\ \A l \in Conn : net'.inq[l] = <<>> \/ net'.inq[l] = net.inq[l]
  <2>1. \A x \in End : w.inq[x] = <<>> \/ w.inq[x] = net.inq[x]
    BY <1>2
  <2>2. proc'[n].pc \in Reading /\ m.word = Question(proc'[n].pc)
    BY <1>5, <1>6, <1>7 DEF Reading, Question
  <2> QED
    BY <1>1, <1>2, <1>3, <1>5, <1>6, <1>7, <2>1, <2>2, AskSteady
<1>9. SteadyHost(net, proc, host, n)
  BY DEF Agreed, Steady
<1>10. ToReport(proc', host', n) =>
         ToReport(proc, host, n) /\ NamesClient(net', proc', n)
  <2>1. ToReport(proc', host', n) => ToReport(proc, host, n)
    BY <1>1, <1>5, <1>7 DEF ToReport
  <2> QED
    BY <1>5, <1>7, <1>8, <1>9, <2>1, NamesKept DEF SteadyHost
<1>11. ASSUME NEW b \in Server, Bound(net', proc', b) PROVE Bound(net, proc, b)
  <2>1. CASE b = n
    BY <1>5, <1>7, <1>11, <2>1 DEF Bound, Working
  <2>2. CASE b # n
    BY <1>7, <1>8, <1>11, <2>2, OthersBound
  <2> QED
    BY <2>1, <2>2
<1>12. \A l \in Conn : Stays(n, l)
  BY <1>2, NotAsking DEF Reading
<1>13. Configured(net', proc', host', n)
  BY <1>5, <1>7 DEF Configured, Configures
<1> QED
  BY <1>1, <1>5, <1>7, <1>8, <1>9, <1>10, <1>11, <1>12, <1>13, SteadyStep
     DEF SteadyHost

\* What a controller blocked in a read finds is the answer.
LEMMA Answered ==
  ASSUME SInv, Talking, Agreed, NEW n \in Server, proc[n].pc \in Reading,
         Readable(net, SockEnd(n))
  PROVE  LET e == SockEnd(n)
             w == Drain(net, e) IN
         /\ e \in Conn /\ e \in End /\ -e \in End /\ -e # e
         /\ proc[n].sock \in Fd /\ net.open[-e]
         /\ \A k : Reads(net, proc, n, k) <=> k = e
         /\ w \in Kernel(Message) /\ Gentle(n, net, w) /\ Unbroken(w)
         /\ w.fdt = net.fdt /\ w.open = net.open
         /\ net.inq[e] # <<>> /\ Head(net.inq[e]).word = Answer(proc[n].pc)
         /\ w.inq[e] = <<>> /\ w.inq[-e] = <<>>
         /\ \A x \in End : w.inq[x] = <<>> \/ w.inq[x] = net.inq[x]
<1> DEFINE e == SockEnd(n)
           w == Drain(net, e)
<1>1. /\ e \in Conn /\ e \in End /\ -e \in End /\ Holding(net, n, e)
      /\ proc[n].sock \in Fd
      /\ \A k : Reads(net, proc, n, k) <=> k = e
      /\ Safe(n, w) /\ Fewer(net, w) /\ Sound(w)
      /\ w.fdt = net.fdt /\ w.open = net.open
      /\ net.inq[e] # <<>> \/ ~ net.open[-e]
      /\ w.inq[e] = <<>> /\ w.inq[-e] = <<>>
      /\ net.inq[e] # <<>> => Head(net.inq[e]).word = Answer(proc[n].pc)
      /\ net.err[e] = "reset" => ~ net.open[-e]
  BY ReadingTalk
<1>2. Unbroken(net)
  BY DEF Agreed, Steady
<1>3. net.open[e]
  BY <1>1 DEF Talking, Conversation, Sound, HeldOpen
<1>4. net.open[-e] /\ -e # e
  BY <1>1, <1>2, <1>3 DEF Unbroken, Conn
<1>5. net \in Kernel(Message)
  BY NetTalk
<1> HIDE DEF e
<1>6. Gentle(n, net, w)
  BY <1>1, <1>5, DrainGentle
<1>7. w \in Kernel(Message)
  BY <1>1 DEF Safe, KernelOf
<1>8. \A x \in End : w.inq[x] = <<>> \/ w.inq[x] = net.inq[x]
  BY <1>1 DEF Fewer
<1>9. Unbroken(w)
  BY <1>2, <1>6 DEF Gentle
<1> HIDE DEF w
<1> QED
  BY <1>1, <1>4, <1>6, <1>7, <1>8, <1>9 DEF e, w

\* The second question: the dmbd_config of the one that asks.
LEMMA MsgSendReadOnSteady ==
  ASSUME SInv, Talking, Agreed, Spare, server_len > 1, NEW n \in Server,
         MsgSendReadOn(n)
  PROVE  Agreed'
<1> DEFINE e == SockEnd(n)
           w == Drain(net, e)
           u == Take(w, n, File)
           m == [word |-> "config", arg |-> host[n].dmbd_config]
           q == [proc[n] EXCEPT !.pc = "read_result", !.reply = "CONTROL_SET_ON"]
           v == Write(u, e, m)
<1>1. proc[n].pc = "read_on" /\ proc[n].pc \in Reading /\ Readable(net, e)
      /\ UNCHANGED host
  BY DEF MsgSendReadOn, Reading
<1>2. /\ e \in Conn /\ e \in End /\ -e \in End /\ -e # e
      /\ proc[n].sock \in Fd /\ net.open[-e]
      /\ \A k : Reads(net, proc, n, k) <=> k = e
      /\ w \in Kernel(Message) /\ Gentle(n, net, w) /\ Unbroken(w)
      /\ w.fdt = net.fdt /\ w.open = net.open
      /\ net.inq[e] # <<>> /\ Head(net.inq[e]).word = Answer(proc[n].pc)
      /\ w.inq[e] = <<>> /\ w.inq[-e] = <<>>
      /\ \A x \in End : w.inq[x] = <<>> \/ w.inq[x] = net.inq[x]
  BY <1>1, Answered
<1>3. HasFd(w, n)
  BY <1>2, OneMoreFd
<1>4. Answers(n, {"CONTROL_SET_ON", "eof"}) = {"CONTROL_SET_ON"}
  BY <1>1, <1>2 DEF Answers, Answer
<1>5. Reply(n, u, e, m, q)
  BY <1>3, <1>4 DEF MsgSendReadOn
<1>6. m \in Message /\ m.word = "config" /\ m.arg = host[n].dmbd_config
  BY DEF Message, SInv, IInv, Host
<1>7. /\ q.pc = "read_result" /\ q.sock = proc[n].sock
      /\ q.success_flag = proc[n].success_flag
      /\ q.client_sock = proc[n].client_sock
  BY DEF SInv, IInv, Process
<1>8. net.fdt[n][proc[n].sock] = e
  BY DEF SockEnd
<1> HIDE DEF e, w, m, q
<1>9. /\ u \in Kernel(Message) /\ Gentle(n, w, u) /\ Unbroken(u)
      /\ u.inq = w.inq /\ u.open = net.open
      /\ \A g \in Fd : w.fdt[n][g] # Free => u.fdt[n][g] = w.fdt[n][g]
  <2>1. File \in Slot /\ \A l \in Conn : File # -l
    BY BoundsAssumption DEF Slot, File, Conn
  <2>2. \A g \in Fd : \/ u.fdt[n][g] = w.fdt[n][g]
                      \/ g = LowestFd(w, n)
    BY <1>2, <2>1, TakeFields
  <2>3. w.fdt[n][LowestFd(w, n)] = Free
    BY <1>3, LowestFdFree
  <2>4. Gentle(n, w, u)
    BY <1>2, <2>1, TakeGentle
  <2>5. u.inq = w.inq /\ u.open = w.open
    BY <1>2, TakeExact
  <2>6. u \in Kernel(Message)
    BY <1>2, <2>1, TakeKernel
  <2>7. Unbroken(u)
    BY <1>2, <2>4 DEF Gentle
  <2> QED
    BY <1>2, <2>2, <2>3, <2>4, <2>5, <2>6, <2>7
<1> HIDE DEF u
<1>10. Become(n, v, q) /\ Gentle(n, u, v) /\ Wrote(u, v, e, m)
  BY <1>2, <1>5, <1>6, <1>9, ReplyReaches
<1> HIDE DEF v
<1>11. /\ net' = v /\ proc'[n] = q
       /\ \A b \in Server \ {n} : proc'[b] = proc[b] /\ host'[b] = host[b]
  BY <1>1, <1>10 DEF Become, SInv, IInv
<1>12. Gentle(n, net, net')
  BY <1>2, <1>9, <1>10, <1>11, GentleTransitive
<1>13. /\ net'.inq[-e] = <<m>> /\ net'.inq[e] = <<>>
       /\ \A x \in End : x # -e => net'.inq[x] = <<>> \/ net'.inq[x] = net.inq[x]
  BY <1>2, <1>9, <1>10, <1>11 DEF Wrote
<1>14. \A g \in Fd : net.fdt[n][g] # Free => net'.fdt[n][g] = net.fdt[n][g]
  BY <1>2, <1>9, <1>10, <1>11 DEF Wrote
<1>15. net'.fdt[n][proc'[n].sock] = e
  BY <1>2, <1>7, <1>8, <1>11, <1>14 DEF End, Free
<1>16. SentOn(net', proc', host', e)
  <2>1. Reads(net', proc', n, e)
    BY <1>7, <1>11, <1>15 DEF Reads, Reading
  <2>2. \A j \in 1..Len(net'.inq[-e]) : net'.inq[-e][j] = m
    BY <1>13
  <2> QED
    BY <1>1, <1>6, <1>7, <1>11, <2>1, <2>2 DEF SentOn, Question
<1>17. \A l \in Conn : \/ net'.inq[-l] = <<>>
                       \/ net'.inq[-l] = net.inq[-l] /\ Stays(n, l)
                       \/ SentOn(net', proc', host', l)
  <2> TAKE l \in Conn
  <2>1. CASE l = e
    BY <1>16, <2>1
  <2>2. CASE l # e
    BY <1>2, <1>13, <2>2, EndFacts DEF Conn, Stays
  <2> QED
    BY <2>1, <2>2
<1>18. SteadyHost(net, proc, host, n)
  BY DEF Agreed, Steady
<1>19. ToReport(proc', host', n) =>
         ToReport(proc, host, n) /\ NamesClient(net', proc', n)
  <2>1. ToReport(proc', host', n) => ToReport(proc, host, n)
    BY <1>1, <1>7, <1>11 DEF ToReport
  <2> QED
    BY <1>7, <1>11, <1>14, <1>18, <2>1, NamesKept DEF SteadyHost
<1>20. ASSUME NEW b \in Server, Bound(net', proc', b) PROVE Bound(net, proc, b)
  <2>1. CASE b = n
    <3>1. ~ Working(net', proc', n)
      BY <1>7, <1>11, <1>13, <1>15 DEF Working
    <3> QED
      BY <1>7, <1>11, <1>20, <2>1, <3>1 DEF Bound
  <2>2. CASE b # n
    <3>1. \A x \in Conn : net'.inq[x] = <<>> \/ net'.inq[x] = net.inq[x]
      BY <1>2, <1>13, EndFacts DEF Conn
    <3> QED
      BY <1>11, <1>12, <1>20, <2>2, <3>1, OthersBound
  <2> QED
    BY <2>1, <2>2
<1>21. Configured(net', proc', host', n)
  BY <1>7, <1>11 DEF Configured, Configures
<1> QED
  BY <1>1, <1>7, <1>11, <1>12, <1>17, <1>18, <1>19, <1>20, <1>21, SteadyStep
     DEF SteadyHost

\* The last read of msg_send and that of nbd_msg_send: the host was bound by
\* the answer before it read it.
LEMMA ReadSteady ==
  ASSUME SInv, Talking, Agreed, NEW n \in Server,
         proc[n].pc \in {"read_result", "read_nbd"}, Readable(net, SockEnd(n)),
         NEW q, Become(n, Drain(net, SockEnd(n)), q), UNCHANGED host,
         q.pc \in {"loop", "assemble", "report"},
         q.pc = "report" => proc[n].pc = "read_nbd",
         q.success_flag = proc[n].success_flag,
         q.client_sock = proc[n].client_sock
  PROVE  Agreed'
<1> DEFINE e == SockEnd(n)
           w == Drain(net, e)
<1>1. proc[n].pc \in Reading
  BY DEF Reading
<1>2. /\ e \in Conn /\ e \in End /\ -e \in End /\ -e # e
      /\ proc[n].sock \in Fd /\ net.open[-e]
      /\ \A k : Reads(net, proc, n, k) <=> k = e
      /\ w \in Kernel(Message) /\ Gentle(n, net, w) /\ Unbroken(w)
      /\ w.fdt = net.fdt /\ w.open = net.open
      /\ net.inq[e] # <<>> /\ Head(net.inq[e]).word = Answer(proc[n].pc)
      /\ w.inq[e] = <<>> /\ w.inq[-e] = <<>>
      /\ \A x \in End : w.inq[x] = <<>> \/ w.inq[x] = net.inq[x]
  BY <1>1, Answered
<1>3. /\ net' = w /\ proc'[n] = q
      /\ \A b \in Server \ {n} : proc'[b] = proc[b] /\ host'[b] = host[b]
  BY DEF Become, SInv, IInv
<1>4. Bound(net, proc, n)
  <2>1. net.inq[SockEnd(n)] # <<>>
    BY <1>1, Answered
  <2>2. net.inq[net.fdt[n][proc[n].sock]] # <<>>
    BY <2>1 DEF SockEnd
  <2> QED
    BY <2>2 DEF Bound, Working
<1> HIDE DEF w, e
<1>5. \A l \in Conn : \/ net'.inq[-l] = <<>>
                      \/ net'.inq[-l] = net.inq[-l] /\ Stays(n, l)
  BY <1>2, <1>3, EndFacts DEF Stays
<1>6. \A l \in Conn : \/ Stays(n, l) \/ proc[n].pc # "read_result"
                      \/ net.inq[l] # <<>>
  BY <1>2 DEF Stays
<1>7. SteadyHost(net, proc, host, n)
  BY DEF Agreed, Steady
<1>8. ToReport(proc', host', n) =>
        ToReport(proc, host, n) /\ NamesClient(net', proc', n)
  <2>1. ToReport(proc', host', n) => ToReport(proc, host, n)
    BY <1>3 DEF ToReport
  <2> QED
    BY <1>2, <1>3, <1>7, <2>1, NamesKept DEF SteadyHost
<1>9. ASSUME NEW b \in Server, Bound(net', proc', b) PROVE Bound(net, proc, b)
  BY <1>2, <1>3, <1>4, <1>9, OthersBound, EndFacts
<1>10. Configured(net', proc', host', n)
  BY <1>3 DEF Configured, Configures
<1> QED
  BY <1>2, <1>3, <1>5, <1>6, <1>7, <1>8, <1>9, <1>10, SteadyStep
     DEF SteadyHost

LEMMA MsgSendReadResultSteady ==
  ASSUME SInv, Talking, Agreed, server_len > 1, NEW n \in Server,
         MsgSendReadResult(n)
  PROVE  Agreed'
<1> DEFINE w == Drain(net, SockEnd(n))
<1>1. PICK reply \in Answers(n, {proc[n].reply}) :
        Become(n, w,
          Finish([proc[n] EXCEPT
            !.reply = "eof", !.sock = NoFd,
            !.count = IF reply = "success" THEN @ + 1 ELSE @,
            !.unsuccess_flag = IF reply = "unsuccess" THEN 1 ELSE @]))
  BY Zenon DEF MsgSendReadResult
<1> DEFINE p == [proc[n] EXCEPT
                   !.reply = "eof", !.sock = NoFd,
                   !.count = IF reply = "success" THEN @ + 1 ELSE @,
                   !.unsuccess_flag = IF reply = "unsuccess" THEN 1 ELSE @]
<1>2. /\ proc[n].pc = "read_result" /\ proc[n].pc \in Reading
      /\ Readable(net, SockEnd(n)) /\ UNCHANGED host
  BY DEF MsgSendReadResult, Reading
<1>3. net.inq[SockEnd(n)] # <<>>
      /\ Head(net.inq[SockEnd(n)]).word = Answer(proc[n].pc)
  BY <1>2, Answered
<1>4. reply = "success"
  BY <1>1, <1>2, <1>3 DEF Answers, Answer
<1>5. Remembers(proc[n]) /\ proc[n] \in Process /\ Resting(proc[n])
  BY <1>2, RestingFacts DEF Talking, Conversation, Each
<1>6. /\ p.unsuccess_flag = 0 /\ p.nbd_count = 0
      /\ p.success_flag = proc[n].success_flag
      /\ p.client_sock = proc[n].client_sock
      /\ \A x : LET r == [p EXCEPT !.pc = x] IN
                /\ r.pc = x /\ r.success_flag = p.success_flag
                /\ r.client_sock = p.client_sock
  BY <1>4, <1>5 DEF Remembers, Resting, Process
<1>7. Become(n, w, Finish(p))
  BY <1>1
<1> HIDE DEF w, p
<1>8. Finish(p) = [p EXCEPT !.pc = IF p.count = server_len - 1 THEN "assemble"
                                   ELSE "loop"]
  BY <1>6, ServerLen DEF Finish
<1>9. /\ Finish(p).pc \in {"loop", "assemble"}
      /\ Finish(p).success_flag = proc[n].success_flag
      /\ Finish(p).client_sock = proc[n].client_sock
  BY <1>6, <1>8
<1> HIDE DEF SockEnd
<1> QED
  BY <1>2, <1>7, <1>9, ReadSteady DEF w

LEMMA NbdMsgSendReadSteady ==
  ASSUME SInv, Talking, Agreed, server_len > 1, NEW n \in Server,
         NbdMsgSendRead(n)
  PROVE  Agreed'
<1> DEFINE w == Drain(net, SockEnd(n))
<1>1. PICK reply \in (IF net.inq[SockEnd(n)] = <<>>
                      THEN {"NBD_CLIENT_LOAD", "eof"} ELSE Answers(n, {})) :
        Become(n, w,
          FinishAssembly([proc[n] EXCEPT
            !.sock = NoFd,
            !.nbd_count = IF reply = "NBD_CLIENT_LOAD" THEN @ + 1 ELSE @]))
  BY Zenon DEF NbdMsgSendRead
<1> DEFINE p == [proc[n] EXCEPT
                   !.sock = NoFd,
                   !.nbd_count = IF reply = "NBD_CLIENT_LOAD" THEN @ + 1 ELSE @]
           q == FinishAssembly(p)
           t == [p EXCEPT !.count = 0]
<1>2. /\ proc[n].pc = "read_nbd" /\ Readable(net, SockEnd(n)) /\ UNCHANGED host
  BY DEF NbdMsgSendRead
<1>3. proc[n] \in Process
  BY DEF SInv, IInv
<1>4. /\ t.success_flag = proc[n].success_flag
      /\ t.client_sock = proc[n].client_sock
      /\ \A x : LET r == [t EXCEPT !.pc = x] IN
                /\ r.pc = x /\ r.success_flag = t.success_flag
                /\ r.client_sock = t.client_sock
  BY <1>3 DEF Process
<1>5. q = [t EXCEPT !.pc = IF t.nbd_count = server_len - 1 \/ t.unsuccess_flag = 1
                           THEN "report" ELSE "loop"]
  BY DEF FinishAssembly
<1>6. Become(n, w, q)
  BY <1>1
<1> HIDE DEF p, q, t, w
<1>7. /\ q.pc \in {"loop", "report"}
      /\ q.success_flag = proc[n].success_flag
      /\ q.client_sock = proc[n].client_sock
  BY <1>4, <1>5
<1> QED
  BY <1>2, <1>6, <1>7, ReadSteady DEF w

LEMMA AssembleSteady ==
  ASSUME SInv, Talking, Agreed, Spare, NEW n \in Server, Assemble(n)
  PROVE  Agreed'
<1> DEFINE q == [proc[n] EXCEPT !.pc = "module"]
<1>1. proc[n].pc = "assemble"
  BY Zenon DEF Assemble
<1>12. ReadDMBDRemoteOk(n, net, host[n])
  BY ConfigReadable
<1>2. PICK ok \in InsmodBestio(n), T \in NbdClient(n) :
        \E stays \in (IF T \subseteq host[n].attached THEN {FALSE} ELSE BOOLEAN) :
          /\ host' = [host EXCEPT ![n] =
               [host[n] EXCEPT !.bestio = ok \/ @, !.attached = @ \cup T]]
          /\ Become(n, IF stays THEN Inherit(net, n) ELSE net, q)
  BY <1>12 DEF Assemble
<1>4. /\ q.pc = "module" /\ q.success_flag = proc[n].success_flag
      /\ q.client_sock = proc[n].client_sock
  BY DEF SInv, IInv, Process
<1> HIDE DEF q
<1>3. net \in Kernel(Message) /\ net' \in {net, Inherit(net, n)}
  BY <1>2, NetTalk DEF Become
<1>5. /\ proc'[n] = q
      /\ \A b \in Server \ {n} : proc'[b] = proc[b] /\ host'[b] = host[b]
  BY <1>2 DEF Become, SInv, IInv
<1>6. /\ host'[n].dmbd_config = host[n].dmbd_config
      /\ host'[n].vrd = host[n].vrd
  BY <1>2 DEF SInv, IInv, Host
<1>7. /\ SteadyHost(net, proc, host, n) /\ Gentle(n, net, net')
      /\ net'.fdt = net.fdt /\ net'.inq = net.inq
  BY <1>3, InheritGentle DEF Agreed, Steady
<1>8. ToReport(proc', host', n) =>
        ToReport(proc, host, n) /\ NamesClient(net', proc', n)
  BY <1>4, <1>5, <1>6, <1>7 DEF ToReport, SteadyHost, NamesClient
<1>9. ASSUME NEW b \in Server, Bound(net', proc', b) PROVE Bound(net, proc, b)
  BY <1>1, <1>5, <1>7, <1>9 DEF Bound, Working
<1>10. \A l \in Conn : Stays(n, l)
  BY <1>1, NotAsking DEF Reading
<1>11. Configured(net', proc', host', n)
  BY <1>4, <1>5 DEF Configured, Configures
<1> QED
  BY <1>4, <1>5, <1>6, <1>7, <1>8, <1>9, <1>10, <1>11, SteadyStep DEF SteadyHost

LEMMA AssembleModuleSteady ==
  ASSUME SInv, Talking, Agreed, Spare, server_len > 1, NEW n \in Server,
         AssembleModule(n)
  PROVE  Agreed'
<1> DEFINE m == Say("NBD_SET_ON")
           r == FinishAssembly(proc[n])
           q == [proc[n] EXCEPT !.pc = "read_nbd", !.sock = LowestFd(net, n)]
<1>1. proc[n].pc = "module" /\ net.made < MaxConns
  BY DEF AssembleModule, Room
<1>2. net \in Kernel(Message) /\ Sound(net)
  BY NetTalk
<1>3. proc[n] \in Process /\ Remembers(proc[n]) /\ proc[n].nbd_count = 0
      /\ proc[n].count # 0
  BY <1>1, ServerLen DEF Talking, Conversation, Each, SInv, IInv, Counted
<1>4. /\ r.pc = "loop" /\ r.success_flag = proc[n].success_flag
      /\ r.client_sock = proc[n].client_sock
  <2> DEFINE t == [proc[n] EXCEPT !.count = 0]
  <2>1. /\ t.nbd_count = 0 /\ t.unsuccess_flag = 0
        /\ t.success_flag = proc[n].success_flag
        /\ t.client_sock = proc[n].client_sock
        /\ [t EXCEPT !.pc = "loop"].pc = "loop"
        /\ [t EXCEPT !.pc = "loop"].success_flag = t.success_flag
        /\ [t EXCEPT !.pc = "loop"].client_sock = t.client_sock
    BY <1>3 DEF Process, Remembers
  <2>2. r = [t EXCEPT !.pc = IF t.nbd_count = server_len - 1 \/ t.unsuccess_flag = 1
                             THEN "report" ELSE "loop"]
    BY DEF FinishAssembly
  <2> HIDE DEF r, t
  <2>3. r = [t EXCEPT !.pc = "loop"]
    BY <2>1, <2>2, ServerLen
  <2> QED
    BY <2>1, <2>3
<1>5. /\ q.pc = "read_nbd" /\ q.sock = LowestFd(net, n)
      /\ q.success_flag = proc[n].success_flag
      /\ q.client_sock = proc[n].client_sock
  BY <1>3 DEF Process
<1>6. m \in Message /\ m.word = "NBD_SET_ON"
  BY SayMessage DEF Word, Command
<1>7. Reaches(n, net)
  BY <1>2, PeerReached
<1>8. PICK ok \in InsmodVrd(n) :
        /\ host' = [host EXCEPT ![n].vrd = ok \/ @]
        /\ IF ok THEN Become(n, SendTo(n, net, m), q) ELSE Become(n, net, r)
  BY <1>3, <1>7 DEF AssembleModule
<1>9. /\ host'[n].dmbd_config = host[n].dmbd_config
      /\ host[n].vrd => host'[n].vrd
      /\ \A b \in Server \ {n} : host'[b] = host[b]
  BY <1>8 DEF SInv, IInv, Host
<1> HIDE DEF m, r, q
<1>10. SteadyHost(net, proc, host, n)
  BY DEF Agreed, Steady
<1>11. \A l \in Conn : Stays(n, l)
  BY <1>1, <1>9, NotAsking DEF Reading
<1>12. Bound(net, proc, n)
  BY <1>1 DEF Bound, Working
<1>13. CASE ~ ok
  <2>1. /\ net' = net /\ proc'[n] = r
        /\ \A b \in Server \ {n} : proc'[b] = proc[b]
    BY <1>8, <1>13 DEF Become, SInv, IInv
  <2>2. ToReport(proc', host', n) =>
          ToReport(proc, host, n) /\ NamesClient(net', proc', n)
    BY <1>4, <1>9, <1>10, <1>13, <2>1 DEF ToReport, SteadyHost, NamesClient
  <2>3. ASSUME NEW b \in Server, Bound(net', proc', b) PROVE Bound(net, proc, b)
    BY <1>12, <2>1, <2>3 DEF Bound, Working
  <2>4. Configured(net', proc', host', n)
    BY <1>4, <2>1 DEF Configured, Configures
  <2> QED
    BY <1>1, <1>4, <1>9, <1>10, <1>11, <2>1, <2>2, <2>3, <2>4, GentleSame, SteadyStep
       DEF SteadyHost
<1>14. CASE ok
  <2>1. /\ net' = SendTo(n, net, m) /\ proc'[n] = q
        /\ \A b \in Server \ {n} : proc'[b] = proc[b]
    BY <1>8, <1>14 DEF Become, SInv, IInv
  <2>2. proc'[n].pc \in Reading /\ m.word = Question(proc'[n].pc)
    BY <1>5, <1>6, <2>1 DEF Reading, Question
  <2>3. /\ Gentle(n, net, net')
        /\ \A h \in Fd : net.fdt[n][h] # Free => net'.fdt[n][h] = net.fdt[n][h]
        /\ \A l \in Conn : \/ net'.inq[-l] = <<>> \/ net'.inq[-l] = net.inq[-l]
                           \/ SentOn(net', proc', host', l)
        /\ \A l \in Conn : net'.inq[l] = <<>> \/ net'.inq[l] = net.inq[l]
    BY <1>1, <1>2, <1>5, <1>6, <1>7, <2>1, <2>2, GentleSame, AskSteady
  <2>4. ~ host[n].vrd
    BY <1>8, <1>14 DEF InsmodVrd
  <2>5. ToReport(proc, host, n) /\ NamesClient(net', proc', n)
    <3>1. ToReport(proc, host, n)
      BY <2>4 DEF ToReport
    <3> QED
      BY <1>5, <1>10, <2>1, <2>3, <3>1, NamesKept DEF SteadyHost
  <2>6. ASSUME NEW b \in Server, Bound(net', proc', b) PROVE Bound(net, proc, b)
    BY <1>12, <2>1, <2>3, <2>6, OthersBound
  <2>7. Configured(net', proc', host', n)
    BY <1>5, <2>1 DEF Configured, Configures
  <2> QED
    BY <1>1, <1>5, <1>9, <1>10, <1>11, <1>14, <2>1, <2>3, <2>5, <2>6, <2>7, SteadyStep
       DEF SteadyHost
<1> QED
  BY <1>13, <1>14

\* The report goes to a client that is still there.
LEMMA ReportSteady ==
  ASSUME SInv, Talking, Agreed, Spare, server_len > 1, NEW n \in Server,
         Report(n)
  PROVE  Agreed'
<1> DEFINE s == IF proc[n].client_sock = NoFd THEN Free
                ELSE net.fdt[n][proc[n].client_sock]
           m == Say("success")
           q == [proc[n] EXCEPT
                   !.success_flag = 1, !.nbd_count = 0,
                   !.pc = IF proc[n].unsuccess_flag = 1 THEN "report" ELSE "loop"]
           v == Write(net, s, m)
<1>1. proc[n].pc = "report"
  BY DEF Report
<1>2. proc[n] \in Process /\ Remembers(proc[n]) /\ net \in Kernel(Message)
  BY NetTalk DEF Talking, Conversation, Each, SInv, IInv
<1>3. proc[n].nbd_count = server_len - 1 /\ proc[n].unsuccess_flag = 0
  BY <1>1, <1>2 DEF Remembers
<1>4. host[n].vrd /\ server_len <= 2
  <2>1. proc[n].nbd_count > 0
    BY <1>3, ServerLen
  <2>2. host[n].vrd
    BY <2>1 DEF SInv, Counted
  <2> QED
    BY <2>2, ServerLen DEF SInv, OnlyTwoServersAssemble
<1>5. q.pc = "loop"
  BY <1>2, <1>3 DEF Process
<1>6. m \in Message
  BY SayMessage DEF Word, Command
<1>7. WriteClientSock(n, "success", q)
  <2>1. ReadDMBDRemoteOk(n, net, host[n])
    BY ConfigReadable
  <2> QED
    BY <1>3, <2>1 DEF Report
<1>8. SteadyHost(net, proc, host, n) /\ Unbroken(net)
  BY DEF Agreed, Steady
<1>9. NamesClient(net, proc, n) /\ Keeps(net, n)
  BY <1>1, <1>8 DEF SteadyHost, ToReport
<1>10. \/ s = Free
       \/ s \in End /\ net.open[-s] /\ -s \in Conn
  <2>1. CASE proc[n].client_sock # NoFd
    <3>1. PICK k \in Conn : net.fdt[n][proc[n].client_sock] = -k
      BY <1>9, <2>1 DEF NamesClient
    <3>2. s = -k /\ s \in End /\ -s = k
      BY <2>1, <3>1, EndFacts DEF Conn
    <3>3. proc[n].client_sock \in Fd
      BY <1>2, <2>1 DEF Process
    <3>4. Holding(net, n, -k)
      BY <3>1, <3>3 DEF Holding
    <3> QED
      BY <1>9, <3>2, <3>4 DEF Keeps
  <2> QED
    BY <2>1
<1>11. /\ host' = host
       /\ \/ Become(n, net, q)
          \/ s \in End /\ net.open[-s] /\ -s \in Conn /\ Reply(n, net, s, m, q)
  <2>1. /\ Free \notin End /\ Free # Unconnected /\ Free # File
        /\ File \notin End /\ Unconnected \notin End
    BY BoundsAssumption DEF Free, End, Unconnected, File
  <2> HIDE DEF q
  <2> QED
    BY <1>7, <1>10, <2>1 DEF WriteClientSock
<1> HIDE DEF s, m, q
<1>12. \/ Become(n, net, q)
       \/ /\ -s \in Conn /\ Become(n, v, q) /\ Gentle(n, net, v)
          /\ Wrote(net, v, s, m)
  BY <1>2, <1>6, <1>8, <1>11, ReplyReaches
<1> HIDE DEF v
<1>13. /\ Gentle(n, net, net')
       /\ \A l \in Conn : net'.inq[-l] = net.inq[-l]
       /\ proc'[n] = q
       /\ \A b \in Server \ {n} : proc'[b] = proc[b] /\ host'[b] = host[b]
  <2>1. \A l \in Conn : -l \in End /\ (-s \in Conn => -l # -s)
    BY EndFacts DEF Conn
  <2> QED
    BY <1>11, <1>12, <2>1, GentleSame DEF Become, Wrote, SInv, IInv
<1>14. ~ ToReport(proc', host', n)
  BY <1>4, <1>5, <1>11, <1>13 DEF ToReport
<1>15. Alike(host')
  <2>1. Bound(net, proc, n)
    BY <1>1 DEF Bound, Working
  <2> QED
    BY <1>4, <1>11, <2>1 DEF Agreed, Steady
<1>16. \A l \in Conn : Stays(n, l)
  BY <1>1, NotAsking DEF Reading
<1>17. Configured(net', proc', host', n)
  BY <1>5, <1>13 DEF Configured, Configures
<1> QED
  BY <1>4, <1>5, <1>8, <1>11, <1>13, <1>14, <1>15, <1>16, <1>17, SteadyStep
     DEF SteadyHost

\* client_sock names the connection just accepted.
LEMMA AcceptClientSteady ==
  ASSUME SInv, Talking, Agreed, Spare, NEW n \in Server, AcceptClient(n)
  PROVE  Agreed'
<1> DEFINE f == LowestFd(net, n)
           k == Head(net.backlog[n])
           w == Accept(net, n)
           q == [proc[n] EXCEPT !.client_sock = f]
<1>1. proc[n].pc = "loop" /\ net.backlog[n] # <<>> /\ UNCHANGED host
  BY DEF AcceptClient
<1>2. HasFd(net, n) /\ net \in Kernel(Message) /\ Sound(net)
  BY ConfigReadable, NetTalk
<1>3. Become(n, w, q)
  BY <1>2 DEF AcceptClient
<1>4. LET v == Accept(net, n)
          l == Head(net.backlog[n])
          g == LowestFd(net, n) IN
      /\ v.inq = net.inq /\ v.open = net.open /\ l \in Conn
      /\ v.fdt[n][g] = -l
      /\ \A m \in Server, h \in Fd :
           h # g \/ m # n => v.fdt[m][h] = net.fdt[m][h]
  BY <1>1, <1>2, AcceptSound
<1>5. Gentle(n, net, w)
  BY <1>1, <1>2, AcceptGentle
<1>6. /\ q.pc = "loop" /\ q.client_sock = f
      /\ q.success_flag = proc[n].success_flag
  BY <1>1 DEF SInv, IInv, Process
<1> HIDE DEF w, q, f, k
<1>7. /\ net' = w /\ proc'[n] = q
      /\ \A b \in Server \ {n} : proc'[b] = proc[b] /\ host'[b] = host[b]
  BY <1>1, <1>3 DEF Become, SInv, IInv
<1>8. \A x \in End : net'.inq[x] = net.inq[x]
  BY <1>4, <1>7 DEF w
<1>9. SteadyHost(net, proc, host, n)
  BY DEF Agreed, Steady
<1>10. NamesClient(net', proc', n)
  <2>1. net'.fdt[n][f] = -k /\ k \in Conn
    BY <1>4, <1>7 DEF w, f, k
  <2> QED
    BY <1>6, <1>7, <2>1 DEF NamesClient
<1>11. ToReport(proc', host', n) => ToReport(proc, host, n)
  BY <1>1, <1>6, <1>7 DEF ToReport
<1>12. ASSUME NEW b \in Server, Bound(net', proc', b) PROVE Bound(net, proc, b)
  <2>1. CASE b = n
    BY <1>6, <1>7, <1>12, <2>1 DEF Bound, Working
  <2>2. CASE b # n
    BY <1>5, <1>7, <1>8, <1>12, <2>2, OthersBound, EndFacts
  <2> QED
    BY <2>1, <2>2
<1>13. \A l \in Conn : Stays(n, l) /\ net'.inq[-l] = net.inq[-l]
  BY <1>1, <1>8, NotAsking, EndFacts DEF Reading
<1>14. Configured(net', proc', host', n)
  BY <1>6, <1>7 DEF Configured, Configures
<1> QED
  BY <1>1, <1>5, <1>6, <1>7, <1>9, <1>10, <1>11, <1>12, <1>13, <1>14, SteadyStep
     DEF SteadyHost

\* A client that hung up was answered, or the host has reported.
LEMMA ReadEofSteady ==
  ASSUME SInv, Talking, Agreed, NEW n \in Server, NEW f \in Fd, ReadEof(n, f)
  PROVE  Agreed'
<1> DEFINE k == -net.fdt[n][f]
           w == Close(net, n, f)
           q == [proc[n] EXCEPT !.buffer = Empty]
<1>1. /\ Become(n, w, q) /\ UNCHANGED host /\ proc[n].pc = "loop"
      /\ net.fdt[n][f] < 0 /\ Hung(net, net.fdt[n][f])
  BY DEF ReadEof, Watched
<1>2. net \in Kernel(Message) /\ Unbroken(net) /\ SteadyHost(net, proc, host, n)
  BY NetTalk DEF Agreed, Steady
<1>3. net.fdt[n][f] \in End
  <2>1. net.fdt[n][f] \in Slot
    BY <1>2, KernelFields
  <2> QED
    BY <1>1, <2>1, BoundsAssumption DEF Slot, Free, File, Unconnected
<1>4. k \in Conn /\ net.fdt[n][f] = -k
  BY <1>1, <1>3, BoundsAssumption DEF Conn, End
<1>5. ~ net.open[k]
  BY <1>1, <1>2, <1>3 DEF Hung, Unbroken
<1>6. /\ q.pc = "loop" /\ q.client_sock = proc[n].client_sock
      /\ q.success_flag = proc[n].success_flag
  BY <1>1 DEF SInv, IInv, Process
<1> HIDE DEF k, q
<1>7. LET v == Close(net, n, f) IN
      /\ Gentle(n, net, v)
      /\ \A x \in End : v.inq[x] = <<>> \/ v.inq[x] = net.inq[x]
  BY <1>2, <1>4, <1>5, CloseGentle
<1> HIDE DEF w
<1>8. /\ net' = w /\ proc'[n] = q
      /\ \A b \in Server \ {n} : proc'[b] = proc[b] /\ host'[b] = host[b]
  BY <1>1 DEF Become, SInv, IInv
<1>9. /\ Gentle(n, net, net')
      /\ \A x \in End : net'.inq[x] = <<>> \/ net'.inq[x] = net.inq[x]
  BY <1>7, <1>8 DEF w
<1>10. ~ ToReport(proc', host', n)
  <2>1. Holding(net, n, -k)
    BY <1>4 DEF Holding
  <2>2. ~ ToReport(proc, host, n)
    BY <1>2, <1>4, <1>5, <2>1 DEF SteadyHost, Keeps
  <2> QED
    BY <1>1, <1>6, <1>8, <2>2 DEF ToReport
<1>11. ASSUME NEW b \in Server, Bound(net', proc', b) PROVE Bound(net, proc, b)
  <2>1. CASE b = n
    BY <1>6, <1>8, <1>11, <2>1 DEF Bound, Working
  <2>2. CASE b # n
    BY <1>8, <1>9, <1>11, <2>2, OthersBound, EndFacts
  <2> QED
    BY <2>1, <2>2
<1>12. \A l \in Conn :
         Stays(n, l) /\ (net'.inq[-l] = <<>> \/ net'.inq[-l] = net.inq[-l])
  BY <1>1, <1>9, NotAsking, EndFacts DEF Reading
<1>13. Configured(net', proc', host', n)
  BY <1>6, <1>8 DEF Configured, Configures
<1> QED
  BY <1>1, <1>2, <1>6, <1>8, <1>9, <1>10, <1>11, <1>12, <1>13, SteadyStep
     DEF SteadyHost

\* Every handler of a controller with two free descriptors.
LEMMA HandleSteady ==
  ASSUME SInv, Talking, Agreed, Spare, server_len > 1, NEW n \in Server, Handle(n)
  PROVE  Agreed'
<1>1. CASE AcceptClient(n)
  BY <1>1, AcceptClientSteady
<1>2. ASSUME NEW f \in Fd,
             \/ ReadEof(n, f) \/ ControllerSetConfig(n, f) \/ SetConfig(n, f)
             \/ Mount(n, f) \/ MountSetOn(n, f) \/ NbdSetOn(n, f)
             \/ UserSetConfig(n, f)
      PROVE  Agreed'
  <2>1. CASE ReadEof(n, f)
    BY <2>1, ReadEofSteady
  <2>2. CASE ControllerSetConfig(n, f)
    BY <2>2, ControllerSetConfigSteady
  <2>3. CASE SetConfig(n, f)
    BY <2>3, SetConfigSteady
  <2>4. CASE Mount(n, f) \/ MountSetOn(n, f)
    <3>1. ASSUME NEW word \in {"mount", "MOUNT_SET_ON"}, Receives(n, f, {word})
          PROVE  FALSE
      <4> DEFINE k == -net.fdt[n][f]
                 m == Incoming(n, f)
      <4>1. /\ k \in Conn /\ k \in End /\ -k \in End /\ net.fdt[n][f] = -k
            /\ Holding(net, n, -k) /\ m.word \in {word}
            /\ \/ m.word = "USER_SET_CONFIG"
               \/ /\ net.open[k] /\ net.inq[k] = <<>>
                  /\ \E a \in Server \ {n} :
                       /\ Reads(net, proc, a, k)
                       /\ m.word = Question(proc[a].pc)
                       /\ m.word = "config" => m.arg = host[a].dmbd_config
        BY <3>1, Receives1
      <4>2. \A a \in Server : Reads(net, proc, a, k) =>
              Question(proc[a].pc) \notin {"mount", "MOUNT_SET_ON"}
        BY DEF Reads, Reading, Question
      <4> QED
        BY <3>1, <4>1, <4>2
    <3> QED
      BY <2>4, <3>1 DEF Mount, MountSetOn
  <2>5. CASE NbdSetOn(n, f)
    BY <2>5, NbdSetOnSteady
  <2>6. CASE UserSetConfig(n, f)
    BY <2>6, UserSetConfigSteady
  <2> QED
    BY <1>2, <2>1, <2>2, <2>3, <2>4, <2>5, <2>6
<1>3. CASE StartNbdServer(n) \/ SetConfigDone(n)
  BY <1>3, StartNbdServerSteady, SetConfigDoneSteady
<1>4. CASE MsgSendReadOn(n)
  BY <1>4, MsgSendReadOnSteady
<1>5. CASE MsgSendReadResult(n)
  BY <1>5, MsgSendReadResultSteady
<1>6. CASE Assemble(n)
  BY <1>6, AssembleSteady
<1>7. CASE AssembleModule(n)
  BY <1>7, AssembleModuleSteady
<1>8. CASE NbdMsgSendRead(n)
  BY <1>8, NbdMsgSendReadSteady
<1>9. CASE Report(n)
  BY <1>9, ReportSteady
<1> QED
  BY <1>1, <1>2, <1>3, <1>4, <1>5, <1>6, <1>7, <1>8, <1>9 DEF Handle

-----------------------------------------------------------------------------
(* The clients.                                                            *)

\* A step of a client touches no connection between controllers.
LEMMA ClientSteady ==
  ASSUME Talking, Agreed, UNCHANGED <<proc, host>>, net'.fdt = net.fdt,
         Unbroken(net'),
         \A n \in Server : ToReport(proc, host, n) => Keeps(net', n),
         \A k \in Conn : \/ net'.inq[-k] = <<>> \/ net'.inq[-k] = net.inq[-k]
                         \/ SentOn(net', proc, host, k),
         \A k \in Conn : net'.inq[k] = <<>> \/ net'.inq[k] = net.inq[k]
  PROVE  Agreed'
<1>1. \A n \in Server, k \in Conn :
        Reads(net', proc, n, k) <=> Reads(net, proc, n, k)
  BY DEF Reads
<1>2. ASSUME NEW k \in Conn PROVE SentOn(net', proc, host, k)
  BY <1>1 DEF Agreed, Steady, SentOn
<1>3. ASSUME NEW n \in Server PROVE SteadyHost(net', proc, host, n)
  <2>1. SteadyHost(net, proc, host, n)
    BY DEF Agreed, Steady
  <2>2. NamesClient(net, proc, n) => NamesClient(net', proc, n)
    BY DEF NamesClient
  <2>3. Configured(net', proc, host, n)
    BY <2>1 DEF SteadyHost, Configured, Reads
  <2> QED
    BY <2>1, <2>2, <2>3 DEF SteadyHost
<1>4. ASSUME NEW n \in Server, Bound(net', proc, n) PROVE Bound(net, proc, n)
  <2>1. proc[n].pc = "read_result" => net.fdt[n][proc[n].sock] \in Conn
    BY DEF Talking, Conversation, Each, Settled, Reading
  <2> QED
    BY <1>4, <2>1 DEF Bound, Working
<1>5. Steady(net', proc, host)
  BY <1>2, <1>3, <1>4 DEF Agreed, Steady
<1> QED
  BY <1>5 DEF Agreed

\* A request on a new connection.
LEMMA SetupRequestSteady ==
  ASSUME SInv, Talking, Agreed, NEW c, NEW n \in Server, SetupRequest(c, n)
  PROVE  Agreed'
<1> DEFINE k == net.made + 1
           m == Say("USER_SET_CONFIG")
           u == Connect(net, n)
           v == Write(u, k, m)
<1>1. net.made < MaxConns /\ UNCHANGED <<proc, host>> /\ (UNCHANGED net \/ net' = v)
  BY DEF SetupRequest, Request, Room
<1>2. m \in Message /\ m.word = "USER_SET_CONFIG"
  BY SayMessage DEF Word, Command
<1>3. net \in Kernel(Message) /\ Sound(net) /\ Unbroken(net)
  BY NetTalk DEF Agreed, Steady
<1>4. /\ u.fdt = net.fdt /\ u.inq = net.inq /\ k \in Conn
      /\ \A e \in End : u.open[e] <=> e \in {k, -k} \/ net.open[e]
  BY <1>1, <1>3, ConnectExact
<1>5. u \in Kernel(Message) /\ Gentle(n, net, u)
  BY <1>1, <1>3, ConnectKernel, ConnectGentle
<1>6. /\ k \in End /\ -k \in End /\ k > net.made /\ net.made \in Nat
      /\ \A l \in Conn : l # -k /\ -l \in End /\ (-l = -k => l = k)
  BY <1>3, <1>4, EndFacts, KernelFields DEF Conn
<1>7. net.inq[-k] = <<>>
  BY <1>3, <1>4, <1>6, UnusedUntouched
<1> HIDE DEF k, u, m
<1>8. u.open[-k]
  BY <1>4, <1>6
<1>14. /\ v.fdt = u.fdt /\ v.backlog = u.backlog /\ v.made = u.made
       /\ v.open = u.open
       /\ \A x \in End : x # -k => v.inq[x] = u.inq[x]
       /\ u.open[-k] => /\ v.inq[-k] = Append(u.inq[-k], m)
                        /\ v.err = u.err
       /\ ~ u.open[-k] => /\ v.inq = u.inq
                          /\ \A x \in End : x # k => v.err[x] = u.err[x]
  BY <1>2, <1>5, <1>6, WriteExact
<1>15. Gentle(n, u, v)
  BY <1>2, <1>5, <1>6, <1>8, WriteGentle
<1> HIDE DEF v
<1>9. Gentle(n, net, v)
  BY <1>5, <1>15, GentleTransitive
<1>10. CASE UNCHANGED net
  BY <1>1, <1>10 DEF Agreed
<1>11. CASE net' = v
  <2>1. v.fdt = net.fdt /\ Unbroken(v)
    BY <1>3, <1>4, <1>9, <1>14 DEF Gentle
  <2>2. ASSUME NEW a \in Server, ToReport(proc, host, a) PROVE Keeps(v, a)
    <3>1. Keeps(net, a)
      BY <2>2 DEF Agreed, Steady, SteadyHost
    <3> QED
      BY <1>9, <3>1 DEF Gentle, Keeps
  <2>3. v.inq[-k] = <<m>>
    <3>1. u.inq[-k] = <<>>
      BY <1>4, <1>7
    <3>2. Append(u.inq[-k], m) = <<m>>
      BY <3>1
    <3> QED
      BY <1>8, <1>14, <3>2
  <2>4. \A j \in 1..Len(v.inq[-k]) : v.inq[-k][j] = m
    BY <2>3
  <2>5. SentOn(v, proc, host, k)
    BY <1>2, <2>4 DEF SentOn
  <2>6. \A l \in Conn : /\ v.inq[l] = net.inq[l]
                        /\ l # k => v.inq[-l] = net.inq[-l]
    BY <1>4, <1>6, <1>14, EndFacts
  <2> QED
    BY <1>1, <1>11, <2>1, <2>2, <2>5, <2>6, ClientSteady
<1> QED
  BY <1>1, <1>10, <1>11

\* A client reads what it was told, and hangs up on a host that has reported.
LEMMA SetupReadSteady ==
  ASSUME SInv, Talking, Agreed, NEW c \in SetupClient, SetupRead(c)
  PROVE  Agreed'
<1> DEFINE k == client[c].end
           w == Drain(net, k)
           v == CloseEnds(w, {k}, {})
<1>1. /\ client[c].st \in {"waiting", "missed"} /\ net.inq[k] # <<>>
      /\ UNCHANGED <<proc, host>> /\ (net' = w \/ net' = v)
  BY DEF SetupRead
<1>2. k \in Conn /\ k \in End /\ -k \in End /\ \A n \in Server : ~ Holding(net, n, k)
  <2>1. c \in Client /\ client[c] \in ClientState
    BY DEF SInv, IInv, Client
  <2>2. k # 0
    BY <1>1, <2>1 DEF SInv, Asked
  <2> QED
    BY <2>1, <2>2, EndFacts DEF SInv, Private, ClientState
<1>3. net \in Kernel(Message) /\ Sound(net) /\ Unbroken(net)
  BY NetKernel DEF Talking, Conversation, Agreed, Steady
<1>4. \A n \in Server : ~ Reads(net, proc, n, k)
  BY <1>2, ReadsHeld DEF Talking, Conversation, Each
<1>5. SuccessAt(net, k)
  <2> HIDE DEF k
  <2>1. Idle(net, k)
    BY <1>2, <1>4 DEF Talking, Conversation, Talk
  <2>2. net.inq[k] # <<>>
    BY <1>1
  <2>3. Len(net.inq[k]) = 1 /\ net.inq[k][1].word \in {"success"}
    BY <2>1, <2>2 DEF Idle, AtMost
  <2>4. 1 \in 1..Len(net.inq[k])
    BY <2>3
  <2> QED
    BY <2>3, <2>4 DEF SuccessAt
<1> HIDE DEF k
<1>6. /\ w.fdt = net.fdt /\ w.backlog = net.backlog /\ w.made = net.made
      /\ w.open = net.open /\ w.inq = [net.inq EXCEPT ![k] = <<>>]
      /\ \A x \in End : w.err[x] # "none" => net.err[x] # "none"
  <2>1. net.inq[k] # <<>>
    BY <1>1 DEF k
  <2> QED
    BY <1>2, <1>3, <2>1, DrainExact
<1>7. w \in Kernel(Message)
  BY <1>2, <1>3, DrainKernel
<1>8. w.inq[k] = <<>> /\ \A x \in End : x # k => w.inq[x] = net.inq[x]
  BY <1>2, <1>3, <1>6, KernelFields
<1> HIDE DEF w
<1>9. \A x \in End : w.err[x] = "none"
  BY <1>3, <1>6 DEF Unbroken
<1>10. /\ v.fdt = w.fdt /\ v.backlog = w.backlog
       /\ \A x \in End : v.inq[x] = IF x = k THEN <<>> ELSE w.inq[x]
       /\ \A x \in End : v.open[x] <=> x # k /\ w.open[x]
       /\ \A x \in End : v.err[x] = "none"
  <2> DEFINE q == [x \in End |-> IF x \in {k} THEN <<>> ELSE w.inq[x]]
             o == [x \in End |-> x \notin {k} /\ w.open[x]]
             r == [x \in End |->
                     IF /\ -x \in {k} /\ w.open[x]
                        /\ w.inq[-x] # <<>> \/ -x \in {}
                     THEN "reset" ELSE w.err[x]]
  <2>1. v = [w EXCEPT !.inq = q, !.open = o, !.err = r]
    BY DEF CloseEnds
  <2>2. /\ \A x \in End : q[x] = IF x = k THEN <<>> ELSE w.inq[x]
        /\ \A x \in End : o[x] <=> x # k /\ w.open[x]
        /\ \A x \in End : r[x] = "none"
    BY <1>8, <1>9
  <2> HIDE DEF q, o, r, v
  <2>3. /\ v.fdt = w.fdt /\ v.backlog = w.backlog
        /\ v.inq = q /\ v.open = o /\ v.err = r
    BY <1>7, <2>1 DEF Kernel
  <2> QED
    BY <2>2, <2>3
<1> HIDE DEF v
<1>11. ASSUME NEW n \in Server, ToReport(proc, host, n)
       PROVE  ~ Holding(net, n, -k) /\ ~ Waits(net, n, k) /\ Keeps(net, n)
  <2>1. ~ Holding(net, n, -k)
    <3>1. -(-k) = k
      BY <1>2, Mirror
    <3> QED
      BY <1>2, <1>4, <1>5, <1>11, <3>1
         DEF Talking, Conversation, Each, Unreported, ToReport
  <2>2. ~ Waits(net, n, k)
    BY <1>1, <1>3 DEF Sound, WaitingFresh, Waits, k
  <2> QED
    BY <1>11, <2>1, <2>2 DEF Agreed, Steady, SteadyHost
<1>12. \A l \in Conn : /\ l \in End /\ -l \in End
                       /\ l # k => -l # k
                       /\ -l # k
  BY <1>2, EndFacts DEF Conn
<1>13. CASE net' = w
  <2>1. Unbroken(w)
    BY <1>3, <1>6, <1>9 DEF Unbroken
  <2>2. \A n \in Server : ToReport(proc, host, n) => Keeps(w, n)
    BY <1>6, <1>11 DEF Keeps, Holding, Waits
  <2> QED
    BY <1>1, <1>6, <1>8, <1>12, <1>13, <2>1, <2>2, ClientSteady
<1>14. CASE net' = v
  <2>1. Unbroken(v)
    BY <1>3, <1>6, <1>10, <1>12 DEF Unbroken
  <2>2. ASSUME NEW n \in Server, ToReport(proc, host, n) PROVE Keeps(v, n)
    <3>1. \A l \in Conn : Holding(v, n, -l) \/ Waits(v, n, l) =>
            Holding(net, n, -l) \/ Waits(net, n, l)
      BY <1>6, <1>10 DEF Holding, Waits
    <3> QED
      BY <1>6, <1>10, <1>11, <1>12, <2>2, <3>1 DEF Keeps
  <2> QED
    BY <1>1, <1>6, <1>8, <1>10, <1>12, <1>14, <2>1, <2>2, ClientSteady
<1> QED
  BY <1>1, <1>13, <1>14

-----------------------------------------------------------------------------
(* A cluster that nobody mounts on, kills, or exhausts.                    *)

\* A client that has asked never goes back: in a behaviour in which no mount
\* client has asked by now, none had before.
LEMMA QuietBefore ==
  ASSUME SInv, Quiet', [Next]_vars PROVE Quiet
<1> SUFFICES ASSUME NEW c \in MountClient PROVE client[c].st = "init"
  BY DEF Quiet
<1>1. c \in Client /\ client'[c].st = "init" /\ client \in [Client -> ClientState]
  BY DEF Quiet, SInv, IInv, Client
<1>2. ASSUME NEW d \in Client, NEW v \in ClientState, v.st # "init",
             client' = [client EXCEPT ![d] = v]
      PROVE  client[c].st = "init"
  BY <1>1, <1>2
<1>3. CASE client' = client
  BY <1>1, <1>3
<1>4. ASSUME NEW n, NEW d \in Client, NEW word, NEW after \in {"waiting", "gone"},
             Request(d, n, word, after)
      PROVE  client[c].st = "init"
  BY <1>1, <1>4 DEF Request
<1>5. ASSUME NEW d \in SetupClient, SetupRead(d) PROVE client[c].st = "init"
  <2>1. d \in Client /\ client[d].st # "init"
    BY <1>5 DEF SetupRead, Client
  <2> QED
    BY <1>1, <1>5, <2>1 DEF SetupRead
<1>6. CASE \E n \in Server : Handle(n) \/ Crash(n) \/ Restart(n)
  <2>1. ASSUME NEW n \in Server, Handle(n) PROVE client' = client
    <3>1. ASSUME NEW f \in Fd
          PROVE  /\ ReadEof(n, f) => client' = client
                 /\ ControllerSetConfig(n, f) => client' = client
                 /\ SetConfig(n, f) => client' = client
                 /\ Mount(n, f) => client' = client
                 /\ MountSetOn(n, f) => client' = client
                 /\ NbdSetOn(n, f) => client' = client
                 /\ UserSetConfig(n, f) => client' = client
      BY DEF ReadEof, ControllerSetConfig, SetConfig, Mount, MountSetOn,
             NbdSetOn, UserSetConfig
    <3>2. AcceptClient(n) => client' = client
      BY DEF AcceptClient
    <3>3. StartNbdServer(n) \/ SetConfigDone(n) => client' = client
      BY DEF StartNbdServer, SetConfigDone
    <3>4. MsgSendReadOn(n) => client' = client
      BY DEF MsgSendReadOn
    <3>5. MsgSendReadResult(n) => client' = client
      BY DEF MsgSendReadResult
    <3>6. Assemble(n) => client' = client
      BY Zenon DEF Assemble
    <3>7. AssembleModule(n) => client' = client
      BY DEF AssembleModule
    <3>8. NbdMsgSendRead(n) => client' = client
      BY DEF NbdMsgSendRead
    <3>9. Report(n) => client' = client
      BY DEF Report
    <3> QED
      BY <2>1, <3>1, <3>2, <3>3, <3>4, <3>5, <3>6, <3>7, <3>8, <3>9 DEF Handle
  <2> QED
    BY <1>3, <1>6, <2>1 DEF Crash, Restart
<1>7. CASE Ask
  BY <1>4, <1>7 DEF Ask, SetupRequest, MountRequest, Client
<1> QED
  BY <1>3, <1>5, <1>6, <1>7 DEF Next, vars

\* Nobody crashes, so nobody restarts, and nobody asks for a mount.
LEMMA NextSteady ==
  ASSUME SInv, Talking, Agreed, Spare, Crashable = {}, server_len > 1,
         Quiet', [Next]_vars
  PROVE  Agreed'
<1>1. CASE UNCHANGED vars
  BY <1>1 DEF vars, Agreed
<1>2. ASSUME NEW n \in Server, Handle(n) PROVE Agreed'
  BY <1>2, HandleSteady
<1>3. ASSUME NEW n \in Server, Crash(n) PROVE FALSE
  BY <1>3 DEF Crash
<1>4. ASSUME NEW n \in Server, Restart(n) PROVE FALSE
  BY <1>4 DEF Restart, Agreed, Steady, SteadyHost
<1>5. CASE Ask
  <2>1. ASSUME NEW n \in Server, NEW c \in SetupClient, SetupRequest(c, n)
        PROVE  Agreed'
    BY <2>1, SetupRequestSteady
  <2>2. ASSUME NEW n \in Server, NEW c \in MountClient, MountRequest(c, n)
        PROVE  FALSE
    <3>1. c \in Client /\ client \in [Client -> ClientState]
      BY DEF SInv, IInv, Client
    <3>2. client'[c].st # "init"
      BY <2>2, <3>1 DEF MountRequest, Request, ClientState
    <3> QED
      BY <3>2 DEF Quiet
  <2> QED
    BY <1>5, <2>1, <2>2 DEF Ask
<1>6. ASSUME NEW c \in SetupClient, SetupRead(c) PROVE Agreed'
  BY <1>6, SetupReadSteady
<1> QED
  BY <1>1, <1>2, <1>3, <1>4, <1>5, <1>6 DEF Next

\* Nobody is connected and nothing is configured.
LEMMA InitSteady == ASSUME Init PROVE Agreed
<1>1. /\ \A e \in End : /\ net.inq[e] = <<>> /\ net.err[e] = "none"
                        /\ ~ net.open[e]
      /\ \A n \in Server : \A f \in Fd : net.fdt[n][f] = Free
      /\ \A n \in Server : net.backlog[n] = <<>>
  BY DEF Init, Boot
<1>2. \A k \in Conn : k \in End /\ -k \in End /\ -k # Free
  BY EndFacts DEF End, Free
<1>3. Unbroken(net)
  BY <1>1, <1>2 DEF Unbroken
<1>4. \A k \in Conn : SentOn(net, proc, host, k)
  BY <1>1, <1>2 DEF SentOn
<1>5. ASSUME NEW n \in Server
      PROVE  SteadyHost(net, proc, host, n) /\ ~ Bound(net, proc, n)
  <2>1. /\ proc[n].pc = "loop" /\ proc[n].success_flag = 0
        /\ proc[n].client_sock = NoFd
    BY DEF Init, Started
  <2>2. host[n].dmbd_config # Garbage
    BY ConfigAssumption DEF Init
  <2>3. Keeps(net, n)
    BY <1>1, <1>2 DEF Keeps, Holding, Waits
  <2> QED
    BY <2>1, <2>2, <2>3
       DEF SteadyHost, NamesClient, Configured, Configures, Bound, Working
<1> QED
  BY <1>3, <1>4, <1>5 DEF Agreed, Steady

\* While no mount client has asked, every step keeps the agreement.
LEMMA QuietSteady ==
  ASSUME SInv, Talking, Quiet => Agreed, Spare, Crashable = {}, server_len > 1,
         [Next]_vars
  PROVE  (Quiet => Agreed)'
<1> SUFFICES ASSUME Quiet' PROVE Agreed'
  OBVIOUS
<1>1. Agreed
  BY QuietBefore
<1> QED
  BY <1>1, NextSteady

\* In a cluster of two or more that nobody kills, that nobody mounts on and
\* whose hosts do not run out of descriptors, every controller stays up: no
\* write ever finds its reader gone.
THEOREM NobodyDies ==
  ASSUME Crashable = {}, server_len >= 2
  PROVE  Spec /\ []Spare =>
           [](Quiet => \A n \in Server : proc[n].pc # "down")
<1> DEFINE Kept == Quiet => Agreed
<1>1. Init => Kept
  BY InitSteady
<1>2. SInv /\ Talking /\ Spare /\ Kept /\ [Next]_vars => Kept'
  BY QuietSteady, ServerLen
<1>3. Kept => (Quiet => \A n \in Server : proc[n].pc # "down")
  BY DEF Agreed, Steady, SteadyHost
<1> QED
  BY <1>1, <1>2, <1>3, SetupInvariance, ConversationInvariance, PTL DEF Spec

\* A coordinator that set success_flag had every server's "success", and each
\* of them has the coordinator's dmbd_config: in a cluster that nobody kills,
\* that nobody mounts on and whose hosts do not run out of descriptors.
THEOREM PeersAgree ==
  ASSUME Crashable = {}
  PROVE  Spec /\ []Spare => []PeersShareConfig
<1>1. CASE server_len >= 2
  <2> DEFINE Kept == Quiet => Agreed
  <2>1. Init => Kept
    BY InitSteady
  <2>2. SInv /\ Talking /\ Spare /\ Kept /\ [Next]_vars => Kept'
    BY <1>1, QuietSteady, ServerLen
  <2>3. SInv /\ Kept => PeersShareConfig
    <3> SUFFICES ASSUME SInv, Agreed, NEW n \in Server, NEW m \in Server,
                        proc[n].success_flag = 1
                 PROVE  host[m].dmbd_config = host[n].dmbd_config
      BY DEF Quiet, PeersShareConfig
    <3>1. host[n].vrd
      BY DEF Agreed, Steady, SteadyHost
    <3>2. server_len <= 2
      BY <3>1, ServerLen DEF SInv, OnlyTwoServersAssemble
    <3> QED
      BY <3>2 DEF Agreed, Steady, Bound, Alike
  <2>4. Spec => []SInv
    BY SetupInvariance
  <2>5. Spec => []Talking
    BY <1>1, ConversationInvariance
  <2> QED
    BY <2>1, <2>2, <2>3, <2>4, <2>5, PTL DEF Spec
<1>2. CASE server_len = 1
  <2>1. PeersShareConfig
    <3>1. \A n, m \in Server : n = m
      BY <1>2, ServerAssumption
    <3> QED
      BY <3>1 DEF PeersShareConfig
  <2> QED
    BY <2>1, PTL
<1> QED
  BY <1>1, <1>2, ServerLen

-----------------------------------------------------------------------------
(* The disk that a client is told of, when the programs of nbd work.       *)

\* n has counted the "success" of its peer, or is about to.
Promised(w, p, n) ==
  \/ p[n].count > 0
  \/ p[n].pc = "read_result" /\ SuccessAt(w, w.fdt[n][p[n].sock])

\* Who says "success" has exported its ramdisk, and who loads vrd has attached
\* the exports of all the others.
Exported(n) ==
  /\ proc[n].pc = "answer" => host[n].nbd_server
  /\ Promised(net, proc, n) => host[FirstPeer(n)].nbd_server
  /\ host[n].attached \subseteq Server \ {n}
  /\ proc[n].pc = "module" \/ host[n].vrd => host[n].attached = Server \ {n}

Exports == \A n \in Server : Exported(n)

\* What a step of n must not do to what it and the others were promised.
LEMMA ExportStep ==
  ASSUME server_len > 1, SInv, Talking, Exports, NEW n \in Server, NEW x,
         HostGrows(n), Calm(net, net', x), x \in Conn => Holding(net, n, -x),
         \A m \in Server, f \in Fd : m # n => net'.fdt[m][f] = net.fdt[m][f],
         \A m \in Server \ {n} : proc'[m] = proc[m],
         x \in Conn => \A m \in Server \ {n} :
           Reads(net, proc, m, x) /\ proc[m].pc = "read_result" => host'[n].nbd_server,
         proc'[n].pc = "answer" => host'[n].nbd_server,
         Promised(net', proc', n) => Promised(net, proc, n),
         proc'[n].pc = "module" => host'[n].attached = Server \ {n}
  PROVE  Exports'
<1>1. \A m \in Server : FirstPeer(m) \in Server
  BY FirstPeerOther
<1>2. \A m \in Server : host[m].nbd_server => host'[m].nbd_server
  BY DEF HostGrows
<1>3. Exported(n)'
  <2>1. Promised(net', proc', n) => host'[FirstPeer(n)].nbd_server
    BY <1>1, <1>2 DEF Exports, Exported
  <2>2. host'[n].attached \subseteq Server \ {n}
    BY DEF Exports, Exported, HostGrows
  <2>3. host'[n].vrd => host'[n].attached = Server \ {n}
    BY <2>2 DEF Exports, Exported, HostGrows
  <2> QED
    BY <2>1, <2>2, <2>3 DEF Exported
<1>4. ASSUME NEW m \in Server \ {n} PROVE Exported(m)'
  <2>1. proc'[m] = proc[m] /\ host'[m] = host[m]
    BY DEF HostGrows
  <2>2. Promised(net', proc', m) => host'[FirstPeer(m)].nbd_server
    <3>1. SUFFICES ASSUME Promised(net', proc', m), ~ Promised(net, proc, m)
                   PROVE  host'[FirstPeer(m)].nbd_server
      BY <1>1, <1>2 DEF Exports, Exported
    <3> DEFINE k == SockEnd(m)
    <3>2. proc[m].pc = "read_result" /\ ~ SuccessAt(net, k)
      BY <2>1, <3>1 DEF Promised, SockEnd
    <3>3. k \in Conn /\ proc[m].sock \in Fd /\ Holding(net, m, k)
      <4>1. Settled(m, net, proc[m]) /\ proc[m].pc \in Reading
        BY <3>2 DEF Talking, Conversation, Each, Reading
      <4> QED
        BY <4>1 DEF Settled, SockEnd, Holding
    <3>4. net'.fdt[m][proc[m].sock] = k
      BY <3>3 DEF SockEnd
    <3>5. SuccessAt(net', k)
      BY <2>1, <3>1, <3>2, <3>4 DEF Promised
    <3>6. Reads(net, proc, m, k)
      BY <3>2 DEF Reads, SockEnd, Reading
    <3> HIDE DEF k
    <3>7. k = x
      BY <3>2, <3>3, <3>5 DEF Calm
    <3>8. host'[n].nbd_server /\ Holding(net, n, -k)
      BY <3>2, <3>3, <3>6, <3>7
    <3>9. n = FirstPeer(m)
      BY <3>3, <3>8 DEF SInv, Wired
    <3> QED
      BY <3>8, <3>9
  <2> QED
    BY <2>1, <2>2 DEF Exports, Exported
<1> QED
  BY <1>3, <1>4 DEF Exports

\* A step after which n does not wait for a result, has not exported its disk
\* and has not attached others.
LEMMA MeekStep ==
  ASSUME server_len > 1, SInv, SInv', Talking, Exports, NEW n \in Server,
         HostGrows(n), Sends(n, 0),
         proc'[n].pc \notin {"answer", "module", "read_result"}
  PROVE  Exports'
<1>1. 0 \notin Conn
  BY DEF Conn
<1>2. proc'[n].count > 0 => proc[n].count > 0
  BY DEF Sends
<1>3. Promised(net', proc', n) => Promised(net, proc, n)
  BY <1>2 DEF Promised
<1> QED
  BY <1>1, <1>3, ExportStep DEF Sends

LEMMA BecomePc ==
  ASSUME SInv, NEW n \in Server, NEW w, NEW p, Become(n, w, p) \/ Die(n, w)
  PROVE  proc'[n].pc \in {p.pc, "down"}
BY DEF SInv, IInv, Become, Die, Started

LEMMA ReplyPc ==
  ASSUME SInv, NEW n \in Server, NEW w, NEW e, NEW m, NEW p, Reply(n, w, e, m, p)
  PROVE  proc'[n].pc \in {p.pc, "down"}
BY BecomePc DEF SInv, IInv, Reply, Become, Die, Started

Meek(pc) == pc \notin {"answer", "module", "read_result"}

LEMMA FinishMeek == ASSUME NEW p \in Process PROVE Meek(Finish(p).pc)
BY DEF Finish, Process, Meek

LEMMA FinishAssemblyMeek ==
  ASSUME NEW p \in Process PROVE Meek(FinishAssembly(p).pc)
BY DEF FinishAssembly, Process, Meek

\* What a controller does with what it finds in select.
LEMMA LoopMeek ==
  ASSUME SInv, NEW n \in Server, NEW f \in Fd,
         \/ ControllerSetConfig(n, f) \/ SetConfig(n, f) \/ Mount(n, f)
         \/ MountSetOn(n, f) \/ NbdSetOn(n, f) \/ UserSetConfig(n, f)
  PROVE  Meek(proc'[n].pc)
<1> DEFINE w == AfterRead(n, f)
           e == net.fdt[n][f]
           p == WithBuffer(n, f)
           q == [p EXCEPT !.pc = "read_on", !.sock = LowestFd(w, n)]
<1>1. p \in Process /\ p.pc = "loop"
  BY ReceiveSafe DEF ControllerSetConfig, SetConfig, Mount, MountSetOn,
     NbdSetOn, UserSetConfig
<1>2. Meek(Finish(p).pc) /\ Meek(p.pc) /\ q.pc = "read_on"
  BY <1>1, FinishMeek DEF Meek, Process
<1>3. \A ok \in BOOLEAN : AfterInsmod(p, ok).pc \in {"config", "loop"}
  BY <1>1 DEF AfterInsmod, Process
<1> HIDE DEF p, q
<1>4. SUFFICES ASSUME NEW r, Meek(r.pc),
                      \/ \E v : Become(n, v, r) \/ Die(n, v)
                      \/ \E v, d, m : Reply(n, v, d, m, r)
               PROVE  Meek(proc'[n].pc)
  <2>1. CASE ControllerSetConfig(n, f)
    BY <1>2, <1>4, <2>1 DEF ControllerSetConfig, p
  <2>2. CASE SetConfig(n, f)
    <3>1. InsmodBestio(n) \subseteq BOOLEAN
      BY DEF InsmodBestio
    <3>2. \/ \E v : Become(n, v, p) \/ Die(n, v)
          \/ \E ok \in BOOLEAN : \E v : Become(n, v, AfterInsmod(p, ok))
      BY <2>2, <3>1 DEF SetConfig, p
    <3>3. \A ok \in BOOLEAN : Meek(AfterInsmod(p, ok).pc)
      BY <1>3 DEF Meek
    <3> QED
      BY <1>2, <1>4, <3>2, <3>3
  <2>3. CASE Mount(n, f)
    <3>1. \E v : Become(n, v, p) \/ Die(n, v) \/ Become(n, v, Finish(p))
      BY <2>3 DEF Mount, p
    <3> QED
      BY <1>2, <1>4, <3>1
  <2>4. CASE MountSetOn(n, f)
    BY <1>2, <1>4, <2>4 DEF MountSetOn, p
  <2>5. CASE NbdSetOn(n, f)
    BY <1>2, <1>4, <2>5 DEF NbdSetOn, p
  <2>6. CASE UserSetConfig(n, f)
    <3>1. \E v : Become(n, v, Finish(p)) \/ Become(n, v, q)
      BY <2>6 DEF UserSetConfig, p, q, w
    <3>2. Meek(q.pc)
      BY <1>2 DEF Meek
    <3> QED
      BY <1>2, <1>4, <3>1, <3>2
  <2> QED
    BY <2>1, <2>2, <2>3, <2>4, <2>5, <2>6
<1>5. proc'[n].pc \in {r.pc, "down"}
  BY <1>4, BecomePc, ReplyPc
<1> QED
  BY <1>4, <1>5 DEF Meek

LEMMA LoopExports ==
  ASSUME server_len > 1, SInv, SInv', Talking, Exports, NEW n \in Server,
         NEW f \in Fd,
         \/ ControllerSetConfig(n, f) \/ SetConfig(n, f) \/ Mount(n, f)
         \/ MountSetOn(n, f) \/ NbdSetOn(n, f) \/ UserSetConfig(n, f)
  PROVE  Exports'
<1>1. Meek(proc'[n].pc)
  BY LoopMeek
<1>2. IInv'
  BY DEF SInv
<1>3. HostGrows(n) /\ Sends(n, 0)
  <2>1. CASE ControllerSetConfig(n, f) \/ NbdSetOn(n, f) \/ UserSetConfig(n, f)
    <3>1. UNCHANGED host
      BY <2>1 DEF ControllerSetConfig, NbdSetOn, UserSetConfig
    <3> QED
      BY <1>2, <2>1, <3>1, HostSame, ControllerSetConfigSetup, NbdSetOnSetup,
         UserSetConfigSetup
  <2>2. CASE SetConfig(n, f) \/ Mount(n, f) \/ MountSetOn(n, f)
    BY <1>2, <2>2, SetConfigSetup, MountSetup, MountSetOnSetup
  <2> QED
    BY <2>1, <2>2
<1> QED
  BY <1>1, <1>3, MeekStep DEF Meek

\* Accepting, closing, being killed and starting, the end of nbd_msg_send.
LEMMA QuietExports ==
  ASSUME server_len > 1, SInv, SInv', Talking, Exports, NEW n \in Server,
         \/ AcceptClient(n) \/ (\E f \in Fd : ReadEof(n, f))
         \/ NbdMsgSendRead(n) \/ Crash(n) \/ Restart(n)
  PROVE  Exports'
<1>1. IInv' /\ proc \in [Server -> Process]
  BY DEF SInv, IInv
<1>2. UNCHANGED host
  BY DEF AcceptClient, ReadEof, NbdMsgSendRead, Crash, Restart
<1>3. Sends(n, 0)
  BY <1>1, AcceptClientSetup, ReadEofSetup, NbdMsgSendReadSetup, CrashSetup,
     RestartSetup
<1>4. CASE AcceptClient(n) \/ (\E f \in Fd : ReadEof(n, f)) \/ Restart(n)
  <2>1. proc'[n].pc = "loop"
    BY <1>1, <1>4 DEF AcceptClient, ReadEof, Watched, Restart, Become, Started, Process
  <2> QED
    BY <1>2, <1>3, <2>1, HostSame, MeekStep
<1>5. CASE Crash(n)
  <2>1. proc'[n].pc = "down"
    BY <1>1, <1>5 DEF Crash, Die, Started
  <2> QED
    BY <1>2, <1>3, <2>1, HostSame, MeekStep
<1>6. CASE NbdMsgSendRead(n)
  <2>1. PICK reply : LET p == [proc[n] EXCEPT
              !.sock = NoFd,
              !.nbd_count = IF reply = "NBD_CLIENT_LOAD" THEN @ + 1 ELSE @] IN
          Become(n, Drain(net, SockEnd(n)), FinishAssembly(p))
    BY <1>6 DEF NbdMsgSendRead
  <2> DEFINE j == IF reply = "NBD_CLIENT_LOAD" THEN proc[n].nbd_count + 1
                  ELSE proc[n].nbd_count
             p == [proc[n] EXCEPT !.sock = NoFd, !.nbd_count = j]
  <2>2. p \in Process
    <3>1. j \in Nat
      BY <1>1 DEF Process
    <3> HIDE DEF j
    <3> QED
      BY <1>1, <3>1 DEF Process
  <2>3. Become(n, Drain(net, SockEnd(n)), FinishAssembly(p))
    BY <1>1, <2>1 DEF Process
  <2> HIDE DEF p
  <2>4. Meek(FinishAssembly(p).pc)
    BY <2>2, FinishAssemblyMeek
  <2>5. proc'[n] = FinishAssembly(p)
    BY <1>1, <2>3 DEF Become
  <2> QED
    BY <1>2, <1>3, <2>4, <2>5, HostSame, MeekStep DEF Meek
<1> QED
  BY <1>4, <1>5, <1>6

LEMMA StartNbdServerExports ==
  ASSUME server_len > 1, NbdFaulty = {}, SInv, SInv', Talking, Exports,
         NEW n \in Server, StartNbdServer(n)
  PROVE  Exports'
<1> DEFINE p == [proc[n] EXCEPT !.pc = "answer"]
<1>1. /\ host' = [host EXCEPT ![n].nbd_server = TRUE \/ @]
      /\ \E v : Become(n, v, p)
  BY DEF StartNbdServer
<1>2. host'[n].nbd_server
  BY <1>1 DEF SInv, IInv, Host
<1>3. proc'[n].pc = "answer" /\ proc'[n].count = proc[n].count
  BY <1>1 DEF SInv, IInv, Process, Become
<1>4. HostGrows(n) /\ Sends(n, 0) /\ 0 \notin Conn
  BY StartNbdServerSetup DEF SInv, Conn
<1>5. Promised(net', proc', n) => Promised(net, proc, n)
  BY <1>3 DEF Promised
<1> QED
  BY <1>2, <1>3, <1>4, <1>5, ExportStep DEF Sends

LEMMA SetConfigDoneExports ==
  ASSUME server_len > 1, SInv, SInv', Talking, Exports, NEW n \in Server,
         SetConfigDone(n)
  PROVE  Exports'
<1>1. UNCHANGED host /\ proc[n].pc = "answer"
  BY DEF SetConfigDone
<1>2. HostGrows(n) /\ Sends(n, -net.fdt[n][proc[n].i])
  BY <1>1, HostSame, SetConfigDoneSetup DEF SInv
<1>3. host'[n].nbd_server
  BY <1>1 DEF Exports, Exported
<1>4. Meek(proc'[n].pc)
  <2>1. Meek(Finish(proc[n]).pc) /\ Meek("down")
    BY FinishMeek DEF SInv, IInv, Meek
  <2>2. proc'[n].pc \in {Finish(proc[n]).pc, "down"}
    BY ReplyPc DEF SetConfigDone
  <2> QED
    BY <2>1, <2>2
<1>5. Promised(net', proc', n) => Promised(net, proc, n)
  BY <1>2, <1>4 DEF Promised, Sends, Meek
<1> QED
  BY <1>2, <1>3, <1>4, <1>5, ExportStep DEF Meek, Sends

\* After the first read of msg_send nothing waits on the socket.
LEMMA MsgSendReadOnExports ==
  ASSUME server_len > 1, SInv, SInv', Talking, Exports, NEW n \in Server,
         MsgSendReadOn(n)
  PROVE  Exports'
<1> DEFINE e == SockEnd(n)
           w == Drain(net, e)
           u == Take(w, n, File)
<1>1. proc[n].pc = "read_on" /\ proc[n].pc \in Reading /\ Readable(net, e)
      /\ UNCHANGED host
  BY DEF MsgSendReadOn, Reading
<1>2. /\ e \in Conn /\ e \in End /\ Holding(net, n, e) /\ proc[n].sock \in Fd
      /\ Safe(n, w) /\ Fewer(net, w) /\ Sound(w) /\ w.fdt = net.fdt
      /\ Reads(net, proc, n, e)
  BY <1>1, ReadingTalk
<1>3. HostGrows(n) /\ Sends(n, 0) /\ 0 \notin Conn
  BY <1>1, HostSame, MsgSendReadOnSetup DEF SInv, Conn
<1>4. ~ SuccessAt(net, e)
  <2>1. AtMost(net.inq[e], {"CONTROL_SET_ON"})
    BY <1>1, <1>2 DEF Talking, Conversation, Talk, InTurn, Answer
  <2> QED
    BY <2>1 DEF AtMost, SuccessAt
<1>5. PICK reply \in Answers(n, {"CONTROL_SET_ON", "eof"}), c \in Config \cup {Garbage} :
        LET p == [proc[n] EXCEPT !.pc = "read_result", !.reply = reply] IN
        IF reply = "CONTROL_SET_ON"
        THEN Reply(n, u, e, [word |-> "config", arg |-> c], p)
        ELSE Become(n, w, p)
  BY DEF MsgSendReadOn, SInv, IInv, Host
<1> DEFINE q == [proc[n] EXCEPT !.pc = "read_result", !.reply = reply]
           m == [word |-> "config", arg |-> c]
<1>6. /\ m \in Message
      /\ q.pc = "read_result" /\ q.sock = proc[n].sock
  BY DEF SInv, IInv, Process, Message
<1>7. /\ Die(n, u) \/ \E v \in {w, Write(u, e, m)} : Become(n, v, q)
  BY <1>5 DEF Reply
<1>8. proc'[n].pc = "down" \/ /\ net'.fdt[n][proc[n].sock] = e
                              /\ proc'[n].sock = proc[n].sock
  <2>1. w.fdt[n][proc[n].sock] = e /\ e # Free
    BY <1>2 DEF SockEnd, End, Free
  <2>2. u.fdt[n][proc[n].sock] = e /\ u \in Kernel(Message)
    BY <1>2, <2>1, TakeTalk DEF Holding, Safe, KernelOf
  <2> HIDE DEF q, w, u, e, m
  <2>3. Write(u, e, m).fdt = u.fdt
    BY <1>2, <1>6, <2>2, WriteExact
  <2>4. ASSUME NEW v, Become(n, v, q) PROVE net' = v /\ proc'[n] = q
    BY <2>4 DEF Become, SInv, IInv
  <2>5. Die(n, u) => proc'[n].pc = "down"
    BY DEF Die, SInv, IInv, Started
  <2> QED
    BY <1>6, <1>7, <2>1, <2>2, <2>3, <2>4, <2>5
<1>9. proc'[n].pc \in {"read_result", "down"}
  <2> HIDE DEF q, m
  <2> QED
    BY <1>6, <1>7, BecomePc
<1>10. Promised(net', proc', n) => Promised(net, proc, n)
  <2> HIDE DEF e
  <2>1. proc'[n].pc = "read_result" => ~ SuccessAt(net', net'.fdt[n][proc'[n].sock])
    BY <1>2, <1>3, <1>4, <1>8 DEF Sends, Calm
  <2> QED
    BY <1>3, <2>1 DEF Promised, Sends
<1> QED
  BY <1>3, <1>9, <1>10, ExportStep DEF Sends

\* What is counted was read, and came in answer.
LEMMA MsgSendReadResultExports ==
  ASSUME server_len > 1, SInv, SInv', Talking, Exports, NEW n \in Server,
         MsgSendReadResult(n)
  PROVE  Exports'
<1> DEFINE e == SockEnd(n)
           w == Drain(net, e)
<1>1. proc[n].pc = "read_result" /\ proc[n].pc \in Reading /\ Readable(net, e)
      /\ UNCHANGED host
  BY DEF MsgSendReadResult, Reading
<1>2. /\ w.fdt = net.fdt
      /\ net.inq \in [End -> Seq(Message)] /\ e \in End
      /\ net.inq[e] # <<>> => Head(net.inq[e]).word = "success"
  BY <1>1, ReadingTalk, NetTalk DEF Answer
<1>3. /\ proc \in [Server -> Process] /\ Remembers(proc[n])
  BY DEF Talking, Conversation, Each, SInv, IInv
<1>4. PICK reply \in Answers(n, {proc[n].reply}) :
        Become(n, w,
          Finish([proc[n] EXCEPT
            !.reply = "eof", !.sock = NoFd,
            !.count = IF reply = "success" THEN @ + 1 ELSE @,
            !.unsuccess_flag = IF reply = "unsuccess" THEN 1 ELSE @]))
  BY DEF MsgSendReadResult
<1> DEFINE j == IF reply = "success" THEN proc[n].count + 1 ELSE proc[n].count
           g == IF reply = "unsuccess" THEN 1 ELSE proc[n].unsuccess_flag
           p == [proc[n] EXCEPT !.reply = "eof", !.sock = NoFd,
                                !.count = j, !.unsuccess_flag = g]
<1>5. p \in Process /\ p.count = j
  <2>1. j \in Nat /\ g \in {0, 1}
    BY <1>3 DEF Process
  <2> HIDE DEF j, g
  <2> QED
    BY <1>3, <2>1 DEF Process
<1>6. Become(n, w, Finish(p))
  BY <1>3, <1>4 DEF Process
<1>7. reply = "success" => Promised(net, proc, n)
  <2>1. reply = "success" => net.inq[e] # <<>>
    BY <1>1, <1>3, <1>4 DEF Answers, Remembers
  <2>2. net.inq[e] # <<>> => SuccessAt(net, e)
    BY <1>2 DEF SuccessAt
  <2> QED
    BY <1>1, <2>1, <2>2 DEF Promised, SockEnd
<1> HIDE DEF p, j, w
<1>8. Finish(p).count = p.count /\ Meek(Finish(p).pc)
  <2>1. Finish(p).count = p.count
    BY <1>5 DEF Finish, Process
  <2> QED
    BY <1>5, <2>1, FinishMeek
<1>9. net' = w /\ proc'[n] = Finish(p)
      /\ \A m \in Server \ {n} : proc'[m] = proc[m]
  BY <1>3, <1>6 DEF Become
<1>10. Promised(net', proc', n) => Promised(net, proc, n)
  BY <1>5, <1>7, <1>8, <1>9 DEF Promised, Meek, j
<1>11. HostGrows(n) /\ Calm(net, net', 0) /\ 0 \notin Conn
  BY <1>1, HostSame, MsgSendReadResultSetup DEF SInv, Conn
<1> QED
  BY <1>2, <1>8, <1>9, <1>10, <1>11, ExportStep DEF Meek

\* The peer that was counted is all the others, and its export is attached.
LEMMA AssembleExports ==
  ASSUME server_len > 1, NbdFaulty = {}, SInv, SInv', Talking, Exports,
         NEW n \in Server, Assemble(n)
  PROVE  Exports'
<1> DEFINE q == [proc[n] EXCEPT !.pc = "module"]
<1>1. HostGrows(n) /\ Sends(n, 0) /\ 0 \notin Conn
  BY AssembleSetup DEF SInv, Conn
<1>2. proc[n] \in Process /\ proc[n].pc = "assemble" /\ Counted(n, proc[n], host)
  BY DEF Assemble, SInv, IInv
<1>3. host[FirstPeer(n)].nbd_server /\ server_len <= 2
  <2>1. server_len <= 2 /\ proc[n].count > 0
    BY <1>2, ServerLen DEF Counted
  <2> QED
    BY <2>1 DEF Exports, Exported, Promised
<1>4. NbdClient(n) = {Server \ {n}}
  <2>1. \A m \in Server \ {n} : host[m].nbd_server
    BY <1>3, AtMostTwo
  <2> QED
    BY <2>1 DEF NbdClient
<1>5. \/ Die(n, net)
      \/ /\ \E v : Become(n, v, q)
         /\ \E ok : host' = [host EXCEPT ![n] =
              [host[n] EXCEPT !.bestio = ok \/ @, !.attached = @ \cup (Server \ {n})]]
  BY <1>4 DEF Assemble
<1>6. CASE Die(n, net)
  <2>1. proc'[n].pc = "down"
    BY <1>6 DEF Die, SInv, IInv, Started
  <2> QED
    BY <1>1, <2>1, MeekStep
<1>7. CASE ~ Die(n, net)
  <2>1. host'[n].attached = host[n].attached \cup (Server \ {n})
    <3>1. PICK ok : host' = [host EXCEPT ![n] =
            [host[n] EXCEPT !.bestio = ok \/ @, !.attached = @ \cup (Server \ {n})]]
      BY <1>5, <1>7
    <3> DEFINE h == [host[n] EXCEPT !.bestio = ok \/ @,
                                    !.attached = @ \cup (Server \ {n})]
    <3>2. h.attached = host[n].attached \cup (Server \ {n})
      BY DEF SInv, IInv, Host
    <3>3. host' = [host EXCEPT ![n] = h]
      BY <3>1
    <3> HIDE DEF h
    <3> QED
      BY <3>2, <3>3 DEF SInv, IInv
  <2>2. host'[n].attached = Server \ {n}
    BY <2>1 DEF Exports, Exported
  <2>3. proc'[n].pc = "module" /\ proc'[n].count = proc[n].count
    <3>1. q.pc = "module" /\ q.count = proc[n].count
      BY <1>2 DEF Process
    <3> HIDE DEF q
    <3>2. proc'[n] = q
      BY <1>5, <1>7 DEF SInv, IInv, Become
    <3> QED
      BY <3>1, <3>2
  <2>4. Promised(net', proc', n) => Promised(net, proc, n)
    BY <2>3 DEF Promised
  <2> QED
    BY <1>1, <2>2, <2>3, <2>4, ExportStep DEF Sends
<1> QED
  BY <1>6, <1>7

LEMMA AssembleModuleExports ==
  ASSUME server_len > 1, SInv, SInv', Talking, Exports, NEW n \in Server,
         AssembleModule(n)
  PROVE  Exports'
<1> DEFINE q == [proc[n] EXCEPT !.pc = "read_nbd", !.sock = LowestFd(net, n)]
           r == FinishAssembly(proc[n])
<1>1. HostGrows(n) /\ Sends(n, 0)
  BY AssembleModuleSetup DEF SInv
<1>2. proc[n] \in Process
  BY DEF SInv, IInv
<1>3. Meek(q.pc) /\ Meek(r.pc) /\ Meek("down")
  BY <1>2, FinishAssemblyMeek DEF Meek, Process
<1>4. \E v : Become(n, v, q) \/ Become(n, v, r)
  BY DEF AssembleModule
<1> HIDE DEF q, r
<1>5. proc'[n].pc \in {q.pc, r.pc, "down"}
  BY <1>4, BecomePc
<1> QED
  BY <1>1, <1>3, <1>5, MeekStep DEF Meek

\* A report goes to nobody who waits for a result.
LEMMA ReportExports ==
  ASSUME server_len > 1, SInv, SInv', Talking, Exports, NEW n \in Server,
         Report(n)
  PROVE  Exports'
<1>1. PICK x : HostGrows(n) /\ Sends(n, x)
  BY ReportSetup DEF SInv
<1>2. /\ proc[n] \in Process /\ proc[n].pc = "report"
      /\ Remembers(proc[n]) /\ Deaf(net, proc, n) /\ Counted(n, proc[n], host)
  BY DEF Report, SInv, IInv, Talking, Conversation, Each
<1>3. server_len <= 2
  <2>1. proc[n].nbd_count > 0
    BY <1>2, ServerLen DEF Remembers
  <2>2. host[n].vrd
    BY <1>2, <2>1 DEF Counted
  <2> QED
    BY <2>2, ServerLen DEF SInv, OnlyTwoServersAssemble
<1>4. x \in Conn => \A m \in Server : ~ Reads(net, proc, m, x)
  BY <1>1, <1>2, <1>3 DEF Deaf, Working, Sends
<1>5. Meek(proc'[n].pc)
  <2> DEFINE c == IF proc[n].unsuccess_flag = 1 THEN "report" ELSE "loop"
             p == [proc[n] EXCEPT !.success_flag = 1, !.nbd_count = 0, !.pc = c]
             q == [proc[n] EXCEPT !.unsuccess_flag = 0, !.pc = "loop"]
  <2>1. Meek(p.pc) /\ Meek(q.pc) /\ Meek("down")
    BY <1>2 DEF Meek, Process
  <2>2. \/ Die(n, net)
        \/ WriteClientSock(n, "success", p)
        \/ WriteClientSock(n, "unsuccess", q)
    BY DEF Report
  <2>3. ASSUME NEW word, NEW s, WriteClientSock(n, word, s)
        PROVE  proc'[n].pc \in {s.pc, "down"}
    BY <2>3, BecomePc, ReplyPc DEF WriteClientSock
  <2> HIDE DEF p, q
  <2>4. Die(n, net) => proc'[n].pc = "down"
    BY DEF Die, SInv, IInv, Started
  <2> QED
    BY <2>1, <2>2, <2>3, <2>4
<1>6. Promised(net', proc', n) => Promised(net, proc, n)
  BY <1>1, <1>5 DEF Promised, Sends, Meek
<1> QED
  BY <1>1, <1>4, <1>5, <1>6, ExportStep DEF Sends, Meek

\* The programs of the clients write "success" to nobody.
LEMMA ClientExports ==
  ASSUME Talking, Exports, UNCHANGED <<proc, host>>, net'.fdt = net.fdt,
         \A e \in Conn : net'.inq[e] = <<>> \/ net'.inq[e] = net.inq[e]
  PROVE  Exports'
<1>1. ASSUME NEW n \in Server, Promised(net', proc', n) PROVE Promised(net, proc, n)
  <2> DEFINE k == SockEnd(n)
  <2>1. proc[n].pc = "read_result" => k \in Conn
    BY DEF Talking, Conversation, Each, Settled, SockEnd, Reading
  <2>2. CASE proc[n].pc = "read_result"
    BY <1>1, <2>1, <2>2, SameQueue DEF Promised, SockEnd
  <2>3. CASE proc[n].pc # "read_result"
    BY <1>1, <2>3 DEF Promised
  <2> QED
    BY <2>2, <2>3
<1> QED
  BY <1>1 DEF Exports, Exported

LEMMA RequestExports ==
  ASSUME SInv, Talking, Exports, NEW c, NEW n \in Server,
         NEW word \in {"USER_SET_CONFIG", "mount"}, NEW after,
         Request(c, n, word, after)
  PROVE  Exports'
<1> DEFINE k == net.made + 1
           m == Say(word)
           u == Connect(net, n)
           w == Write(u, k, m)
           v == CloseEnds(w, {k}, {})
<1>1. net.made < MaxConns /\ UNCHANGED <<proc, host>>
      /\ (UNCHANGED net \/ net' = w \/ net' = v)
  BY DEF Request, Room
<1>2. m \in Message
  BY SayMessage DEF Word, Command
<1>3. /\ u.fdt = net.fdt /\ u.inq = net.inq /\ k \in Conn /\ u \in Kernel(Message)
  BY <1>1, NetKernel, ConnectExact, ConnectKernel
<1>4. k \in End /\ -k \in End /\ -k \notin Conn
  BY <1>3, EndFacts, BoundsAssumption DEF Conn
<1> HIDE DEF u, k, m
<1>5. /\ w.fdt = u.fdt /\ \A e \in Conn : w.inq[e] = u.inq[e]
      /\ w \in Kernel(Message)
  BY <1>2, <1>3, <1>4, WriteExact, WriteKernel, EndFacts
<1> HIDE DEF w
<1>6. v.fdt = w.fdt /\ \A e \in Conn : v.inq[e] = <<>> \/ v.inq[e] = w.inq[e]
  BY <1>5, CloseEndsExact, EndFacts
<1> QED
  BY <1>1, <1>3, <1>5, <1>6, ClientExports

LEMMA SetupReadExports ==
  ASSUME SInv, Talking, Exports, NEW c \in SetupClient, SetupRead(c)
  PROVE  Exports'
<1> DEFINE k == client[c].end
           w == Drain(net, k)
           v == CloseEnds(w, {k}, {})
<1>1. UNCHANGED <<proc, host>> /\ (net' = w \/ net' = v)
  BY DEF SetupRead
<1>2. k \in End
  <2>1. c \in Client /\ client[c] \in ClientState
    BY DEF SInv, IInv, Client
  <2> QED
    BY <2>1, EndFacts DEF SetupRead, SInv, Asked, ClientState
<1> HIDE DEF k
<1>3. /\ w.fdt = net.fdt /\ w \in Kernel(Message)
      /\ \A e \in Conn : w.inq[e] = <<>> \/ w.inq[e] = net.inq[e]
  <2>1. net \in Kernel(Message) /\ net.inq \in [End -> Seq(Message)]
    BY NetKernel, KernelFields
  <2> QED
    <3>1. w.fdt = net.fdt /\ w.inq = [net.inq EXCEPT ![k] = <<>>]
      BY <1>2, <2>1, DrainExact
    <3>2. w \in Kernel(Message)
      BY <1>2, <2>1, DrainKernel
    <3> HIDE DEF w
    <3> QED
      BY <2>1, <3>1, <3>2, EndFacts
<1> HIDE DEF w
<1>4. v.fdt = w.fdt /\ \A e \in Conn : v.inq[e] = <<>> \/ v.inq[e] = w.inq[e]
  BY <1>3, CloseEndsExact, EndFacts
<1> QED
  BY <1>1, <1>3, <1>4, ClientExports

LEMMA NextExports ==
  ASSUME server_len > 1, NbdFaulty = {}, SInv, SInv', Talking, Exports, [Next]_vars
  PROVE  Exports'
<1>1. CASE UNCHANGED vars
  BY <1>1 DEF vars, Exports, Exported, Promised, SuccessAt
<1>2. ASSUME NEW n \in Server, Handle(n) PROVE Exports'
  BY <1>2, QuietExports, LoopExports, StartNbdServerExports, SetConfigDoneExports,
     MsgSendReadOnExports, MsgSendReadResultExports, AssembleExports,
     AssembleModuleExports, ReportExports DEF Handle
<1>3. ASSUME NEW n \in Server, Crash(n) \/ Restart(n) PROVE Exports'
  BY <1>3, QuietExports
<1>4. CASE Ask
  BY <1>4, RequestExports DEF Ask, SetupRequest, MountRequest
<1>5. ASSUME NEW c \in SetupClient, SetupRead(c) PROVE Exports'
  BY <1>5, SetupReadExports
<1> QED
  BY <1>1, <1>2, <1>3, <1>4, <1>5 DEF Next

LEMMA InitExports == ASSUME Init PROVE Exports
<1>1. \A n \in Server : /\ proc[n].count = 0 /\ proc[n].pc = "loop"
                        /\ host[n].attached = {} /\ ~ host[n].vrd
  BY DEF Init, Started
<1> QED
  BY <1>1 DEF Exports, Exported, Promised

\* In a cluster of two or more, and as long as nbd-server and nbd-client work,
\* what answers "success" is exported and what vrd is loaded on is attached.
THEOREM ExportsInvariance ==
  ASSUME server_len >= 2, NbdFaulty = {}
  PROVE  Spec => []Exports
<1>1. Init => Exports
  BY InitExports
<1>2. SInv /\ SInv' /\ Talking /\ Exports /\ [Next]_vars => Exports'
  BY NextExports, ServerLen
<1> QED
  BY <1>1, <1>2, SetupInvariance, ConversationInvariance, PTL DEF Spec

\* A client that was told "success" was told the truth, in a cluster of two or
\* more (a single host reports success whatever insmod returned) and as long as
\* nbd-server and nbd-client work: some coordinator has attached the exports of
\* all the others and made a disk of them and its own.
THEOREM ToldTrue ==
  ASSUME server_len >= 2, NbdFaulty = {}
  PROVE  Spec => []ToldMeansAssembled
<1>1. SInv /\ Exports => ToldMeansAssembled
  <2> SUFFICES ASSUME SInv, Exports, NEW c \in SetupClient, client[c].st = "told"
               PROVE  Assembled # {} /\ \A m \in Server : host[m].bestio
    BY DEF ToldMeansAssembled
  <2>1. Done
    BY ServerLen DEF SInv, ClientsTrue, Client
  <2>2. PICK n \in Server : host[n].vrd
    BY <2>1 DEF Done
  <2>3. n \in Assembled
    BY <2>2 DEF Exports, Exported, Assembled
  <2> QED
    BY <2>1, <2>3 DEF Done
<1> QED
  BY <1>1, SetupInvariance, ExportsInvariance, PTL

-----------------------------------------------------------------------------
(* Controller implements Setup.                                            *)

\* What a controller does is at most one stage of a setup.
LEMMA GrowsStage ==
  ASSUME Exports, Exports', NEW n \in Server, HostGrows(n), UNCHANGED client
  PROVE  [Stages!SetupNext]_(Stages!setupvars)
<1> DEFINE P == {m \in Server : host[m].bestio}
           A == {m \in Server : host[m].vrd}
           T == {c \in SetupClient : client[c].st = "told"}
<1>1. T' = T
  OBVIOUS
<1>2. A = Assembled /\ A' = Assembled'
  BY DEF Exports, Exported, Assembled
<1>3. CASE host'[n].vrd /\ ~ host[n].vrd
  <2>1. P = Server /\ P' = Server
    BY <1>3 DEF HostGrows
  <2>2. A' = A \cup {n}
    BY <1>3 DEF HostGrows
  <2> HIDE DEF A
  <2> QED
    BY <1>1, <1>2, <2>1, <2>2 DEF Stages!SetupNext, Stages!AssembleDisk
<1>4. CASE host'[n].vrd <=> host[n].vrd
  <2>1. A' = A
    BY <1>4 DEF HostGrows
  <2>2. P' = P \/ P' = P \cup {n}
    BY DEF HostGrows
  <2> HIDE DEF A
  <2> QED
    BY <1>1, <1>2, <2>1, <2>2
       DEF Stages!SetupNext, Stages!PrepareHost, Stages!setupvars
<1> QED
  BY <1>3, <1>4 DEF HostGrows

LEMMA HandleStage ==
  ASSUME SInv, SInv', Exports, Exports', NEW n \in Server, Handle(n)
  PROVE  [Stages!SetupNext]_(Stages!setupvars)
<1>0. IInv'
  BY DEF SInv
<1>1. UNCHANGED client
  BY Zenon DEF Handle, AcceptClient, ReadEof, ControllerSetConfig, SetConfig, Mount,
     MountSetOn, NbdSetOn, UserSetConfig, StartNbdServer, SetConfigDone,
     MsgSendReadOn, MsgSendReadResult, Assemble, AssembleModule, NbdMsgSendRead,
     Report
<1>2. CASE UNCHANGED host
  BY <1>1, <1>2, HostSame, GrowsStage
<1>3. ASSUME NEW f \in Fd, SetConfig(n, f) \/ Mount(n, f) \/ MountSetOn(n, f)
      PROVE  HostGrows(n)
  BY <1>0, <1>3, SetConfigSetup, MountSetup, MountSetOnSetup
<1>4. ASSUME StartNbdServer(n) \/ Assemble(n) \/ AssembleModule(n) \/ Report(n)
      PROVE  HostGrows(n)
  BY <1>0, <1>4, StartNbdServerSetup, AssembleSetup, AssembleModuleSetup, ReportSetup
<1>5. UNCHANGED host \/ HostGrows(n)
  BY <1>3, <1>4 DEF Handle, AcceptClient, ReadEof, ControllerSetConfig,
     NbdSetOn, UserSetConfig, SetConfigDone, MsgSendReadOn, MsgSendReadResult,
     NbdMsgSendRead
<1> QED
  BY <1>1, <1>2, <1>5, GrowsStage

\* A client that reads "success" reads it after a coordinator has assembled.
LEMMA ReadStage ==
  ASSUME server_len > 1, SInv, SInv', Exports', NEW c \in SetupClient, SetupRead(c)
  PROVE  [Stages!SetupNext]_(Stages!setupvars)
<1> DEFINE P == {m \in Server : host[m].bestio}
           T == {d \in SetupClient : client[d].st = "told"}
<1>1. PICK st \in {"told", "failed", "missed"} :
        client' = [client EXCEPT ![c].st = st]
  BY DEF SetupRead
<1>2. /\ \A d \in SetupClient \ {c} : client'[d] = client[d]
      /\ client'[c].st = st /\ client[c].st # "told"
  BY <1>1 DEF SInv, IInv, ClientState, SetupRead, Client
<1>3. host' = host
  BY DEF SetupRead
<1>4. P' = P /\ Assembled' = Assembled
  BY <1>3 DEF Assembled
<1>5. CASE st = "told"
  <2>1. T' = T \cup {c}
    BY <1>2, <1>5
  <2>2. Assembled' # {}
    <3>1. Done'
      BY <1>2, <1>5 DEF SInv, ClientsTrue, Client
    <3> QED
      BY <3>1 DEF Done, Exports, Exported, Assembled
  <2> QED
    BY <1>4, <2>1, <2>2 DEF Stages!SetupNext, Stages!TellClient
<1>6. CASE st # "told"
  <2>1. T' = T
    BY <1>2, <1>6
  <2> QED
    BY <1>4, <2>1 DEF Stages!setupvars
<1> QED
  BY <1>5, <1>6

\* A client's request is no stage of a setup yet.
LEMMA AskStage ==
  ASSUME SInv, Ask PROVE UNCHANGED Stages!setupvars
<1>1. PICK c \in Client, n \in Server, after \in {"waiting", "gone"} :
        \E word : Request(c, n, word, after)
  BY DEF Ask, SetupRequest, MountRequest, Client
<1>2. /\ UNCHANGED host
      /\ client[c].st = "init"
      /\ client' = [client EXCEPT ![c].st = "refused"]
           \/ client' = [client EXCEPT ![c] = [st |-> after, end |-> net.made + 1]]
  BY <1>1 DEF Request
<1>3. /\ \A d \in Client \ {c} : client'[d] = client[d]
      /\ client'[c].st # "told"
  BY <1>2 DEF SInv, IInv, ClientState
<1>4. \A d \in SetupClient : client'[d].st = "told" <=> client[d].st = "told"
  BY <1>2, <1>3 DEF Client
<1> QED
  BY <1>2, <1>4 DEF Stages!setupvars, Assembled

\* A cluster of two servers or more goes through a setup as Setup says, as long
\* as nbd-server and nbd-client work: first the ramdisks, then the disk made of
\* them, then the answer to the client, and no crash, failing insmod, stale
\* descriptor or unset buffer skips or undoes a stage.
THEOREM SetupRefinement ==
  ASSUME server_len >= 2, NbdFaulty = {}
  PROVE  Spec => ImplementsSetup
<1>1. Init => Stages!SetupInit
  BY DEF Init, Stages!SetupInit, Assembled, Client
<1>2. SInv /\ SInv' /\ Exports /\ Exports' /\ [Next]_vars
        => [Stages!SetupNext]_(Stages!setupvars)
  <2> SUFFICES ASSUME SInv, SInv', Exports, Exports', [Next]_vars
               PROVE  [Stages!SetupNext]_(Stages!setupvars)
    OBVIOUS
  <2>1. server_len > 1
    BY ServerLen
  <2>2. CASE UNCHANGED vars
    BY <2>2 DEF vars, Stages!setupvars, Assembled
  <2>3. ASSUME NEW n \in Server, Handle(n)
        PROVE  [Stages!SetupNext]_(Stages!setupvars)
    BY <2>3, HandleStage
  <2>4. ASSUME NEW n \in Server, Crash(n) \/ Restart(n)
        PROVE  UNCHANGED Stages!setupvars
    BY <2>4 DEF Crash, Restart, Stages!setupvars, Assembled
  <2>5. CASE Ask
    BY <2>5, AskStage
  <2>6. ASSUME NEW c \in SetupClient, SetupRead(c)
        PROVE  [Stages!SetupNext]_(Stages!setupvars)
    BY <2>1, <2>6, ReadStage
  <2> QED
    BY <2>2, <2>3, <2>4, <2>5, <2>6 DEF Next
<1> QED
  BY <1>1, <1>2, SetupInvariance, ExportsInvariance, PTL
     DEF Spec, ImplementsSetup, Stages!SetupSpec
=============================================================================
