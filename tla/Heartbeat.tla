----------------------------- MODULE Heartbeat -----------------------------
(***************************************************************************)
(* The heartbeat of dmbd_hb.c as one server runs it: its receiver thread   *)
(* hears the other servers, asks the gateway before it believes that one   *)
(* of them is down, and keeps the verdicts in the file hb_state.           *)
(*                                                                         *)
(* Nothing in the repository starts the heartbeat.  It is taken to be used *)
(* as its functions ask for: hb_start, then create_sender and              *)
(* create_receiver; hb_exit; and again from the start, when the receiver,  *)
(* which is detached, has ended.                                           *)
(***************************************************************************)
EXTENDS Integers, Sequences

CONSTANTS
  Peers,      \* number of the other servers, in the order of server_config
  Limit,      \* bounds / 100, in units of clock() / 1000
  MaxLate,    \* bound on the processor time that a round uses
  Tries,      \* the count of nu_pinger
  MaxFd,      \* descriptors that are free at first, when they are scarce
  MaxHeld     \* bound on those that other threads hold at once

ASSUME HeartbeatAssumption ==
  /\ Peers \in Nat \ {0}
  /\ Limit \in Nat /\ MaxLate \in Nat /\ MaxFd \in Nat /\ MaxHeld \in Nat
  /\ Tries \in Nat \ {0}

Peer == 1..Peers

CONNECT    == 0
DISCONNECT == 1

\* Larger ages are told apart by nothing.
MaxAge == Limit + 1 + MaxLate

\* So many descriptors that they last.
Plenty == MaxFd + 1

VARIABLES
  gateway,      \* whether it answers
  inbox,        \* datagrams in the buffer of recv_socket
  hb_alive,
  bound,        \* whether recv_socket has got the port
  age,          \* clock() - hb_time of each peer
  disconnect,
  hb_state,     \* the file
  fds,          \* descriptors left
  held,         \* of the scarce ones, those that other threads will give back
  receiver,     \* the thread in hb_receive
  answering     \* history: the gateway was up at a moment of this nu_pinger

vars == <<gateway, inbox, hb_alive, bound, age, disconnect, hb_state, fds,
          held, receiver, answering>>

\* late: clock() - hb_c; node: whether the file could be read; i: the loop;
\* tries: those that nu_pinger has left.
Receiver ==
  [pc : {"start", "recv", "look", "ping", "declare", "ended", "crashed"},
   late : 0..MaxLate, node : BOOLEAN, i : 1..(Peers + 1), tries : 0..Tries]

TypeOK ==
  /\ gateway \in BOOLEAN
  /\ inbox \in Seq(Peer)
  /\ hb_alive \in BOOLEAN
  /\ bound \in BOOLEAN
  /\ age \in [Peer -> 0..MaxAge]
  /\ disconnect \in [Peer -> {CONNECT, DISCONNECT}]
  /\ hb_state \in [Peer -> {"connect", "disconnect"}]
  /\ fds \in 0..Plenty
  /\ held \in 0..MaxHeld
  /\ receiver \in Receiver
  /\ answering \in BOOLEAN

\* Nothing of a round is kept for the next one.
Begins(pc, node) ==
  [pc |-> pc, late |-> 0, node |-> node, i |-> 1, tries |-> 0]

Goes(pc, i, tries) ==
  [pc |-> pc, late |-> receiver.late, node |-> receiver.node, i |-> i,
   tries |-> tries]

AtStart == Begins("start", FALSE)

\* After hb_start and create_receiver.  ReadServerConfig leaves hb_time
\* and disconnect as malloc found them.
Init ==
  /\ gateway = TRUE
  /\ inbox = <<>>
  /\ hb_alive = TRUE
  /\ bound = TRUE
  /\ age \in [Peer -> 0..MaxAge]
  /\ disconnect \in [Peer -> {CONNECT, DISCONNECT}]
  /\ hb_state = [p \in Peer |-> "connect"]
  /\ fds \in {MaxFd, Plenty}
  /\ held = 0
  /\ receiver = AtStart
  /\ answering = FALSE

-----------------------------------------------------------------------------
(* Around the thread, as long as the process exists                        *)

Exists == receiver.pc # "crashed"

GatewayGoesOrComes ==
  /\ Exists
  /\ gateway' = ~ gateway
  /\ answering' = (answering \/ receiver.pc = "ping")
  /\ UNCHANGED <<inbox, hb_alive, bound, age, disconnect, hb_state, fds, held,
                 receiver>>

\* hb_send at a peer, and its datagram arrives.  Without the port none does.
\* Bound: one datagram of each is unread.
HbSend(p) ==
  /\ Exists
  /\ bound
  /\ \A j \in 1..Len(inbox) : inbox[j] # p
  /\ inbox' = Append(inbox, p)
  /\ UNCHANGED <<gateway, hb_alive, bound, age, disconnect, hb_state, fds, held,
                 receiver, answering>>

InRound == receiver.pc \in {"recv", "look", "ping", "declare"}

\* The process, any of its threads, has used processor time.
Tick ==
  /\ Exists
  /\ age' = [p \in Peer |-> IF age[p] < MaxAge THEN age[p] + 1 ELSE age[p]]
  /\ IF InRound THEN /\ receiver.late < MaxLate
                     /\ receiver' = [receiver EXCEPT !.late = @ + 1]
                ELSE receiver' = receiver
  /\ UNCHANGED <<gateway, inbox, hb_alive, bound, disconnect, hb_state,
                 fds, held, answering>>

\* Mutants of Leak: nu_pinger closes its socket; the limit is not looked at.
LeakClosed(f) == f
LeakUnlimited(f) == IF f = Plenty THEN f ELSE f - 1

\* socket() or open(): a descriptor that is not given back.
Leak(f) == IF f = Plenty \/ f = 0 THEN f ELSE f - 1

\* The socket of an hb_send of this server, at every second of its own thread,
\* and what else its threads open for a moment.  Without a descriptor hb_send
\* does nothing; where they last there is nothing to tell.
HbSendSocket ==
  /\ Exists
  /\ held < MaxHeld /\ fds \in 1..MaxFd
  /\ fds' = fds - 1
  /\ held' = held + 1
  /\ UNCHANGED <<gateway, inbox, hb_alive, bound, age, disconnect, hb_state,
                 receiver, answering>>

HbSendClose ==
  /\ Exists
  /\ held > 0
  /\ fds' = fds + 1
  /\ held' = held - 1
  /\ UNCHANGED <<gateway, inbox, hb_alive, bound, age, disconnect, hb_state,
                 receiver, answering>>

HbExit ==
  /\ Exists
  /\ hb_alive
  /\ hb_alive' = FALSE
  /\ UNCHANGED <<gateway, inbox, bound, age, disconnect, hb_state, fds, held,
                 receiver, answering>>

\* hb_start writes the file anew.  create_receiver makes another socket, the
\* old one still has the port and bind fails, which is only printed.
HbStart ==
  /\ receiver.pc = "ended"
  /\ IF fds = 0
     THEN /\ receiver' = Begins("crashed", FALSE)
          /\ UNCHANGED <<inbox, hb_alive, bound, hb_state, fds>>
     ELSE /\ receiver' = AtStart
          /\ hb_alive' = TRUE
          /\ bound' = FALSE
          /\ inbox' = <<>>
          /\ hb_state' = [p \in Peer |-> "connect"]
          /\ fds' = Leak(fds)
  /\ UNCHANGED <<gateway, age, disconnect, held, answering>>

-----------------------------------------------------------------------------
(* hb_receiver and hb_receive                                              *)

\* The loop of hb_receiver: the time is taken and the file is read.
BeginRound ==
  /\ receiver.pc = "start"
  /\ receiver' = IF hb_alive
                 THEN Begins("recv", fds # 0)
                 ELSE Begins("ended", FALSE)
  /\ UNCHANGED <<gateway, inbox, hb_alive, bound, age, disconnect, hb_state,
                 fds, held, answering>>

\* recvfrom returns a datagram, or nothing after 50 ms.
Recv ==
  /\ receiver.pc = "recv"
  /\ receiver' = Goes("look", 1, 0)
  /\ IF inbox # <<>>
     THEN /\ inbox' = Tail(inbox)
          /\ age' = [age EXCEPT ![Head(inbox)] = 0]
     ELSE UNCHANGED <<inbox, age>>
  /\ UNCHANGED <<gateway, hb_alive, bound, disconnect, hb_state, fds, held,
                 answering>>

\* abs((hb_c - hb_time) / 1000)
Diff(p) == IF age[p] >= receiver.late THEN age[p] - receiver.late
           ELSE receiver.late - age[p]

Stale(p) == Diff(p) > Limit

EndRound ==
  /\ receiver.pc = "look"
  /\ receiver.i > Peers
  /\ receiver' = AtStart
  /\ UNCHANGED <<gateway, inbox, hb_alive, bound, age, disconnect, hb_state,
                 fds, held, answering>>

NextPeer == receiver' = Goes("look", receiver.i + 1, 0)

Crash == receiver' = Begins("crashed", FALSE)

\* What json_object_from_file gave, and fopen gives, is used unchecked.
FileFails(p, verdict) == ~ receiver.node \/ (hb_state[p] # verdict /\ fds = 0)

\* A peer that was down is up again: only then is the file looked at.
FindFresh ==
  LET p == receiver.i IN
  /\ receiver.pc = "look" /\ p <= Peers
  /\ ~ Stale(p)
  /\ disconnect' = [disconnect EXCEPT ![p] = CONNECT]
  /\ IF disconnect[p] = CONNECT
     THEN NextPeer /\ UNCHANGED hb_state
     ELSE IF FileFails(p, "connect") THEN Crash /\ UNCHANGED hb_state
     ELSE /\ hb_state' = [hb_state EXCEPT ![p] = "connect"]
          /\ NextPeer
  /\ UNCHANGED <<gateway, inbox, hb_alive, bound, age, fds, held, answering>>

\* nu_pinger opens a socket, which it does not close; when there is none just
\* now it returns 2, which is not an error to its caller.
FindStale ==
  LET p == receiver.i IN
  /\ receiver.pc = "look" /\ p <= Peers
  /\ Stale(p)
  /\ receiver' = IF fds = 0 THEN Goes("declare", p, 0)
                 ELSE Goes("ping", p, Tries)
  /\ fds' = Leak(fds)
  /\ answering' = gateway
  /\ UNCHANGED <<gateway, inbox, hb_alive, bound, age, disconnect, hb_state,
                 held>>

\* Mutant of Ping: the loop over the peers goes on when there is no answer.
PingIgnored ==
  /\ receiver.pc = "ping"
  /\ receiver' = IF ~ gateway /\ receiver.tries > 1
                 THEN Goes("ping", receiver.i, receiver.tries - 1)
                 ELSE Goes("declare", receiver.i, 0)
  /\ UNCHANGED <<gateway, inbox, hb_alive, bound, age, disconnect, hb_state,
                 fds, held, answering>>

\* Mutant of Ping: 0 > nu_pinger() the other way round.
PingInverted ==
  /\ receiver.pc = "ping"
  /\ receiver' = CASE gateway -> AtStart
                   [] ~ gateway /\ receiver.tries > 1 ->
                        Goes("ping", receiver.i, receiver.tries - 1)
                   [] OTHER -> Goes("declare", receiver.i, 0)
  /\ UNCHANGED <<gateway, inbox, hb_alive, bound, age, disconnect, hb_state,
                 fds, held, answering>>

\* An echo request, and a second for its answer.  When no try is answered the
\* loop over the peers ends.
Ping ==
  /\ receiver.pc = "ping"
  /\ receiver' = CASE gateway -> Goes("declare", receiver.i, 0)
                   [] ~ gateway /\ receiver.tries > 1 ->
                        Goes("ping", receiver.i, receiver.tries - 1)
                   [] OTHER -> AtStart
  /\ UNCHANGED <<gateway, inbox, hb_alive, bound, age, disconnect, hb_state,
                 fds, held, answering>>

\* Mutant of Declare: disconnect is not set.
DeclareOnFile ==
  LET p == receiver.i IN
  /\ receiver.pc = "declare"
  /\ hb_state' = [hb_state EXCEPT ![p] = "disconnect"]
  /\ NextPeer
  /\ answering' = FALSE
  /\ UNCHANGED <<gateway, inbox, hb_alive, bound, age, disconnect, fds, held>>

\* disconnect, the ioctl and the file.  For the ioctl strcmp reads teng_ip, a
\* pointer that ReadServerConfig does not set: that may be the end, too.
Declare ==
  LET p == receiver.i IN
  /\ receiver.pc = "declare"
  /\ disconnect' = [disconnect EXCEPT ![p] = DISCONNECT]
  /\ \/ /\ ~ FileFails(p, "disconnect")
        /\ hb_state' = [hb_state EXCEPT ![p] = "disconnect"]
        /\ NextPeer
     \/ /\ FileFails(p, "disconnect") \/ hb_state[p] = "connect"
        /\ Crash
        /\ UNCHANGED hb_state
  /\ answering' = FALSE
  /\ UNCHANGED <<gateway, inbox, hb_alive, bound, age, fds, held>>

-----------------------------------------------------------------------------
ReceiverStep ==
  BeginRound \/ Recv \/ EndRound \/ FindFresh \/ FindStale \/ Ping \/ Declare

Next ==
  \/ \E p \in Peer : HbSend(p)
  \/ GatewayGoesOrComes \/ Tick \/ HbSendSocket \/ HbSendClose
  \/ HbExit \/ HbStart
  \/ ReceiverStep

Spec == Init /\ [][Next]_vars

\* The threads run and the process uses some time; peers may send or not.
Fairness ==
  /\ WF_vars(ReceiverStep)
  /\ WF_vars(HbSendClose)
  /\ WF_vars(Tick)

FairSpec == Spec /\ Fairness

-----------------------------------------------------------------------------
\* The file and the process agree: a peer that the file calls disconnected has
\* its flag set.  Without it the peer's return would never reach the file.
FileAgrees ==
  receiver.pc # "crashed" =>
    \A p \in Peer : hb_state[p] = "disconnect" => disconnect[p] = DISCONNECT

\* A step that declares p.
Declares(p) == hb_state[p] = "connect" /\ hb_state'[p] = "disconnect"

\* "if my network is down" (line 358): a peer is declared only if the gateway
\* was up while it was asked about.  It is so as long as the descriptors last:
\* nu_pinger then has its socket, and an answer is what ends its tries.  Without
\* a socket it returns 2, which its caller takes for an answer, and the file may
\* be written all the same, with a descriptor that another thread gave back.
DeclaredWhenConnected ==
  [][fds = Plenty /\ (\E p \in Peer : Declares(p)) => answering]_vars

Running == Exists /\ hb_alive

Unread(p) == \E j \in 1..Len(inbox) : inbox[j] = p

\* A peer that stays silent is declared, while the gateway answers.
SilentIsDeclared ==
  \A p \in Peer :
    []Running /\ <>[](~ Unread(p) /\ gateway)
      => <>[](hb_state[p] = "disconnect")

\* A peer that goes on sending is recorded as connected again and again, while
\* the gateway answers, whatever the other peers do: if the descriptors last
\* and a round takes little processor time.
SenderIsConnected ==
  \A p \in Peer :
    /\ [](Running /\ fds = Plenty /\ receiver.late <= Limit)
    /\ []<>Unread(p) /\ <>[]gateway
    => []<>(hb_state[p] = "connect")

\* One peer that stays silent ends the process: every round leaves a socket of
\* nu_pinger open (line 243), and json_object_from_file, fopen and their
\* callers do without a check.  It takes only that the threads that give their
\* descriptors back do not have the last one each time that nu_pinger asks.
SilenceIsFatal ==
  \A p \in Peer :
    /\ []hb_alive /\ fds # Plenty
    /\ <>[](~ Unread(p) /\ gateway)
    /\ <>[](receiver.pc = "look" => held = 0)
    => <>(receiver.pc = "crashed")
=============================================================================
