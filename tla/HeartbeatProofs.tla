-------------------------- MODULE HeartbeatProofs --------------------------
(***************************************************************************)
(* Theorems about Heartbeat, for any number of servers, limits and         *)
(* descriptors: the file agrees with the process, and a server is declared *)
(* down only when the gateway answered, if the descriptors last.           *)
(***************************************************************************)
EXTENDS Heartbeat, SequenceTheorems, TLAPS

\* The loop looks at a peer as long as nu_pinger or its caller is at work.
AtPeer == receiver.pc \in {"ping", "declare"} => receiver.i \in Peer

\* The history variable sees the gateway for as long as nu_pinger asks, and the
\* peer is declared because the gateway answered, or for want of a socket.
AtAnswer ==
  /\ receiver.pc = "ping" /\ gateway => answering
  /\ receiver.pc = "declare" => answering \/ fds # Plenty

\* Scarce descriptors never become plenty, whatever is given back.
Scarce == IF fds = Plenty THEN held = 0 ELSE fds + held <= MaxFd

IInv == TypeOK /\ FileAgrees /\ AtPeer /\ AtAnswer /\ Scarce

\* Every action of the module that is not a step of the receiver.
Around ==
  \/ \E p \in Peer : HbSend(p)
  \/ GatewayGoesOrComes \/ Tick \/ HbSendSocket \/ HbSendClose
  \/ HbExit \/ HbStart

\* The arithmetic of the bounds.
LEMMA Bounds ==
  /\ Peers \in Nat /\ Limit \in Nat /\ MaxLate \in Nat /\ Tries \in Nat
  /\ Tries > 0 /\ Peers > 0 /\ MaxFd \in Nat
  /\ MaxAge \in Nat /\ MaxAge > Limit /\ MaxAge >= MaxLate
  /\ Plenty \in Nat /\ Plenty = MaxFd + 1 /\ MaxHeld \in Nat
BY HeartbeatAssumption DEF MaxAge, Plenty

Pc == {"start", "recv", "look", "ping", "declare", "ended", "crashed"}

\* The receiver at the start of a round is well formed, wherever it goes next.
LEMMA BeginsWellFormed ==
  ASSUME NEW pc \in Pc, NEW n \in BOOLEAN
  PROVE  Begins(pc, n) \in Receiver /\ Begins(pc, n).pc = pc
BY Bounds DEF Begins, Receiver, Pc

\* So is one that goes from one statement to another.
LEMMA GoesWellFormed ==
  ASSUME receiver \in Receiver, NEW pc \in Pc, NEW i \in 1..(Peers + 1),
         NEW t \in 0..Tries
  PROVE  /\ Goes(pc, i, t) \in Receiver
         /\ Goes(pc, i, t).pc = pc
         /\ Goes(pc, i, t).i = i
         /\ Goes(pc, i, t).late = receiver.late
BY DEF Goes, Receiver, Pc

\* And one whose round has used more time.
LEMMA LateWellFormed ==
  ASSUME receiver \in Receiver, receiver.late < MaxLate,
         receiver' = [receiver EXCEPT !.late = @ + 1]
  PROVE  /\ receiver' \in Receiver
         /\ receiver'.pc = receiver.pc /\ receiver'.i = receiver.i
         /\ receiver'.late = receiver.late + 1
<1>1. receiver.late \in Nat /\ receiver.late + 1 \in 0..MaxLate
  BY Bounds DEF Receiver
<1> QED BY <1>1 DEF Receiver

\* A descriptor that leaks leaves fewer, if they are scarce, and never less
\* than none.
LEMMA LeakBounds ==
  ASSUME NEW f \in 0..Plenty
  PROVE  /\ Leak(f) \in 0..Plenty
         /\ IF f = Plenty THEN Leak(f) = Plenty ELSE Leak(f) <= f
BY Bounds DEF Leak

LEMMA LeakScarce ==
  ASSUME TypeOK, Scarce, fds' = Leak(fds), held' = held
  PROVE  fds' \in 0..Plenty /\ Scarce'
BY LeakBounds, Bounds DEF TypeOK, Scarce

\* hb_start and create_receiver establish the invariant.
LEMMA InitInvariant == Init => IInv
<1> SUFFICES ASSUME Init PROVE IInv
  OBVIOUS
<1>1. receiver \in Receiver /\ receiver.pc = "start"
  BY BeginsWellFormed DEF Init, AtStart, Pc
<1>2. TypeOK
  <2>1. inbox \in Seq(Peer) BY EmptySeq DEF Init
  <2>2. fds \in 0..Plenty /\ held \in 0..MaxHeld BY Bounds DEF Init
  <2>3. hb_state \in [Peer -> {"connect", "disconnect"}] BY DEF Init
  <2> QED BY <1>1, <2>1, <2>2, <2>3 DEF Init, TypeOK
<1>3. FileAgrees /\ AtPeer /\ AtAnswer
  BY <1>1 DEF Init, FileAgrees, AtPeer, AtAnswer
<1>4. Scarce BY Bounds DEF Init, Scarce
<1> QED BY <1>2, <1>3, <1>4 DEF IInv

\* What happens around the receiver keeps the invariant: a gateway that comes
\* back during nu_pinger is noted, and what is given back was taken.
LEMMA AroundInvariant == IInv /\ Around => IInv'
<1> SUFFICES ASSUME IInv, Around PROVE IInv'
  OBVIOUS
<1> USE Bounds DEF IInv, TypeOK, FileAgrees, AtPeer, AtAnswer, Scarce, Exists
<1>1. ASSUME NEW p \in Peer, HbSend(p) PROVE IInv'
  <2>1. inbox' \in Seq(Peer) BY <1>1 DEF HbSend
  <2> QED BY <1>1, <2>1 DEF HbSend
<1>2. CASE GatewayGoesOrComes BY <1>2 DEF GatewayGoesOrComes
<1>3. CASE Tick
  <2>1. age' \in [Peer -> 0..MaxAge] BY <1>3 DEF Tick
  <2>3. /\ receiver' \in Receiver
        /\ receiver'.pc = receiver.pc /\ receiver'.i = receiver.i
    <3>1. CASE InRound
      <4>1. receiver.late < MaxLate /\ receiver' = [receiver EXCEPT !.late = @ + 1]
        BY <1>3, <3>1 DEF Tick
      <4>2. receiver.late \in Nat BY DEF Receiver
      <4> QED BY <4>1, <4>2, LateWellFormed
    <3>2. CASE ~ InRound
      <4>1. receiver.late \in Nat BY DEF Receiver
      <4> QED BY <1>3, <3>2, <4>1 DEF Tick
    <3> QED BY <3>1, <3>2
  <2>4. FileAgrees' /\ AtPeer' /\ AtAnswer' /\ Scarce' BY <1>3, <2>3 DEF Tick
  <2> QED BY <1>3, <2>1, <2>3, <2>4 DEF Tick
<1>4. CASE HbExit BY <1>4 DEF HbExit
<1>5. CASE HbStart
  <2>1. /\ receiver' \in Receiver
        /\ receiver'.pc \in {"start", "crashed"}
    BY <1>5, BeginsWellFormed DEF HbStart, AtStart, Pc
  <2>2. fds' \in 0..Plenty /\ held' \in 0..MaxHeld /\ Scarce'
    <3>1. held' = held /\ (fds' = fds \/ fds' = Leak(fds)) BY <1>5 DEF HbStart
    <3> QED BY <3>1, LeakScarce
  <2>3. hb_state' \in [Peer -> {"connect", "disconnect"}]
    BY <1>5 DEF HbStart
  <2>4. FileAgrees' BY <1>5, BeginsWellFormed DEF HbStart, AtStart, Pc
  <2>5. AtPeer' /\ AtAnswer' BY <2>1
  <2>6. inbox' \in Seq(Peer) BY <1>5, EmptySeq DEF HbStart
  <2> QED BY <1>5, <2>1, <2>2, <2>3, <2>4, <2>5, <2>6 DEF HbStart
<1>6. CASE HbSendSocket BY <1>6 DEF HbSendSocket
<1>7. CASE HbSendClose BY <1>7 DEF HbSendClose
<1> QED BY <1>1, <1>2, <1>3, <1>4, <1>5, <1>6, <1>7 DEF Around

\* The steps of a round keep the invariant.
LEMMA ReceiverInvariant == IInv /\ ReceiverStep => IInv'
<1> SUFFICES ASSUME IInv, ReceiverStep PROVE IInv'
  OBVIOUS
<1> USE DEF IInv, TypeOK, FileAgrees, AtPeer, AtAnswer
<1>0. UNCHANGED <<fds, held>> => Scarce' BY DEF Scarce
<1>1. CASE BeginRound
  <2>1. /\ receiver' \in Receiver
        /\ receiver'.pc \in {"recv", "ended"}
    BY <1>1, BeginsWellFormed DEF BeginRound, Pc
  <2> QED BY <1>0, <1>1, <2>1 DEF BeginRound
<1>2. CASE Recv
  <2>0. 0 \in 0..MaxAge BY Bounds
  <2>1. receiver' \in Receiver /\ receiver'.pc = "look"
    <3>1. 0 \in 0..Tries /\ 1 \in 1..(Peers + 1) BY Bounds
    <3> QED BY <1>2, <3>1, GoesWellFormed DEF Recv, Pc
  <2>2. inbox' \in Seq(Peer) /\ age' \in [Peer -> 0..MaxAge]
    <3>1. CASE inbox = <<>> BY <1>2, <3>1 DEF Recv
    <3>2. CASE inbox # <<>>
      <4>1. Head(inbox) \in Peer /\ Tail(inbox) \in Seq(Peer)
        BY <3>2, HeadTailProperties
      <4> QED BY <1>2, <3>2, <4>1, <2>0 DEF Recv
    <3> QED BY <3>1, <3>2
  <2> QED BY <1>0, <1>2, <2>1, <2>2 DEF Recv
<1>3. CASE EndRound
  <2>1. receiver' \in Receiver /\ receiver'.pc = "start"
    BY <1>3, BeginsWellFormed DEF EndRound, AtStart, Pc
  <2> QED BY <1>0, <1>3, <2>1 DEF EndRound
<1>4. CASE FindFresh
  <2>1. receiver.i \in Peer
    BY <1>4, Bounds DEF FindFresh, Peer, Receiver
  <2>3. /\ receiver' \in Receiver
        /\ receiver'.pc \in {"look", "crashed"}
    <3>1. receiver.i + 1 \in 1..(Peers + 1) /\ 0 \in 0..Tries
      BY <2>1, Bounds DEF Peer
    <3>2. CASE NextPeer BY <3>1, <3>2, GoesWellFormed DEF NextPeer, Pc
    <3>3. CASE Crash BY <3>3, BeginsWellFormed DEF Crash, Pc
    <3> QED BY <1>4, <3>2, <3>3 DEF FindFresh
  <2>4. AtPeer' /\ AtAnswer' BY <2>3
  <2>5. FileAgrees'
    BY <1>4, <2>1, BeginsWellFormed DEF FindFresh, Crash, Pc
  <2>6. hb_state' \in [Peer -> {"connect", "disconnect"}]
    BY <1>4 DEF FindFresh
  <2> QED BY <1>0, <1>4, <2>3, <2>4, <2>5, <2>6 DEF FindFresh
<1>5. CASE FindStale
  <2>1. receiver.i \in Peer BY <1>5, Bounds DEF FindStale, Peer, Receiver
  <2>2. /\ receiver' \in Receiver /\ receiver'.i = receiver.i
        /\ receiver'.late = receiver.late
        /\ receiver'.pc = IF fds = 0 THEN "declare" ELSE "ping"
    <3>1. 0 \in 0..Tries /\ Tries \in 0..Tries /\ receiver.i \in 1..(Peers + 1)
      BY <2>1, Bounds DEF Peer
    <3> QED BY <1>5, <3>1, GoesWellFormed DEF FindStale, Pc
  <2>3. fds' \in 0..Plenty /\ Scarce' /\ (fds = Plenty => fds # 0)
    BY <1>5, LeakScarce, Bounds DEF FindStale
  <2>4. fds # Plenty => fds' # Plenty
    BY <1>5, LeakBounds, Bounds DEF FindStale
  <2>5. AtPeer' /\ AtAnswer' BY <1>5, <2>1, <2>2, <2>3, <2>4 DEF FindStale
  <2> QED BY <1>5, <2>2, <2>3, <2>5 DEF FindStale
<1>6. CASE Ping
  <2>1. /\ receiver.tries \in 0..Tries /\ 0 \in 0..Tries
        /\ receiver.i \in 1..(Peers + 1)
    BY Bounds DEF Receiver
  <2>2. CASE gateway
    <3>1. /\ receiver' \in Receiver /\ receiver'.i = receiver.i
          /\ receiver'.late = receiver.late /\ receiver'.pc = "declare"
      <4>1. receiver' = Goes("declare", receiver.i, 0)
        BY <1>6, <2>2 DEF Ping
      <4> QED BY <4>1, <2>1, GoesWellFormed DEF Pc
    <3> QED BY <1>0, <1>6, <2>2, <3>1 DEF Ping
  <2>3. CASE ~ gateway /\ receiver.tries > 1
    <3>1. receiver.tries - 1 \in 0..Tries BY <2>1, <2>3, Bounds
    <3>2. receiver' = Goes("ping", receiver.i, receiver.tries - 1)
      BY <1>6, <2>3 DEF Ping
    <3>4. /\ receiver' \in Receiver /\ receiver'.i = receiver.i
          /\ receiver'.late = receiver.late /\ receiver'.pc = "ping"
      BY <2>1, <3>1, <3>2, GoesWellFormed DEF Pc
    <3> QED BY <1>0, <1>6, <2>3, <3>4 DEF Ping
  <2>4. CASE ~ gateway /\ ~ receiver.tries > 1
    <3>1. receiver' \in Receiver /\ receiver'.pc = "start"
      BY <1>6, <2>4, BeginsWellFormed DEF Ping, AtStart, Pc
    <3> QED BY <1>0, <1>6, <3>1 DEF Ping
  <2> QED BY <2>2, <2>3, <2>4
<1>7. CASE Declare
  <2>1. receiver.i \in Peer BY <1>7 DEF Declare
  <2>3. /\ receiver' \in Receiver
        /\ receiver'.pc \in {"look", "crashed"}
    <3>1. receiver.i + 1 \in 1..(Peers + 1) /\ 0 \in 0..Tries
      BY <2>1, Bounds DEF Peer
    <3>2. CASE NextPeer BY <3>1, <3>2, GoesWellFormed DEF NextPeer, Pc
    <3>3. CASE Crash BY <3>3, BeginsWellFormed DEF Crash, Pc
    <3> QED BY <1>7, <3>2, <3>3 DEF Declare
  <2>4. AtPeer' /\ AtAnswer' BY <2>3
  <2>5. FileAgrees'
    BY <1>7, <2>1, BeginsWellFormed DEF Declare, Crash, Pc
  <2>6. hb_state' \in [Peer -> {"connect", "disconnect"}]
    BY <1>7 DEF Declare
  <2> QED BY <1>0, <1>7, <2>3, <2>4, <2>5, <2>6 DEF Declare
<1> QED BY <1>1, <1>2, <1>3, <1>4, <1>5, <1>6, <1>7 DEF ReceiverStep

\* IInv holds of every reachable state.
THEOREM HeartbeatInvariance == Spec => []IInv
<1>1. IInv /\ [Next]_vars => IInv'
  <2> SUFFICES ASSUME IInv, [Next]_vars PROVE IInv'
    OBVIOUS
  <2>1. CASE Around BY <2>1, AroundInvariant
  <2>2. CASE ReceiverStep BY <2>2, ReceiverInvariant
  <2>3. CASE UNCHANGED vars
    BY <2>3 DEF vars, IInv, TypeOK, FileAgrees, AtPeer, AtAnswer, Scarce
  <2> QED BY <2>1, <2>2, <2>3 DEF Next, Around
<1> QED BY InitInvariant, <1>1, PTL DEF Spec

\* The variables of the heartbeat keep their shapes.
THEOREM HeartbeatTypes == Spec => []TypeOK
<1>1. IInv => TypeOK BY DEF IInv
<1> QED BY HeartbeatInvariance, <1>1, PTL

\* hb_state never calls a server disconnected that the process has for connected.
THEOREM HeartbeatFile == Spec => []FileAgrees
<1>1. IInv => FileAgrees BY DEF IInv
<1> QED BY HeartbeatInvariance, <1>1, PTL

\* The only step that declares a peer is the one of Declare that reaches fopen.
LEMMA DeclaringStep ==
  ASSUME IInv, [Next]_vars, NEW p \in Peer, Declares(p)
  PROVE  receiver.pc = "declare"
<1> USE DEF Declares, IInv, TypeOK
<1>1. CASE Around
  BY <1>1 DEF Around, HbSend, GatewayGoesOrComes, Tick, HbSendSocket,
     HbSendClose, HbExit, HbStart
<1>2. CASE Declare BY <1>2 DEF Declare, FileFails
<1>3. CASE FindFresh BY <1>3 DEF FindFresh
<1>4. CASE BeginRound \/ Recv \/ EndRound \/ FindStale \/ Ping
  BY <1>4 DEF BeginRound, Recv, EndRound, FindStale, Ping
<1>5. CASE UNCHANGED vars BY <1>5 DEF vars
<1> QED BY <1>1, <1>2, <1>3, <1>4, <1>5 DEF Next, Around, ReceiverStep

\* While the descriptors last, no server is declared down unless the gateway
\* was up while it was asked about.
THEOREM ConnectedOnly == Spec => DeclaredWhenConnected
<1>1. IInv /\ [Next]_vars =>
        [fds = Plenty /\ (\E p \in Peer : Declares(p)) => answering]_vars
  BY DeclaringStep DEF IInv, AtAnswer
<1> QED BY HeartbeatInvariance, <1>1, PTL DEF Spec, DeclaredWhenConnected
=============================================================================
