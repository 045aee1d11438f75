----------------------------- MODULE Controller -----------------------------
(***************************************************************************)
(* The cluster of jcm_controller processes: jcm_controller.c and the       *)
(* clients that talk to it (client/jcm_cliet.c, client/client.c,           *)
(* client/client_mount.c).                                                 *)
(*                                                                         *)
(* Every host of server_config runs one single-threaded controller.  A     *)
(* setup client asks one of them, the coordinator, to build the shared     *)
(* disk: the coordinator hands its dmbd_config to its peer, which loads    *)
(* the ramdisk module (bestio) and exports it with nbd-server; the         *)
(* coordinator then loads its own ramdisk, attaches the export with        *)
(* nbd-client, loads the module that concatenates both (vrd), and tells    *)
(* the client "success".  A mount client asks a controller to mount its    *)
(* ramdisk, and the controller announces that to its peer.                 *)
(*                                                                         *)
(* A controller handles one message at a time, to the end, but the handler *)
(* of USER_SET_CONFIG blocks in read() inside msg_send and nbd_msg_send,   *)
(* so a handler is cut into steps where it blocks, and where a crash       *)
(* between two external commands would leave the host half configured.     *)
(***************************************************************************)
EXTENDS Sockets

CONSTANTS
  server_config,  \* the hosts in the order of the file server_config
  Config,         \* well-formed contents of dmbd_config: they list every host
  InitialConfig,  \* what dmbd_config holds on each host at first
  Garbage,        \* contents of dmbd_config that json-c cannot parse
  None,
  SetupClient,    \* runs of jcm_cliet / client
  MountClient,    \* runs of client_mount
  Faulty,         \* hosts whose insmod may fail
  NbdFaulty,      \* hosts whose nbd-server and nbd-client may fail
  Crashable       \* hosts whose controller may be killed

Client == SetupClient \cup MountClient

server_len == Len(server_config)

ASSUME ServerAssumption ==
  /\ server_config \in Seq(Server)
  /\ server_len >= 1
  /\ Server = {server_config[k] : k \in 1..server_len}
  /\ \A k, l \in 1..server_len : server_config[k] = server_config[l] => k = l

ASSUME ConfigAssumption ==
  /\ InitialConfig \in [Server -> Config]
  /\ Garbage \notin Config
  /\ None \notin Server

VARIABLES
  net,      \* the kernel's sockets and descriptors
  proc,     \* the memory of each controller process
  host,     \* modules, daemons and files of each host: they outlive a crash
  client    \* the client programs

vars == <<net, proc, host, client>>

\* The words of the protocol; those of Command arrive in a "cmd_type".
Command == {"USER_SET_CONFIG", "CONTROLLER_SET_CONFIG", "mount",
            "MOUNT_SET_ON", "NBD_SET_ON"}
Word == Command \cup {"config", "success", "unsuccess",
                      "CONTROL_SET_ON", "NBD_CLIENT_LOAD"}

\* "config" stands for the contents of a dmbd_config, sent without a cmd_type.
Message ==
  [word : Word \ {"config", "MOUNT_SET_ON"}, arg : {None}]
    \cup [word : {"config"}, arg : Config \cup {Garbage}]
    \cup [word : {"MOUNT_SET_ON"}, arg : Server]

\* Mutant of Say: the message has no argument at all.
SayBare(word) == [word |-> word]

Say(word) == [word |-> word, arg |-> None]

Pc == {"down", "loop", "config", "answer", "read_on", "read_result",
       "assemble", "module", "read_nbd", "report"}

\* i and buffer are main's, sock and reply those of the sending function.
Process ==
  [ pc : Pc, i : Fd \cup {NoFd}, buffer : Message,
    sock : Fd \cup {NoFd}, reply : Word \cup {"eof"},
    count : Nat, nbd_count : Nat, success_flag : {0, 1},
    unsuccess_flag : {0, 1}, client_sock : Fd \cup {NoFd} ]

\* A buffer without any text: it has no cmd_type either.
Empty == [word |-> "config", arg |-> Garbage]

\* main() up to the select loop.
Started ==
  [ pc |-> "loop", i |-> NoFd, buffer |-> Empty,
    sock |-> NoFd, reply |-> "eof",
    count |-> 0, nbd_count |-> 0, success_flag |-> 0,
    unsuccess_flag |-> 0, client_sock |-> NoFd ]

Host ==
  [ bestio : BOOLEAN, nbd_server : BOOLEAN, attached : SUBSET Server,
    vrd : BOOLEAN, mounted : BOOLEAN,
    dmbd_config : Config \cup {Garbage}, mount_file : Server \cup {None} ]

Init ==
  /\ net = Boot
  /\ proc = [n \in Server |-> Started]
  /\ host = [n \in Server |->
       [ bestio |-> FALSE, nbd_server |-> FALSE, attached |-> {},
         vrd |-> FALSE, mounted |-> FALSE,
         dmbd_config |-> InitialConfig[n], mount_file |-> None ]]
  /\ client = [c \in Client |-> [st |-> "init", end |-> 0]]

-----------------------------------------------------------------------------
(* What the handlers are made of.                                          *)

\* The three sending loops skip my_node and reuse one socket: after the first
\* peer, connect() fails with EISCONN and the function returns 0.
FirstPeer(n) == IF server_config[1] = n THEN server_config[2]
                                        ELSE server_config[1]

\* connect() to n is not refused: also when nobody is there to accept.
Listens(n, w) == proc[n].pc # "down" \/ n \in w.heirs

Reaches(n, w) ==
  server_len > 1 /\ HasFd(w, n) /\ Listens(FirstPeer(n), w)

\* Mutants of SendTo: write() forgotten; write() retried.
SendToSilent(n, w, m) ==
  IF Reaches(n, w) THEN Take(Connect(w, FirstPeer(n)), n, w.made + 1)
                   ELSE Take(w, n, Unconnected)

SendToTwice(n, w, m) ==
  IF Reaches(n, w)
  THEN Write(Write(Take(Connect(w, FirstPeer(n)), n, w.made + 1),
                   w.made + 1, m), w.made + 1, m)
  ELSE Take(w, n, Unconnected)

\* socket() and connect(), and write() of m once connected; the socket is
\* never closed, connected or not.
SendTo(n, w, m) ==
  IF Reaches(n, w)
  THEN Write(Take(Connect(w, FirstPeer(n)), n, w.made + 1), w.made + 1, m)
  ELSE Take(w, n, Unconnected)

\* The bound on connections is not a limit of the program.
Room == net.made < MaxConns

\* Mutant of Finish: the first peer counted is enough.
FinishEarly(p) ==
  [p EXCEPT !.pc = IF p.count > 0 THEN "assemble" ELSE "loop"]

\* Below the dispatch on cmd_type, the end of every handler that does not
\* "continue": the counters decide whether there is something left to do.
\* assemble: count == server_len-1.  report: the two ifs after that block.
Finish(p) ==
  [p EXCEPT !.pc = IF p.count = server_len - 1 THEN "assemble"
                   ELSE IF \/ p.nbd_count = server_len - 1
                           \/ p.unsuccess_flag = 1
                   THEN "report" ELSE "loop"]

\* Mutant of FinishAssembly: count is not reset.
FinishAssemblyKeep(p) ==
  [p EXCEPT !.pc = IF p.nbd_count = server_len - 1 THEN "report" ELSE "loop"]

\* The rest of the block of count == server_len-1, from "count =0" on.
FinishAssembly(p) == LET q == [p EXCEPT !.count = 0]
                     IN  [q EXCEPT !.pc =
                            IF \/ q.nbd_count = server_len - 1
                               \/ q.unsuccess_flag = 1
                            THEN "report" ELSE "loop"]

\* The process is killed by a signal: its memory and descriptors are gone.
Die(n, w) ==
  /\ net' = Exit(w, n)
  /\ proc' = [proc EXCEPT ![n] = [Started EXCEPT !.pc = "down"]]

Become(n, w, p) ==
  /\ net' = w
  /\ proc' = [proc EXCEPT ![n] = p]

\* write() on a connection, then go on as p.
Reply(n, w, e, m, p) ==
  IF Sigpipe(w, e) THEN Die(n, w) ELSE Become(n, Write(w, e, m), p)

\* ReadDMBDRemote dereferences NULL when the file cannot be opened or parsed.
ReadDMBDRemoteOk(n, w, h) == HasFd(w, n) /\ h.dmbd_config # Garbage

\* Exit codes of insmod, which refuses a module that is already loaded.
InsmodBestio(n) == IF host[n].bestio THEN {FALSE}
                   ELSE IF n \in Faulty THEN BOOLEAN ELSE {TRUE}

\* device_init opens /dev/bestioa and /dev/nbd0; whether there is an nbd0 that
\* nobody attached depends on the kernel's configuration.
InsmodVrd(n) ==
  IF host[n].vrd \/ ~ host[n].bestio THEN {FALSE}
  ELSE IF n \in Faulty \/ host[n].attached = {} THEN BOOLEAN ELSE {TRUE}

\* Mutant of NbdClient: the "if" of line 577 is that of line 571.
NbdClientOwn(n) == {{m \in {n} : host[m].nbd_server}}

\* nbd-client attaches the exports it is pointed at; errors are only printed.
NbdClient(n) ==
  LET exports == {m \in Server \ {n} : host[m].nbd_server}
  IN  IF n \in NbdFaulty THEN SUBSET exports ELSE {exports}

-----------------------------------------------------------------------------
(* The select loop.  A watched descriptor is one that holds the accepted   *)
(* end of a connection: fs_status is FD_SET at accept and FD_CLR at close. *)

\* client_sock is assigned before the result of accept() is looked at.
AcceptClient(n) ==
  /\ proc[n].pc = "loop"
  /\ net.backlog[n] # <<>>
  /\ IF HasFd(net, n)
     THEN Become(n, Accept(net, n),
                 [proc[n] EXCEPT !.client_sock = LowestFd(net, n)])
     ELSE Become(n, net, [proc[n] EXCEPT !.client_sock = NoFd])
  /\ UNCHANGED <<host, client>>

Watched(n, f) == proc[n].pc = "loop" /\ net.fdt[n][f] < 0

\* read() == 0: buffer[0] is cleared and the descriptor closed.
ReadEof(n, f) ==
  LET e == net.fdt[n][f] IN
  /\ Watched(n, f)
  /\ net.inq[e] = <<>>
  /\ Hung(net, e)
  /\ net.err[e] # "reset"
  /\ Become(n, Close(net, n, f), [proc[n] EXCEPT !.buffer = Empty])
  /\ UNCHANGED <<host, client>>

\* read() != 0.  Two messages that arrived together are read as the first
\* one; on an error (-1) the buffer still holds what was read before.
Incoming(n, f) ==
  LET e == net.fdt[n][f] IN
  IF net.inq[e] # <<>> THEN Head(net.inq[e]) ELSE proc[n].buffer

Receives(n, f, words) ==
  /\ Watched(n, f)
  /\ \/ net.inq[net.fdt[n][f]] # <<>>
     \/ net.err[net.fdt[n][f]] = "reset"
  /\ Incoming(n, f).word \in words

AfterRead(n, f) == Drain(net, net.fdt[n][f])

WithBuffer(n, f) ==
  [proc[n] EXCEPT !.buffer = Incoming(n, f), !.i = f]

-----------------------------------------------------------------------------
(* Handlers that do not block.                                             *)

\* cmd_type == "CONTROLLER_SET_CONFIG"
ControllerSetConfig(n, f) ==
  /\ Receives(n, f, {"CONTROLLER_SET_CONFIG"})
  /\ Reply(n, AfterRead(n, f), net.fdt[n][f], Say("CONTROL_SET_ON"),
           Finish(WithBuffer(n, f)))
  /\ UNCHANGED <<host, client>>

\* Mutant of StoreConfig: an existing dmbd_config is left as it is.
StoreConfigOnce(n, m) == host[n]

\* open(dmbd_config, O_CREAT|O_TRUNC) and write() of what was received.
StoreConfig(n, m) ==
  [host[n] EXCEPT !.dmbd_config = IF m.word = "config" THEN m.arg ELSE Garbage]

\* Mutant of AfterInsmod: the exit code is ignored, as it is for the others.
AfterInsmodIgnored(p, ok) == [p EXCEPT !.pc = "config"]

\* A failing insmod is a "continue": nothing is written back.
AfterInsmod(p, ok) == IF ok THEN [p EXCEPT !.pc = "config"] ELSE p

\* No cmd_type: the bytes are taken for a dmbd_config, whatever they are.
SetConfig(n, f) ==
  LET m == Incoming(n, f)
      w == AfterRead(n, f)
      p == WithBuffer(n, f)
      v == Take(w, n, File)                       \* config is never closed
      h == IF HasFd(w, n) THEN StoreConfig(n, m) ELSE host[n]
  IN
  /\ Receives(n, f, Word \ Command)
  /\ IF p.success_flag = 1
     THEN Become(n, w, p) /\ UNCHANGED host
     ELSE IF ~ ReadDMBDRemoteOk(n, v, h)
     THEN Die(n, v) /\ host' = [host EXCEPT ![n] = h]
     ELSE \E ok \in InsmodBestio(n) :
            /\ host' = [host EXCEPT ![n] =
                          [h EXCEPT !.bestio = ok \/ h.bestio]]
            /\ Become(n, v, AfterInsmod(p, ok))
  /\ UNCHANGED client

\* ... continued after a successful insmod: nbd-server, a daemon; its exit code
\* is ignored.
StartNbdServer(n) ==
  /\ proc[n].pc = "config"
  /\ \E ok \in (IF n \in NbdFaulty THEN BOOLEAN ELSE {TRUE}) :
       /\ host' = [host EXCEPT ![n].nbd_server = ok \/ @]
       /\ Become(n, IF ok THEN Inherit(net, n) ELSE net,
                 [proc[n] EXCEPT !.pc = "answer"])
  /\ UNCHANGED client

\* ... and the answer.
SetConfigDone(n) ==
  /\ proc[n].pc = "answer"
  /\ Reply(n, net, net.fdt[n][proc[n].i], Say("success"), Finish(proc[n]))
  /\ UNCHANGED <<host, client>>

\* Mutants of MountMsgSend: the ip of the receiver; no message.
MountMsgSendPeerIp(n, w) ==
  SendTo(n, w, [word |-> "MOUNT_SET_ON", arg |-> FirstPeer(n)])

MountMsgSendNone(n, w) == w

\* mount_msg_send() of this host's ip; it does not wait for an answer.
MountMsgSend(n, w) == SendTo(n, w, [word |-> "MOUNT_SET_ON", arg |-> n])

\* cmd_type == "mount": mount(), mount_file, mount_msg_send.
Mount(n, f) ==
  LET w == AfterRead(n, f)
      p == WithBuffer(n, f)
  IN
  /\ Receives(n, f, {"mount"})
  /\ Room
  /\ \E ok \in (IF host[n].bestio THEN BOOLEAN ELSE {FALSE}) :
       IF ~ ok
       THEN Become(n, w, p) /\ UNCHANGED host
       ELSE IF ~ HasFd(w, n)                      \* fopen returns NULL
       THEN Die(n, w) /\ host' = [host EXCEPT ![n].mounted = TRUE]
       ELSE /\ host' = [host EXCEPT ![n] =
                          [host[n] EXCEPT !.mounted = TRUE, !.mount_file = n]]
            /\ Become(n, MountMsgSend(n, w), Finish(p))
  /\ UNCHANGED client

\* cmd_type == "MOUNT_SET_ON"
MountSetOn(n, f) ==
  LET w == AfterRead(n, f)
      p == WithBuffer(n, f)
  IN
  /\ Receives(n, f, {"MOUNT_SET_ON"})
  /\ IF ~ HasFd(w, n)
     THEN Die(n, w) /\ UNCHANGED host
     ELSE /\ host' = [host EXCEPT ![n].mount_file = Incoming(n, f).arg]
          /\ Become(n, w, Finish(p))
  /\ UNCHANGED client

\* cmd_type == "NBD_SET_ON"
NbdSetOn(n, f) ==
  LET w == AfterRead(n, f) IN
  /\ Receives(n, f, {"NBD_SET_ON"})
  /\ IF ReadDMBDRemoteOk(n, w, host[n])
     THEN Reply(n, w, net.fdt[n][f], Say("NBD_CLIENT_LOAD"),
                Finish(WithBuffer(n, f)))
     ELSE Die(n, w)
  /\ UNCHANGED <<host, client>>

-----------------------------------------------------------------------------
(* The coordinator: USER_SET_CONFIG, msg_send, and what follows it.        *)

\* Mutant of UserSetConfig: msg_send does not read the acknowledgement.
UserSetConfigNoWait(n, f) ==
  LET w == AfterRead(n, f) IN
  /\ Receives(n, f, {"USER_SET_CONFIG"}) /\ Room /\ Reaches(n, w)
  /\ Become(n, SendTo(n, w, Say("CONTROLLER_SET_CONFIG")),
            [WithBuffer(n, f) EXCEPT !.pc = "read_result", !.sock = LowestFd(w, n)])
  /\ UNCHANGED <<host, client>>

UserSetConfig(n, f) ==
  LET w == AfterRead(n, f)
      p == WithBuffer(n, f)
  IN
  /\ Receives(n, f, {"USER_SET_CONFIG"})
  /\ Room
  /\ IF server_len = 1 THEN Become(n, w, Finish(p))
     ELSE Become(n, SendTo(n, w, Say("CONTROLLER_SET_CONFIG")),
                 IF Reaches(n, w)
                 THEN [p EXCEPT !.pc = "read_on", !.sock = LowestFd(w, n)]
                 ELSE Finish(p))
  /\ UNCHANGED <<host, client>>

SockEnd(n) == net.fdt[n][proc[n].sock]

\* What the local buffer may hold after a read() on the outgoing socket has
\* returned: the answer, nothing at end of file, and what it held before when
\* read() failed.
Answers(n, before) ==
  LET e == SockEnd(n) IN
  IF net.inq[e] # <<>> THEN {Head(net.inq[e]).word}
  ELSE IF net.err[e] = "reset" THEN before
  ELSE {"eof"}

\* First read of msg_send: on CONTROL_SET_ON, send the file dmbd_config, whose
\* descriptor is never closed.  Without a descriptor for it, the bytes sent are
\* those of an unset buffer.  (If read() fails, the local buffer is unset too,
\* and may or may not hold the expected word.)
MsgSendReadOn(n) ==
  LET e == SockEnd(n)
      w == Drain(net, e)
  IN
  /\ proc[n].pc = "read_on"
  /\ Readable(net, e)
  /\ \E reply \in Answers(n, {"CONTROL_SET_ON", "eof"}),
        c \in (IF HasFd(w, n) THEN {host[n].dmbd_config}
              ELSE Config \cup {Garbage}) :
       LET p == [proc[n] EXCEPT !.pc = "read_result", !.reply = reply] IN
       IF reply = "CONTROL_SET_ON"
       THEN Reply(n, Take(w, n, File), e, [word |-> "config", arg |-> c], p)
       ELSE Become(n, w, p)
  /\ UNCHANGED <<host, client>>

\* Second read of msg_send.
MsgSendReadResult(n) ==
  /\ proc[n].pc = "read_result"
  /\ Readable(net, SockEnd(n))
  /\ \E reply \in Answers(n, {proc[n].reply}) :
       Become(n, Drain(net, SockEnd(n)),
         Finish([proc[n] EXCEPT
           !.reply = "eof", !.sock = NoFd,
           !.count = IF reply = "success" THEN @ + 1 ELSE @,
           !.unsuccess_flag = IF reply = "unsuccess" THEN 1 ELSE @]))
  /\ UNCHANGED <<host, client>>

\* count == server_len-1: insmod of bestio, its exit code ignored, and one
\* nbd-client for each other host.  One that attaches may stay or end.
Assemble(n) ==
  /\ proc[n].pc = "assemble"
  /\ IF ReadDMBDRemoteOk(n, net, host[n])
     THEN \E ok \in InsmodBestio(n), S \in NbdClient(n) :
          \E stays \in (IF S \subseteq host[n].attached THEN {FALSE} ELSE BOOLEAN) :
            /\ host' = [host EXCEPT ![n] =
                 [host[n] EXCEPT !.bestio = ok \/ @, !.attached = @ \cup S]]
            /\ Become(n, IF stays THEN Inherit(net, n) ELSE net,
                      [proc[n] EXCEPT !.pc = "module"])
     ELSE Die(n, net) /\ UNCHANGED host
  /\ UNCHANGED client

\* insmod of vrd, and nbd_msg_send when it worked and somebody was counted.
AssembleModule(n) ==
  /\ proc[n].pc = "module"
  /\ Room
  /\ \E ok \in InsmodVrd(n) :
       /\ host' = [host EXCEPT ![n].vrd = ok \/ @]
       /\ IF ok /\ proc[n].count # 0
          THEN Become(n, SendTo(n, net, Say("NBD_SET_ON")),
                 IF Reaches(n, net)
                 THEN [proc[n] EXCEPT !.pc = "read_nbd",
                                      !.sock = LowestFd(net, n)]
                 ELSE FinishAssembly(proc[n]))
          ELSE Become(n, net, FinishAssembly(proc[n]))
  /\ UNCHANGED client

\* The read of nbd_msg_send.  Its buffer is not terminated, so at end of file
\* too it keeps what happened to be on the stack.
NbdMsgSendRead(n) ==
  /\ proc[n].pc = "read_nbd"
  /\ Readable(net, SockEnd(n))
  /\ \E reply \in (IF net.inq[SockEnd(n)] = <<>>
                   THEN {"NBD_CLIENT_LOAD", "eof"} ELSE Answers(n, {})) :
       Become(n, Drain(net, SockEnd(n)),
         FinishAssembly([proc[n] EXCEPT
           !.sock = NoFd,
           !.nbd_count = IF reply = "NBD_CLIENT_LOAD" THEN @ + 1 ELSE @]))
  /\ UNCHANGED <<host, client>>

\* write(client_sock, ...), where client_sock is a number that may name
\* nothing, another connection by now, or a dmbd_config that was never closed
\* (lines 79 and 395): the word then goes into that file, wherever its offset
\* is, and leaves the text as it was, spoils it, or makes another one of it.
WriteClientSock(n, word, p) ==
  LET s == IF proc[n].client_sock = NoFd THEN Free
           ELSE net.fdt[n][proc[n].client_sock]
  IN  \/ s \in End /\ Reply(n, net, s, Say(word), p) /\ UNCHANGED host
      \/ s = Unconnected /\ Die(n, net) /\ UNCHANGED host
      \/ s = Free /\ Become(n, net, p) /\ UNCHANGED host
      \/ /\ s = File
         /\ Become(n, net, p)
         /\ \E text \in Config \cup {Garbage} :
              host' = [host EXCEPT ![n].dmbd_config = text]

\* nbd_count == server_len-1, then unsuccess_flag == 1.
Report(n) ==
  /\ proc[n].pc = "report"
  /\ IF proc[n].nbd_count = server_len - 1
     THEN IF ReadDMBDRemoteOk(n, net, host[n])
          THEN WriteClientSock(n, "success",
                 [proc[n] EXCEPT
                    !.success_flag = 1, !.nbd_count = 0,
                    !.pc = IF proc[n].unsuccess_flag = 1
                           THEN "report" ELSE "loop"])
          ELSE Die(n, net) /\ UNCHANGED host
     ELSE WriteClientSock(n, "unsuccess",
            [proc[n] EXCEPT !.unsuccess_flag = 0, !.pc = "loop"])
  /\ UNCHANGED client

-----------------------------------------------------------------------------
(* A controller is killed (pkill -9, a signal) and started again by hand.  *)

Crash(n) ==
  /\ n \in Crashable
  /\ proc[n].pc # "down"
  /\ Die(n, net)
  /\ UNCHANGED <<host, client>>

\* bind() fails, and main returns, as long as a daemon has the listening socket.
Restart(n) ==
  /\ proc[n].pc = "down"
  /\ n \notin net.heirs
  /\ proc' = [proc EXCEPT ![n] = Started]
  /\ UNCHANGED <<net, host, client>>

-----------------------------------------------------------------------------
(* The client programs, each run once against a host of its choice.        *)

\* connect() and write(): a refused client prints an error and exits.
Request(c, n, word, after) ==
  /\ client[c].st = "init"
  /\ Room
  /\ IF ~ Listens(n, net)
     THEN /\ client' = [client EXCEPT ![c].st = "refused"]
          /\ UNCHANGED net
     ELSE LET k == net.made + 1
              w == Write(Connect(net, n), k, Say(word))
          IN  /\ client' = [client EXCEPT ![c] = [st |-> after, end |-> k]]
              /\ net' = IF after = "gone" THEN CloseEnds(w, {k}, {}) ELSE w
  /\ UNCHANGED <<proc, host>>

SetupRequest(c, n) == Request(c, n, "USER_SET_CONFIG", "waiting")

\* client_mount closes its connection without reading anything.
MountRequest(c, n) == Request(c, n, "mount", "gone")

\* "success" is sent without its terminating zero, and buf is not initialised:
\* whether strcmp matches depends on the byte after it.  When it does not, or
\* when something else was read, the client reads on for ever.
SetupRead(c) ==
  LET k == client[c].end IN
  /\ client[c].st \in {"waiting", "missed"}
  /\ net.inq[k] # <<>>
  /\ \E st \in (IF Head(net.inq[k]).word = "unsuccess" THEN {"failed"}
                ELSE IF /\ net.inq[k] = <<Say("success")>>
                        /\ client[c].st = "waiting" THEN {"told", "missed"}
                ELSE {"missed"}) :
       /\ client' = [client EXCEPT ![c].st = st]
       /\ net' = IF st = "missed" THEN Drain(net, k)
                 ELSE CloseEnds(Drain(net, k), {k}, {})
  /\ UNCHANGED <<proc, host>>

-----------------------------------------------------------------------------
Handle(n) ==
  \/ AcceptClient(n)
  \/ \E f \in Fd : \/ ReadEof(n, f)
                   \/ ControllerSetConfig(n, f)
                   \/ SetConfig(n, f)
                   \/ Mount(n, f)
                   \/ MountSetOn(n, f)
                   \/ NbdSetOn(n, f)
                   \/ UserSetConfig(n, f)
  \/ StartNbdServer(n)
  \/ SetConfigDone(n)
  \/ MsgSendReadOn(n)
  \/ MsgSendReadResult(n)
  \/ Assemble(n)
  \/ AssembleModule(n)
  \/ NbdMsgSendRead(n)
  \/ Report(n)

Ask == \E n \in Server : \/ \E c \in SetupClient : SetupRequest(c, n)
                         \/ \E c \in MountClient : MountRequest(c, n)

Next ==
  \/ \E n \in Server : Handle(n) \/ Crash(n) \/ Restart(n)
  \/ Ask
  \/ \E c \in SetupClient : SetupRead(c)

Fairness ==
  /\ \A n \in Server : WF_vars(Handle(n))
  /\ \A c \in SetupClient : WF_vars(SetupRead(c))

Spec == Init /\ [][Next]_vars

FairSpec == Spec /\ Fairness

-----------------------------------------------------------------------------
ClientState ==
  [ st : {"init", "refused", "waiting", "gone", "told", "failed", "missed"},
    end : {0} \cup Conn ]

\* The variables have the shapes that the C declarations give them.
TypeOK ==
  /\ net \in Kernel(Message)
  /\ proc \in [Server -> Process]
  /\ host \in [Server -> Host]
  /\ client \in [Client -> ClientState]

-----------------------------------------------------------------------------
(* Safety.                                                                 *)

\* A mount_file names a host whose ramdisk is mounted: it is written after a
\* mount() that succeeded (line 516), or from the announcement of a host that
\* mounted (line 536), however long the announcement waited to be read.
MountFileNamesMounter ==
  \A n \in Server : host[n].mount_file # None =>
                      host[host[n].mount_file].mounted

\* What makes it so: an announcement on its way, or still in the buffer that a
\* failing read() (line 375) makes the controller parse once more, is true.
AnnouncementsTrue ==
  LET Holds(m) == m.word = "MOUNT_SET_ON" => host[m.arg].mounted IN
  /\ \A e \in End : \A j \in 1..Len(net.inq[e]) : Holds(net.inq[e][j])
  /\ \A n \in Server : Holds(proc[n].buffer)

\* The module that concatenates the two ramdisks is loaded only when every
\* host has its own: the exit code of the peer's insmod travels through the
\* "success" of line 432 and count, that of the coordinator's is ignored
\* (line 574), and rounds, crashes and stale descriptors mix the answers.
DiskIsWhole ==
  \A n \in Server : host[n].vrd => \A m \in Server : host[m].bestio

\* The hosts whose disk is made of the ramdisks of all: vrd is loaded, and the
\* exports of the others are attached.
Assembled == {n \in Server : host[n].vrd /\ host[n].attached = Server \ {n}}

\* What jcm_cliet prints is true: when it read "success", some coordinator has
\* assembled a disk out of every host's ramdisk.  It is true for as long as the
\* programs of nbd work: their failing is printed (line 584), or not even that
\* (line 426), and counted as success.
ToldMeansAssembled ==
  \A c \in SetupClient : client[c].st = "told" =>
    Assembled # {} /\ \A m \in Server : host[m].bestio

\* A cluster of two or more goes through a setup as Setup says: no crash, stale
\* descriptor, unset buffer or module that fails to load makes it skip or take
\* back a stage, as long as the programs of nbd work.
Stages == INSTANCE Setup
            WITH Server <- Server, SetupClient <- SetupClient,
                 prepared  <- {n \in Server : host[n].bestio},
                 assembled <- Assembled,
                 told      <- {c \in SetupClient : client[c].st = "told"}

ImplementsSetup == Stages!SetupSpec

\* With up to two servers, a controller waiting in select carries no answer
\* over from an earlier round: count and nbd_count, which no request resets,
\* are zero again, whatever failed or died in that round.
RoundCountersReset ==
  server_len <= 2 =>
    \A n \in Server : proc[n].pc = "loop" =>
                        proc[n].count = 0 /\ proc[n].nbd_count = 0

\* The programs take what one read() returns for one message and have no framing
\* (lines 71, 85, 185 and 375).  With two servers or more, whoever dies and
\* whatever client_sock names by then, two messages meet unread in one case
\* only: "success" written behind the announcement of a mount.
OneMessageAtATime ==
  server_len >= 2 =>
    \A e \in End :
      LET q == net.inq[e] IN
      \/ Len(q) <= 1
      \/ Len(q) = 2 /\ q[1].word = "MOUNT_SET_ON" /\ q[2].word = "success"

\* A controller blocked in a read() of msg_send or nbd_msg_send (lines 71, 85
\* and 185) is sent the answer to its last question and nothing else: not that
\* of an earlier round, nor a report meant for a client whose number it took.
\* The answer is on its way only when the question was read.
AnswersInStep ==
  \A n \in Server : proc[n].pc \in {"read_on", "read_result", "read_nbd"} =>
    LET k == SockEnd(n)
        answer == CASE proc[n].pc = "read_on"     -> "CONTROL_SET_ON"
                    [] proc[n].pc = "read_result" -> "success"
                    [] proc[n].pc = "read_nbd"    -> "NBD_CLIENT_LOAD"
    IN  /\ net.inq[k] \in {<<>>, <<Say(answer)>>}
        /\ net.inq[k] = <<>> \/ net.inq[-k] = <<>>

\* Until somebody asks for a mount, while nobody is killed and descriptors last,
\* a coordinator that reported success and its peers have the same dmbd_config.
PeersShareConfig ==
  (\A c \in MountClient : client[c].st = "init") =>
    \A n, m \in Server : proc[n].success_flag = 1 =>
                           host[m].dmbd_config = host[n].dmbd_config

\* The sending loops visit every server with one socket, and a connected
\* socket cannot connect again: with three servers or more, count stays below
\* server_len-1 and no disk is assembled, however often one tries.
OnlyTwoServersAssemble ==
  server_len > 2 => \A n \in Server : ~ host[n].vrd

(* Progress, when there is one setup client.                               *)

\* A coordinator does not stay in a read() of msg_send or nbd_msg_send: its
\* peer answers, or the peer's death ends the read, unless a daemon that the
\* peer started has inherited the connection (lines 207, 304 and 426) and keeps
\* it, and the peer's port, for good.
CoordinatorReturns ==
  \A n \in Server :
    LET p == FirstPeer(n)
    IN  proc[n].pc \in {"read_on", "read_result", "read_nbd"}
          ~> \/ proc[n].pc \in {"loop", "down"}
             \/ proc[p].pc = "down" /\ p \in net.heirs

\* No controller that may be killed is down at any time.
NobodyKilled == [](\A n \in Crashable : proc[n].pc # "down")

\* A setup request that a controller accepts leads to the success of a
\* coordinator, when no module fails to load and no controller is killed.
SetupSucceeds ==
  NobodyKilled =>
    \A c \in SetupClient : client[c].st = "waiting"
                             ~> \E n \in Server : proc[n].success_flag = 1

\* A mount becomes known in the mount_file of every host, when only one host
\* mounts and no controller is killed.
MountAnnounced ==
  NobodyKilled =>
    \A n \in Server : host[n].mounted
                        ~> \A m \in Server : host[m].mount_file = n

\* What the loop of jcm_cliet.c, lines 79-92, waits for: an answer.
EveryRequestAnswered ==
  \A c \in SetupClient : client[c].st = "waiting"
                           ~> client[c].st \in {"told", "failed", "missed"}
=============================================================================
