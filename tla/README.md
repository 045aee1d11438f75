# A TLA+ development of jcm_controller

`jcm_controller` builds one shared block device out of the RAM disks of two
hosts. This directory holds TLA+ modules that model it, TLC configurations that
check them on small instances, and theorems about them that TLAPS checks for
every value of the constants. Line numbers below are those of
`src/jcm_controller/DMBD_BACKUP/jcm_controller.c` unless another file is named.

## 1. The system

### Components

| component | source | state | operations |
|---|---|---|---|
| controller | `jcm_controller.c` | `count`, `nbd_count`, `success_flag`, `unsuccess_flag`, `client_sock`, the receive buffer, the watched descriptors | the select loop and one handler per `cmd_type`; `msg_send`, `mount_msg_send`, `nbd_msg_send` |
| clients | `client/jcm_cliet.c`, `client/client.c`, `client/client_mount.c` | a connection, an uninitialised buffer | one request each; the first two wait for an answer |
| configuration files | `json_file.c`, `server_config`, `dmbd_config`, `nbd_config` | files | readers; `dmbd_config`, `nbd_config` and `mount_file` are written by the controller |
| RAM disk | `bestio/ramdisk.c` | a `vmalloc`ed area | `vrd_make_request`, a hook for the backup |
| backup queue | `bestio/main.c` | a FIFO of copied bios, a semaphore, a wake-up bit | producer `bestio_backup_bio`, consumer thread, exit |
| linear device | `vrd_2018_04_18.c` | the list of two devices, a global cursor `lh` | `device_make_request` maps a bio to a device, splitting it at the boundary |
| heartbeat | `dmbd_hb.c` | `hb_time`, `disconnect` of each node, the file `hb_state` | `hb_send`, `hb_receive`, `nu_pinger`; nothing starts it |

### How they interact

A setup goes through the following conversation. `A` is the coordinator, the
host that the client chose; `B` is its peer.

    client -> A   USER_SET_CONFIG                                (451)
    A -> B        CONTROLLER_SET_CONFIG      A blocks in read()  (69, 71)
    B -> A        CONTROL_SET_ON                                 (484)
    A -> B        the text of A's dmbd_config, A blocks again    (82, 85)
    B             overwrites dmbd_config, insmod bestio,
                  writes nbd_config, starts nbd-server           (395-426)
    B -> A        "success"                                      (433)
    A             count++; insmod bestio, nbd-client, insmod vrd (565-591)
    A -> B        NBD_SET_ON, on a new connection, A blocks      (183, 185)
    B -> A        NBD_CLIENT_LOAD                                (558)
    A -> client   "success", written to client_sock              (638)

A mount is `client_mount -> A`: `mount`; `A` mounts its RAM disk, writes
`mount_file` and sends `MOUNT_SET_ON` with its own ip to `B`, which writes its
`mount_file`; nobody answers.

Controllers share no memory; they interact through TCP connections, and with
the kernel through `insmod`, `nbd-server`, `nbd-client` and `mount`. A
controller has one thread, but it serves the peers of others and its own
clients with that thread, and it blocks in `read()` while it coordinates.

### What is hard

* Interleaving: both hosts may coordinate, clients connect at any time, and
  `client_sock`, `count`, `nbd_count`, the flags and the receive buffer are
  shared by all connections of a process.
* Failure: external commands fail, a controller is killed while modules and
  daemons of its host stay, and some exit codes are looked at and others not.
* Limits: sockets and files are not closed, so descriptors run out; none is
  close-on-exec, so the daemons that a controller starts have them, too.
* Stale data: descriptor numbers are reused; buffers are parsed again when
  `read()` fails; local buffers are used without having been filled.
* No framing, no retries, and no time-outs other than those of `select`.

`PROJECT.json` lists each hazard with its line and the properties that would
catch it going wrong.

### What makes each component correct

* Controller: the disk is assembled only from the RAM disks of all hosts; what
  a client is told is true; a coordinator gets out of its reads; a round leaves
  nothing behind that a later round counts; `mount_file` names a host that
  mounted; peers agree on the configuration.
* Backup queue: nothing queued is missed by the consumer, bios are written in
  order and once.
* RAM disk: once writes have stopped, the backup device holds what the RAM disk
  holds; it never goes back to something older; memory that is freed is not used.
* Linear device: every sector of a bio reaches the right sector of the right
  device, in any interleaving of submissions, and totals do not overflow. Of two
  submissions at once it is false.
* Heartbeat: a node that answers is not reported as disconnected for ever, one
  that stops answering is, nobody is while the own network is down, and `hb_state`
  agrees with `disconnect`.
* Configuration files: the host that exports a device and the host that attaches
  it use the same name and port.

## 2. Modules

| module | what it is |
|---|---|
| `Sockets` | the kernel, external to the repository: connections, backlog, descriptor tables |
| `Controller` | all controllers of the cluster and the client programs |
| `Setup` | what a setup promises: prepared on every host, assembled, told |
| `MCController`, `MCThree` | instances with two and with three servers |
| `ControllerProofs` | what each socket call preserves, the inductive invariant of `Controller` and its theorems |
| `SetupProofs` | what the counters of `Controller` mean: rounds are reset, and the disk is made of whole ramdisks |
| `AnswersProofs` | the conversation of two controllers: messages do not meet, answers fit their questions, the configurations agree, and `Controller` implements `Setup` |
| `BackupLog` | what the backup promises: bios written one by one, in the order accepted |
| `BackupQueue`, `MCBackup` | the hook, the thread and the removal of `bestio/main.c` |
| `BackupProofs` | its invariants, and that it implements `BackupLog` |
| `RamDisk`, `MCRamDisk` | `bestio/ramdisk.c` with the backup: extends `BackupQueue` by the contents of sectors |
| `RamDiskProofs` | what the backup holds |
| `LinearDevice`, `MCLinear` | the driver of `vrd_2018_04_18.c` in several contexts |
| `LinearProofs` | where bios go, for devices of any size |
| `Heartbeat`, `MCHeartbeat` | `dmbd_hb.c` as one server runs it |
| `HeartbeatProofs` | who is declared disconnected, and that the file agrees |
| `ConfigFiles`, `MCConfigFiles` | the readers of replicas in `json_file.c` |
| `ConfigFilesProofs` | what they return, for configurations of any size |

Two refinements connect them: `Controller` implements `Setup` as long as the
programs of nbd work, and `BackupQueue` implements `BackupLog`. `RamDisk` extends
`BackupQueue`: each of its steps is one of the queue with more done, or leaves the
queue alone. Otherwise the groups share no state: `Controller` loads the two
kernel modules (`InsmodBestio`, `InsmodVrd`), the others say what happens inside
them, and nothing in the repository starts the heartbeat or calls the readers of
replicas.

### Sockets

`Sockets` keeps the kernel's state in one record and defines each system call as
an operator from record to record, so a handler that makes several calls
composes them. Connection `k` has the end `k` on the connecting side and `-k` on
the accepting side. A descriptor holds an end or one of three markers: free, a
file, a socket whose `connect` failed. What the code depends on is kept:

* `connect` succeeds without the cooperation of the peer, up to the backlog;
* a new descriptor is the lowest free one, so numbers are reused;
* closing with unread data, or a listener that dies before it accepts, resets
  the connection; `read` reports the reset once (-1);
* a first `write` to an end that is gone succeeds, the next one is a SIGPIPE,
  which kills the writer;
* a daemon that a controller starts with `system()` inherits its sockets, since none
  is close-on-exec (207, 304). `kept` are the ends that daemons hold, `heirs` the
  hosts whose listening socket one of them has (`Inherit`). Neither the `close` nor
  the death of the controller is then felt at the other end; connections still
  queue up at the port, and `bind` (317) fails, so the controller cannot be
  started again.

Abstractions: a message is delivered at once and whole, so what one `write` sends
one `read` finds; several unread messages are read as the first one, because
json-c and `strcmp` stop at the first zero byte. The reset of a write to a closed
end is immediate. There is no loss of a connection without a crash. A daemon never
closes what it inherited.

### Controller

Variables: `net` (the kernel), `proc` (the memory of each process), `host` (what
outlives a process: modules, daemons, files), `client`. A handler runs to the
end of its work in one action, except where it blocks in `read()` or where a
crash between two external commands matters. `pc` names those places:

| `pc` | place |
|---|---|
| `loop` | `select` (342) and the reads it leads to (375) |
| `config` | between `insmod` of bestio (406) and `nbd-server` (412-429) |
| `answer` | before the answer to the coordinator (430-450) |
| `read_on`, `read_result` | the reads of `msg_send` (71, 85) |
| `assemble`, `module` | the block of `count == server_len-1`, before its external commands and before `insmod` of vrd (565, 589) |
| `read_nbd` | the read of `nbd_msg_send` (185) |
| `report` | the two tests below that block (625, 642) |
| `down` | not running |

| action | code |
|---|---|
| `AcceptClient` | 354-372: accept, and `client_sock` assigned before the result is tested |
| `ReadEof` | 375-382 |
| `ControllerSetConfig`, `Mount`, `MountSetOn`, `NbdSetOn` | the handlers of these commands, each followed by `Finish` (565-650) |
| `SetConfig`, `StartNbdServer`, `SetConfigDone` | no `cmd_type`: 388-411, 412-429, 430-450 |
| `UserSetConfig`, `MsgSendReadOn`, `MsgSendReadResult` | 451-472 with `msg_send`, 37-104 |
| `Assemble`, `AssembleModule`, `NbdMsgSendRead` | 565-624 with `nbd_msg_send`, 151-200 |
| `Report` | 625-650 |
| `Crash`, `Restart` | the process is killed; it is started by hand, unless a daemon has its port |
| `SetupRequest`, `SetupRead`, `MountRequest` | the client programs |

Nondeterminism stands for what the code leaves open: which ready descriptor is
served first (the code's order is by number, and which are ready together
depends on timing, so every order is allowed), exit codes of external
commands (`insmod` on the hosts of `Faulty`, `nbd-server` and `nbd-client` on those of
`NbdFaulty`), whether an `nbd-client` that attached stays as a daemon or ends, the
contents of buffers that are read without having been filled (`Answers`,
`NbdMsgSendRead`, `MsgSendReadOn` without a descriptor), whether `mount` succeeds,
and the byte after the unterminated "success" (638) that decides whether the
client's `strcmp` matches. The number in `client_sock` may by then name a
`dmbd_config` that was never closed (79, 395): the word goes into that file, which
may hold anything afterwards (`WriteClientSock`).

What is taken for granted: each `server_config` is the same on all hosts and
has no host twice; a well-formed `dmbd_config` lists every host; a
`dmbd_config` exists at first; the device names in it match what the linear
device opens (`/dev/nbd0`).

### BackupQueue

Lines are those of `bestio/main.c`. The module is what that file does once
`backup_init` has run; at this commit `my_init` and `my_exit` have the calls
commented out (225, 259). A bio is its number in the order of submission: its
data, pages and sector do not matter to the order in which bios move. Reads
leave the hook at once (73) and do not appear.

| variable | code |
|---|---|
| `q_sem_mutex`, `queue`, `bestio_condition` | the semaphore with its holder, the list, the wake-up bit |
| `writer[w]` | where a context is in `bestio_backup_bio`, and its copy of the bio |
| `thread` | where `bestio_backup_thread` is, and the bio it has taken |
| `inflight`, `written` | the bios at the backup device, and those it has completed |
| `module` | loaded, in `kthread_stop`, removed |

Every access to shared state is an action: `WriterDown`, `ListAddTail`, `WriterUp`
(94-96), `TestAndSetBit`, `WakeUp` (98-99), `ThreadDown`, `ListEmpty` with
`list_del`, `ThreadUp` (165-182), `WaitEvent`, `TimeOut`, `ClearBit` (168-169),
`SubmitBio` or `AllocFails`, `Completed` (105-153), `ShouldStop` (187),
`KthreadStop`, `ClearQueue` (244-250). `EndRequest` is the device: it completes
what it holds in any order. A wake-up takes the thread out of its wait only when
the bit is set, since `wait_event` tests its condition again; so the one of
`kthread_stop` does nothing, and a removal waits for the time-out.

`BackupLog` has `pending` and `written` only. The refinement maps `pending` to the
bio that the thread has taken, until the device has completed it, and the list.

### RamDisk

Lines are those of `bestio/ramdisk.c`. Contents are counted: `disk[s]` is the
number of writes that sector `s` has seen, `image[s]` which of them the backup
device holds. `request[w]` is where a context is in `vrd_make_request`, `extent` and
`page` the sectors and the pages of a copy, `filled` the sector that
`bestio_q_bio` copies next. A write is `RequestHooked` (47-61, with the call of
the hook in line 61, which is commented out), the steps of `BackupQueue` inside the
hook (`InHook`), then `CopyIn` for each sector (62-83). The copy that was queued
holds addresses in the RAM disk (`main.c:86`), so `CopyOut` (`main.c:119-140`) reads
what the RAM disk holds by then. `SetHook` is the end of `backup_init`; until it, a
write leaves no copy (`RequestUnhooked`). `WriteDone` is the device with
`bestio_backup_end_request`; `StopBackup`, `EndBackup`, `VrdExit` are the removal.

Three variables are history: `missed`, the sectors whose last write the thread
has not read and never will, `lost`, the bios for which there was no page, and
`freed`. A segment is one sector; a bio that is read changes nothing.

### LinearDevice

Lines are those of `vrd_2018_04_18.c`. `device_make_request` runs in every
context that submits a bio, and all of them use the global cursor `lh` (38), which
nothing protects. The module follows the source: each `lh->` of the loop is a read
of the global, each turn of line 50 a store, and each of them is an action, between
which any other context may move the cursor.

| action | code |
|---|---|
| `Submit` | the entry, and the check of line 45 |
| `Store`, `Loop` | the two parts of line 50: `lh` is assigned, and compared with the head of the list |
| `Select`, `Skip(p, "behind")` | 51 and 53: the bio begins behind the device; its size is added |
| `SelectAgain` | the comparison of line 56 |
| `CheckEnd` | 58 |
| `Send` | 70-73, the bio goes to the device of `lh` |
| `Split`, `SendRest`, `Skip(p, "front")` | 60, 61-64 and 65, with the BUGs of `bio_split` |
| `Advance` | the `continue`s: `lh` is read for the store of the next turn |

A bio is `at`, its first sector as the code sees it, `len`, and `home`, where it
was in the disk before any remapping, which no code looks at and properties
compare with. The cursor may become the head of the list, which holds no device:
`oops` stands for the use of its wild pointer, `dropped` for leaving the loop with
the bio neither handed on nor ended. Sizes are in sectors, `total_size` in bytes
modulo `UintRange`. A compiler may read `lh` less often than the source says; that
takes interleavings away and adds none.

### Heartbeat

Lines are those of `dmbd_hb.c`. One server, its peers and its gateway. `age[p]` is
`clock() - hb_time` of a peer and `receiver` the thread, with `late`, the
processor time since `hb_c` was taken. A round is `BeginRound`, `Recv` (334-357),
then for each peer `FindFresh` (401-416) or `FindStale`, `Ping` and `Declare`
(226-277, 368-400), and `EndRound`. `Ping` is one try of `nu_pinger`. `FindStale`
opens its socket, which stays open; `fds` counts what is left, from `MaxFd` down,
or `Plenty`. The other threads of the process take descriptors and give them back:
that is the socket of the server's own `hb_send`, at every second (289, 319).
`HbSendSocket` and `HbSendClose` stand for it, where descriptors are scarce, and
`held` for what they hold. So `nu_pinger` may find none although the file can be
written a moment later. `HbExit` and `HbStart` are the functions of those names
with `create_receiver`; after a second start the port is not bound. `Tick` is
processor time, of any thread, `GatewayGoesOrComes` the network, `HbSend` a peer's
`hb_send`. `hb_time` and `disconnect` start with anything. Where the code uses a
NULL that json-c or `fopen` returned, or the unset `teng_ip`, the process may end
(`Crash`).

Left out: the checksum and layout of the echo request, an answer that is late for
its try, and a receiver that has not ended when the heartbeat is started again.

### ConfigFiles

Lines are those of `json_file.c`. `ReadDMBDReplication` (85-157) takes the entry of
the own host in one step, or finds none and leaves its results unset (`NotFound`).
`ReadNBDReplication` takes one step for each entry of the file (167-238); what the
five loops inside do is the function `Filled`: the last matching place wins.
`wild` stands for a use of memory outside the arrays, after which nothing is
claimed. A name and its port are one value, and every place of a file has its own.

## 3. Properties

Safety, in `Controller`:

| property | says |
|---|---|
| `TypeOK` | the shapes of the variables |
| `MountFileNamesMounter`, `AnnouncementsTrue` (proved) | `mount_file` names a host that mounted; so does every announcement in a queue or a buffer, also one parsed again after a failing read |
| `DiskIsWhole` | vrd is loaded only when every host has its RAM disk |
| `ToldMeansAssembled` | as long as the programs of nbd work, a client that read "success" was told the truth: some coordinator has loaded vrd with the exports of all the others attached, and every host has its RAM disk |
| `RoundCountersReset` | with up to two servers nothing is carried over to the next round |
| `OneMessageAtATime` | the missing framing does no harm with two servers or more: two unread messages meet in one case, "success" behind the announcement of a mount |
| `AnswersInStep` | a coordinator blocked in a read is sent the answer to its last question and nothing else |
| `PeersShareConfig` | until somebody mounts, while nothing crashes and descriptors last, coordinator and peers share a configuration |
| `OnlyTwoServersAssemble` | with three servers no disk is ever assembled |
| `ImplementsSetup` | as long as the programs of nbd work, two hosts go through a setup in the order of `Setup`, whatever else fails, and take nothing back |

Liveness: `CoordinatorReturns`, `SetupSucceeds`, `MountAnnounced`, and
`EveryRequestAnswered`, which the code does not satisfy. `CoordinatorReturns` has one
exception, which the code has, too: the peer is dead, and its `nbd-server` keeps the
connection that the coordinator reads from. The stage `assembled` of `Setup` is
`Assembled`: vrd is loaded and the exports of all the others are attached. When
`nbd-client` or `nbd-server` fails, the code only prints it (582-585) or does not
look (426), and goes on to tell the client "success" of a disk without the peer;
both properties are stated, and proved, of the runs in which that does not
happen.

In `BackupQueue`:

| property | says |
|---|---|
| `OneAtTheQueue` | the list is touched by one context at a time |
| `NoMissedWakeup` | the thread does not sleep over a queued bio unless a writer is on its way to waking it |
| `WrittenOnce` | no bio is in two places, or written twice |
| `ImplementsLog` | bios complete in the order in which they were linked |

In `RamDisk`:

| property | says |
|---|---|
| `BackupAgrees` | when nothing is on its way, the backup device holds what the RAM disk holds, except in `missed` sectors |
| `ImageNeverGoesBack` | no sector of the backup returns to an older content |
| `FreedIsUnused` | nobody copies to or from the memory that `vrd_exit` has freed |
| `HookedIsWritten` | a queued bio is written, without the help of the time-out, unless it finds no memory or the module is removed |
| `RemovalEnds` | rmmod ends |

`BackupAgrees` is the answer to the order of lines 61 and 62: the thread may
overtake the copy, and then the backup keeps the old contents until the sector is
written again. Two writes whose copies are queued in one order and made in the
other do no harm, because a copy holds addresses and not data.

In `LinearDevice`:

| property | says |
|---|---|
| `RightSector` | as long as one context submits, no sector of a bio reaches a sector of a device other than its own; a bio across the boundary, whose halves change places (60-65), stops the context or is sent beyond the ends of the devices |
| `SelectsDevice` | a bio of one device reaches that device, once, at the right sector: false of two contexts |
| `SelectsAlone` | the same as long as one context submits |

In `Heartbeat`:

| property | says |
|---|---|
| `FileAgrees` | a peer that `hb_state` calls disconnected has its flag set |
| `DeclaredWhenConnected` | as long as descriptors last, a peer is declared only if the gateway was up while it was asked about |
| `SilentIsDeclared` | a peer that stays silent is declared, while the gateway answers |
| `SenderIsConnected` | a peer that goes on sending is recorded as connected again and again |
| `SilenceIsFatal` | one silent peer ends the process, since each round leaves a socket open, unless other threads hold the last descriptor each time that `nu_pinger` asks for one |

Nothing says that a peer is declared only after a silence: `hb_time` is not
initialised, and in the first round a peer may be declared that was never silent.
`SenderIsConnected` shows that it does not last.

In `ConfigFiles`: `PartnersAgree`, both ends of an export use the same name and port;
`WildOnlyIfUneven`, memory outside the arrays is used only for a host without an
entry or when a node has fewer replicas than the last one.

Fairness of `Controller` is weak fairness of `Handle(n)` for each host and of `SetupRead(c)` for
each client: the operating system lets every process run that can. A blocked
`read` is not enabled until there is something to read, so nothing is assumed
about the peer beyond its own fairness. Nothing is assumed of requests, crashes
and restarts: those may never happen, or happen again and again. Two handlers of
one controller compete under one fairness condition, as they do in the select
loop.

In `RamDisk` every context inside `vrd_make_request`, the thread, the device and
`rmmod` take their steps. The time-out of the wait is sure to come only while
the module is being removed, although the clock of the kernel never stops: so
`HookedIsWritten` says that the wake-ups alone suffice, and a bio is not merely
written a second late, while `RemovalEnds` does not hold without the time-out.

In `Heartbeat` the receiver runs, a thread that has a socket closes it
(`HbSendClose`), and the process uses some processor time (`Tick`): without it a
silent peer never gets older. Nothing is assumed of the peers and
the network but what a property names in its premise.

## 4. Runs

| run | question | instance | result |
|---|---|---|---|
| `basic` | types and mounts; a coordinator survives its peer; if nobody is killed, a setup succeeds and a mount is announced | 2 servers, 1 setup, 1 mount, one server may be killed and restarted, fairness; 7 connections, 8 descriptors | 31 708 states |
| `failures` | the disk, the stages of a setup, the counters, the framing and the answers when any module may fail and any controller be killed at any step | the same, all hosts in `Faulty` and `Crashable`; 6 connections, 6 descriptors | 64 431 |
| `coordinators` | two coordinators at once or in turn, one of them twice; who overwrites whose `dmbd_config` | 3 setups, the programs of nbd may fail; 9 connections, 12 descriptors | 401 119 |
| `three_servers` | three servers never assemble | 3 servers, 2 setups, 1 mount | 218 539 |
| `lost_answer` | is every request answered? | 1 setup, 1 mount, nobody is killed | violated |
| `refused_module` | the same when the peer's `insmod` fails | 1 setup, peer faulty | violated |
| `backup` | semaphore, wake-up bit, list; does the queue implement the log? | 3 writers, 4 bios, allocations may fail; symmetry of the writers | 562 282 |
| `ramdisk` | what does the backup hold; is a queued bio written without a time-out, and does a removal end with it? | 2 writers, 2 bios and 2 sectors, allocations may fail, fairness | 217 023 |
| `linear` | where the bios of a context go that submits alone | 2 contexts, two devices of 2 sectors, bios up to 3; symmetry of the contexts | 743 667 |
| `linear_race` | two contexts at once | the same, bios of one sector | violated |
| `heartbeat` | who is declared disconnected, when and for how long | 2 peers, 2 tries, rounds that may be slower than the limit, 1 descriptor, that another thread may hold, or plenty, fairness | 105 844 |
| `config_files` | both readers on every file | up to 2 entries, 2 nodes and 2 replicas | 799 754 |

Bounds. `MaxConns` limits the connections of a behaviour, which a controller
with more clients would exceed. A setup takes three connections, a mount two, and
in `basic`, `coordinators` and `three_servers` the limit is never met. In `failures` a
restarted coordinator could go on; the bound leaves room for a round that is broken
off and a part of the next. `MaxFd` stands for the limit of open files. In
`failures` the leaks of the handlers use the descriptors up, in `select` and in the
middle of a setup; in `basic` and `coordinators` they last, as `PeersShareConfig` needs.
In `coordinators` everybody who could interfere is a setup client: a mount ends what
the property claims. Symmetry is not used for controllers: `server_config` orders
the hosts. Deadlock is not checked: the system rests when all clients are done, and
the number of clients is finite.

In `backup` there are more bios than writers, so a writer meets the queue
again after the thread has emptied it. `MaxBios` also ends the behaviours, which
is why deadlock is not checked. Writers are interchangeable, and `ramdisk`,
which checks liveness, uses no symmetry (`ImplementsLog`, in `backup`, is a
property of states and steps). In `ramdisk` one write covers the whole disk and
one ends behind it; two contexts that write the same sectors, with the thread in
between, are what the properties are about. In `linear` bios start and end at,
before and behind every boundary, and one may cover a whole device and a sector of
the other. A context that returns submits again. What the properties say, they say
of a context that has been alone so far, which the second one is for: it may join
at any step. In `linear_race`, too, two contexts suffice for the cursor to move under
a context in the loop. `UintRange` stands for 2^32 and is larger than both devices.
Deadlock is not checked since every context may have died (`oops`).

In `heartbeat` the `Limit` is 0 and a round may use one unit, so that a round can
be above and below the limit; ages stop at `MaxAge`, above which no comparison
tells them apart. `MaxHeld` bounds what other threads hold at once. The rate at
which `clock()` runs is not modelled. Deadlock is not checked: a crashed process
does nothing. In `config_files` the order of entries, doubled entries of one host,
empty lists and lists of different lengths all occur.

The three violations are disagreements of the code with its clients, or with a
comment:

1. `lost_answer`: `client_sock` (360) is the connection accepted last, not the
   one that asked. A mount client, or the announcement of a mount by the
   peer, takes the "success". Between hosts it is worse: a peer that reads
   "success" without a `cmd_type` takes it for a `dmbd_config` (388), writes
   it to the file and dies in `ReadDMBDRemote`.
2. `refused_module`: the `continue` of line 409 makes the branch that
   answers "unsuccess" (440-447) unreachable.
3. `linear_race`: the loop under the comment `// select device`
   (`vrd_2018_04_18.c:49`) sends a bio of the first device to the second. The
   bio passes the comparisons (51-58) against the first, another context moves
   `lh` on, and `bio->bi_bdev = lh->bdev` (71) takes the device of that entry.

Other results, which are not runs. With three servers a setup is not answered:
`msg_send` connects one socket to all of them (63), which
`OnlyTwoServersAssemble` shows from the side of the disk. With one server the
tests of lines 565 and 625 hold at once, and "success" is sent whatever the
coordinator's own commands returned. With two setup clients two coordinators can
block each other for ever (each in the read of line 71), and a second setup
through a controller that has coordinated before, as its peer, is never
answered (390). Nothing in the repository promises the contrary of the last two.
Without `fds = Plenty` in `DeclaredWhenConnected`, with one peer, one descriptor and one
thread that may hold it, TLC finds a peer declared while the gateway is down:
`nu_pinger` finds no descriptor, returns 2 as for an answer (243), and the descriptor
is back when `hb_state` is opened (396).

Every property of a passing run has a mutant, an operator defined before
the definition it mutates, that changes it as a plausible bug would: a message
sent twice or not at all, a counter not reset, an exit code ignored, a wrong ip,
an existing file kept. With the mutant TLC finds the property violated.

## 5. Proofs

`ControllerProofs` first proves, for each operator of `Sockets`, that it maps a
kernel state over a set of messages to one over the same set and, for the
descriptor tables, that only the named slot of the named process changes.

It then proves an inductive invariant `IInv`. It is stated with the set
`Facts` of the messages that are true in the present state: `MOUNT_SET_ON` of a
host that has mounted, and any other message. `IInv` says that

* the kernel is a kernel over `Facts`, and so is the buffer of every process;
* `host` and `client` have their types;
* every `mount_file` is none or a host that mounted;
* a process with `pc` in a blocking read holds its own end in `sock`.

`TypeOK` alone is not inductive for the mounts: a handler turns a
message into a `mount_file`, so the messages in queues and buffers must be
true as well, also those in the buffer that a failing read parses again. `Facts`
only grows because `mounted` is never reset, which makes the invariant of the
others stable when one host mounts. There is one lemma per action, and
the theorems `TypeCorrect`, `MountFileCorrect` and `AnnouncementsCorrect` follow from
`Invariance`. They hold for any number of servers, clients, connections and
descriptors, with crashes, daemons that keep the sockets, and failing commands. The
assumptions are `BoundsAssumption`, `ServerAssumption` and
`ConfigAssumption`, which TLC evaluates in every run.

`SetupProofs` extends that invariant to `SInv`, from which follow `RoundsReset`,
`WholeDisk` and `TwoServersOnly`. None of these
properties is inductive, because what a controller counts is a word that another
process wrote long before. `SInv` follows that word:

* a connection that a controller opened is held, or waited for, at its other end by
  `FirstPeer` of that controller only; a number that was not given out has left no
  trace, and the connection of a client is held by no controller as its own (`Wired`,
  `Private`);
* if a "success" is on a connection that a controller holds, in its `reply` or in its
  `count`, then its first peer has its ramdisk (`ExpectsTrue`); with three servers or more
  it is in one place only, since a second `insmod` fails and only a successful
  one is answered;
* a "success" that waits for a client, with two servers or more, was written after
  some coordinator had loaded `vrd` (`ClientsTrue`);
* the counters agree with the point of the round where the process is (`Counted`), and a
  host between `insmod` and its answer has its ramdisk and answers a controller
  (`Configuring`).

A step of a controller changes at most one host, and takes nothing back
(`HostGrows`); what it may write where is `Sends`. Both are proved once for each
action, and used again in what follows.

`AnswersProofs` follows the messages themselves, for two servers or more. The
danger is `client_sock`: "success" goes to whatever that number names by then (638),
which may be one of the controller's own connections or the one by which its
peer asks it something. The invariant (`Talking`) has five parts:

* the kernel is `Sound`: an end has one holder, a waiting connection one listener,
  and a closed end nothing in its queue;
* on a connection that its opener reads there is the question, or the answer to
  it, or neither (`InTurn`); on every other at most a report towards the opener,
  and towards the listener at most one message, none of which is answered
  (`Idle`), or an announcement with a report behind it (`MisledReport`);
* a host about to answer "success" answers a controller that waits for it
  (`AboutToAnswer`), and no controller is ever told "unsuccess" (`Remembers`);
* from the "success" of its peer to its own report, a controller has accepted no
  connection by which somebody now asks it (`Deaf`): its peer has answered, so it
  does not ask, and meanwhile nothing is accepted;
* a host reports once, since `vrd` is loaded once; until then no report is on the
  way to a connection that it holds, but to one that somebody reads (`Unreported`).

From the last two a report never reaches a controller that waits for something
else, whatever the descriptors. `MessagesKeptApart` and `AnswersKeepStep` follow. The
exception of `OneMessageAtATime` was found by the proof and is real: a host whose
RAM disk is loaded accepts a setup request and two mounts, the second of which is
closed first, so that the other's announcement takes the number in `client_sock`, and
then reports before its peer has read the announcement. It takes more
connections than the runs have, where TLC finds no queue of two. The peer reads the
two as one announcement, and the client is never told.

A further section proves `PeersShareConfig` (`PeersAgree`), and that nobody dies
(`NobodyDies`), under the hypotheses its comment names: nobody is killed
(`Crashable = {}`) and every host keeps two descriptors free (`[]Spare`; a handler
takes a socket and opens a file). Commands may fail, and the number of servers and
clients is free; `NobodyDies` is about two servers or more, as is the conversation
it rests on. `PeersShareConfig` says nothing of the peers' answers, so
the invariant (`Agreed`, claimed while no mount client has asked) has to say whose
configuration is where:

* no connection is cut, i.e. who accepted it closes it last (`Unbroken`), so that no
  write raises SIGPIPE; hence no controller leaves its loop (`SteadyHost`);
* what goes to a listener is the request of a client, or the question that a controller
  waits to see answered, and a "config" carries the `dmbd_config` which that
  controller still has (`SentOn`);
* a host that has configured itself and not yet answered has the `dmbd_config` of
  the one that asked, and the latter still waits (`Configured`);
* until it reports, a host has closed nothing that it accepted, and `client_sock` names
  a connection that it accepted (`NamesClient`, `Keeps`); this keeps the report off
  the connections that it opened;
* from the moment an answer of a peer is in its queue a coordinator is `Bound`, and
  with two servers all configurations are then `Alike`; they stay so, because
  every "config" on its way is a copy of one of them.

With three servers or more nobody sets `success_flag` (`OnlyTwoServersAssemble`),
and a single server has no peer. Neither hypothesis can be dropped. With
`Crashable = {a, b}` in `coordinators.cfg` and two setup clients TLC finds a coordinator killed
after its first question. Its peer closes that connection, whose number `client_sock`
still has, and becomes a coordinator itself; the number is given to its own
connection, on which the report then goes out, and the other host stores "success"
as its `dmbd_config`. With `MaxFd = 5` TLC finds a coordinator, successful once and
asked again, that has no descriptor left to open its `dmbd_config` and sends a
buffer nobody filled. The hypotheses are those of real behaviours: with `MaxFd = 20` and
modules that may fail, TLC finds `Spare` and the invariant true in every state with
three setup clients (297 331 states), and with two and a mount client (1 394 657).

The last section proves `ToldTrue` and `SetupRefinement`, for two servers or more
(a single server counts nobody, so it writes "success" also when `insmod` fails)
and `NbdFaulty = {}`. `Counted` and `ExpectsTrue` say that the ramdisks are there when vrd
is loaded, but not that the others are attached: what `nbd-client` attaches
depends on what has been exported by then. The invariant (`Exports`) follows the
word "success" once more. Who is about to answer it has started `nbd-server`;
hence the first peer of whoever has counted it, or has it in the queue that it
reads for a result (`Promised`), is exported; hence a coordinator that goes on to
load vrd has attached the exports of all the others. The word might also be a
report, which says nothing of an export: but no report goes to a controller that
waits for a result (`Deaf`, `InTurn`). A step of a controller is then at most one
stage of `Setup` (`HandleStage`): vrd is loaded on what is attached already, so
`Assembled` grows by one host where `AssembleModule` succeeds, and nowhere else.
Neither hypothesis can be dropped, as the code counts a failing `nbd-client`.

`BackupProofs`. `NoMissedWakeup` is not inductive: it says nothing of the
thread on its way to its wait. The invariant adds two reasons why a
wake-up is not missed: while the thread is about to wait, or asleep, with the
bit clear, a bio in the list has a writer that is about to set the bit
(`BitComes`); while it sleeps with the bit set, a writer is about to wake it
(`WakeComes`). The refinement needs that at most one bio is at the
device, the one that the thread waits for (`Waited`); each action is then shown
to be a step of the log or to leave `pending` and `written` alone.

`BackupOnce` needs a third invariant (`Once`): the bios that
writers hold, those in the list, the one in the thread's hand and those
written are all different and below `made`; lemmas on sequences without
repetition carry it through `Append`, `Tail` and `\o`.

`RamDiskProofs`. The module extends that of the queue, so the invariants above hold
of it (`StepQueue`). Those of the contents are: a context that copies covers what its
queued copy covers from there on (`Requested`); the thread is inside the extent of
its copy (`Copying`); the RAM disk is never behind the image or a page, and a page
on its way to the device never behind the image (`Contents`); a sector that was not
missed is up to date on the device, in a page on its way there, or in the part of a
queued copy that is yet to be read (`Saved`); and in what order things are removed
(`Removed`).
`BackupAgrees` alone says nothing until all is quiet.

`HeartbeatProofs`. The invariant says what holds at each `pc`: at `ping` and
`declare` the loop looks at a peer (`AtPeer`), and at `declare` the gateway had been
up while it was asked, or descriptors are scarce (`AtAnswer`); what is given back
never makes scarce descriptors `Plenty` (`Scarce`). `ConnectedOnly` is about
descriptors that last, and needs nothing of the other threads.

`LinearProofs`. `LinearTypes` holds of any number of contexts. `NoOverflow` (the
disk in bytes is below `UintRange`) is a hypothesis of the others, since with
larger devices the code accepts only part of the disk. `AloneSafe` and
`AloneSelected` follow the course of a bio (`Course`) as long as one context submits:
at each `pc` the cursor, which nobody else moves, and the bio are those of the first
device, of the second behind `before`, or of one across the boundary, where
everything that is sent is outside the device it is sent to. The second context
may appear at any step; the invariant then claims nothing more.

`ConfigFilesProofs`. The readers are loops over arrays, so the invariant (`CInv`)
says what the turns so far have done: a replica whose place in the file is behind
the cursor `i` has the export that the file gives it there (`Agreed`), and the
result keeps the shape of the host's own entry (`Shaped`). `EntryOf` and
`LastMatch` are CHOOSE expressions, for the first entry of a host and the last
match in an entry; that there is a first and a last comes from the library's
`WFMin` and `NatLessThanWellFounded`, which take a set and need no induction.

Every safety invariant and action property that the passing runs check, the liveness
ones aside, is thus a theorem: `PeersShareConfig`, `ToldMeansAssembled`,
`ImplementsSetup`, `RightSector` and `SelectsAlone` under the hypotheses above. Only
model-checked are the liveness properties, which are out of the prover's reach.
`AnnouncementsTrue` is proved and no run checks it: the run `basic` checks
`MountFileNamesMounter`, which it is there for.

## 6. What is left

Theorems worth proving next: that `Spare` follows from a bound on the requests, by
counting the descriptors that each handler leaks.

Not modelled: a `server_config` with one host, where both counter tests hold
at once (see above); a linear device whose size in bytes overflows an unsigned
int, of which the theorems make a hypothesis; `in_cksum`, whose result only the
network looks at; a heartbeat that is started while the old receiver runs;
option parsing, logging, the text of messages and files, `device_exit`, build
files and the kernel's build output, the scripts.
