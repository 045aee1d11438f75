---------------------------- MODULE ConfigFiles ----------------------------
(***************************************************************************)
(* The readers of the "replica" part of a configuration, json_file.c:      *)
(* ReadDMBDReplication takes the entry of one host, ReadNBDReplication     *)
(* then replaces its exports by those that the other hosts give to the     *)
(* replicas they hold on a device of their own.  The parameters of the     *)
(* second are the results of the first; nothing calls them at this commit. *)
(*                                                                         *)
(* nbd_export stands for the name of an export and its port, which are     *)
(* copied together.                                                        *)
(***************************************************************************)
EXTENDS Integers, Sequences

CONSTANTS
  Host,      \* the ips of a configuration
  Export,
  Files,     \* the "replica" arrays that are read
  MaxLen     \* bound on the lengths left uninitialised

Info  == [replica_ip : Host, dev : {"disk", "nbd"}, nbd_export : Export]
Node  == [node_ip : Host, replica_info : Seq(Info)]
Entry == [local_ip : Host, set_info : Seq(Node)]

ASSUME FilesAssumption == Files \subseteq Seq(Entry) /\ MaxLen \in Nat

VARIABLES
  file,               \* what json-c has parsed
  my_ip,
  pc,                 \* dmbd, nbd, done; wild once memory of others is used
  my_replica,         \* the array that ReadDMBDReplication allocates
  replica_len,
  replica_info_len,
  i                   \* the loop variable of ReadNBDReplication

vars == <<file, my_ip, pc, my_replica, replica_len, replica_info_len, i>>

TypeOK ==
  /\ file \in Seq(Entry)
  /\ my_ip \in Host
  /\ pc \in {"dmbd", "nbd", "done", "wild"}
  /\ my_replica \in Seq(Node)
  /\ replica_len \in Nat
  /\ replica_info_len \in Nat
  /\ i \in 1..(Len(file) + 1)

Init ==
  /\ file \in Files
  /\ my_ip \in Host
  /\ pc = "dmbd"
  /\ my_replica = <<>>
  /\ replica_len = 0
  /\ replica_info_len = 0
  /\ i = 1

-----------------------------------------------------------------------------
(* ReadDMBDReplication                                                     *)

Entries(ip) == {k \in 1..Len(file) : file[k].local_ip = ip}

EntryOf(ip) == file[CHOOSE k \in Entries(ip) : \A l \in Entries(ip) : k <= l]

\* Mutants of InfoLength: that of the first node; the last index.
InfoLengthFirst(nodes) == Len(nodes[1].replica_info)

InfoLengthIndex(nodes) == Len(nodes[Len(nodes)].replica_info) - 1

\* Every node assigns replica_info_length, so the last one decides.
InfoLength(nodes) == Len(nodes[Len(nodes)].replica_info)

ReadDMBDReplication ==
  /\ pc = "dmbd"
  /\ Entries(my_ip) # {}
  /\ LET nodes == EntryOf(my_ip).set_info IN
     /\ my_replica' = nodes
     /\ replica_len' = Len(nodes)
     /\ IF nodes = <<>> THEN replica_info_len' \in 0..MaxLen
        ELSE replica_info_len' = InfoLength(nodes)
  /\ pc' = "nbd"
  /\ UNCHANGED <<file, my_ip, i>>

\* None of the results is initialised; my_replica points anywhere.
NotFound ==
  /\ pc = "dmbd"
  /\ Entries(my_ip) = {}
  /\ replica_len' \in 0..MaxLen
  /\ replica_info_len' \in 0..MaxLen
  /\ pc' = "nbd"
  /\ UNCHANGED <<file, my_ip, my_replica, i>>

-----------------------------------------------------------------------------
(* ReadNBDReplication                                                      *)

\* my_replica[t].ip is compared with every node of the entry, and after a
\* match my_replica[t].replica_info[m].ip with every replica of that node.
ReadsBeyond(e) ==
  \/ replica_len > Len(my_replica) /\ e.set_info # <<>>
  \/ \E t \in 1..Len(my_replica), k \in 1..Len(e.set_info) :
       /\ my_replica[t].node_ip = e.set_info[k].node_ip
       /\ e.set_info[k].replica_info # <<>>
       /\ replica_info_len > Len(my_replica[t].replica_info)

\* Mutant of OnDevice: strstr() != NULL.
OnDeviceNbd(info) == info.dev = "nbd"

\* strstr(dev_name, "nbd") == NULL: the host has the replica itself.
OnDevice(info) == info.dev # "nbd"

\* The places <<node, replica>> of an entry.
Places(e) ==
  UNION {{<<k, j>> : j \in 1..Len(e.set_info[k].replica_info)} :
           k \in 1..Len(e.set_info)}

InfoAt(e, p) == e.set_info[p[1]].replica_info[p[2]]

\* Where the entry says how to reach replica ip of a node.
Matches(e, node_ip, ip) ==
  {p \in Places(e) : /\ e.set_info[p[1]].node_ip = node_ip
                     /\ InfoAt(e, p).replica_ip = ip
                     /\ OnDevice(InfoAt(e, p))}

\* The last one is copied last.
LastMatch(S) ==
  CHOOSE p \in S : \A q \in S : q[1] < p[1] \/ (q[1] = p[1] /\ q[2] <= p[2])

NewExport(e, node_ip, info) ==
  LET S == Matches(e, node_ip, info.replica_ip) IN
  IF S = {} THEN info.nbd_export
  ELSE InfoAt(e, LastMatch(S)).nbd_export

\* Replicas behind replica_info_len are not looked at.
Filled(e, node) ==
  [node_ip |-> node.node_ip,
   replica_info |->
     [m \in 1..Len(node.replica_info) |->
        LET info == node.replica_info[m] IN
        IF m > replica_info_len THEN info
        ELSE [replica_ip |-> info.replica_ip, dev |-> info.dev,
              nbd_export |-> NewExport(e, node.node_ip, info)]]]

Others(e) == e.local_ip # my_ip

\* One turn of the outer loop.
ReadEntry ==
  /\ pc = "nbd"
  /\ i <= Len(file)
  /\ i' = i + 1
  /\ IF Others(file[i]) /\ ReadsBeyond(file[i])
     THEN pc' = "wild" /\ UNCHANGED my_replica
     ELSE /\ my_replica' = [t \in 1..Len(my_replica) |->
               IF Others(file[i]) THEN Filled(file[i], my_replica[t])
               ELSE my_replica[t]]
          /\ UNCHANGED pc
  /\ UNCHANGED <<file, my_ip, replica_len, replica_info_len>>

Return ==
  /\ pc = "nbd"
  /\ i > Len(file)
  /\ pc' = "done"
  /\ UNCHANGED <<file, my_ip, my_replica, replica_len, replica_info_len, i>>

-----------------------------------------------------------------------------
Next == ReadDMBDReplication \/ NotFound \/ ReadEntry \/ Return

Spec == Init /\ [][Next]_vars

-----------------------------------------------------------------------------
\* The places <<entry, place>> of the file where some entry but that of ip says
\* that it holds replica r of a node on a device of its own.
Holders(ip, node_ip, r) ==
  UNION {{<<k, p>> : p \in {q \in Places(file[k]) :
                            /\ file[k].set_info[q[1]].node_ip = node_ip
                            /\ InfoAt(file[k], q).replica_ip = r
                            /\ InfoAt(file[k], q).dev = "disk"}} :
           k \in {l \in 1..Len(file) : file[l].local_ip # ip}}

\* Both ends of an export agree: where one other host holds a replica, this
\* host ends up with the name and port that the holder reads for itself, as
\* far as the length of the last node goes (line 118).
PartnersAgree ==
  pc = "done" =>
    \A t \in 1..Len(my_replica) :
      \A m \in 1..Len(my_replica[t].replica_info) :
        LET info  == my_replica[t].replica_info[m]
            found == Holders(my_ip, my_replica[t].node_ip, info.replica_ip)
        IN  \A p \in found :
              found = {p} /\ m <= replica_info_len =>
                info.nbd_export = InfoAt(file[p[1]], p[2]).nbd_export

\* Memory behind the arrays is used only for a host without an entry, or when
\* a node has fewer replicas than the last one; the loops look at every node
\* with the length of the last.
WildOnlyIfUneven ==
  pc = "wild" =>
    \/ Entries(my_ip) = {}
    \/ LET nodes == EntryOf(my_ip).set_info IN
       \E t \in 1..Len(nodes) :
         Len(nodes[t].replica_info) < Len(nodes[Len(nodes)].replica_info)
=============================================================================
