------------------------- MODULE ConfigFilesProofs -------------------------
(***************************************************************************)
(* The readers of replicas, for configurations of any size: both ends of   *)
(* an export agree, and memory of others is used only when the lengths of  *)
(* the nodes differ or the host has no entry.                              *)
(*                                                                         *)
(* What ReadNBDReplication has done so far is what the entries before i    *)
(* say, and my_replica keeps the shape that ReadDMBDReplication gave it.   *)
(***************************************************************************)
EXTENDS ConfigFiles, WellFoundedInduction, TLAPS

-----------------------------------------------------------------------------
(* The least and the greatest of a set of numbers.                         *)

LEMMA LeastNatural ==
  ASSUME NEW T, T \subseteq Nat, T # {}
  PROVE  \E x \in T : \A y \in T : x <= y
<1>1. PICK x \in T : \A y \in T : ~ (<<y, x>> \in OpToRel(<, Nat))
  BY WFMin, NatLessThanWellFounded, Zenon
<1>2. \A y \in T : ~ (y < x)
  BY <1>1 DEF OpToRel
<1> QED
  BY <1>2

LEMMA GreatestNatural ==
  ASSUME NEW n \in Nat, NEW T, T \subseteq 0..n, T # {}
  PROVE  \E x \in T : \A y \in T : y <= x
<1> DEFINE U == {n - y : y \in T}
<1>1. PICK z \in U : \A u \in U : z <= u
  <2>1. \A y \in T : n - y \in Nat
    OBVIOUS
  <2>2. U \subseteq Nat /\ U # {}
    BY <2>1
  <2> HIDE DEF U
  <2> QED
    BY <2>2, LeastNatural
<1>2. PICK x \in T : z = n - x
  BY <1>1
<1>3. \A y \in T : n - x <= n - y
  BY <1>1, <1>2
<1> QED
  BY <1>3

-----------------------------------------------------------------------------
(* Entries and the places in them.                                         *)

\* The entry that ReadDMBDReplication stops at is one of the file.
LEMMA EntryOfFile ==
  ASSUME file \in Seq(Entry), NEW ip, Entries(ip) # {}
  PROVE  EntryOf(ip) \in Entry
<1>1. Entries(ip) \subseteq Nat
  BY DEF Entries
<1>2. \E k \in Entries(ip) : \A l \in Entries(ip) : k <= l
  BY <1>1, LeastNatural
<1>3. (CHOOSE k \in Entries(ip) : \A l \in Entries(ip) : k <= l) \in Entries(ip)
  BY <1>2
<1> QED
  BY <1>3 DEF EntryOf, Entries

\* A place of an entry is a node of it and a replica of that node.
LEMMA PlaceFields ==
  ASSUME NEW e \in Entry, NEW p \in Places(e)
  PROVE  /\ p = <<p[1], p[2]>>
         /\ p[1] \in 1..Len(e.set_info)
         /\ p[2] \in 1..Len(e.set_info[p[1]].replica_info)
         /\ e.set_info[p[1]] \in Node
         /\ InfoAt(e, p) \in Info
<1>1. PICK k \in 1..Len(e.set_info) :
        \E j \in 1..Len(e.set_info[k].replica_info) : p = <<k, j>>
  BY DEF Places
<1>2. PICK j \in 1..Len(e.set_info[k].replica_info) : p = <<k, j>>
  BY <1>1
<1>3. p[1] = k /\ p[2] = j
  BY <1>2
<1>4. e.set_info \in Seq(Node)
  BY DEF Entry
<1>5. e.set_info[k] \in Node
  BY <1>4
<1>6. e.set_info[k].replica_info \in Seq(Info)
  BY <1>5 DEF Node
<1> QED
  BY <1>1, <1>2, <1>3, <1>5, <1>6 DEF InfoAt

\* Among places of an entry there is one that the loops come to last.
LEMMA LastMatchIn ==
  ASSUME NEW e \in Entry, NEW S, S \subseteq Places(e), S # {}
  PROVE  LastMatch(S) \in S
<1> DEFINE K == {p[1] : p \in S}
<1>1. PICK k \in K : \A l \in K : l <= k
  <2>1. Len(e.set_info) \in Nat
    BY DEF Entry
  <2>2. K \subseteq 0..Len(e.set_info) /\ K # {}
    BY <2>1, PlaceFields
  <2> HIDE DEF K
  <2> QED
    BY <2>1, <2>2, GreatestNatural
<1> DEFINE J == {p[2] : p \in {q \in S : q[1] = k}}
           n == Len(e.set_info[k].replica_info)
<1>2. PICK j \in J : \A l \in J : l <= j
  <2>1. k \in 1..Len(e.set_info) /\ e.set_info[k] \in Node
    BY <1>1, PlaceFields
  <2>2. n \in Nat
    BY <2>1 DEF Node
  <2>3. J \subseteq 0..n /\ J # {}
    BY <1>1, <2>2, PlaceFields
  <2> HIDE DEF J, n
  <2> QED
    BY <2>2, <2>3, GreatestNatural
<1>3. PICK p \in S : p[1] = k /\ p[2] = j
  BY <1>2
<1>4. \A q \in S : q[1] \in Nat /\ q[2] \in Nat /\ p[1] \in Nat /\ p[2] \in Nat
  BY PlaceFields
<1>5. \A q \in S : q[1] <= k /\ (q[1] = k => q[2] <= j)
  BY <1>1, <1>2
<1>6. \A q \in S : q[1] < p[1] \/ (q[1] = p[1] /\ q[2] <= p[2])
  BY <1>3, <1>4, <1>5
<1> QED
  BY <1>6 DEF LastMatch

LEMMA NewExportType ==
  ASSUME NEW e \in Entry, NEW node_ip, NEW info \in Info
  PROVE  NewExport(e, node_ip, info) \in Export
<1> DEFINE S == Matches(e, node_ip, info.replica_ip)
<1>1. S \subseteq Places(e)
  BY DEF Matches
<1> HIDE DEF S
<1>2. S # {} => InfoAt(e, LastMatch(S)) \in Info
  BY <1>1, LastMatchIn, PlaceFields
<1> QED
  BY <1>2 DEF NewExport, S, Info

\* An entry changes the exports of a node and nothing else.
LEMMA FilledFields ==
  ASSUME replica_info_len \in Nat, NEW e \in Entry, NEW node \in Node
  PROVE  /\ Filled(e, node) \in Node
         /\ Filled(e, node).node_ip = node.node_ip
         /\ Len(Filled(e, node).replica_info) = Len(node.replica_info)
         /\ \A m \in 1..Len(node.replica_info) :
              LET info == node.replica_info[m]
                  new  == Filled(e, node).replica_info[m]
              IN  /\ new.replica_ip = info.replica_ip
                  /\ m <= replica_info_len =>
                       new.nbd_export = NewExport(e, node.node_ip, info)
                  /\ m > replica_info_len => new = info
<1> DEFINE new(m) == LET info == node.replica_info[m] IN
                     IF m > replica_info_len THEN info
                     ELSE [replica_ip |-> info.replica_ip, dev |-> info.dev,
                           nbd_export |-> NewExport(e, node.node_ip, info)]
           infos == [m \in 1..Len(node.replica_info) |-> new(m)]
<1>1. /\ node.node_ip \in Host /\ node.replica_info \in Seq(Info)
      /\ Len(node.replica_info) \in Nat
  BY DEF Node
<1>2. ASSUME NEW m \in 1..Len(node.replica_info)
      PROVE  /\ new(m) \in Info
             /\ new(m).replica_ip = node.replica_info[m].replica_ip
  <2>1. node.replica_info[m] \in Info
    BY <1>1
  <2> QED
    BY <2>1, NewExportType DEF Info
<1>3. Filled(e, node) = [node_ip |-> node.node_ip, replica_info |-> infos]
  BY DEF Filled
<1>4. \A m \in 1..Len(node.replica_info) : infos[m] = new(m)
  OBVIOUS
<1>5. infos \in Seq(Info) /\ Len(infos) = Len(node.replica_info)
  <2> HIDE DEF new
  <2> QED
    BY <1>1, <1>2
<1>6. ASSUME NEW m \in 1..Len(node.replica_info)
      PROVE  /\ m <= replica_info_len =>
                  new(m).nbd_export
                    = NewExport(e, node.node_ip, node.replica_info[m])
             /\ m > replica_info_len => new(m) = node.replica_info[m]
  OBVIOUS
<1> HIDE DEF infos, new
<1>7. /\ Filled(e, node).node_ip = node.node_ip
      /\ Filled(e, node).replica_info = infos
  BY <1>3
<1>8. Filled(e, node) \in Node
  BY <1>1, <1>3, <1>5 DEF Node
<1> QED
  BY <1>2, <1>4, <1>5, <1>6, <1>7, <1>8

-----------------------------------------------------------------------------
(* The invariant.                                                          *)

\* my_replica has the nodes of the entry of my_ip, with as many replicas each.
Shaped ==
  pc \in {"nbd", "done"} /\ Entries(my_ip) # {} =>
    LET nodes == EntryOf(my_ip).set_info IN
    /\ Len(my_replica) = Len(nodes)
    /\ replica_len = Len(nodes)
    /\ \A t \in 1..Len(nodes) :
         Len(my_replica[t].replica_info) = Len(nodes[t].replica_info)
    /\ nodes # <<>> => replica_info_len = InfoLength(nodes)

\* A replica with one holder, before i, has the export of that holder.
AgreedAt(t, m) ==
  LET info  == my_replica[t].replica_info[m]
      found == Holders(my_ip, my_replica[t].node_ip, info.replica_ip)
  IN  \A p \in found :
        found = {p} /\ m <= replica_info_len /\ p[1] < i =>
          info.nbd_export = InfoAt(file[p[1]], p[2]).nbd_export

Agreed ==
  pc \in {"nbd", "done"} =>
    \A t \in 1..Len(my_replica) :
      \A m \in 1..Len(my_replica[t].replica_info) : AgreedAt(t, m)

CInv ==
  /\ TypeOK
  /\ pc = "dmbd" => i = 1
  /\ pc = "done" => i > Len(file)
  /\ Shaped
  /\ Agreed
  /\ WildOnlyIfUneven

\* A holder is an entry of the file and a place in it.
LEMMA HolderFields ==
  ASSUME file \in Seq(Entry), NEW ip, NEW node_ip, NEW r,
         NEW p \in Holders(ip, node_ip, r)
  PROVE  /\ p = <<p[1], p[2]>>
         /\ p[1] \in 1..Len(file) /\ file[p[1]] \in Entry
         /\ file[p[1]].local_ip # ip
         /\ p[2] \in Places(file[p[1]])
         /\ file[p[1]].set_info[p[2][1]].node_ip = node_ip
         /\ InfoAt(file[p[1]], p[2]).replica_ip = r
         /\ InfoAt(file[p[1]], p[2]).dev = "disk"
BY DEF Holders

\* What ReadNBDReplication looks for in an entry is its part of the holders.
LEMMA MatchesHolders ==
  ASSUME file \in Seq(Entry), NEW k \in 1..Len(file),
         file[k].local_ip # my_ip, NEW node_ip, NEW r
  PROVE  \A q : q \in Matches(file[k], node_ip, r)
                 <=> <<k, q>> \in Holders(my_ip, node_ip, r)
<1>1. file[k] \in Entry
  OBVIOUS
<1>2. \A q \in Places(file[k]) :
        OnDevice(InfoAt(file[k], q)) <=> InfoAt(file[k], q).dev = "disk"
  BY <1>1, PlaceFields DEF OnDevice, Info
<1>3. ASSUME NEW q \in Matches(file[k], node_ip, r)
      PROVE  <<k, q>> \in Holders(my_ip, node_ip, r)
  BY <1>2 DEF Matches, Holders
<1>4. ASSUME NEW q, <<k, q>> \in Holders(my_ip, node_ip, r)
      PROVE  q \in Matches(file[k], node_ip, r)
  <2>1. <<k, q>>[1] = k /\ <<k, q>>[2] = q
    OBVIOUS
  <2> QED
    BY <1>2, <1>4, <2>1, HolderFields DEF Matches
<1> QED
  BY <1>3, <1>4

LEMMA InitFiles == ASSUME Init PROVE CInv
BY FilesAssumption
   DEF Init, CInv, TypeOK, Shaped, Agreed, WildOnlyIfUneven

LEMMA ReadDMBDStep == ASSUME CInv, ReadDMBDReplication PROVE CInv'
<1> DEFINE nodes == EntryOf(my_ip).set_info
<1>1. /\ file \in Seq(Entry) /\ my_ip \in Host /\ i = 1 /\ i' = 1
      /\ file' = file /\ my_ip' = my_ip /\ pc' = "nbd"
      /\ Entries(my_ip) # {} /\ my_replica' = nodes
      /\ replica_len' = Len(nodes)
      /\ IF nodes = <<>> THEN replica_info_len' \in 0..MaxLen
         ELSE replica_info_len' = InfoLength(nodes)
  BY DEF CInv, TypeOK, ReadDMBDReplication
<1>2. nodes \in Seq(Node)
  BY <1>1, EntryOfFile DEF Entry
<1>3. nodes # <<>> => InfoLength(nodes) \in Nat
  <2> HIDE DEF nodes
  <2>1. nodes # <<>> => nodes[Len(nodes)] \in Node
    BY <1>2
  <2> QED
    BY <2>1 DEF InfoLength, Node
<1>4. replica_info_len' \in Nat /\ replica_len' \in Nat
  <2> HIDE DEF nodes
  <2> QED
    BY <1>1, <1>2, <1>3, FilesAssumption
<1>5. Entries(my_ip)' = Entries(my_ip) /\ EntryOf(my_ip)' = EntryOf(my_ip)
  BY <1>1 DEF Entries, EntryOf
<1>6. TypeOK'
  <2> HIDE DEF nodes
  <2> QED
    BY <1>1, <1>2, <1>4 DEF TypeOK
<1>7. Shaped'
  BY <1>1, <1>5 DEF Shaped
<1>8. Agreed'
  <2> SUFFICES ASSUME NEW t, NEW m PROVE AgreedAt(t, m)'
    BY DEF Agreed
  <2>1. \A ip, node_ip, r : \A p \in Holders(ip, node_ip, r)' : ~ (p[1] < i')
    <3>1. file' \in Seq(Entry)
      BY <1>1
    <3>2. \A ip, node_ip, r : Holders(ip, node_ip, r)' = Holders(ip, node_ip, r)
      BY <1>1 DEF Holders
    <3> QED
      BY <1>1, <3>2, HolderFields
  <2> QED
    BY <2>1 DEF AgreedAt
<1> QED
  BY <1>1, <1>6, <1>7, <1>8 DEF CInv, WildOnlyIfUneven

LEMMA NotFoundStep == ASSUME CInv, NotFound PROVE CInv'
<1>1. /\ file \in Seq(Entry) /\ i = 1 /\ i' = 1
      /\ file' = file /\ my_ip' = my_ip /\ pc' = "nbd"
      /\ my_replica' = my_replica /\ Entries(my_ip) = {}
      /\ replica_info_len' \in Nat /\ replica_len' \in Nat
  BY FilesAssumption DEF CInv, TypeOK, NotFound
<1>2. Entries(my_ip)' = {}
  BY <1>1 DEF Entries
<1>3. TypeOK'
  BY <1>1 DEF CInv, TypeOK
<1>4. Agreed'
  <2> SUFFICES ASSUME NEW t, NEW m PROVE AgreedAt(t, m)'
    BY DEF Agreed
  <2>1. \A ip, node_ip, r : Holders(ip, node_ip, r)' = Holders(ip, node_ip, r)
    BY <1>1 DEF Holders
  <2>2. \A ip, node_ip, r : \A p \in Holders(ip, node_ip, r) : ~ (p[1] < i')
    BY <1>1, HolderFields
  <2> QED
    BY <2>1, <2>2 DEF AgreedAt
<1> QED
  BY <1>1, <1>2, <1>3, <1>4 DEF CInv, Shaped, WildOnlyIfUneven

\* An entry whose lengths were relied on too far came from an uneven one.
LEMMA BeyondUneven ==
  ASSUME CInv, pc = "nbd", NEW e \in Entry, ReadsBeyond(e)
  PROVE  \/ Entries(my_ip) = {}
         \/ LET nodes == EntryOf(my_ip).set_info IN
            \E t \in 1..Len(nodes) :
              Len(nodes[t].replica_info) < Len(nodes[Len(nodes)].replica_info)
<1> SUFFICES ASSUME Entries(my_ip) # {}
             PROVE  LET nodes == EntryOf(my_ip).set_info IN
                    \E t \in 1..Len(nodes) :
                      Len(nodes[t].replica_info)
                        < Len(nodes[Len(nodes)].replica_info)
  OBVIOUS
<1> DEFINE nodes == EntryOf(my_ip).set_info
<1>1. nodes \in Seq(Node)
  BY EntryOfFile DEF CInv, TypeOK, Entry
<1> HIDE DEF nodes
<1>2. /\ Len(my_replica) = Len(nodes) /\ replica_len = Len(nodes)
      /\ \A t \in 1..Len(nodes) :
           Len(my_replica[t].replica_info) = Len(nodes[t].replica_info)
      /\ nodes # <<>> => replica_info_len = InfoLength(nodes)
  BY DEF CInv, Shaped, nodes
<1>3. PICK t \in 1..Len(my_replica) :
        replica_info_len > Len(my_replica[t].replica_info)
  BY <1>1, <1>2 DEF ReadsBeyond
<1>4. nodes # <<>> /\ t \in 1..Len(nodes)
  BY <1>1, <1>2, <1>3
<1>5. Len(nodes[t].replica_info) < Len(nodes[Len(nodes)].replica_info)
  <2>1. nodes[t] \in Node /\ nodes[Len(nodes)] \in Node
    BY <1>1, <1>4
  <2> QED
    BY <1>2, <1>3, <1>4, <2>1 DEF InfoLength, Node
<1> QED
  BY <1>4, <1>5 DEF nodes

\* What an entry that is read puts into a replica is right, and stays so.
LEMMA FilledAgrees ==
  ASSUME CInv, pc = "nbd", i <= Len(file), Others(file[i]),
         NEW node \in Node, NEW m \in 1..Len(node.replica_info),
         m <= replica_info_len,
         NEW p \in Holders(my_ip, node.node_ip, node.replica_info[m].replica_ip),
         Holders(my_ip, node.node_ip, node.replica_info[m].replica_ip) = {p},
         p[1] < i + 1,
         p[1] < i => node.replica_info[m].nbd_export
                       = InfoAt(file[p[1]], p[2]).nbd_export
  PROVE  NewExport(file[i], node.node_ip, node.replica_info[m])
           = InfoAt(file[p[1]], p[2]).nbd_export
<1> DEFINE info == node.replica_info[m]
           S == Matches(file[i], node.node_ip, info.replica_ip)
<1>1. /\ file \in Seq(Entry) /\ i \in 1..Len(file) /\ file[i] \in Entry
      /\ file[i].local_ip # my_ip
  BY DEF CInv, TypeOK, Others
<1>2. \A q : q \in S <=> <<i, q>> = p
  BY <1>1, MatchesHolders
<1>3. p = <<p[1], p[2]>> /\ p[1] \in Nat
  <2>1. \A ip, node_ip, r : \A q \in Holders(ip, node_ip, r) :
          q = <<q[1], q[2]>> /\ q[1] \in 1..Len(file)
    BY <1>1, HolderFields
  <2> QED
    BY <2>1
<1>4. CASE p[1] = i
  <2>1. S = {p[2]}
    <3>1. \A q : <<i, q>> = p <=> q = p[2]
      BY <1>3, <1>4
    <3> HIDE DEF S
    <3> QED
      BY <1>2, <3>1
  <2>2. S \subseteq Places(file[i])
    BY DEF Matches
  <2> HIDE DEF S
  <2>3. LastMatch(S) = p[2]
    BY <1>1, <2>1, <2>2, LastMatchIn
  <2> QED
    BY <1>4, <2>1, <2>3 DEF NewExport, S
<1>5. CASE p[1] # i
  <2>1. S = {}
    <3> HIDE DEF S
    <3>1. \A q : <<i, q>>[1] = i
      OBVIOUS
    <3> QED
      BY <1>2, <1>5, <3>1
  <2>2. p[1] < i
    BY <1>1, <1>3, <1>5
  <2> QED
    BY <2>1, <2>2 DEF NewExport
<1> QED
  BY <1>4, <1>5

LEMMA ReadEntryStep == ASSUME CInv, ReadEntry PROVE CInv'
<1> DEFINE e == file[i]
           turn(t) == IF Others(e) THEN Filled(e, my_replica[t])
                      ELSE my_replica[t]
<1>1. /\ file \in Seq(Entry) /\ i \in 1..Len(file) /\ e \in Entry
      /\ my_replica \in Seq(Node) /\ replica_info_len \in Nat
      /\ pc = "nbd" /\ i' = i + 1
      /\ file' = file /\ my_ip' = my_ip
      /\ replica_len' = replica_len /\ replica_info_len' = replica_info_len
  BY DEF CInv, TypeOK, ReadEntry
<1>2. /\ Entries(my_ip)' = Entries(my_ip) /\ EntryOf(my_ip)' = EntryOf(my_ip)
      /\ \A ip, node_ip, r : Holders(ip, node_ip, r)' = Holders(ip, node_ip, r)
  BY <1>1 DEF Entries, EntryOf, Holders
<1>3. CASE Others(e) /\ ReadsBeyond(e)
  <2>1. pc' = "wild" /\ my_replica' = my_replica
    BY <1>3 DEF ReadEntry
  <2>2. WildOnlyIfUneven'
    BY <1>1, <1>2, <1>3, BeyondUneven DEF WildOnlyIfUneven
  <2> QED
    BY <1>1, <2>1, <2>2 DEF CInv, TypeOK, Shaped, Agreed
<1>4. CASE ~ (Others(e) /\ ReadsBeyond(e))
  <2>1. pc' = "nbd" /\ my_replica' = [t \in 1..Len(my_replica) |-> turn(t)]
    BY <1>1, <1>4 DEF ReadEntry
  <2>2. ASSUME NEW t \in 1..Len(my_replica)
        PROVE  /\ turn(t) \in Node
               /\ turn(t).node_ip = my_replica[t].node_ip
               /\ Len(turn(t).replica_info) = Len(my_replica[t].replica_info)
    <3>1. my_replica[t] \in Node
      BY <1>1
    <3> HIDE DEF e
    <3> QED
      BY <1>1, <3>1, FilledFields
  <2>3. /\ my_replica' \in Seq(Node) /\ Len(my_replica') = Len(my_replica)
        /\ \A t \in 1..Len(my_replica) : my_replica'[t] = turn(t)
    <3> HIDE DEF turn
    <3> QED
      BY <1>1, <2>1, <2>2
  <2> HIDE DEF turn
  <2>4. TypeOK'
    BY <1>1, <2>1, <2>3 DEF CInv, TypeOK
  <2>5. Shaped'
    BY <1>1, <1>2, <2>2, <2>3 DEF CInv, Shaped
  <2>6. ASSUME NEW t \in 1..Len(my_replica'),
               NEW m \in 1..Len(my_replica'[t].replica_info)
        PROVE  AgreedAt(t, m)'
    <3> DEFINE node == my_replica[t]
               info == node.replica_info[m]
               found == Holders(my_ip, node.node_ip, info.replica_ip)
    <3>1. /\ t \in 1..Len(my_replica) /\ node \in Node
          /\ m \in 1..Len(node.replica_info) /\ my_replica'[t] = turn(t)
      BY <1>1, <2>2, <2>3, <2>6
    <3>2. /\ turn(t).node_ip = node.node_ip
          /\ turn(t).replica_info[m].replica_ip = info.replica_ip
          /\ Others(e) /\ m <= replica_info_len =>
               turn(t).replica_info[m].nbd_export
                 = NewExport(e, node.node_ip, info)
          /\ ~ Others(e) => turn(t).replica_info[m] = info
      <4>1. CASE Others(e)
        <5>1. turn(t) = Filled(e, node)
          BY <4>1 DEF turn
        <5> HIDE DEF e, node
        <5> QED
          BY <1>1, <3>1, <4>1, <5>1, FilledFields
      <4>2. CASE ~ Others(e)
        BY <4>2 DEF turn
      <4> QED
        BY <4>1, <4>2
    <3>3. AgreedAt(t, m)
      BY <1>1, <3>1 DEF CInv, Agreed
    <3> SUFFICES ASSUME NEW p \in found, found = {p}, m <= replica_info_len,
                        p[1] < i + 1
                 PROVE  turn(t).replica_info[m].nbd_export
                          = InfoAt(file[p[1]], p[2]).nbd_export
      BY <1>1, <1>2, <3>1, <3>2 DEF AgreedAt, InfoAt
    <3>4. p[1] < i => info.nbd_export = InfoAt(file[p[1]], p[2]).nbd_export
      BY <3>3 DEF AgreedAt
    <3>5. CASE Others(e)
      <4>1. NewExport(e, node.node_ip, info)
              = InfoAt(file[p[1]], p[2]).nbd_export
        <5> HIDE DEF node
        <5> QED
          BY <1>1, <3>1, <3>4, <3>5, FilledAgrees
      <4> QED
        BY <3>2, <3>5, <4>1
    <3>6. CASE ~ Others(e)
      <4>1. \A ip, node_ip, r : \A q \in Holders(ip, node_ip, r) :
              q[1] \in 1..Len(file) /\ file[q[1]].local_ip # ip
        BY <1>1, HolderFields
      <4>2. p[1] \in 1..Len(file) /\ file[p[1]].local_ip # my_ip
        BY <4>1
      <4>3. p[1] # i
        BY <3>6, <4>2 DEF Others
      <4>4. p[1] < i
        BY <1>1, <4>2, <4>3
      <4> QED
        BY <3>2, <3>4, <3>6, <4>4
    <3> QED
      BY <3>5, <3>6
  <2>7. Agreed'
    BY <2>6 DEF Agreed
  <2> QED
    BY <1>1, <2>1, <2>4, <2>5, <2>7 DEF CInv, WildOnlyIfUneven
<1> QED
  BY <1>3, <1>4

LEMMA ReturnStep == ASSUME CInv, Return PROVE CInv'
<1>1. /\ pc = "nbd" /\ pc' = "done" /\ i > Len(file)
      /\ UNCHANGED <<file, my_ip, my_replica, replica_len, replica_info_len, i>>
  BY DEF Return
<1>2. /\ Entries(my_ip)' = Entries(my_ip) /\ EntryOf(my_ip)' = EntryOf(my_ip)
      /\ \A ip, node_ip, r : Holders(ip, node_ip, r)' = Holders(ip, node_ip, r)
  BY <1>1 DEF Entries, EntryOf, Holders
<1>3. \A t, m : AgreedAt(t, m) => AgreedAt(t, m)'
  BY <1>1, <1>2 DEF AgreedAt, InfoAt
<1>4. Agreed' /\ Shaped' /\ TypeOK'
  BY <1>1, <1>2, <1>3 DEF CInv, Agreed, Shaped, TypeOK
<1> QED
  BY <1>1, <1>4 DEF CInv, WildOnlyIfUneven

\* The invariant holds of every configuration that is read.
THEOREM FilesInvariance == Spec => []CInv
<1>1. ASSUME CInv, UNCHANGED vars PROVE CInv'
  <2>1. /\ file' = file /\ my_ip' = my_ip /\ pc' = pc /\ i' = i
        /\ my_replica' = my_replica /\ replica_len' = replica_len
        /\ replica_info_len' = replica_info_len
    BY <1>1 DEF vars
  <2>2. /\ Entries(my_ip)' = Entries(my_ip) /\ EntryOf(my_ip)' = EntryOf(my_ip)
        /\ \A ip, node_ip, r : Holders(ip, node_ip, r)' = Holders(ip, node_ip, r)
    BY <2>1 DEF Entries, EntryOf, Holders
  <2>3. \A t, m : AgreedAt(t, m) => AgreedAt(t, m)'
    BY <2>1, <2>2 DEF AgreedAt, InfoAt
  <2>4. Agreed' /\ Shaped' /\ TypeOK' /\ WildOnlyIfUneven'
    BY <1>1, <2>1, <2>2, <2>3
       DEF CInv, Agreed, Shaped, TypeOK, WildOnlyIfUneven
  <2> QED
    BY <1>1, <2>1, <2>4 DEF CInv
<1>2. CInv /\ [Next]_vars => CInv'
  BY <1>1, ReadDMBDStep, NotFoundStep, ReadEntryStep, ReturnStep DEF Next
<1> QED
  BY <1>2, InitFiles, PTL DEF Spec

\* Every result of the readers has the type that json_file.h gives it, for
\* configurations of any size.
THEOREM FilesTypes == Spec => []TypeOK
<1>1. CInv => TypeOK
  BY DEF CInv
<1> QED
  BY <1>1, FilesInvariance, PTL

\* Where one other host holds a replica, this host ends up with the export that
\* the holder reads for itself, as far as the length of the last node goes,
\* in configurations of any number of entries, nodes and replicas.
THEOREM BothEndsAgree == Spec => []PartnersAgree
<1>1. CInv => PartnersAgree
  <2> SUFFICES ASSUME CInv, pc = "done", NEW t \in 1..Len(my_replica),
                      NEW m \in 1..Len(my_replica[t].replica_info)
               PROVE  LET info  == my_replica[t].replica_info[m]
                          found == Holders(my_ip, my_replica[t].node_ip,
                                           info.replica_ip)
                      IN  \A p \in found :
                            found = {p} /\ m <= replica_info_len =>
                              info.nbd_export
                                = InfoAt(file[p[1]], p[2]).nbd_export
    BY DEF PartnersAgree
  <2>1. AgreedAt(t, m)
    BY DEF CInv, Agreed
  <2>2. \A ip, node_ip, r : \A p \in Holders(ip, node_ip, r) :
          p[1] \in 1..Len(file)
    BY HolderFields DEF CInv, TypeOK
  <2>3. Len(file) \in Nat /\ i \in Nat /\ i > Len(file)
    BY DEF CInv, TypeOK
  <2>4. \A ip, node_ip, r : \A p \in Holders(ip, node_ip, r) : p[1] < i
    BY <2>2, <2>3
  <2> QED
    BY <2>1, <2>4 DEF AgreedAt
<1> QED
  BY <1>1, FilesInvariance, PTL

\* The loops use memory behind the arrays only for a host without an entry, or
\* when a node has fewer replicas than the last one.
THEOREM WildUneven == Spec => []WildOnlyIfUneven
<1>1. CInv => WildOnlyIfUneven
  BY DEF CInv
<1> QED
  BY <1>1, FilesInvariance, PTL
=============================================================================
