-------------------------- MODULE MCConfigFiles --------------------------
(* Files of up to two entries, with up to two nodes of up to two replicas. *)
(* The export of every place of a file has a name of its own.              *)
EXTENDS ConfigFiles

CONSTANTS a, b

Dev == {"disk", "nbd"}

\* The replicas of a node, each <<ip, dev>>.
Infos == {<<>>} \cup {<<<<r, d>>>> : r \in Host, d \in Dev}
           \cup {<<<<a, d>>, <<b, e>>>> : d, e \in Dev}

Nodes == {<<>>} \cup {<<<<n, s>>>> : n \in Host, s \in Infos}
           \cup {<<<<a, s>>, <<b, u>>>> : s, u \in Infos}

Shapes == {<<h, n>> : h \in Host, n \in Nodes}

Named(k, shape) ==
  [local_ip |-> shape[1],
   set_info |-> [l \in 1..Len(shape[2]) |->
     [node_ip |-> shape[2][l][1],
      replica_info |-> [j \in 1..Len(shape[2][l][2]) |->
        [replica_ip |-> shape[2][l][2][j][1], dev |-> shape[2][l][2][j][2],
         nbd_export |-> <<k, l, j>>]]]]]

Names == (1..2) \X (1..2) \X (1..2)

Small == {<<>>} \cup {<<Named(1, s)>> : s \in Shapes}
           \cup {<<Named(1, s), Named(2, u)>> : s, u \in Shapes}
=============================================================================
