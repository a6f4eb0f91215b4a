----------------------------- MODULE MCSmb2Info -----------------------------
EXTENDS Smb2Info

MCSids == {[sub_auth_count |-> n, id_auth |-> <<0, 0, 5>>, sub_auth |-> [i \in 1..n |-> 32 + i]] : n \in 1..2}
MCSid == [sub_auth_count |-> 1, id_auth |-> <<0, 0, 5>>, sub_auth |-> <<33>>]

MCAces ==
    {[type |-> 0, sid |-> s, data |-> <<>>, pad |-> 0] : s \in MCSids}
    \cup {[type |-> 0, sid |-> MCSid, data |-> <<>>, pad |-> 4],
          [type |-> 5 + 256, sid |-> MCSid, data |-> <<>>, pad |-> 0],
          [type |-> 9, sid |-> MCSid, data |-> <<7, 7>>, pad |-> 0],
          [type |-> 3, sid |-> None, data |-> <<7, 7>>, pad |-> 0],
          [type |-> 11, sid |-> MCSid, data |-> <<>>, pad |-> 0]}
MCAcls ==
    {[aces |-> l, slack |-> s] :
        l \in {<<>>} \cup {<<a>> : a \in MCAces} \cup {<<a, b>> : a, b \in MCAces}, s \in {0, 4}}

MCDescriptors ==
    {[owner |-> w[1], group |-> w[2], dacl |-> a, acl_first |-> f] :
        w \in {<<None, None>>, <<MCSid, None>>} \cup ((MCSids \ {MCSid}) \X {MCSid}), a \in MCAcls \cup {None}, f \in BOOLEAN}

MCEa(n, len) == [name |-> n, name_len |-> len, value_len |-> n]
MCEaLists == {<<>>, <<MCEa(0, 3)>>, <<MCEa(1, 3), MCEa(2, 1)>>,
              <<MCEa(1, 3), MCEa(2, 2), MCEa(3, 1)>>,
              <<MCEa(1, 3), MCEa(2, 2), MCEa(3, 1), MCEa(0, 4)>>}

MCStreams == {<<>>, <<[name |-> 1, units |-> 3, bytes |-> 3], [name |-> 2, units |-> 1, bytes |-> 2]>>}
MCEntries == [i \in 1..3 |-> [name |-> i, units |-> i]]

MCPlain == [owner |-> MCSid, group |-> MCSid, dacl |-> None, acl_first |-> FALSE]
MCFile(sd, eas, streams) ==
    [sd |-> sd, stored |-> None, eas |-> eas, streams |-> streams, entries |-> MCEntries,
     name |-> <<"x">>, time |-> 1, size |-> 5]

(* Every descriptor, and every pair of lists.                               *)
MCFiles ==
    {MCFile(d, <<>>, <<>>) : d \in MCDescriptors}
    \cup {MCFile(MCPlain, e, s) : e \in MCEaLists, s \in MCStreams}

MCSetLists == MCEaLists \ {<<>>}
MCNames == {<<"y">>, <<"y", "/", "x">>}
=============================================================================
