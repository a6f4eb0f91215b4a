--------------------------- MODULE MCSmb2Receive ---------------------------
EXTENDS Smb2Receive, Sequences

(* Compounds of up to two responses, each with a fixed part of one byte,    *)
(* an optional variable part, and from one byte too few to one byte of      *)
(* padding; the second one has no variable part.                            *)
Parts == [fixed : {1}, variable : {0, 1}, pad : {-1, 0, 1}, pending : BOOLEAN]

Size(p) == HeaderSize + p.fixed + p.variable + p.pad

Of(parts) ==
    [n |-> Len(parts),
     start |-> [i \in 1..(Len(parts) + 1) |->
                    SplSize + (IF i > 1 THEN Size(parts[1]) ELSE 0)
                            + (IF i > 2 THEN Size(parts[2]) ELSE 0)],
     fixed |-> [i \in 1..Len(parts) |-> parts[i].fixed],
     variable |-> [i \in 1..Len(parts) |-> parts[i].variable],
     pending |-> [i \in 1..Len(parts) |-> parts[i].pending]]

SmallMessages == {Of(<<p>>) : p \in Parts}
                 \cup {Of(<<p, q>>) : p \in Parts, q \in {r \in Parts : r.variable = 0}}
=============================================================================
