------------------------------ MODULE MCSignal ------------------------------
(* An instance of Signal for TLC: an extended slot and a tracked one in a    *)
(* group, an observer's slot in another.                                     *)
EXTENDS Signal, TLC

CONSTANTS first, second, a, b, c, track, watch

MCPayloads == 1..(Cardinality(Signals) + Cardinality(Threads))

MCGroup == a :> 1 @@ b :> 1 @@ c :> 0

MCOpening == <<[gid |-> 1, slts |-> <<a, b>>]>>

MCFirstIndex == a :> 0 @@ b :> 1 @@ c :> 0

MCKind == a :> "extended" @@ b :> "tracked" @@ c :> "observer"

MCCallable == [s \in Slots |-> s]

MCObject == a :> None @@ b :> track @@ c :> watch
=============================================================================
