----------------------------- MODULE MCJsonRpc -----------------------------
(* An instance of JsonRpc for TLC: two callers on the client, one on the    *)
(* server.                                                                  *)
EXTENDS JsonRpc, TLC

CONSTANTS c1, c2, s1

MCSide == c1 :> "client" @@ c2 :> "client" @@ s1 :> "server"

Req(kind, name, params, arg) == [kind |-> kind, name |-> name, params |-> params, arg |-> arg]

(* Arguments around the ranges of the types of parameters. *)
MCRequests ==
    {Req("method", "calc", "array", -5), Req("method", "calc", "object", 4),
     Req("batch", "calc", "array", 3), Req("method", "size", "array", 8),
     Req("method", "scale", "array", 9), Req("method", "ratio", "array", 5),
     Req("method", "fail", "array", 1), Req("notification", "note", "array", 0),
     Req("batch", "note", "none", 0)}

MCIntMin == -4

MCParamType == [n \in {"calc", "fail", "note"} |-> "int"]
               @@ "size" :> "unsigned" @@ "scale" :> "double" @@ "ratio" :> "float"

(* The number nearest to v of a floating type that holds every integer up   *)
(* to P and the even ones up to 2 * P; a tie goes to the even mantissa.      *)
Nearest(P, v) ==
    IF v \in -P..P \/ v % 2 = 0 THEN v
    ELSE IF v % 4 = 1 THEN v - 1 ELSE v + 1

MCDouble == [v \in Args |-> Nearest(8, v)]
MCFloat == [v \in Args |-> Nearest(4, v)]
=============================================================================
