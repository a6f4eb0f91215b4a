----------------------------- MODULE MCSmb2Rpc -----------------------------
EXTENDS Smb2Rpc

(* What servers may offer: room for a response in one fragment, for some of *)
(* it, more to send than to receive, and too little for a request.          *)
MCLimits == {[xmit |-> x, recv |-> r] : x \in {3, 9, 30}, r \in {9, 30}}
=============================================================================
