--------------------------- MODULE MCSmb2Client ---------------------------
EXTENDS Smb2Client

(* What happens after the first close does not matter to properties that    *)
(* only speak of the first connection.                                      *)
FirstConnection == fresh

(* The variables that guards and those properties read.                     *)
EngineView ==
    <<ctx, neg, acct, outqueue, waitqueue, isComplete, pc, pollout, call, stream,
      replies, unpaid>>
=============================================================================
