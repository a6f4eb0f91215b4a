------------------------------- MODULE Smb2Rpc -------------------------------
(***************************************************************************)
(* smb2_list_shares and smb2_lookUpSid: the two functions of Smb2Api.cpp   *)
(* that connect to IPC$, open a pipe, bind to an RPC interface, call it    *)
(* and clean up, with the parts of DceRpc.cpp they use.                    *)
(*                                                                         *)
(* One exchange with the server is one step, together with the code up to  *)
(* the next exchange.  Sizes are in words of four bytes.  The words of a   *)
(* response are named by their position in its stub (the data after the    *)
(* RPC header), so that a buffer is right exactly when it holds            *)
(* consecutive positions; what the words say is in the record reply.       *)
(***************************************************************************)
EXTENDS Integers, Sequences

CONSTANTS
    NShares,   \* the number of shares the server has
    Hdr,       \* sizeof(DceRpcOperationResponse)
    Small,     \* a stub of at most this size is taken for an error
    Entry1,    \* the size of a share of information level 1 ...
    Entry2,    \* ... and of level 2
    Req,       \* the size of a request
    Limits,    \* the max_xmit_frag and max_recv_frag a server may offer
    Partial,   \* TRUE: a response may hold only some of the shares
    Faulty,    \* TRUE: sendAndReceive may return -1
    ReuseSid,  \* TRUE: the caller may pass the SID of an earlier lookup again
    MaxCalls   \* bound: calls of the two functions

ASSUME SizeAssumption ==
    /\ {NShares, MaxCalls} \subseteq Nat
    /\ {Hdr, Small, Entry1, Entry2, Req} \subseteq Nat \ {0}
ASSUME LimitAssumption == Limits \subseteq [xmit : Nat, recv : Nat]
ASSUME FlagAssumption == {Partial, Faulty, ReuseSid} \subseteq BOOLEAN

VARIABLES
    pc,             \* the next exchange of the function, or "idle"
    func,           \* the function being called: "list" or "lookup"
    level,          \* shinfo_type
    connected,      \* isConnected()
    fh,             \* the pipe: "NULL", "open", or "deleted" by a handler
    limits,         \* max_xmit_frag and max_recv_frag
    reply,          \* the server's response to NetrShareEnum
    sharesBuff,     \* the words allocated for it, << >> for NULL
    sharesBuffLen,
    fragmentBuf,    \* TRUE: allocated
    resumeHandle,
    shares,         \* shares.sharelist
    sid,            \* *sid: "NULL", "live", or "freed"
    result,         \* what the last call returned
    calls,          \* the number of calls so far
    rounds,         \* history: the responses to NetrShareEnum in this call
    leaked,         \* history: buffers of this call nothing points to any more
    failed          \* history: some exchange of this call has failed

buffers == <<sharesBuff, sharesBuffLen, fragmentBuf, leaked>>
answer == <<reply, rounds, resumeHandle, shares>>
vars == <<pc, func, level, connected, fh, limits, sid, result, calls, failed, buffers, answer>>

Steps == {"connect", "open", "bind", "enum", "fragment", "parse", "policy", "names",
          "close", "disconnect"}

(* A word of a buffer: uninitialised, of an RPC header, or of the stub.     *)
Junk == -1
Header == 0

NoReply == [from |-> 0, count |-> 0, handle |-> FALSE, good |-> TRUE, size |-> 0, sent |-> 0]

Replies == [from : Nat, count : Nat, handle : BOOLEAN, good : BOOLEAN, size : Nat, sent : Nat]

TypeOK ==
    /\ pc \in Steps \cup {"idle", "misread"}
    /\ func \in {"list", "lookup"} /\ level \in 1..3
    /\ connected \in BOOLEAN
    /\ fh \in {"NULL", "open", "deleted"}
    /\ limits \in [xmit : Nat, recv : Nat]
    /\ reply \in Replies
    /\ sharesBuff \in Seq(Int) /\ sharesBuffLen \in Nat /\ fragmentBuf \in BOOLEAN
    /\ resumeHandle \in 0..NShares /\ shares \in Seq(Nat)
    /\ sid \in {"NULL", "live", "freed"} /\ result \in {0, -1} /\ calls \in Nat
    /\ rounds \in Nat /\ leaked \in Nat /\ failed \in BOOLEAN

Init ==
    /\ pc = "idle" /\ func = "list" /\ level = 1
    /\ connected = FALSE /\ fh = "NULL" /\ limits = [xmit |-> 0, recv |-> 0]
    /\ reply = NoReply
    /\ sharesBuff = << >> /\ sharesBuffLen = 0 /\ fragmentBuf = FALSE
    /\ resumeHandle = 0 /\ shares = << >>
    /\ sid = "NULL" /\ result = 0 /\ calls = 0
    /\ rounds = 0 /\ leaked = 0 /\ failed = FALSE

(* How an exchange ends, as in Smb2Api.  What a deleted handle says is not  *)
(* open at the server.                                                      *)
Outcomes == {"SUCCESS", "ERROR"} \cup (IF Faulty THEN {"FAILED"} ELSE {})
PipeOutcomes == IF fh = "deleted" THEN Outcomes \ {"SUCCESS"} ELSE Outcomes

Note(out) == failed' = (failed \/ out = "FAILED")

(***************************************************************************)
(* The calls.                                                              *)
(***************************************************************************)

(* The declarations at the start of the two functions.                      *)
Call ==
    /\ pc = "idle"
    /\ calls < MaxCalls
    /\ ReuseSid \/ sid = "NULL"
    /\ calls' = calls + 1
    /\ func' \in {"list", "lookup"}
    /\ level' \in 1..3
    /\ pc' = "connect"
    /\ fh' = "NULL" /\ limits' = [xmit |-> 0, recv |-> 0]
    /\ reply' = NoReply /\ sharesBuff' = << >> /\ sharesBuffLen' = 0 /\ fragmentBuf' = FALSE
    /\ resumeHandle' = 0 /\ shares' = << >>
    /\ rounds' = 0 /\ leaked' = 0 /\ failed' = FALSE
    /\ UNCHANGED <<connected, sid, result>>

(* An empty server, user or domain name.                                    *)
CallWithoutName ==
    /\ pc = "idle"
    /\ calls < MaxCalls
    /\ ReuseSid \/ sid = "NULL"
    /\ calls' = calls + 1
    /\ result' = -1
    /\ UNCHANGED <<pc, func, level, connected, fh, limits, sid, failed, buffers, answer>>

(* The caller frees the SID it has been given.                              *)
FreeSid ==
    /\ pc = "idle"
    /\ sid = "live"
    /\ sid' = "NULL"
    /\ UNCHANGED <<pc, func, level, connected, fh, limits, result, calls, failed,
                   buffers, answer>>

(***************************************************************************)
(* What the two functions have in common.                                  *)
(***************************************************************************)

(* smb2_connect_share to IPC$; a failure returns at once.                   *)
Connect ==
    /\ pc = "connect"
    /\ \E out \in Outcomes :
        /\ connected' = (out = "SUCCESS")
        /\ pc' = IF out = "SUCCESS" THEN "open" ELSE "idle"
        /\ result' = IF out = "SUCCESS" THEN result ELSE -1
        /\ Note(out)
    /\ UNCHANGED <<func, level, fh, limits, sid, calls, buffers, answer>>

(* smb2_open_pipe: a refused CREATE returns the deleted handle, and only a  *)
(* failed exchange returns NULL.                                            *)
OpenPipe ==
    /\ pc = "open"
    /\ \E out \in Outcomes :
        /\ fh' = CASE out = "SUCCESS" -> "open" [] out = "ERROR" -> "deleted"
                   [] out = "FAILED" -> "NULL"
        /\ pc' = IF out = "FAILED" THEN "disconnect" ELSE "bind"
        /\ result' = IF out = "FAILED" THEN -1 ELSE result
        /\ Note(out)
    /\ UNCHANGED <<func, level, connected, limits, sid, calls, buffers, answer>>

(* Mutant: the error path forgets fragmentBuf.                              *)
M_Fail ==
    /\ pc' = "close" /\ result' = -1
    /\ sharesBuff' = << >>
    /\ UNCHANGED <<sharesBuffLen, fragmentBuf, leaked, answer>>

(* The error paths: the buffers are freed, the pipe is closed next.         *)
Fail ==
    /\ pc' = "close" /\ result' = -1
    /\ sharesBuff' = << >> /\ fragmentBuf' = FALSE
    /\ UNCHANGED <<sharesBuffLen, leaked, answer>>

(* The bind: the response may be an ACK, anything else in its place (the    *)
(* limits remain 0), a NACK, or too short to tell.                          *)
Bind ==
    /\ pc = "bind"
    /\ \E out \in PipeOutcomes :
        /\ Note(out)
        /\ \/ Fail /\ UNCHANGED limits
           \/ /\ out = "SUCCESS"
              /\ limits' \in Limits \cup {[xmit |-> 0, recv |-> 0]}
              /\ pc' = IF func = "list" THEN "enum" ELSE "policy"
              /\ UNCHANGED <<result, buffers, answer>>
    /\ UNCHANGED <<func, level, connected, fh, sid, calls>>

(* An operation's request that cannot be built or is larger than            *)
(* max_xmit_frag is not sent.                                               *)
TooLarge == Req > limits.xmit

(* smb2_close: the handler of the reply deletes the handle.                 *)
ClosePipe ==
    /\ pc = "close"
    /\ \E out \in PipeOutcomes :
        /\ fh' = IF out = "FAILED" THEN fh ELSE "deleted"
        /\ Note(out)
    /\ pc' = "disconnect"
    /\ UNCHANGED <<func, level, connected, limits, sid, result, calls, buffers, answer>>

(* smb2_disconnect_share, and the return; smb2_lookUpSid frees *sid after   *)
(* an error if the pipe had been opened.                                    *)
Disconnect ==
    /\ pc = "disconnect"
    /\ \E out \in Outcomes :
        /\ connected' = (out = "FAILED")
        /\ Note(out)
    /\ sid' = IF func = "lookup" /\ result = -1 /\ fh # "NULL" /\ sid # "NULL"
              THEN "freed" ELSE sid
    /\ pc' = "idle"
    /\ UNCHANGED <<func, level, fh, limits, result, calls, buffers, answer>>

(***************************************************************************)
(* smb2_list_shares.                                                       *)
(***************************************************************************)

EntrySize == IF level = 1 THEN Entry1 ELSE Entry2

(* A stub: InfoStruct and the number of array elements, the shares, the     *)
(* total, the pointer to the resume handle, the handle if there is one, and *)
(* the status.                                                              *)
StubSize(count, handle) == 6 + count * EntrySize + (IF handle THEN 4 ELSE 3)

(* The server's choice of how many shares it returns from a handle on.      *)
Counts(from) ==
    {NShares - from} \cup (IF Partial THEN 1..(NShares - from) ELSE {})

(* The sizes a fragment's stub may have when so many words are left.        *)
FragmentSizes(left) == {n \in 1..left : Hdr + n <= limits.xmit}

(* dcerpc_parse_Operation_Response: an error response is known by its size. *)
IsError(stub) == stub <= Small

(* Mutant: the flag of the first response is used for all fragments.        *)
M_IsLast(n, left) == n = left /\ reply.sent = 0

(* RPC_FLAG_LAST_FRAG of the fragment with the last words.                  *)
IsLast(n, left) == n = left

(* The fields of one response to NetrShareEnum.                             *)
Answers ==
    {[from |-> resumeHandle, count |-> c, handle |-> h, good |-> g,
      size |-> StubSize(c, h), sent |-> 0] :
        c \in Counts(resumeHandle), h \in BOOLEAN, g \in BOOLEAN}

(* The response's first fragment goes into a new buffer; its length is      *)
(* added to that of the buffer of the round before.  fragmentBuf is         *)
(* allocated before another fragment is read.                               *)
FirstFragment(r, n) ==
    /\ reply' = [r EXCEPT !.sent = n]
    /\ rounds' = rounds + 1
    /\ sharesBuff' = [i \in 1..(Hdr + n) |-> IF i <= Hdr THEN Header ELSE i - Hdr]
    /\ sharesBuffLen' = sharesBuffLen + Hdr + n
    /\ leaked' = IF sharesBuff = << >> THEN leaked ELSE leaked + 1
    /\ pc' = IF IsLast(n, r.size) THEN "parse" ELSE "fragment"
    /\ fragmentBuf' = (pc' = "fragment")
    /\ UNCHANGED <<result, resumeHandle, shares>>

(* The request, which is not sent when it cannot be built or is too large.  *)
Enum ==
    /\ pc = "enum"
    /\ \/ Fail /\ UNCHANGED failed
       \/ /\ ~TooLarge
          /\ \E out \in Outcomes :
                /\ Note(out)
                /\ IF out # "SUCCESS"
                   THEN Fail
                   ELSE \E r \in Answers : \E n \in FragmentSizes(r.size) :
                            IF IsError(sharesBuffLen + n) THEN Fail ELSE FirstFragment(r, n)
    /\ UNCHANGED <<func, level, connected, fh, limits, sid, calls>>

(* Mutant: the fragment is copied with its header.                          *)
M_Extended(n) ==
    [i \in 1..(sharesBuffLen + n) |->
        IF i <= Len(sharesBuff) THEN sharesBuff[i]
        ELSE IF i <= sharesBuffLen THEN Junk
        ELSE IF i - sharesBuffLen <= Hdr THEN Header
        ELSE reply.sent + i - sharesBuffLen - Hdr]

(* realloc keeps what was allocated; memcpy puts the next words at          *)
(* sharesBuffLen.                                                           *)
Extended(n) ==
    [i \in 1..(sharesBuffLen + n) |->
        IF i <= Len(sharesBuff) THEN sharesBuff[i]
        ELSE IF i <= sharesBuffLen THEN Junk
        ELSE reply.sent + i - sharesBuffLen]

(* One more fragment is read with smb2_pread, which does not return one     *)
(* larger than max_recv_frag, and returns nothing when that is 0.           *)
Fragment ==
    /\ pc = "fragment"
    /\ \E out \in Outcomes, n \in FragmentSizes(reply.size - reply.sent) :
        /\ Note(out)
        /\ IF out # "SUCCESS" \/ Hdr + n > limits.recv \/ IsError(n)
           THEN Fail
           ELSE /\ sharesBuff' = Extended(n)
                /\ sharesBuffLen' = sharesBuffLen + n
                /\ reply' = [reply EXCEPT !.sent = @ + n]
                /\ pc' = IF IsLast(n, reply.size - reply.sent) THEN "parse" ELSE "fragment"
                /\ fragmentBuf' = (pc' = "fragment")
                /\ UNCHANGED <<leaked, result, rounds, resumeHandle, shares>>
    /\ UNCHANGED <<func, level, connected, fh, limits, sid, calls>>

(* What is parsed is the response: the status is the last word of the       *)
(* buffer, the other words follow the header.                               *)
Readable ==
    /\ sharesBuffLen \in 1..Len(sharesBuff)
    /\ sharesBuff[sharesBuffLen] = reply.size
    /\ \A i \in 1..(reply.size - 1) :
            Hdr + i <= Len(sharesBuff) /\ sharesBuff[Hdr + i] = i

(* The resume handle is read if there is a word left for it.                *)
HandleRead ==
    IF sharesBuffLen - Hdr - 1 - (6 + reply.count * EntrySize + 1) = 2 /\ reply.handle
    THEN reply.from + reply.count ELSE 0

(* Mutant: the loop ends one share early.                                   *)
M_MoreShares == Len(shares') + 1 < NShares

(* shares_read < total_share_count.                                         *)
MoreShares == Len(shares') < NShares

(* A status other than 0 or a level that is not supported ends the call;    *)
(* after the last share the buffer is freed.                                *)
Parse ==
    /\ pc = "parse"
    /\ Readable
    /\ IF ~reply.good \/ level = 3
       THEN Fail
       ELSE /\ shares' = shares \o [i \in 1..reply.count |-> reply.from + i]
            /\ resumeHandle' = HandleRead
            /\ pc' = IF MoreShares THEN "enum" ELSE "close"
            /\ result' = IF MoreShares THEN result ELSE 0
            /\ sharesBuff' = IF MoreShares THEN sharesBuff ELSE << >>
            /\ UNCHANGED <<sharesBuffLen, fragmentBuf, leaked, reply, rounds>>
    /\ UNCHANGED <<func, level, connected, fh, limits, sid, calls, failed>>

(* Words outside the buffer, or other ones than the response's, are parsed; *)
(* what follows depends on their values and is not modelled.                *)
Misread ==
    /\ pc = "parse"
    /\ ~Readable
    /\ pc' = "misread"
    /\ UNCHANGED <<func, level, connected, fh, limits, sid, result, calls, failed,
                   buffers, answer>>

(***************************************************************************)
(* smb2_lookUpSid.                                                         *)
(***************************************************************************)

(* LsarOpenPolicy2: the call ends unless the server opens the policy.       *)
OpenPolicy ==
    /\ pc = "policy"
    /\ \/ TooLarge /\ Fail /\ UNCHANGED failed
       \/ /\ ~TooLarge
          /\ \E out \in Outcomes :
                /\ Note(out)
                /\ \/ Fail
                   \/ /\ out = "SUCCESS"
                      /\ pc' = "names"
                      /\ UNCHANGED <<result, buffers, answer>>
    /\ UNCHANGED <<func, level, connected, fh, limits, sid, calls>>

(* Mutant: *sid is set before the response has been checked.                *)
M_LookupNames ==
    /\ pc = "names"
    /\ \E out \in Outcomes :
        /\ Note(out)
        /\ \/ Fail /\ sid' = "live"
           \/ /\ out = "SUCCESS"
              /\ sid' = "live"
              /\ pc' = "close" /\ result' = 0
              /\ UNCHANGED <<buffers, answer>>
    /\ UNCHANGED <<func, level, connected, fh, limits, calls>>

(* LsarLookupNames: the SID is allocated once the response is known to be   *)
(* good.  A request that cannot be built is not sent.                       *)
LookupNames ==
    /\ pc = "names"
    /\ \/ Fail /\ UNCHANGED <<sid, failed>>
       \/ \E out \in Outcomes :
            /\ Note(out)
            /\ \/ Fail /\ UNCHANGED sid
               \/ /\ out = "SUCCESS"
                  /\ sid' = "live"
                  /\ pc' = "close" /\ result' = 0
                  /\ UNCHANGED <<buffers, answer>>
    /\ UNCHANGED <<func, level, connected, fh, limits, calls>>

(***************************************************************************)
(* The specification.                                                      *)
(***************************************************************************)

Step ==
    \/ Connect \/ OpenPipe \/ Bind
    \/ Enum \/ Fragment \/ Parse \/ Misread
    \/ OpenPolicy \/ LookupNames
    \/ ClosePipe \/ Disconnect

Next == Call \/ CallWithoutName \/ FreeSid \/ Step

Spec == Init /\ [][Next]_vars

(* A function that has been called goes on; the exchanges end.              *)
FairSpec == Spec /\ WF_vars(Step)

(***************************************************************************)
(* Properties.                                                             *)
(***************************************************************************)

(* smb2_list_shares returns 0 only with every share of the server in the    *)
(* list, once and in order, however the response was fragmented.            *)
AllListed ==
    (pc = "idle" /\ calls > 0 /\ func = "list" /\ result = 0 /\ rounds > 0)
        => shares = [i \in 1..NShares |-> i]

(* What is parsed is the response put together from its fragments, except   *)
(* in the second round of a call.                                           *)
ReadableInFirstRound == (pc \in {"parse", "misread"} /\ rounds = 1) => Readable

(* However a call ends, if its exchanges were answered and it took one      *)
(* round, the pipe is closed and its handle deleted, the context is         *)
(* disconnected, and no buffer is left.                                     *)
CleanedUp ==
    (pc = "idle" /\ ~failed /\ rounds <= 1)
        => /\ fh # "open" /\ ~connected
           /\ sharesBuff = << >> /\ ~fragmentBuf /\ leaked = 0

(* A caller that frees each SID once never holds one that smb2_lookUpSid    *)
(* has freed, and has one to free after a successful lookup only.           *)
SidUsable == sid # "freed" /\ (sid = "live" => result = 0)

(* A call returns, whatever the server answers and however it fragments its *)
(* responses.                                                               *)
CallReturns == (pc = "connect") ~> (pc \in {"idle", "misread"})
=============================================================================
