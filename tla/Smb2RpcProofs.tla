---------------------------- MODULE Smb2RpcProofs ----------------------------
(***************************************************************************)
(* Proofs about Smb2Rpc, for every number of shares, every size of header, *)
(* share and fragment, and every way the server answers.                   *)
(***************************************************************************)
EXTENDS Smb2Rpc, TLAPS

(* Where in the function a response to NetrShareEnum has been received, and *)
(* where the function is about to end.                                      *)
Receiving == pc \in {"fragment", "parse", "misread"}
Ending == pc \in {"close", "disconnect", "idle"}

(* The response is one the server can give: it starts at the handle sent.   *)
ReplyShape ==
    /\ reply.from + reply.count <= NShares
    /\ Receiving => /\ reply.sent \in 1..reply.size
                    /\ pc # "fragment" => reply.sent = reply.size
                    /\ rounds >= 1
    /\ ~Receiving /\ ~Ending /\ pc # "enum" => rounds = 0

(* In the first round the buffer holds the header and the words so far.     *)
Assembled ==
    (Receiving /\ rounds = 1) =>
        /\ Len(sharesBuff) = Hdr + reply.sent /\ sharesBuffLen = Len(sharesBuff)
        /\ \A i \in 1..Len(sharesBuff) :
                sharesBuff[i] = IF i <= Hdr THEN Header ELSE i - Hdr
        /\ reply.from = 0 /\ shares = << >>

(* In a later round its end is out of reach, or there is a hole in it.      *)
Gapped ==
    (Receiving /\ rounds >= 2) =>
        /\ Len(sharesBuff) <= sharesBuffLen
        /\ \/ Len(sharesBuff) = Hdr + reply.sent /\ sharesBuffLen > Len(sharesBuff)
           \/ \E p \in 1..(reply.size - 1) :
                    Hdr + p <= Len(sharesBuff) /\ sharesBuff[Hdr + p] = Junk

(* Before the first response there is no buffer, and after it there is one. *)
BetweenRounds ==
    /\ rounds = 0 /\ ~Ending =>
            /\ sharesBuff = << >> /\ sharesBuffLen = 0 /\ resumeHandle = 0
            /\ shares = << >>
    /\ pc = "enum" /\ rounds >= 1 => sharesBuffLen > 0

(* The buffers: freed at the end, and none lost in the first round.         *)
BuffersAccounted ==
    /\ Ending => sharesBuff = << >>
    /\ fragmentBuf = (pc = "fragment")
    /\ rounds <= 1 => leaked = 0

(* The pipe and the connection, as long as the exchanges are answered.      *)
ClosedAtEnd ==
    /\ pc = "connect" => fh = "NULL"
    /\ ~failed => /\ pc \in {"disconnect", "idle"} => fh # "open"
                  /\ pc = "idle" => ~connected

(* The result is only 0 with the complete list.                             *)
ListedAtEnd ==
    (Ending /\ func = "list" /\ result = 0 /\ rounds > 0)
        => shares = [i \in 1..NShares |-> i]

(* The SID of a caller that passes NULL.                                    *)
SidAtEnd ==
    ~ReuseSid => /\ sid # "freed"
                 /\ sid = "live" => Ending /\ result = 0

IInv ==
    /\ TypeOK /\ ReplyShape /\ Assembled /\ Gapped /\ BetweenRounds
    /\ BuffersAccounted /\ ClosedAtEnd /\ ListedAtEnd /\ SidAtEnd

(* A buffer of n words.                                                     *)
LEMMA BufferIsSeq ==
    ASSUME NEW S, NEW n \in Nat, NEW f \in [1..n -> S]
    PROVE  f \in Seq(S) /\ Len(f) = n
OBVIOUS

(* The size of a response to NetrShareEnum.                                 *)
LEMMA StubIsNat ==
    ASSUME NEW c \in Nat, NEW h \in BOOLEAN
    PROVE  StubSize(c, h) \in Nat \ {0}
<1>1. EntrySize \in Nat
    BY SizeAssumption DEF EntrySize
<1>2. c * EntrySize \in Nat
    BY <1>1
<1>. QED
    BY <1>2 DEF StubSize

(* What the server can answer to a handle the client may send.              *)
LEMMA AnswerShape ==
    ASSUME TypeOK, NEW r \in Answers
    PROVE  /\ r \in Replies
           /\ r.from = resumeHandle /\ r.from + r.count <= NShares
<1>1. PICK c \in Counts(resumeHandle), h \in BOOLEAN, g \in BOOLEAN :
        r = [from |-> resumeHandle, count |-> c, handle |-> h, good |-> g,
             size |-> StubSize(c, h), sent |-> 0]
    BY DEF Answers
<1>2. NShares \in Nat /\ resumeHandle \in Nat /\ resumeHandle <= NShares
    BY SizeAssumption DEF TypeOK
<1>3. c \in Nat /\ resumeHandle + c <= NShares
    BY <1>2 DEF Counts
<1>4. StubSize(c, h) \in Nat
    BY <1>3, StubIsNat
<1>. QED
    BY <1>1, <1>2, <1>3, <1>4 DEF Replies

(* The error paths keep the invariant.                                      *)
LEMMA FailInv ==
    ASSUME IInv, Fail, ~Ending, failed' \in BOOLEAN, limits' \in [xmit : Nat, recv : Nat],
           UNCHANGED <<func, level, connected, fh, sid, calls>>
    PROVE  IInv'
<1>. USE DEF Fail, answer, IInv
<1>1. TypeOK'
  <2>1. sharesBuff' \in Seq(Int)
      OBVIOUS
  <2>. QED
      BY <2>1 DEF TypeOK, Steps
<1>2. ReplyShape' /\ Assembled' /\ Gapped' /\ BetweenRounds'
    BY DEF ReplyShape, Assembled, Gapped, BetweenRounds, Receiving, Ending
<1>3. BuffersAccounted'
    BY DEF BuffersAccounted, Ending
<1>4. ClosedAtEnd' /\ ListedAtEnd' /\ SidAtEnd'
    BY DEF ClosedAtEnd, ListedAtEnd, SidAtEnd, Ending
<1>. QED
    BY <1>1, <1>2, <1>3, <1>4

(* Steps before and after the responses, which leave the buffers alone.     *)
LEMMA QuietInv ==
    ASSUME IInv, UNCHANGED <<buffers, answer>>, TypeOK', ~Receiving, ~Receiving',
           pc # "enum", pc' = "enum" => ~Ending, Ending' => sharesBuff = << >>,
           ~Ending' => ~Ending,
           ClosedAtEnd', ListedAtEnd', SidAtEnd'
    PROVE  IInv'
<1>. USE DEF IInv, buffers, answer, Receiving, Ending
<1>1. ReplyShape' /\ Assembled' /\ Gapped' /\ BetweenRounds'
    BY DEF ReplyShape, Assembled, Gapped, BetweenRounds
<1>2. BuffersAccounted'
    BY DEF BuffersAccounted
<1>. QED
    BY <1>1, <1>2

(* A call starts with everything as it is declared.                         *)
LEMMA CallInv == ASSUME IInv, Call PROVE IInv'
<1>. USE DEF Call, IInv, NoReply
<1>1. TypeOK'
  <2>1. sharesBuff' \in Seq(Int) /\ shares' \in Seq(Nat)
      OBVIOUS
  <2>2. limits' \in [xmit : Nat, recv : Nat] /\ reply' \in Replies
      BY DEF Replies
  <2>3. /\ resumeHandle' \in 0..NShares /\ sharesBuffLen' \in Nat /\ calls' \in Nat
        /\ rounds' \in Nat /\ leaked' \in Nat
      BY SizeAssumption DEF TypeOK
  <2>. QED
      BY <2>1, <2>2, <2>3, Zenon DEF TypeOK, Steps
<1>2. ReplyShape'
    BY SizeAssumption DEF ReplyShape, Receiving, Ending
<1>3. Assembled' /\ Gapped' /\ BetweenRounds'
    BY DEF Assembled, Gapped, BetweenRounds, Receiving, Ending
<1>4. BuffersAccounted'
    BY DEF BuffersAccounted, Ending
<1>5. ClosedAtEnd' /\ ListedAtEnd' /\ SidAtEnd'
    BY DEF ClosedAtEnd, ListedAtEnd, SidAtEnd, Ending
<1>. QED
    BY <1>1, <1>2, <1>3, <1>4, <1>5

(* The first fragment of a response, in the first round or a later one.     *)
LEMMA FirstFragmentInv ==
    ASSUME IInv, pc = "enum", NEW r \in Answers, NEW n \in FragmentSizes(r.size),
           FirstFragment(r, n), failed' \in BOOLEAN,
           UNCHANGED <<func, level, connected, fh, limits, sid, calls>>
    PROVE  IInv'
<1>. USE DEF IInv
<1>0. /\ rounds' = rounds + 1 /\ sharesBuffLen' = sharesBuffLen + Hdr + n
      /\ leaked' = IF sharesBuff = << >> THEN leaked ELSE leaked + 1
      /\ fragmentBuf' = (pc' = "fragment")
      /\ UNCHANGED <<result, resumeHandle, shares>>
    BY DEF FirstFragment
<1>1. /\ r \in Replies
      /\ r.from = resumeHandle /\ r.from + r.count <= NShares
    BY AnswerShape
<1>2. n \in Nat /\ n >= 1 /\ n <= r.size /\ Hdr \in Nat /\ Hdr > 0
    BY <1>1, SizeAssumption DEF FragmentSizes, Replies
<1>3. \A i \in 1..(Hdr + n) : sharesBuff'[i] = IF i <= Hdr THEN Header ELSE i - Hdr
    BY DEF FirstFragment
<1>4. sharesBuff' \in Seq(Int) /\ Len(sharesBuff') = Hdr + n
  <2>1. Hdr + n \in Nat /\ Header \in Int
      BY <1>2 DEF Header
  <2>2. sharesBuff' \in [1..(Hdr + n) -> Int]
      BY <1>2, <2>1 DEF FirstFragment
  <2>. QED
      BY <2>1, <2>2, BufferIsSeq
<1>5. /\ reply' \in Replies
      /\ reply'.from = r.from /\ reply'.count = r.count /\ reply'.size = r.size
      /\ reply'.sent = n
    BY <1>1, <1>2 DEF Replies, FirstFragment
<1>6. pc' \in {"parse", "fragment"} /\ (pc' = "parse" => n = r.size)
    BY DEF IsLast, FirstFragment
<1>7. rounds \in Nat /\ sharesBuffLen \in Nat /\ leaked \in Nat
    BY DEF TypeOK
<1>8. TypeOK'
  <2>1. rounds' \in Nat /\ sharesBuffLen' \in Nat /\ leaked' \in Nat
      BY <1>0, <1>2, <1>7
  <2>2. pc' \in Steps \cup {"idle", "misread"} /\ fragmentBuf' \in BOOLEAN
      BY <1>0, <1>6 DEF Steps
  <2>. QED
      BY <1>0, <1>4, <1>5, <2>1, <2>2, Zenon DEF TypeOK
<1>9. ReplyShape'
    BY <1>0, <1>1, <1>2, <1>5, <1>6, <1>7 DEF ReplyShape, Receiving, Ending
<1>10. Assembled'
  <2>. SUFFICES ASSUME rounds' = 1
                PROVE  /\ Len(sharesBuff') = Hdr + n /\ sharesBuffLen' = Hdr + n
                       /\ r.from = 0 /\ shares' = << >>
      BY <1>3, <1>4, <1>5 DEF Assembled
  <2>1. rounds = 0
      BY <1>0, <1>7
  <2>2. sharesBuffLen = 0 /\ resumeHandle = 0 /\ shares = << >>
      BY <2>1 DEF BetweenRounds, Ending
  <2>. QED
      BY <1>0, <1>1, <1>2, <1>4, <2>2
<1>11. Gapped'
  <2>2. sharesBuffLen' \in Nat /\ Len(sharesBuff') \in Nat
      BY <1>0, <1>2, <1>4, <1>7
  <2>. SUFFICES ASSUME rounds' >= 2 PROVE sharesBuffLen' > Len(sharesBuff')
      BY <1>4, <1>5, <2>2 DEF Gapped
  <2>1. sharesBuffLen > 0
      BY <1>0, <1>7 DEF BetweenRounds
  <2>. QED
      BY <1>0, <1>2, <1>4, <1>7, <2>1
<1>12. BetweenRounds'
    BY <1>0, <1>6, <1>7 DEF BetweenRounds
<1>13. BuffersAccounted'
    BY <1>0, <1>6, <1>7 DEF BuffersAccounted, BetweenRounds, Ending
<1>14. ClosedAtEnd' /\ ListedAtEnd' /\ SidAtEnd'
    BY <1>0, <1>6 DEF ClosedAtEnd, ListedAtEnd, SidAtEnd, Ending
<1>. QED
    BY <1>8, <1>9, <1>10, <1>11, <1>12, <1>13, <1>14

(* One more fragment.                                                       *)
LEMMA FragmentInv == ASSUME IInv, Fragment PROVE IInv'
<1>. USE DEF IInv
<1>0. /\ pc = "fragment"
      /\ UNCHANGED <<func, level, connected, fh, limits, sid, calls>>
    BY DEF Fragment
<1>1. PICK out \in Outcomes, n \in FragmentSizes(reply.size - reply.sent) :
        /\ Note(out)
        /\ IF out # "SUCCESS" \/ Hdr + n > limits.recv \/ IsError(n)
           THEN Fail
           ELSE /\ sharesBuff' = Extended(n)
                /\ sharesBuffLen' = sharesBuffLen + n
                /\ reply' = [reply EXCEPT !.sent = @ + n]
                /\ pc' = IF IsLast(n, reply.size - reply.sent) THEN "parse" ELSE "fragment"
                /\ fragmentBuf' = (pc' = "fragment")
                /\ UNCHANGED <<leaked, result, rounds, resumeHandle, shares>>
    BY DEF Fragment
<1>2. failed' \in BOOLEAN
    BY <1>1 DEF Note
<1>3. CASE Fail
    BY <1>0, <1>2, <1>3, FailInv DEF TypeOK, Ending
<1>4. CASE ~IsError(n) /\ ~Fail
  <2>1. /\ sharesBuff' = Extended(n)
        /\ sharesBuffLen' = sharesBuffLen + n
        /\ reply' = [reply EXCEPT !.sent = @ + n]
        /\ pc' = IF IsLast(n, reply.size - reply.sent) THEN "parse" ELSE "fragment"
        /\ fragmentBuf' = (pc' = "fragment")
        /\ UNCHANGED <<leaked, result, rounds, resumeHandle, shares>>
      BY <1>1, <1>4
  <2>2. /\ reply.size \in Nat /\ reply.sent \in Nat /\ reply.sent <= reply.size
        /\ reply.sent >= 1 /\ rounds >= 1 /\ rounds \in Nat
        /\ sharesBuffLen \in Nat /\ Len(sharesBuff) \in Nat /\ leaked \in Nat
      BY <1>0 DEF TypeOK, Replies, ReplyShape, Receiving
  <2>3. n \in Nat /\ n >= 2 /\ n <= reply.size - reply.sent /\ Hdr \in Nat /\ Hdr > 0
    <3>1. n \in 1..(reply.size - reply.sent)
        BY DEF FragmentSizes
    <3>2. Hdr \in Nat \ {0} /\ Small \in Nat \ {0}
        BY SizeAssumption
    <3>3. ~(n <= Small)
        BY <1>4 DEF IsError
    <3>. QED
        BY <2>2, <3>1, <3>2, <3>3
  <2>4. /\ reply' \in Replies
        /\ reply'.from = reply.from /\ reply'.count = reply.count /\ reply'.size = reply.size
        /\ reply'.sent = reply.sent + n
    <3>1. reply \in Replies /\ reply.sent + n \in Nat
        BY <2>2, <2>3 DEF TypeOK
    <3>2. reply' = [reply EXCEPT !.sent = reply.sent + n]
        BY <2>1
    <3>. QED
        BY <3>1, <3>2 DEF Replies
  <2>5. pc' \in {"parse", "fragment"} /\ (pc' = "parse" => n = reply.size - reply.sent)
      BY <2>1 DEF IsLast
  <2>6. sharesBuff' \in Seq(Int) /\ Len(sharesBuff') = sharesBuffLen + n
    <3>1. sharesBuffLen + n \in Nat /\ Junk \in Int
        BY <2>2, <2>3 DEF Junk
    <3>2. \A i \in 1..Len(sharesBuff) : sharesBuff[i] \in Int
        BY DEF TypeOK
    <3>3. \A i \in 1..(sharesBuffLen + n) : sharesBuff'[i] \in Int
        BY <2>1, <2>2, <2>3, <3>1, <3>2 DEF Extended
    <3>4. sharesBuff' \in [1..(sharesBuffLen + n) -> Int]
        BY <2>1, <3>3 DEF Extended
    <3>. QED
        BY <3>1, <3>4, BufferIsSeq
  <2>7. \A i \in 1..(sharesBuffLen + n) :
            sharesBuff'[i] = IF i <= Len(sharesBuff) THEN sharesBuff[i]
                             ELSE IF i <= sharesBuffLen THEN Junk
                             ELSE reply.sent + i - sharesBuffLen
      BY <2>1 DEF Extended
  <2>8. TypeOK'
    <3>1. sharesBuffLen' \in Nat
        BY <2>1, <2>2, <2>3
    <3>2. pc' \in Steps \cup {"idle", "misread"} /\ fragmentBuf' \in BOOLEAN
        BY <2>1, <2>5 DEF Steps
    <3>. QED
        BY <1>0, <1>2, <2>1, <2>4, <2>6, <3>1, <3>2, Zenon DEF TypeOK
  <2>9. ReplyShape'
      BY <1>0, <2>1, <2>2, <2>3, <2>4, <2>5 DEF ReplyShape, Receiving, Ending
  <2>10. Assembled'
    <3>. SUFFICES ASSUME rounds = 1
                  PROVE  /\ Len(sharesBuff') = Hdr + reply'.sent
                         /\ sharesBuffLen' = Len(sharesBuff')
                         /\ \A i \in 1..Len(sharesBuff') :
                                sharesBuff'[i] = IF i <= Hdr THEN Header ELSE i - Hdr
                         /\ reply'.from = 0 /\ shares' = << >>
        BY <2>1 DEF Assembled
    <3>1. /\ Len(sharesBuff) = Hdr + reply.sent /\ sharesBuffLen = Len(sharesBuff)
          /\ \A i \in 1..Len(sharesBuff) :
                sharesBuff[i] = IF i <= Hdr THEN Header ELSE i - Hdr
          /\ reply.from = 0 /\ shares = << >>
        BY <1>0 DEF Assembled, Receiving
    <3>2. ASSUME NEW i \in 1..(sharesBuffLen + n)
          PROVE  sharesBuff'[i] = IF i <= Hdr THEN Header ELSE i - Hdr
      <4>1. CASE i <= Len(sharesBuff)
          BY <2>7, <3>1, <4>1
      <4>2. CASE ~(i <= Len(sharesBuff))
        <5>1. sharesBuff'[i] = reply.sent + i - sharesBuffLen
            BY <2>7, <3>1, <4>2
        <5>. QED
            BY <2>2, <2>3, <3>1, <4>2, <5>1, SMTT(60)
      <4>. QED
          BY <4>1, <4>2
    <3>. QED
        BY <2>1, <2>2, <2>3, <2>4, <2>6, <3>1, <3>2
  <2>11. Gapped'
    <3>. SUFFICES ASSUME rounds >= 2
                  PROVE  \E p \in 1..(reply.size - 1) :
                            Hdr + p <= Len(sharesBuff') /\ sharesBuff'[Hdr + p] = Junk
        BY <2>1, <2>2, <2>3, <2>4, <2>6 DEF Gapped
    <3>1. CASE Len(sharesBuff) = Hdr + reply.sent /\ sharesBuffLen > Len(sharesBuff)
      <4>1. reply.sent + 1 \in 1..(reply.size - 1)
          BY <2>2, <2>3
      <4>2. Hdr + (reply.sent + 1) \in 1..(sharesBuffLen + n)
          BY <2>2, <2>3, <3>1
      <4>3. sharesBuff'[Hdr + (reply.sent + 1)] = Junk
          BY <2>2, <2>3, <2>7, <3>1, <4>2
      <4>4. Hdr + (reply.sent + 1) <= Len(sharesBuff')
          BY <2>2, <2>3, <2>6, <3>1
      <4>. QED
          BY <4>1, <4>3, <4>4
    <3>2. CASE \E p \in 1..(reply.size - 1) :
                    Hdr + p <= Len(sharesBuff) /\ sharesBuff[Hdr + p] = Junk
      <4>1. PICK p \in 1..(reply.size - 1) :
                    Hdr + p <= Len(sharesBuff) /\ sharesBuff[Hdr + p] = Junk
          BY <3>2
      <4>2. Len(sharesBuff) <= sharesBuffLen
          BY <1>0 DEF Gapped, Receiving
      <4>3. Hdr + p \in 1..(sharesBuffLen + n) /\ Hdr + p <= Len(sharesBuff')
        <5>1. p \in Nat /\ p >= 1
            BY <2>2
        <5>. QED
            BY <2>2, <2>3, <2>6, <4>1, <4>2, <5>1
      <4>4. sharesBuff'[Hdr + p] = Junk
          BY <2>7, <4>1, <4>3
      <4>. QED
          BY <4>3, <4>4
    <3>. QED
        BY <1>0, <3>1, <3>2 DEF Gapped, Receiving
  <2>12. BetweenRounds'
      BY <1>0, <2>1, <2>2, <2>5 DEF BetweenRounds
  <2>13. BuffersAccounted'
      BY <1>0, <2>1, <2>5 DEF BuffersAccounted, Ending
  <2>14. ClosedAtEnd' /\ ListedAtEnd' /\ SidAtEnd'
      BY <1>0, <2>1, <2>5 DEF ClosedAtEnd, ListedAtEnd, SidAtEnd, Ending
  <2>. QED
      BY <2>8, <2>9, <2>10, <2>11, <2>12, <2>13, <2>14
<1>. QED
    BY <1>1, <1>3, <1>4

(* The request for the shares.                                              *)
LEMMA EnumInv == ASSUME IInv, Enum PROVE IInv'
<1>1. /\ pc = "enum" /\ ~Ending
      /\ UNCHANGED <<func, level, connected, fh, limits, sid, calls>>
    BY DEF Enum, Ending
<1>2. failed' \in BOOLEAN /\ limits' \in [xmit : Nat, recv : Nat]
    BY <1>1 DEF Enum, Note, IInv, TypeOK
<1>3. CASE Fail
    BY <1>1, <1>2, <1>3, FailInv
<1>4. CASE ~Fail
  <2>1. PICK r \in Answers : \E n \in FragmentSizes(r.size) : FirstFragment(r, n)
      BY <1>4, Zenon DEF Enum
  <2>2. PICK n \in FragmentSizes(r.size) : FirstFragment(r, n)
      BY <2>1
  <2>. QED
      BY <1>1, <1>2, <2>2, FirstFragmentInv
<1>. QED
    BY <1>3, <1>4

(* Only the response of the first round can be read.                        *)
LEMMA FirstRoundOnly ==
    ASSUME IInv, pc \in {"parse", "misread"} PROVE Readable <=> rounds = 1
<1>1. /\ rounds \in Nat /\ rounds >= 1 /\ reply.size \in Nat /\ reply.sent = reply.size
      /\ reply.size >= 1 /\ Hdr \in Nat /\ Hdr > 0 /\ Len(sharesBuff) \in Nat
      /\ sharesBuffLen \in Nat
    BY SizeAssumption, SMTT(60) DEF IInv, TypeOK, Replies, ReplyShape, Receiving
<1>2. CASE rounds = 1
  <2>1. /\ Len(sharesBuff) = Hdr + reply.size /\ sharesBuffLen = Len(sharesBuff)
        /\ \A i \in 1..Len(sharesBuff) :
                sharesBuff[i] = IF i <= Hdr THEN Header ELSE i - Hdr
      BY <1>1, <1>2 DEF IInv, Assembled, Receiving
  <2>2. sharesBuffLen \in 1..Len(sharesBuff) /\ sharesBuff[sharesBuffLen] = reply.size
      BY <1>1, <2>1
  <2>3. ASSUME NEW i \in 1..(reply.size - 1)
        PROVE  Hdr + i <= Len(sharesBuff) /\ sharesBuff[Hdr + i] = i
    <3>1. Hdr + i \in 1..Len(sharesBuff) /\ ~(Hdr + i <= Hdr)
        BY <1>1, <2>1
    <3>2. sharesBuff[Hdr + i] = (Hdr + i) - Hdr
        BY <2>1, <3>1
    <3>. QED
        BY <1>1, <3>1, <3>2
  <2>. QED
      BY <1>2, <2>2, <2>3 DEF Readable
<1>3. CASE rounds >= 2
  <2>1. ASSUME Readable PROVE FALSE
    <3>1. CASE Len(sharesBuff) = Hdr + reply.sent /\ sharesBuffLen > Len(sharesBuff)
        BY <1>1, <2>1, <3>1 DEF Readable
    <3>2. CASE \E p \in 1..(reply.size - 1) :
                    Hdr + p <= Len(sharesBuff) /\ sharesBuff[Hdr + p] = Junk
      <4>1. PICK p \in 1..(reply.size - 1) : sharesBuff[Hdr + p] = Junk
          BY <3>2
      <4>2. sharesBuff[Hdr + p] = p
          BY <2>1 DEF Readable
      <4>. QED
          BY <1>1, <4>1, <4>2 DEF Junk
    <3>. QED
        BY <1>3, <3>1, <3>2 DEF IInv, Gapped, Receiving
  <2>. QED
      BY <1>1, <1>3, <2>1
<1>. QED
    BY <1>1, <1>2, <1>3

(* The list after the first round.                                          *)
LEMMA ListIsSeq ==
    ASSUME NEW c \in Nat
    PROVE  /\ << >> \o [i \in 1..c |-> 0 + i] = [i \in 1..c |-> i]
           /\ [i \in 1..c |-> i] \in Seq(Nat) /\ Len([i \in 1..c |-> i]) = c
<1>1. [i \in 1..c |-> 0 + i] = [i \in 1..c |-> i]
    OBVIOUS
<1>2. [i \in 1..c |-> i] \in Seq(Nat) /\ Len([i \in 1..c |-> i]) = c
  <2>1. [i \in 1..c |-> i] \in [1..c -> Nat]
      OBVIOUS
  <2>. QED
      BY <2>1, BufferIsSeq
<1>3. ASSUME NEW s \in Seq(Nat) PROVE << >> \o s = s
    OBVIOUS
<1>. QED
    BY <1>1, <1>2, <1>3

(* Reading the response.                                                    *)
LEMMA ParseInv == ASSUME IInv, Parse PROVE IInv'
<1>1. /\ pc = "parse" /\ ~Ending /\ rounds = 1
      /\ UNCHANGED <<func, level, connected, fh, limits, sid, calls, failed>>
    BY FirstRoundOnly DEF Parse, Ending
<1>2. CASE Fail
    BY <1>1, <1>2, FailInv DEF IInv, TypeOK
<1>3. CASE ~Fail
  <2>1. /\ shares' = shares \o [i \in 1..reply.count |-> reply.from + i]
        /\ resumeHandle' = HandleRead
        /\ pc' = IF MoreShares THEN "enum" ELSE "close"
        /\ result' = IF MoreShares THEN result ELSE 0
        /\ sharesBuff' = IF MoreShares THEN sharesBuff ELSE << >>
        /\ UNCHANGED <<sharesBuffLen, fragmentBuf, leaked, reply, rounds>>
      BY <1>3 DEF Parse
  <2>2. /\ reply \in Replies /\ reply.from = 0 /\ shares = << >>
        /\ reply.count \in Nat /\ reply.count <= NShares /\ NShares \in Nat
        /\ sharesBuffLen = Hdr + reply.sent /\ reply.sent \in Nat
        /\ Hdr \in Nat /\ Hdr > 0 /\ reply.from + reply.count = reply.count
        /\ sharesBuff \in Seq(Int)
    <3>1. reply \in Replies /\ NShares \in Nat /\ Hdr \in Nat /\ Hdr > 0
        BY SizeAssumption DEF IInv, TypeOK
    <3>2. /\ reply.from = 0 /\ shares = << >> /\ sharesBuffLen = Hdr + reply.sent
          /\ reply.from + reply.count <= NShares
        BY <1>1 DEF IInv, Assembled, ReplyShape, Receiving
    <3>. QED
        BY <3>1, <3>2 DEF Replies, IInv, TypeOK
  <2>3. shares' = [i \in 1..reply.count |-> i]
      BY <2>1, <2>2, ListIsSeq
  <2>4. shares' \in Seq(Nat) /\ Len(shares') = reply.count
      BY <2>2, <2>3, ListIsSeq
  <2>5. resumeHandle' \in 0..NShares
      BY <2>1, <2>2 DEF HandleRead
  <2>6. pc' \in {"enum", "close"} /\ sharesBuff' \in Seq(Int) /\ ~fragmentBuf
    <3>1. << >> \in Seq(Int)
        OBVIOUS
    <3>2. sharesBuff' \in {sharesBuff, << >>} /\ pc' \in {"enum", "close"}
        BY <2>1
    <3>3. ~fragmentBuf
        BY <1>1 DEF IInv, BuffersAccounted
    <3>. QED
        BY <2>2, <3>1, <3>2, <3>3, Zenon
  <2>7. TypeOK'
    <3>1. pc' \in Steps \cup {"idle", "misread"} /\ result' \in {0, -1}
        BY <2>1 DEF IInv, TypeOK, Steps
    <3>. QED
        BY <1>1, <2>1, <2>4, <2>5, <2>6, <3>1, Zenon DEF IInv, TypeOK
  <2>8. ReplyShape'
      BY <1>1, <2>1, <2>6 DEF IInv, ReplyShape, Receiving, Ending
  <2>9. Assembled' /\ Gapped'
      BY <2>6 DEF Assembled, Gapped, Receiving
  <2>10. BetweenRounds'
      BY <1>1, <2>1, <2>2 DEF BetweenRounds
  <2>11. BuffersAccounted'
      BY <1>1, <2>1, <2>6 DEF IInv, BuffersAccounted, Ending
  <2>12. ClosedAtEnd' /\ SidAtEnd'
      BY <1>1, <2>1 DEF IInv, ClosedAtEnd, SidAtEnd, Ending
  <2>13. ListedAtEnd'
    <3>. SUFFICES ASSUME ~MoreShares PROVE reply.count = NShares
        BY <2>1, <2>3 DEF ListedAtEnd, Ending
    <3>. QED
        BY <2>2, <2>4 DEF MoreShares
  <2>. QED
      BY <2>7, <2>8, <2>9, <2>10, <2>11, <2>12, <2>13 DEF IInv
<1>. QED
    BY <1>2, <1>3

(* A response of a later round.                                             *)
LEMMA MisreadInv == ASSUME IInv, Misread PROVE IInv'
<1>. USE DEF Misread, IInv, buffers, answer
<1>1. TypeOK'
    BY DEF TypeOK
<1>2. ReplyShape' /\ Assembled' /\ Gapped'
    BY DEF ReplyShape, Assembled, Gapped, Receiving, Ending
<1>3. BetweenRounds' /\ BuffersAccounted'
    BY DEF BetweenRounds, BuffersAccounted, Ending
<1>4. ClosedAtEnd' /\ ListedAtEnd' /\ SidAtEnd'
    BY DEF ClosedAtEnd, ListedAtEnd, SidAtEnd, Ending
<1>. QED
    BY <1>1, <1>2, <1>3, <1>4

(* The connection and the pipe are opened.                                  *)
LEMMA OpenInv == ASSUME IInv, Connect \/ OpenPipe PROVE IInv'
<1>1. /\ pc \in {"connect", "open"} /\ pc' \in {"open", "idle", "bind", "disconnect"}
      /\ UNCHANGED <<buffers, answer>> /\ UNCHANGED <<func, level, limits, sid, calls>>
      /\ pc' \in {"idle", "disconnect"} => result' = -1
    BY DEF Connect, OpenPipe, Outcomes
<1>2. /\ connected' \in BOOLEAN /\ failed' \in BOOLEAN /\ result' \in {0, -1}
      /\ fh' \in {"NULL", "open", "deleted"}
    BY DEF Connect, OpenPipe, Outcomes, Note, IInv, TypeOK
<1>3. TypeOK'
    BY <1>1, <1>2, Zenon DEF IInv, TypeOK, Steps, buffers, answer
<1>4. sharesBuff = << >>
    BY <1>1 DEF IInv, BetweenRounds, ReplyShape, Receiving, Ending
<1>5. ClosedAtEnd'
  <2>1. CASE Connect
      BY <2>1 DEF Connect, ClosedAtEnd, IInv
  <2>2. CASE OpenPipe
      BY <2>2 DEF OpenPipe, ClosedAtEnd, Outcomes
  <2>. QED
      BY <2>1, <2>2
<1>6. ListedAtEnd' /\ SidAtEnd'
    BY <1>1 DEF IInv, ListedAtEnd, SidAtEnd, Ending
<1>. QED
    BY <1>1, <1>3, <1>4, <1>5, <1>6, QuietInv DEF Receiving, Ending

(* The steps that fail or go on to the next request.                        *)
LEMMA RequestInv == ASSUME IInv, Bind \/ OpenPolicy \/ LookupNames PROVE IInv'
<1>1. /\ pc \in {"bind", "policy", "names"} /\ ~Ending
      /\ UNCHANGED <<func, level, connected, fh, calls>>
    BY DEF Bind, OpenPolicy, LookupNames, Ending
<1>2. failed' \in BOOLEAN
    BY DEF Bind, OpenPolicy, LookupNames, Note, IInv, TypeOK
<1>3. limits' \in [xmit : Nat, recv : Nat]
    BY LimitAssumption DEF Bind, OpenPolicy, LookupNames, IInv, TypeOK
<1>4. CASE Fail /\ UNCHANGED sid
    BY <1>1, <1>2, <1>3, <1>4, FailInv
<1>5. CASE ~(Fail /\ UNCHANGED sid)
  <2>1. /\ UNCHANGED <<buffers, answer>>
        /\ \/ pc' \in {"enum", "policy", "names"} /\ UNCHANGED <<result, sid>>
           \/ pc' = "close" /\ result' = 0 /\ sid' = "live"
      BY <1>5 DEF Bind, OpenPolicy, LookupNames
  <2>2. TypeOK'
    <3>1. /\ pc' \in Steps \cup {"idle", "misread"} /\ result' \in {0, -1}
          /\ sid' \in {"NULL", "live", "freed"}
        BY <2>1 DEF IInv, TypeOK, Steps
    <3>. QED
        BY <1>1, <1>2, <1>3, <2>1, <3>1, Zenon DEF IInv, TypeOK, buffers, answer
  <2>3. sharesBuff = << >> /\ rounds = 0
      BY <1>1 DEF IInv, BetweenRounds, ReplyShape, Receiving, Ending
  <2>4. ClosedAtEnd' /\ ListedAtEnd' /\ SidAtEnd'
      BY <1>1, <2>1, <2>3 DEF IInv, ClosedAtEnd, ListedAtEnd, SidAtEnd, Ending, answer
  <2>. QED
      BY <1>1, <2>1, <2>2, <2>3, <2>4, QuietInv DEF Receiving, Ending
<1>. QED
    BY <1>4, <1>5

(* The end of a call, and what the caller does between two of them.         *)
LEMMA EndInv ==
    ASSUME IInv, ClosePipe \/ Disconnect \/ CallWithoutName \/ FreeSid PROVE IInv'
<1>1. /\ Ending /\ Ending' /\ UNCHANGED <<buffers, answer>>
      /\ UNCHANGED <<func, level, limits>>
      /\ pc' \in {"disconnect", "idle"}
      /\ UNCHANGED result \/ result' = -1
    BY DEF ClosePipe, Disconnect, CallWithoutName, FreeSid, Ending
<1>2. /\ connected' \in BOOLEAN /\ failed' \in BOOLEAN /\ result' \in {0, -1}
      /\ fh' \in {"NULL", "open", "deleted"} /\ sid' \in {"NULL", "live", "freed"}
      /\ calls' \in Nat
  <2>1. CASE ClosePipe \/ Disconnect
      BY <2>1, Zenon DEF ClosePipe, Disconnect, Note, IInv, TypeOK
  <2>2. CASE CallWithoutName \/ FreeSid
      BY <2>2 DEF CallWithoutName, FreeSid, IInv, TypeOK
  <2>. QED
      BY <2>1, <2>2
<1>3. TypeOK'
    BY <1>1, <1>2, Zenon DEF IInv, TypeOK, Steps, buffers, answer
<1>4. sharesBuff = << >>
    BY <1>1 DEF IInv, BuffersAccounted
<1>5. ClosedAtEnd'
  <2>1. CASE ClosePipe
      BY <2>1 DEF ClosePipe, PipeOutcomes, Outcomes, Note, ClosedAtEnd
  <2>2. CASE Disconnect
      BY <2>2 DEF Disconnect, Note, IInv, ClosedAtEnd
  <2>3. CASE CallWithoutName \/ FreeSid
      BY <2>3 DEF CallWithoutName, FreeSid, IInv, ClosedAtEnd
  <2>. QED
      BY <2>1, <2>2, <2>3
<1>6. ListedAtEnd'
    BY <1>1 DEF IInv, ListedAtEnd, answer
<1>7. SidAtEnd'
    BY <1>1 DEF ClosePipe, Disconnect, CallWithoutName, FreeSid, IInv, SidAtEnd, TypeOK
<1>. QED
    BY <1>1, <1>3, <1>4, <1>5, <1>6, <1>7, QuietInv DEF Receiving, Ending

(* The initial state.                                                       *)
LEMMA InitInv == Init => IInv
<1>. SUFFICES ASSUME Init PROVE IInv
    OBVIOUS
<1>. USE DEF Init, NoReply
<1>1. TypeOK
  <2>1. sharesBuff \in Seq(Int) /\ shares \in Seq(Nat) /\ reply \in Replies
      BY DEF Replies
  <2>2. /\ resumeHandle \in 0..NShares /\ level \in 1..3 /\ sharesBuffLen \in Nat
        /\ calls \in Nat /\ rounds \in Nat /\ leaked \in Nat
        /\ limits \in [xmit : Nat, recv : Nat]
      BY SizeAssumption
  <2>. QED
      BY <2>1, <2>2, Zenon DEF TypeOK
<1>2. ReplyShape /\ Assembled /\ Gapped /\ BetweenRounds
    BY SizeAssumption DEF ReplyShape, Assembled, Gapped, BetweenRounds, Receiving, Ending
<1>3. BuffersAccounted
    BY Zenon DEF BuffersAccounted
<1>4. ClosedAtEnd /\ ListedAtEnd /\ SidAtEnd
    BY DEF ClosedAtEnd, ListedAtEnd, SidAtEnd
<1>. QED
    BY <1>1, <1>2, <1>3, <1>4 DEF IInv

(* The inductive invariant: what a response buffer holds in each round, and *)
(* what has been released by the time a call is about to return.            *)
THEOREM InvCorrect == Spec => []IInv
<1>1. IInv /\ [Next]_vars => IInv'
  <2>. SUFFICES ASSUME IInv, [Next]_vars PROVE IInv'
      OBVIOUS
  <2>1. CASE Call
      BY <2>1, CallInv
  <2>2. CASE ClosePipe \/ Disconnect \/ CallWithoutName \/ FreeSid
      BY <2>2, EndInv
  <2>3. CASE Connect \/ OpenPipe
      BY <2>3, OpenInv
  <2>4. CASE Bind \/ OpenPolicy \/ LookupNames
      BY <2>4, RequestInv
  <2>5. CASE Enum
      BY <2>5, EnumInv
  <2>6. CASE Fragment
      BY <2>6, FragmentInv
  <2>7. CASE Parse
      BY <2>7, ParseInv
  <2>8. CASE Misread
      BY <2>8, MisreadInv
  <2>9. CASE UNCHANGED vars
      BY <2>9 DEF vars, buffers, answer, IInv, TypeOK, ReplyShape, Assembled, Gapped,
                  BetweenRounds, BuffersAccounted, ClosedAtEnd, ListedAtEnd, SidAtEnd,
                  Readable, Receiving, Ending
  <2>. QED
      BY <2>1, <2>2, <2>3, <2>4, <2>5, <2>6, <2>7, <2>8, <2>9 DEF Next, Step
<1>. QED
    BY InitInv, <1>1, PTL DEF Spec

(* Every variable keeps its type; the resume handle sent is one the server  *)
(* has given.                                                               *)
THEOREM TypeCorrect == Spec => []TypeOK
<1>1. IInv => TypeOK
    BY DEF IInv
<1>. QED
    BY InvCorrect, <1>1, PTL

(* However the server fragments its first response, what smb2_list_shares   *)
(* parses is that response.                                                 *)
THEOREM FragmentsAssembled == Spec => []ReadableInFirstRound
<1>1. IInv => ReadableInFirstRound
    BY FirstRoundOnly DEF ReadableInFirstRound
<1>. QED
    BY InvCorrect, <1>1, PTL

(* smb2_list_shares returns 0 only with all the shares of the server, each  *)
(* once and in order.                                                       *)
THEOREM ListComplete == Spec => []AllListed
<1>1. IInv => AllListed
    BY DEF IInv, ListedAtEnd, AllListed, Ending
<1>. QED
    BY InvCorrect, <1>1, PTL

(* After a call of one round whose exchanges were answered nothing is left: *)
(* no connection, no open pipe, no buffer.                                  *)
THEOREM CleanupComplete == Spec => []CleanedUp
<1>1. IInv => CleanedUp
    BY DEF IInv, TypeOK, BuffersAccounted, ClosedAtEnd, CleanedUp, Ending
<1>. QED
    BY InvCorrect, <1>1, PTL

(* A caller that passes a NULL SID to smb2_lookUpSid is never left with one *)
(* that the function has freed.                                             *)
THEOREM SidSafe == ASSUME ~ReuseSid PROVE Spec => []SidUsable
<1>1. IInv => SidUsable
    BY DEF IInv, SidAtEnd, SidUsable
<1>. QED
    BY InvCorrect, <1>1, PTL
=============================================================================
