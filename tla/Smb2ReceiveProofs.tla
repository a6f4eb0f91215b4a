-------------------------- MODULE Smb2ReceiveProofs --------------------------
(***************************************************************************)
(* Proofs about Smb2Receive, for every layout of a response, every way its *)
(* bytes arrive and every width of size_t that can count them.             *)
(***************************************************************************)
EXTENDS Smb2Receive, TLAPS

(* What readIovec has put into the buffer as long as readv has not failed.  *)
Consecutive ==
    (ret = "running" /\ ~blocked) =>
        /\ count <= want
        /\ pos = totalBytesRead + count
        /\ \A i \in 0..(want - 1) : i < count => buf[i] = totalBytesRead + i

(* Where in the message each phase begins and how much it reads.            *)
Position ==
    ret = "running" =>
        /\ want + 1 < Word
        /\ recv_state = "SPL" => totalBytesRead = 0 /\ want = SplSize /\ cur = 1
        /\ recv_state = "HEADER" => totalBytesRead = msg.start[cur] /\ want = HeaderSize
        /\ recv_state \in {"FIXED", "VARIABLE", "PAD"} =>
               payload_offset = msg.start[cur] + HeaderSize
        /\ recv_state = "FIXED" =>
               /\ ~msg.pending[cur]
               /\ totalBytesRead = payload_offset /\ want = msg.fixed[cur]
        /\ recv_state = "VARIABLE" =>
               /\ ~msg.pending[cur]
               /\ totalBytesRead = payload_offset + msg.fixed[cur]
               /\ want = msg.variable[cur]
        /\ recv_state = "PAD" =>
               totalBytesRead + want =
                   IF msg.pending[cur] THEN Length(msg) ELSE msg.start[cur + 1]

IInv == TypeOK /\ InsideBuffer /\ Consecutive /\ Position /\ Framed

(* A message of the constant set has the shape its fields say.              *)
LEMMA MessageShape ==
    ASSUME NEW m \in Messages
    PROVE  /\ m.n \in Nat \ {0}
           /\ m.start \in [1..(m.n + 1) -> Nat]
           /\ m.start[1] = SplSize
           /\ \A i \in 1..m.n : /\ m.start[i + 1] >= m.start[i] + HeaderSize
                                /\ Length(m) >= m.start[i] + HeaderSize
                                /\ m.fixed[i] \in Nat /\ m.fixed[i] + 1 < Word
                                /\ m.variable[i] \in Nat /\ m.variable[i] + 1 < Word
                                /\ m.pending[i] \in BOOLEAN
           /\ \A i \in 1..(m.n + 1) : m.start[i] \in Nat /\ m.start[i] + 1 < Word
           /\ Length(m) \in Nat /\ Length(m) + 1 < Word
  <1>1. IsMessage(m)
    BY MessageAssumption
  <1>2. m.n + 1 \in 1..(m.n + 1)
    BY <1>1 DEF IsMessage
  <1>3. \A i \in 1..(m.n + 1) : m.start[i] \in Nat /\ m.start[i] + 1 < Word
    BY <1>1, MessageAssumption DEF IsMessage
  <1>4. \A i \in 1..m.n : /\ m.start[i + 1] >= m.start[i] + HeaderSize
                          /\ Length(m) >= m.start[i] + HeaderSize
    BY <1>1 DEF IsMessage, Length
  <1>5. \A i \in 1..m.n : /\ m.fixed[i] \in Nat /\ m.fixed[i] + 1 < Word
                          /\ m.variable[i] \in Nat /\ m.variable[i] + 1 < Word
    BY <1>1, MessageAssumption DEF IsMessage
  <1>6. \A i \in 1..m.n : m.pending[i] \in BOOLEAN
    BY <1>1 DEF IsMessage
  <1>7. Length(m) \in Nat /\ Length(m) + 1 < Word
    BY <1>2, <1>3 DEF Length
  <1> QED
    BY <1>1, <1>3, <1>4, <1>5, <1>6, <1>7 DEF IsMessage

(* The numbers of the response being read.                                  *)
LEMMA CurShape ==
    ASSUME TypeOK
    PROVE  /\ cur \in Nat /\ msg.n \in Nat /\ cur >= 1 /\ cur <= msg.n
           /\ msg.start[cur] \in Nat
           /\ msg.start[cur + 1] \in Nat /\ msg.start[cur + 1] + 1 < Word
           /\ msg.start[cur + 1] >= msg.start[cur] + HeaderSize
           /\ Length(msg) \in Nat /\ Length(msg) + 1 < Word
           /\ Length(msg) >= msg.start[cur] + HeaderSize
           /\ cur = msg.n => msg.start[cur + 1] = Length(msg)
           /\ msg.fixed[cur] \in Nat /\ msg.fixed[cur] + 1 < Word
           /\ msg.variable[cur] \in Nat /\ msg.variable[cur] + 1 < Word
           /\ msg.pending[cur] \in BOOLEAN
  <1>1. msg \in Messages /\ cur \in 1..msg.n
    BY DEF TypeOK
  <1>2. msg.n \in Nat
    BY <1>1, MessageShape
  <1>3. cur + 1 \in 1..(msg.n + 1) /\ cur \in 1..(msg.n + 1)
    BY <1>1, <1>2
  <1>4. /\ msg.start[cur] \in Nat
        /\ msg.start[cur + 1] \in Nat /\ msg.start[cur + 1] + 1 < Word
    BY <1>1, <1>3, MessageShape
  <1>5. cur = msg.n => msg.start[cur + 1] = Length(msg)
    BY DEF Length
  <1> QED
    BY <1>1, <1>2, <1>4, <1>5, MessageShape

(* receivePdus begins in a state of the invariant.                          *)
LEMMA InitInv == Init => IInv
  <1> SUFFICES ASSUME Init PROVE IInv
    OBVIOUS
  <1> USE SizeAssumption, WordAssumption DEF Init
  <1>1. msg.n \in Nat \ {0}
    BY MessageShape
  <1>2. buf \in [0..(want - 1) -> Int]
    BY DEF Allocated
  <1>3. TypeOK
    <2>1. cur \in 1..msg.n /\ count \in 0..(Word - 1)
      BY <1>1
    <2>2. arrived \in Nat /\ pos \in Nat /\ want \in Nat
          /\ totalBytesRead \in Nat /\ payload_offset \in Nat
      OBVIOUS
    <2> QED
      BY <1>2, <2>1, <2>2, Zenon DEF TypeOK, Phases
  <1>4. InsideBuffer /\ Consecutive /\ Position /\ Framed
    BY DEF InsideBuffer, Consecutive, Position, Framed
  <1> QED
    BY <1>3, <1>4 DEF IInv

(* Beginning the next read keeps the types, and leaves an empty buffer.     *)
LEMMA StartReadInv ==
    ASSUME NEW s \in Phases, NEW len \in Nat, StartRead(s, len), TypeOK, SizeAssumption,
           len + 1 < Word, WordAssumption
    PROVE  /\ want' = len /\ count' = 0 /\ recv_state' = s /\ cur' = cur /\ ret' = ret
           /\ buf' \in [0..(want' - 1) -> Int]
           /\ InsideBuffer'
  BY DEF StartRead, Allocated, InsideBuffer, TypeOK

(* After a full and intact buffer the code's count is the real position.    *)
LEMMA ReadAll ==
    ASSUME IInv, HaveRead
    PROVE  /\ count = want
           /\ totalBytesRead + count \in Nat
           /\ ~blocked => pos = totalBytesRead + count
  BY DEF IInv, HaveRead, TypeOK, InsideBuffer, Consecutive

(* Returning keeps everything but the properties of what is returned.       *)
LEMMA ReturnInv ==
    ASSUME IInv, NEW r \in {"0", "-1", "misread"}, Return(r), UNCHANGED <<stream, pos, blocked>>,
           totalBytesRead' \in Nat, payload_offset' \in Nat,
           r = "misread" => blocked,
           (r = "0" /\ ~blocked) => pos = Length(msg)
    PROVE  IInv'
  <1>1. TypeOK'
    BY DEF IInv, TypeOK, Return, stream
  <1>2. InsideBuffer' /\ Consecutive' /\ Position' /\ Framed'
    BY DEF IInv, TypeOK, Return, stream, InsideBuffer, Consecutive, Position, Framed
  <1> QED
    BY <1>1, <1>2 DEF IInv

(* The next read begins at the place in the message where its phase does.   *)
LEMMA NextReadInv ==
    ASSUME IInv, HaveRead, NEW s \in Phases, NEW len \in Nat, len + 1 < Word,
           StartRead(s, len), UNCHANGED <<stream, pos, blocked>>,
           totalBytesRead' = totalBytesRead + count, payload_offset' \in Nat,
           Position'
    PROVE  IInv'
  <1>1. /\ want' = len /\ count' = 0 /\ recv_state' = s /\ cur' = cur /\ ret' = ret
        /\ buf' \in [0..(want' - 1) -> Int]
        /\ InsideBuffer'
    BY StartReadInv, SizeAssumption, WordAssumption DEF IInv
  <1>2. TypeOK'
    BY <1>1, ReadAll, WordAssumption DEF IInv, TypeOK, stream
  <1>3. Consecutive'
    BY <1>1, ReadAll DEF Consecutive, IInv, TypeOK
  <1>4. Framed'
    BY <1>1 DEF HaveRead, Framed
  <1> QED
    BY <1>1, <1>2, <1>3, <1>4 DEF IInv

(* The end of a response: the end of the message, or the next header.       *)
LEMMA FinishInv ==
    ASSUME IInv, HaveRead, Finish, UNCHANGED <<stream, pos, payload_offset, blocked>>,
           totalBytesRead' = totalBytesRead + count,
           totalBytesRead' = IF msg.pending[cur] THEN Length(msg) ELSE msg.start[cur + 1]
    PROVE  IInv'
  <1> USE SizeAssumption, WordAssumption
  <1>0. TypeOK
    BY DEF IInv
  <1>1. msg \in Messages /\ cur \in 1..msg.n /\ msg.n \in Nat
    BY <1>0, CurShape DEF TypeOK
  <1>2. cur < msg.n => next_command # 0
    BY <1>0, CurShape DEF next_command
  <1>3. CASE msg.pending[cur] \/ next_command = 0
    <2>1. Return("0")
      BY <1>3 DEF Finish
    <2>2. totalBytesRead' = Length(msg)
      BY <1>0, <1>2, <1>3, CurShape
    <2>3. payload_offset' \in Nat /\ totalBytesRead' \in Nat
      BY <1>0, <2>2, CurShape DEF TypeOK
    <2>4. ~blocked => pos = Length(msg)
      BY <2>2, ReadAll
    <2> QED
      BY <2>1, <2>3, <2>4, ReturnInv
  <1>4. CASE ~(msg.pending[cur] \/ next_command = 0)
    <2>1. /\ cur' = cur + 1 /\ recv_state' = "HEADER" /\ want' = HeaderSize
          /\ buf' = Allocated(HeaderSize) /\ count' = 0 /\ ret' = ret
      BY <1>4 DEF Finish
    <2>2. cur < msg.n /\ totalBytesRead' = msg.start[cur + 1]
      BY <1>0, <1>4, CurShape DEF next_command
    <2>3. TypeOK'
      BY <1>0, <1>1, <2>1, <2>2, CurShape DEF TypeOK, stream, Allocated, Phases
    <2>4. InsideBuffer' /\ Position' /\ Framed'
      BY <1>1, <2>1, <2>2 DEF InsideBuffer, Position, Framed, HaveRead, stream
    <2>5. Consecutive'
      BY <2>1, <2>2, <1>1, ReadAll DEF Consecutive
    <2> QED
      BY <2>3, <2>4, <2>5 DEF IInv
  <1> QED
    BY <1>3, <1>4

(* What the code takes for padding ends where the response ends.            *)
LEMMA PaddingInv ==
    ASSUME IInv, HaveRead, UNCHANGED <<stream, pos, payload_offset, blocked>>,
           ~msg.pending[cur], recv_state \in {"FIXED", "VARIABLE"},
           totalBytesRead' = totalBytesRead + count, Padding(totalBytesRead')
    PROVE  IInv'
  <1> USE SizeAssumption, WordAssumption
  <1>1. TypeOK /\ ret = "running"
    BY DEF IInv, HaveRead
  <1>2. totalBytesRead' \in Nat /\ payload_offset \in Nat
        /\ payload_offset = msg.start[cur] + HeaderSize
    BY <1>1, ReadAll DEF IInv, TypeOK, Position
  <1>3. PadBytes(totalBytesRead') = msg.start[cur + 1] - totalBytesRead'
    BY <1>1, <1>2, CurShape DEF PadBytes, next_command, spl
  <1>4. CASE PadBytes(totalBytesRead') < 0 /\ Return("-1")
    BY <1>2, <1>4, ReturnInv
  <1>5. CASE PadBytes(totalBytesRead') > 0 /\ StartRead("PAD", PadBytes(totalBytesRead'))
    <2> DEFINE len == PadBytes(totalBytesRead')
    <2>1. len \in Nat /\ len + 1 < Word
      BY <1>1, <1>2, <1>3, <1>5, CurShape
    <2>2. want' = len /\ recv_state' = "PAD" /\ cur' = cur /\ ret' = ret
      BY <1>5 DEF StartRead
    <2>3. Position'
      BY <1>1, <1>2, <1>3, <2>1, <2>2, CurShape DEF Position, stream
    <2> HIDE DEF len
    <2> QED
      BY <1>2, <1>5, <2>1, <2>3, NextReadInv DEF Phases, len
  <1>6. CASE PadBytes(totalBytesRead') = 0 /\ Finish
    BY <1>1, <1>2, <1>3, <1>6, FinishInv, CurShape
  <1> QED
    BY <1>4, <1>5, <1>6 DEF Padding

(* Every step keeps the invariant.                                          *)
LEMMA StepInv == IInv /\ [Next]_vars => IInv'
  <1> SUFFICES ASSUME IInv, [Next]_vars PROVE IInv'
    OBVIOUS
  <1> USE SizeAssumption, WordAssumption
  <1>0. TypeOK
    BY DEF IInv
  <1>1. CASE Arrive \/ PeerCloses
    <2>1. UNCHANGED <<msg, local>> /\ arrived' \in Nat
      BY <1>0, <1>1 DEF Arrive, PeerCloses, TypeOK
    <2>2. closed' \in BOOLEAN
      BY <1>0, <1>1 DEF Arrive, PeerCloses, TypeOK
    <2>3. TypeOK'
      BY <1>0, <2>1, <2>2 DEF TypeOK, local
    <2>4. InsideBuffer' /\ Consecutive' /\ Position' /\ Framed'
      BY <2>1 DEF IInv, local, InsideBuffer, Consecutive, Position, Framed
    <2> QED
      BY <2>3, <2>4 DEF IInv
  <1>2. CASE \E n \in 1..want : ReadSome(n)
    <2>1. PICK n \in 1..want : ReadSome(n)
      BY <1>2
    <2>2. /\ ret = "running" /\ count < want /\ n <= want - count
          /\ want \in Nat /\ want + 1 < Word /\ count \in Nat /\ n \in Nat /\ pos \in Nat
      BY <1>0, <2>1 DEF ReadSome, Reading, TypeOK, IInv, Position
    <2>3. count' = count + n /\ pos' = pos + n
      BY <2>1, <2>2 DEF ReadSome
    <2>4. buf' \in [0..(want - 1) -> Int]
      BY <1>0, <2>1, <2>2 DEF ReadSome, TypeOK
    <2>5. TypeOK'
      BY <1>0, <2>1, <2>2, <2>3, <2>4 DEF ReadSome, frame, stream, TypeOK
    <2>6. InsideBuffer' /\ Position' /\ Framed'
      BY <2>1, <2>2, <2>3 DEF IInv, ReadSome, frame, stream, InsideBuffer, Position, Framed
    <2>7. Consecutive'
      <3> SUFFICES ASSUME ~blocked PROVE Consecutive'
        BY <2>1 DEF Consecutive, ReadSome
      <3>1. /\ pos = totalBytesRead + count /\ totalBytesRead \in Nat
            /\ \A i \in 0..(want - 1) : i < count => buf[i] = totalBytesRead + i
        BY <1>0, <2>2 DEF IInv, Consecutive, TypeOK
      <3>2. \A i \in 0..(want - 1) :
                buf'[i] = IF i \in count..(count + n - 1) THEN pos + i - count ELSE buf[i]
        BY <2>1 DEF ReadSome
      <3>3. want' = want /\ totalBytesRead' = totalBytesRead
        BY <2>1 DEF ReadSome, frame
      <3>4. \A i \in 0..(want - 1) : i < count + n => buf'[i] = totalBytesRead + i
        BY <2>2, <3>1, <3>2
      <3> QED
        BY <2>2, <2>3, <3>1, <3>3, <3>4 DEF Consecutive
    <2> QED
      BY <2>5, <2>6, <2>7 DEF IInv
  <1>3. CASE ReadBlocks
    <2>1. /\ ret = "running" /\ count < want /\ blocked' = TRUE
          /\ count \in Nat /\ want \in Nat /\ want + 1 < Word
      BY <1>0, <1>3 DEF ReadBlocks, Reading, TypeOK, IInv, Position
    <2>2. count' = IF count = 0 THEN Word - 1 ELSE count - 1
      BY <1>3, <2>1 DEF ReadBlocks, Failed
    <2>3. TypeOK'
      BY <1>0, <1>3, <2>1, <2>2 DEF ReadBlocks, frame, stream, TypeOK
    <2>4. InsideBuffer' /\ Consecutive' /\ Position' /\ Framed'
      BY <1>3, <2>1, <2>2 DEF IInv, ReadBlocks, frame, stream, InsideBuffer, Consecutive,
                              Position, Framed
    <2> QED
      BY <2>3, <2>4 DEF IInv
  <1>4. CASE ReadClosed \/ ReadFailed
    BY <1>0, <1>4, ReturnInv DEF ReadClosed, ReadFailed, Return, frame, TypeOK
  <1>5. CASE Misread
    <2>1. blocked
      BY <1>0, <1>5, ReadAll DEF Misread, Intact, IInv, HaveRead, Consecutive, TypeOK
    <2> QED
      BY <1>0, <1>5, <2>1, ReturnInv DEF Misread, TypeOK
  <1>6. CASE RecvSpl
    <2>1. HaveRead /\ totalBytesRead' = SplSize /\ StartRead("HEADER", HeaderSize)
      BY <1>6, ReadAll DEF RecvSpl, HaveRead, IInv, Position
    <2>2. Position'
      BY <1>0, <1>6, <2>1, MessageShape
         DEF RecvSpl, StartRead, stream, HaveRead, IInv, Position, TypeOK
    <2> QED
      BY <1>0, <1>6, <2>1, <2>2, NextReadInv DEF RecvSpl, TypeOK, Phases
  <1>7. CASE RecvHeader
    <2>1. /\ HaveRead /\ ret = "running" /\ totalBytesRead' = msg.start[cur] + HeaderSize
          /\ payload_offset' = totalBytesRead' /\ totalBytesRead' \in Nat
      BY <1>0, <1>7, ReadAll, CurShape DEF RecvHeader, HaveRead, IInv, Position
    <2>2. CASE Return("-1")
      BY <1>7, <2>1, <2>2, ReturnInv DEF RecvHeader
    <2>3. CASE msg.pending[cur] /\ StartRead("PAD", spl + SplSize - totalBytesRead')
      <3> DEFINE len == spl + SplSize - totalBytesRead'
      <3>1. len = Length(msg) - totalBytesRead' /\ len \in Nat /\ len + 1 < Word
        BY <1>0, <2>1, CurShape DEF spl
      <3>2. Position'
        BY <1>0, <1>7, <2>1, <2>3, <3>1, CurShape
           DEF RecvHeader, StartRead, stream, Position
      <3> HIDE DEF len
      <3> QED
        BY <1>7, <2>1, <2>3, <3>1, <3>2, NextReadInv DEF RecvHeader, Phases, len
    <2>4. CASE ~msg.pending[cur] /\ StartRead("FIXED", msg.fixed[cur])
      <3>1. Position'
        BY <1>0, <1>7, <2>1, <2>4, CurShape DEF RecvHeader, StartRead, stream, Position
      <3> QED
        BY <1>0, <1>7, <2>1, <2>4, <3>1, NextReadInv, CurShape DEF RecvHeader, Phases
    <2> QED
      BY <1>7, <2>2, <2>3, <2>4 DEF RecvHeader
  <1>8. CASE RecvFixed
    <2>1. /\ HaveRead /\ ret = "running" /\ ~msg.pending[cur]
          /\ payload_offset' = payload_offset /\ payload_offset = msg.start[cur] + HeaderSize
          /\ totalBytesRead' = payload_offset + msg.fixed[cur] /\ totalBytesRead' \in Nat
      BY <1>0, <1>8, ReadAll, CurShape DEF RecvFixed, HaveRead, IInv, Position, TypeOK
    <2>2. CASE Return("-1")
      BY <1>0, <1>8, <2>1, <2>2, ReturnInv DEF RecvFixed, TypeOK
    <2>3. CASE StartRead("VARIABLE", msg.variable[cur])
      <3>1. Position'
        BY <1>0, <1>8, <2>1, <2>3, CurShape DEF RecvFixed, StartRead, stream, Position
      <3> QED
        BY <1>0, <1>8, <2>1, <2>3, <3>1, NextReadInv, CurShape DEF RecvFixed, Phases, TypeOK
    <2>4. CASE Padding(totalBytesRead')
      BY <1>8, <2>1, <2>4, PaddingInv DEF RecvFixed
    <2> QED
      BY <1>8, <2>2, <2>3, <2>4 DEF RecvFixed
  <1>9. CASE RecvVariable
    <2>1. HaveRead /\ ~msg.pending[cur] /\ totalBytesRead' \in Nat
      BY <1>0, <1>9, ReadAll DEF RecvVariable, HaveRead, IInv, Position
    <2>2. CASE Return("-1")
      BY <1>0, <1>9, <2>1, <2>2, ReturnInv DEF RecvVariable, TypeOK
    <2>3. CASE Padding(totalBytesRead')
      BY <1>9, <2>1, <2>3, PaddingInv DEF RecvVariable
    <2> QED
      BY <1>9, <2>2, <2>3 DEF RecvVariable
  <1>10. CASE RecvPad
    <2>1. HaveRead /\ totalBytesRead' = totalBytesRead + want
      BY <1>10, ReadAll DEF RecvPad
    <2>2. totalBytesRead' = IF msg.pending[cur] THEN Length(msg) ELSE msg.start[cur + 1]
      BY <1>10, <2>1 DEF RecvPad, HaveRead, IInv, Position
    <2> QED
      BY <1>10, <2>1, <2>2, FinishInv DEF RecvPad
  <1>11. CASE UNCHANGED vars
    <2>1. TypeOK'
      BY <1>0, <1>11 DEF TypeOK, vars, stream
    <2>2. InsideBuffer' /\ Consecutive' /\ Position' /\ Framed'
      BY <1>11 DEF IInv, vars, stream, InsideBuffer, Consecutive, Position, Framed
    <2> QED
      BY <2>1, <2>2 DEF IInv
  <1> QED
    BY <1>1, <1>2, <1>3, <1>4, <1>5, <1>6, <1>7, <1>8, <1>9, <1>10, <1>11 DEF Next, Receive

(* The inductive invariant: where each phase of receivePdus is in the       *)
(* message, and what readIovec has put into its buffer.                     *)
THEOREM InvCorrect == Spec => []IInv
  BY InitInv, StepInv, PTL DEF Spec

(* Every variable of receivePdus and readIovec keeps its type.              *)
THEOREM TypeCorrect == Spec => []TypeOK
  <1>1. IInv => TypeOK
    BY DEF IInv
  <1> QED
    BY <1>1, InvCorrect, PTL

(* readIovec stays inside its buffer, whatever readv returns.               *)
THEOREM BufferRespected == Spec => []InsideBuffer
  <1>1. IInv => InsideBuffer
    BY DEF IInv
  <1> QED
    BY <1>1, InvCorrect, PTL

(* As long as readv does not fail, receivePdus returns 0 at the end of the  *)
(* message only, for every layout of a compound response.                   *)
THEOREM FramingCorrect == Spec => []Framed
  <1>1. IInv => Framed
    BY DEF IInv
  <1> QED
    BY <1>1, InvCorrect, PTL

(* Each response of a compound is read from where it starts.                *)
THEOREM HeadersFound == Spec => []HeaderAtStart
  <1>1. IInv => HeaderAtStart
    BY DEF IInv, Position, HeaderAtStart
  <1> QED
    BY <1>1, InvCorrect, PTL
=============================================================================
