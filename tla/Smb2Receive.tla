----------------------------- MODULE Smb2Receive -----------------------------
(***************************************************************************)
(* The byte level of one call of Smb2Socket::receivePdus: readIovec, which *)
(* fills a buffer from the nonblocking socket, and the phases of receiving *)
(* one (compound) response, each of which computes how many bytes the next *)
(* one reads.  Smb2Client takes a whole response in one step; this module  *)
(* is about the framing that step relies on.                               *)
(*                                                                         *)
(* Bytes are named by their position in the stream, counted from the first *)
(* byte of the message; the bytes from its end on are the next message's.  *)
(***************************************************************************)
EXTENDS Integers

CONSTANTS
    SplSize,     \* SMB2_SPL_SIZE
    HeaderSize,  \* SMB2_HEADER_SIZE
    Word,        \* number of values of a size_t
    Messages,    \* the responses a server can send
    Extra        \* bound: bytes of the next message that can arrive too

VARIABLES
    msg,             \* the response being received
    arrived,         \* bytes the socket has received
    closed,          \* the server has closed the connection
    pos,             \* bytes read from the socket
    cur,             \* which response of the compound is being read
    recv_state,
    want,            \* readVec.len
    buf,             \* readVec.buf: which byte is at which place, -1 for none
    count,           \* readIovec's totalBytesRead
    totalBytesRead,
    payload_offset,
    ret,             \* what receivePdus has returned
    blocked          \* history: readv has failed

stream == <<msg, arrived, closed>>
vars == <<stream, pos, cur, recv_state, want, buf, count, totalBytesRead, payload_offset,
          ret, blocked>>

(* A compound of n responses: response i occupies the bytes from start[i]   *)
(* to start[i + 1], with a header, fixed[i] and variable[i] bytes, and what *)
(* remains as padding; pending[i] says whether it is an interim response.   *)
IsMessage(m) ==
    /\ m.n \in Nat \ {0}
    /\ m.start \in [1..(m.n + 1) -> Nat]
    /\ m.start[1] = SplSize
    /\ \A i \in 1..m.n : /\ m.start[i + 1] >= m.start[i] + HeaderSize
                         /\ m.start[m.n + 1] >= m.start[i] + HeaderSize
    /\ m.fixed \in [1..m.n -> Nat]
    /\ m.variable \in [1..m.n -> Nat]
    /\ m.pending \in [1..m.n -> BOOLEAN]

ASSUME SizeAssumption == SplSize \in Nat /\ HeaderSize \in Nat \ {0} /\ Extra \in Nat
ASSUME MessageAssumption ==
    \A m \in Messages :
        /\ IsMessage(m)
        /\ \A i \in 1..(m.n + 1) : m.start[i] + 1 < Word
        /\ \A i \in 1..m.n : m.fixed[i] + 1 < Word /\ m.variable[i] + 1 < Word
ASSUME WordAssumption == Word \in Nat /\ SplSize + 1 < Word /\ HeaderSize + 1 < Word

Length(m) == m.start[m.n + 1]

(* The fields of the message the code looks at.                             *)
spl == Length(msg) - SplSize
next_command == IF cur < msg.n THEN msg.start[cur + 1] - msg.start[cur] ELSE 0

Phases == {"SPL", "HEADER", "FIXED", "VARIABLE", "PAD"}

TypeOK ==
    /\ msg \in Messages
    /\ arrived \in Nat /\ closed \in BOOLEAN /\ pos \in Nat
    /\ cur \in 1..msg.n
    /\ recv_state \in Phases
    /\ want \in Nat /\ buf \in [0..(want - 1) -> Int]
    /\ count \in 0..(Word - 1)
    /\ totalBytesRead \in Nat /\ payload_offset \in Nat
    /\ ret \in {"running", "0", "-1", "misread"}
    /\ blocked \in BOOLEAN

(* A buffer that has just been allocated (spl itself, for the first one).   *)
Allocated(len) == [i \in 0..(len - 1) |-> -1]

Init ==
    /\ msg \in Messages
    /\ arrived = 0 /\ closed = FALSE /\ pos = 0
    /\ cur = 1
    /\ recv_state = "SPL" /\ want = SplSize /\ buf = Allocated(SplSize) /\ count = 0
    /\ totalBytesRead = 0 /\ payload_offset = 0
    /\ ret = "running" /\ blocked = FALSE

(***************************************************************************)
(* The network (external).                                                 *)
(***************************************************************************)

local == <<pos, cur, recv_state, want, buf, count, totalBytesRead, payload_offset, ret, blocked>>

Arrive ==
    /\ ret = "running" /\ ~closed
    /\ arrived < Length(msg) + Extra
    /\ arrived' = arrived + 1
    /\ UNCHANGED <<msg, closed, local>>

PeerCloses ==
    /\ ret = "running" /\ ~closed
    /\ closed' = TRUE
    /\ UNCHANGED <<msg, arrived, local>>

(***************************************************************************)
(* readIovec: while (totalBytesRead < v.len)                               *)
(***************************************************************************)

Reading == ret = "running" /\ count < want

frame == <<cur, recv_state, want, totalBytesRead, payload_offset>>

(* readv returns n bytes, put behind those read so far.                     *)
ReadSome(n) ==
    /\ Reading
    /\ n <= arrived - pos
    /\ n <= want - count
    /\ buf' = [i \in 0..(want - 1) |-> IF i \in count..(count + n - 1)
                                       THEN pos + i - count ELSE buf[i]]
    /\ pos' = pos + n
    /\ count' = (count + n) % Word
    /\ UNCHANGED <<stream, frame, ret, blocked>>

(* Mutants: the error is added to a signed number; it is ignored.           *)
M_Failed == count - 1
M_FailedIgnored == count

(* bytesRead is a size_t, so that bytesRead < 0 is false and 2^w - 1 is     *)
(* added to the count.                                                      *)
Failed == (count + Word - 1) % Word

(* readv returns -1: nothing there yet (EAGAIN), or an error.               *)
ReadBlocks ==
    /\ Reading
    /\ arrived = pos /\ ~closed
    /\ count' = Failed
    /\ blocked' = TRUE
    /\ UNCHANGED <<stream, pos, frame, buf, ret>>

(* readv returns 0: "Remote side has closed the socket".                    *)
ReadClosed ==
    /\ Reading
    /\ arrived = pos /\ closed
    /\ ret' = "-1"
    /\ UNCHANGED <<stream, pos, frame, buf, count, blocked>>

(***************************************************************************)
(* receivePdus: one action per phase, once readIovec has returned.         *)
(***************************************************************************)

(* The loop ended; a count of 2^w - 1 is -1 as the int readIovec returns.   *)
HaveRead == ret = "running" /\ count >= want /\ count # Word - 1

(* The buffer holds the bytes that come next.                               *)
Intact == \A i \in 0..(want - 1) : buf[i] = totalBytesRead + i

Return(r) ==
    /\ ret' = r
    /\ UNCHANGED <<cur, recv_state, want, buf, count>>

StartRead(state, len) ==
    /\ recv_state' = state
    /\ want' = len
    /\ buf' = Allocated(len)
    /\ count' = 0
    /\ UNCHANGED <<cur, ret>>

(* After the last byte of a response: its handler is run, except for an     *)
(* interim response, and the next response of the compound follows.         *)
Finish ==
    IF msg.pending[cur] \/ next_command = 0
    THEN Return("0")
    ELSE /\ cur' = cur + 1
         /\ recv_state' = "HEADER"
         /\ want' = HeaderSize
         /\ buf' = Allocated(HeaderSize)
         /\ count' = 0
         /\ UNCHANGED ret

PadBytes(total) ==
    IF next_command # 0
    THEN next_command - (HeaderSize + total - payload_offset)
    ELSE spl + SplSize - total

Padding(total) ==
    \/ PadBytes(total) < 0 /\ Return("-1")
    \/ PadBytes(total) > 0 /\ StartRead("PAD", PadBytes(total))
    \/ PadBytes(total) = 0 /\ Finish

(* readIovec returned a negative number.                                    *)
ReadFailed ==
    /\ ret = "running" /\ count = Word - 1 /\ count >= want
    /\ Return("-1")
    /\ UNCHANGED <<stream, pos, totalBytesRead, payload_offset, blocked>>

(* The buffer is full but does not hold the bytes that come next.  What     *)
(* happens from here on depends on them, and the model stops.               *)
Misread ==
    /\ HaveRead /\ ~Intact
    /\ Return("misread")
    /\ UNCHANGED <<stream, pos, totalBytesRead, payload_offset, blocked>>

RecvSpl ==
    /\ HaveRead /\ Intact /\ recv_state = "SPL"
    /\ totalBytesRead' = totalBytesRead + count
    /\ StartRead("HEADER", HeaderSize)
    /\ UNCHANGED <<stream, pos, payload_offset, blocked>>

(* Mutant: the length prefix is not counted as read.                        *)
M_RecvHeader ==
    /\ HaveRead /\ Intact /\ recv_state = "HEADER"
    /\ totalBytesRead' = totalBytesRead + count
    /\ payload_offset' = totalBytesRead'
    /\ \/ /\ msg.pending[cur]
          /\ StartRead("PAD", spl - totalBytesRead')
       \/ /\ ~msg.pending[cur]
          /\ StartRead("FIXED", msg.fixed[cur])
    /\ UNCHANGED <<stream, pos, blocked>>

(* Not a reply, or no PDU waits for it; an interim response; or another.    *)
RecvHeader ==
    /\ HaveRead /\ Intact /\ recv_state = "HEADER"
    /\ totalBytesRead' = totalBytesRead + count
    /\ payload_offset' = totalBytesRead'
    /\ \/ Return("-1")
       \/ /\ msg.pending[cur]
          /\ StartRead("PAD", spl + SplSize - totalBytesRead')
       \/ /\ ~msg.pending[cur]
          /\ StartRead("FIXED", msg.fixed[cur])
    /\ UNCHANGED <<stream, pos, blocked>>

(* The parser of the command refuses the fixed part, or has its variable    *)
(* part read.                                                               *)
RecvFixed ==
    /\ HaveRead /\ Intact /\ recv_state = "FIXED"
    /\ totalBytesRead' = totalBytesRead + count
    /\ \/ Return("-1")
       \/ msg.variable[cur] > 0 /\ StartRead("VARIABLE", msg.variable[cur])
       \/ msg.variable[cur] = 0 /\ Padding(totalBytesRead')
    /\ UNCHANGED <<stream, pos, payload_offset, blocked>>

RecvVariable ==
    /\ HaveRead /\ Intact /\ recv_state = "VARIABLE"
    /\ totalBytesRead' = totalBytesRead + count
    /\ Return("-1") \/ Padding(totalBytesRead')
    /\ UNCHANGED <<stream, pos, payload_offset, blocked>>

RecvPad ==
    /\ HaveRead /\ Intact /\ recv_state = "PAD"
    /\ totalBytesRead' = totalBytesRead + count
    /\ Finish
    /\ UNCHANGED <<stream, pos, payload_offset, blocked>>

Receive ==
    \/ \E n \in 1..want : ReadSome(n)
    \/ ReadBlocks \/ ReadClosed \/ ReadFailed \/ Misread
    \/ RecvSpl \/ RecvHeader \/ RecvFixed \/ RecvVariable \/ RecvPad

Next == Arrive \/ PeerCloses \/ Receive

(* The thread that called receivePdus keeps running.                        *)
Spec == Init /\ [][Next]_vars /\ WF_vars(Receive)

(***************************************************************************)
(* Properties.                                                             *)
(***************************************************************************)

(* readIovec never asks readv for a byte outside its buffer, although the   *)
(* errors of readv are added to the count: it is a place in the buffer as   *)
(* long as the loop goes on, and the end of the buffer or 2^w - 1 when it   *)
(* stops.                                                                   *)
InsideBuffer ==
    count \in 0..want \cup {Word - 1}

(* As long as readv does not fail, receivePdus stops with 0 at the end of   *)
(* the message and nowhere else, whatever is chained, padded or skipped as  *)
(* an interim response, however the bytes come in pieces; and it never      *)
(* takes the bytes of one part for those of another.                        *)
Framed ==
    ~blocked => /\ ret # "misread"
                /\ ret = "0" => pos = Length(msg)

(* Each response of a compound is read from where it starts.                *)
HeaderAtStart ==
    (ret = "running" /\ recv_state = "HEADER" /\ ~blocked) => totalBytesRead = msg.start[cur]

(* receivePdus returns even if the rest of the message never comes: every   *)
(* failed read takes a byte of the count back, until the call fails.        *)
ReceiveReturns == <>(ret # "running")
=============================================================================
