------------------------------ MODULE Smb2Info ------------------------------
(***************************************************************************)
(* Querying and setting what a server knows about a file: the data path of *)
(* QUERY_INFO, SET_INFO and QUERY_DIRECTORY in OpenSmbC, from the function *)
(* the application calls to the block on the wire and back.                *)
(*                                                                         *)
(*   src/Smb2QueryInfo.cpp, src/Smb2SetInfo.cpp, src/Smb2QueryDir.cpp,     *)
(*   src/Smb2DataFile.cpp, src/Smb2DataFs.cpp, src/Smb2DataSecurity.cpp    *)
(*   (module SecurityDescriptor), src/Smb2RequestBuilder.cpp and the       *)
(*   functions of src/Smb2Api.cpp that get and set information.            *)
(*                                                                         *)
(* How a request is sent and its reply received is the subject of          *)
(* Smb2Client and Smb2Receive, what becomes of the objects on the heap     *)
(* that of Smb2Api; here one call is asked, served and taken.  The server  *)
(* is external: it lays its blocks out as the protocol says, and may       *)
(* refuse any request.                                                     *)
(*                                                                         *)
(* A list (extended attributes, streams, directory entries) travels as     *)
(* entries chained by the offset of the next one.  Its block is a function *)
(* from the offsets at which entries start to the entries.                 *)
(***************************************************************************)
EXTENDS SecurityDescriptor

CONSTANTS
    Labels,         \* the names of attributes, streams and directory entries
    Files,          \* what the server may hold at the start
    EaLists,        \* the lists of extended attributes the application may set
    Names,          \* the names it may rename to, sequences of characters
    Times,          \* the times it may set, zero included
    Sizes,          \* the sizes it may truncate to
    Leftovers,      \* what an uninitialised 32-bit word may hold
    FirstBuffer,    \* bytes of the first buffer for an encoded descriptor
    MaxEntries,     \* bound: entries in one reply to QUERY_DIRECTORY
    MaxCalls        \* bound: calls of the application

ASSUME BoundsAssumption ==
    /\ FirstBuffer \in Nat \ {0}
    /\ MaxEntries \in Nat \ {0}
    /\ MaxCalls \in Nat
    /\ Leftovers \subseteq Nat

(* What a server holds.  The name of a stream takes at least as many bytes  *)
(* in UTF-8 as it has UTF-16 units; a SID has a sub-authority; an ACE of a  *)
(* type the library knows has a SID, one of another type may have one too   *)
(* (0x0A, which smb2.h calls 0x10, and 0x0B), and it is filled up by whole  *)
(* words.  An object ACE has both its object types: their flags are 3.      *)
Eas == [name : Labels, name_len : Nat, value_len : Nat]
Streams == {s \in [name : Labels, units : Nat, bytes : Nat] : s.bytes >= s.units}
Entries == [name : Labels, units : Nat]

Sids ==
    {s \in [sub_auth_count : Nat \ {0}, id_auth : Seq(Nat), sub_auth : Seq(Nat)] :
        Len(s.id_auth) = 3 /\ Len(s.sub_auth) = s.sub_auth_count}

Unknown(a) == a.type % 256 \notin PLAIN \cup OBJECT \cup CALLBACK

Aces ==
    {a \in [type : Nat, sid : {None} \cup Sids, data : Seq(Nat), pad : Nat] :
        a.pad % 4 = 0 /\ (a.sid = None => Unknown(a))}
Acls == {l \in [aces : Seq(Aces), slack : Nat] : l.slack % 4 = 0}
Descriptors ==
    [owner : {None} \cup Sids, group : {None} \cup Sids, dacl : {None} \cup Acls,
     acl_first : BOOLEAN]

ASSUME ValuesAssumption ==
    /\ Files \subseteq [sd : Descriptors, stored : {None}, eas : Seq(Eas), streams : Seq(Streams),
                        entries : Seq(Entries), name : Seq(STRING), time : Nat, size : Nat]
    /\ EaLists \subseteq Seq(Eas)
    /\ Names \subseteq Seq(STRING)
    /\ Times \subseteq Nat
    /\ Sizes \subseteq Nat

VARIABLES
    file,       \* what the server holds
    call,       \* the call under way, or None
    reply,      \* the reply to it, or None
    dir,        \* the entries collected so far by a listing
    secbuf,     \* the encoded descriptor the application was given, or None
    outcome,    \* how the last call ended: its status and what it delivered
    live,       \* no reply has left the receiver in the middle of a PDU
    calls       \* calls made so far

vars == <<file, call, reply, dir, secbuf, outcome, live, calls>>

-----------------------------------------------------------------------------
(* Chained entries.                                                        *)

(* Mutant: the loop ends before the entry that has no next one is added.    *)
M_ReadFrom(block, len) ==
    LET from[o \in Nat] ==
            IF o >= len \/ o \notin DOMAIN block THEN [ok |-> FALSE, list |-> <<>>]
            ELSE IF block[o].next = 0 THEN [ok |-> TRUE, list |-> <<>>]
            ELSE LET rest == from[o + block[o].next]
                 IN  [ok |-> rest.ok, list |-> <<block[o].item>> \o rest.list]
    IN  from

(* The loop of the three decoders, from any offset: an entry is read, then  *)
(* the next offset is added, until that offset is zero; past the end the    *)
(* block is malformed and the entries read so far are of no use.            *)
ReadFrom(block, len) ==
    LET from[o \in Nat] ==
            IF o >= len \/ o \notin DOMAIN block THEN [ok |-> FALSE, list |-> <<>>]
            ELSE IF block[o].next = 0 THEN [ok |-> TRUE, list |-> <<block[o].item>>]
            ELSE LET rest == from[o + block[o].next]
                 IN  [ok |-> rest.ok, list |-> <<block[o].item>> \o rest.list]
    IN  from

Walk(block, len) == ReadFrom(block, len)[0]

Aligned(n, a) == ((n + a - 1) \div a) * a

(* Where entries of the given sizes start when one follows the other; the   *)
(* last element is the length of the whole.                                 *)
Starts(sizes) ==
    LET at[i \in 1..(Len(sizes) + 1)] == IF i = 1 THEN 0 ELSE at[i - 1] + sizes[i - 1]
    IN  at

(* A block with the entries of a list one after the other, and the offset   *)
(* next[i] in the i-th.                                                     *)
LaidOut(list, sizes, next) ==
    LET at == Starts(sizes)
        Which(o) == CHOOSE i \in 1..Len(list) : at[i] = o
    IN  [block |-> [o \in {at[i] : i \in 1..Len(list)} |->
                        [item |-> list[Which(o)], next |-> next[Which(o)]]],
         len |-> at[Len(list) + 1]]

(* As the protocol lays it out: offsets relative to the entry that carries  *)
(* them, zero in the last one.                                              *)
Chained(list, sizes) ==
    LaidOut(list, sizes,
            [i \in 1..Len(list) |->
                IF i = Len(list) THEN 0 ELSE Starts(sizes)[i + 1] - Starts(sizes)[i]])

(* An extended attribute: header, name with its NUL, value, filled up to a  *)
(* multiple of four.                                                        *)
EaSize(ea) == Aligned(8 + ea.name_len + 1 + ea.value_len, 4)
StreamSize(s) == Aligned(24 + 2 * s.units, 8)
DirentSize(e) == Aligned(80 + 2 * e.units, 8)

EaSizes(list) == [i \in 1..Len(list) |-> EaSize(list[i])]
StreamSizes(list) == [i \in 1..Len(list) |-> StreamSize(list[i])]
DirentSizes(list) == [i \in 1..Len(list) |-> DirentSize(list[i])]

(* The value of an attribute on the wire follows the NUL of its name.       *)
WireEas(list) ==
    [i \in 1..Len(list) |->
        [name |-> list[i].name, name_len |-> list[i].name_len, value_len |-> list[i].value_len,
         value_at |-> 8 + list[i].name_len + 1]]

(* smb2_decode_file_full_ea_info takes the value right behind the name,     *)
(* where the NUL is: it has the value only if that is empty.                *)
smb2_decode_file_extended_info(b) ==
    LET read == Walk(b.block, b.len)
        Ea(e) == [name |-> e.name, whole |-> e.value_at = 8 + e.name_len \/ e.value_len = 0]
    IN  [ok |-> read.ok, list |-> [i \in DOMAIN read.list |-> Ea(read.list[i])]]

(* A stream's name is converted to UTF-8 and as many bytes of it are copied *)
(* as it had UTF-16 units.                                                  *)
smb2_decode_file_stream_info(b) ==
    LET read == Walk(b.block, b.len)
        Stream(s) == [name |-> s.name, whole |-> s.bytes <= s.units]
    IN  [ok |-> read.ok, list |-> [i \in DOMAIN read.list |-> Stream(read.list[i])]]

(* The name of a directory entry, behind 80 bytes, ends within the block.   *)
decode_dirents(b) ==
    LET read == Walk(b.block, b.len)
        Fit == \A o \in DOMAIN b.block : o + 80 + 2 * b.block[o].item.units <= b.len
    IN  [ok |-> read.ok /\ Fit, list |-> [i \in DOMAIN read.list |-> read.list[i].name]]

(* Mutant: the offset is left out one entry too early.                      *)
M_smb2_encode_file_extended_info(list, leftover) ==
    LaidOut(WireEas(list), EaSizes(list),
            [i \in 1..Len(list) |->
                IF i < Len(list) - 1 THEN Starts(EaSizes(list))[i + 1] ELSE leftover])

(* The encoder writes into each entry but the last the offset at which the  *)
(* next one starts, counted from the start of the block; nobody writes the  *)
(* offset of the last one, in a buffer malloc returned.                     *)
smb2_encode_file_extended_info(list, leftover) ==
    LaidOut(WireEas(list), EaSizes(list),
            [i \in 1..Len(list) |->
                IF i < Len(list) THEN Starts(EaSizes(list))[i + 1] ELSE leftover])

-----------------------------------------------------------------------------
(* Information of a fixed layout.                                          *)

FixedClasses == {"basic", "standard", "all", "fs_size", "fs_device", "fs_control",
                 "fs_full_size", "fs_sector_size"}
Classes == FixedClasses \cup {"ea", "stream", "security"}

(* The bytes a decoder insists on; basic and standard information is read   *)
(* field by field, as far as it goes.                                       *)
FileNeeded == [basic |-> 0, standard |-> 0, all |-> 64]
FsNeeded == [fs_size |-> 24, fs_device |-> 8, fs_control |-> 48, fs_full_size |-> 32,
             fs_sector_size |-> 28]

Needed(class) ==
    IF class \in DOMAIN FileNeeded THEN FileNeeded[class] ELSE FsNeeded[class]

(* The bytes the protocol gives each (external).                            *)
WireLength == [basic |-> 40, standard |-> 24, all |-> 104, fs_size |-> 24, fs_device |-> 8,
               fs_control |-> 48, fs_full_size |-> 32, fs_sector_size |-> 28]

-----------------------------------------------------------------------------
(* The server's side of a security descriptor (external).                  *)

MaskUnits == <<3, 0>>
ObjectUnits == [i \in 1..18 |-> 8]
Zeros(bytes) == [i \in 1..(bytes \div 2) |-> 0]

SidUnits(sid) == encode_sid(sid, SidSize(sid)).out

AceUnits(a) ==
    LET type == a.type % 256
        content ==
            CASE type \in PLAIN -> MaskUnits \o SidUnits(a.sid)
              [] type \in OBJECT -> MaskUnits \o ObjectUnits \o SidUnits(a.sid)
              [] type \in CALLBACK -> MaskUnits \o SidUnits(a.sid) \o a.data
              [] OTHER -> IF a.sid = None THEN a.data
                          ELSE MaskUnits \o SidUnits(a.sid) \o a.data
        padded == content \o Zeros(a.pad)
    IN  <<a.type, 4 + Bytes(padded)>> \o padded

AcesUpto(aces) ==
    LET upto[i \in 0..Len(aces)] == IF i = 0 THEN <<>> ELSE upto[i - 1] \o AceUnits(aces[i])
    IN  upto

AclUnits(acl) ==
    LET body == AcesUpto(acl.aces)[Len(acl.aces)] \o Zeros(acl.slack)
    IN  <<2, 8 + Bytes(body), Len(acl.aces), 0>> \o body

(* Owner and group before the DACL or after it.                             *)
DescriptorUnits(d) ==
    LET owner == IF d.owner = None THEN <<>> ELSE SidUnits(d.owner)
        group == IF d.group = None THEN <<>> ELSE SidUnits(d.group)
        dacl == IF d.dacl = None THEN <<>> ELSE AclUnits(d.dacl)
        At(part, before) == IF part = <<>> THEN Set32(0) ELSE Set32(20 + before)
        sids == IF d.acl_first THEN Bytes(dacl) ELSE 0
    IN  <<1, 4>> \o At(owner, sids) \o At(group, sids + Bytes(owner)) \o Set32(0)
        \o At(dacl, IF d.acl_first THEN 0 ELSE Bytes(owner) + Bytes(group))
        \o (IF d.acl_first THEN dacl \o owner \o group ELSE owner \o group \o dacl)

Whole(units) == Iovec(units, 0, Bytes(units))

-----------------------------------------------------------------------------
Init ==
    /\ file \in Files
    /\ call = None
    /\ reply = None
    /\ dir = <<>>
    /\ secbuf = None
    /\ outcome = None
    /\ live = TRUE
    /\ calls = 0

(* A call of the application, once its request is built and queued.         *)
Ask(c) ==
    /\ call = None
    /\ live /\ calls < MaxCalls
    /\ call' = c
    /\ reply' = None
    /\ outcome' = None
    /\ dir' = <<>>
    /\ calls' = calls + 1
    /\ UNCHANGED <<file, secbuf, live>>

(* Smb2QueryInfo::createPdu; the PDU remembers what was asked for. *)
Query(class) == Ask([op |-> "query", class |-> class])

(* The functions that query, by path or on a handle.  The other classes of  *)
(* a file system can be asked for with Smb2BuildQueryInfoRequest only.      *)
Stat == Query("all")
Statvfs == Query("fs_full_size")
GetinfoAll == Query("all")
GetinfoBasic == Query("basic")
GetinfoStandard == Query("standard")
GetinfoExtended == Query("ea")
GetinfoStream == Query("stream")
GetSecurity == Query("security")
QueryFs == \E c \in {"fs_size", "fs_device", "fs_control", "fs_sector_size"} : Query(c)

GetInfo ==
    \/ Stat \/ Statvfs \/ GetinfoAll \/ GetinfoBasic \/ GetinfoStandard
    \/ GetinfoExtended \/ GetinfoStream \/ GetSecurity \/ QueryFs

(* Smb2SetInfo::createPdu: what is sent for what the application asked.     *)
SetInfo(op, asked, sent) == Ask([op |-> op, asked |-> asked, sent |-> sent])

(* smb2_setinfo_extended and smb2_fsetinfo_extended.                        *)
SetinfoExtended ==
    \E list \in EaLists, left \in Leftovers :
        SetInfo("set_ea", list, smb2_encode_file_extended_info(list, left))

(* smb2_rename.  The loop that is to turn every '/' into a '\' looks at the *)
(* fixed part of the request, which holds none, and not at the name.        *)
Rename == \E n \in Names : SetInfo("rename", n, n)

(* smb2_setinfo_basic writes the times that are not zero into a request of  *)
(* zeros; smb2_truncate and smb2_ftruncate.                                 *)
SetinfoBasic == \E t \in Times : SetInfo("set_basic", t, t)
Truncate == \E n \in Sizes : SetInfo("truncate", n, n)

(* smb2_set_security, smb2_fset_security: the descriptor is decoded first,  *)
(* as the library is always built with DEBUG, and refused if that fails.    *)
SetSecurity ==
    /\ secbuf # None
    /\ smb2DecodeSecDescInternal(Whole(secbuf.units)) # Bad
    /\ SetInfo("set_security", secbuf.meant, secbuf.units)

SetSecurityRefused ==
    /\ call = None
    /\ live /\ calls < MaxCalls
    /\ secbuf # None
    /\ smb2DecodeSecDescInternal(Whole(secbuf.units)) = Bad
    /\ outcome' = [status |-> "internal_error", of |-> [op |-> "set_security", asked |-> secbuf.meant]]
    /\ calls' = calls + 1
    /\ UNCHANGED <<file, call, reply, dir, secbuf, live>>

(* smb2_querydir and smb2_fquerydir.                                        *)
QueryDir == Ask([op |-> "dir"])

-----------------------------------------------------------------------------
(* The server (external).                                                  *)

Answer(r) ==
    /\ reply' = r
    /\ UNCHANGED <<call, dir, secbuf, outcome, live, calls>>

Success(b) == [status |-> "success", block |-> b.block, len |-> b.len]

Block(class) ==
    CASE class = "ea" -> Chained(WireEas(file.eas), EaSizes(file.eas))
      [] class = "stream" -> Chained(file.streams, StreamSizes(file.streams))
      [] class = "security" ->
            [block |-> DescriptorUnits(file.sd), len |-> Bytes(DescriptorUnits(file.sd))]
      [] OTHER -> [block |-> <<file.time, file.size>>, len |-> WireLength[class]]

ServeQuery ==
    /\ call # None /\ reply = None
    /\ call.op = "query"
    /\ ~(call.class = "ea" /\ file.eas = <<>>)
    /\ Answer(Success(Block(call.class)))
    /\ UNCHANGED file

(* The server's reading of a list of attributes it is to store: every entry *)
(* must be reached.                                                         *)
ServeSetEa ==
    /\ call # None /\ reply = None
    /\ call.op = "set_ea"
    /\ LET read == Walk(call.sent.block, call.sent.len)
           Ea(e) == [name |-> e.name, name_len |-> e.name_len, value_len |-> e.value_len]
       IN  /\ read.ok
           /\ file' = [file EXCEPT !.eas = [i \in DOMAIN read.list |-> Ea(read.list[i])]]
    /\ Answer([status |-> "success"])

(* A path on the wire is separated by '\'.                                  *)
NoSlash(name) == \A i \in DOMAIN name : name[i] # "/"

ServeRename ==
    /\ call # None /\ reply = None
    /\ call.op = "rename"
    /\ NoSlash(call.sent)
    /\ file' = [file EXCEPT !.name = call.sent]
    /\ Answer([status |-> "success"])

(* A time of zero leaves the file's time as it is.                          *)
ServeSetFixed ==
    /\ call # None /\ reply = None
    /\ \/ /\ call.op = "set_basic"
          /\ file' = IF call.sent = 0 THEN file ELSE [file EXCEPT !.time = call.sent]
       \/ /\ call.op = "truncate"
          /\ file' = [file EXCEPT !.size = call.sent]
    /\ Answer([status |-> "success"])

ServeSetSecurity ==
    /\ call # None /\ reply = None
    /\ call.op = "set_security"
    /\ file' = [file EXCEPT !.stored = call.sent]
    /\ Answer([status |-> "success"])

(* The next entries of the directory, as many as fit; then NO_MORE_FILES.   *)
ServeQueryDir ==
    /\ call # None /\ reply = None
    /\ call.op = "dir"
    /\ \E k \in 1..MaxEntries :
        /\ Len(dir) + k <= Len(file.entries)
        /\ LET part == SubSeq(file.entries, Len(dir) + 1, Len(dir) + k)
           IN  Answer(Success(Chained(part, DirentSizes(part))))
    /\ UNCHANGED file

(* A block that ends at its last entry or at the name of that: the first    *)
(* leaves nothing of a block of one entry.                                  *)
ServeCutDirents ==
    /\ call # None /\ reply = None
    /\ call.op = "dir"
    /\ \E k \in 1..MaxEntries :
        /\ Len(dir) + k <= Len(file.entries)
        /\ LET part == SubSeq(file.entries, Len(dir) + 1, Len(dir) + k)
               last == Starts(DirentSizes(part))[k]
               whole == Chained(part, DirentSizes(part))
           IN  \E len \in {last, last + 80} :
                  /\ ~decode_dirents([block |-> whole.block, len |-> len]).ok
                  /\ Answer(Success([block |-> whole.block, len |-> len]))
    /\ UNCHANGED file

ServeNoMoreFiles ==
    /\ call # None /\ reply = None
    /\ call.op = "dir"
    /\ Len(dir) = Len(file.entries)
    /\ Answer([status |-> "no_more_files"])
    /\ UNCHANGED file

ServeError ==
    /\ call # None /\ reply = None
    /\ Answer([status |-> "error"])
    /\ UNCHANGED file

-----------------------------------------------------------------------------
(* The reply.                                                              *)

Return(status, value) ==
    /\ outcome' = [status |-> status, of |-> call, value |-> value]
    /\ call' = None
    /\ reply' = None
    /\ UNCHANGED <<file, calls>>

(* smb2ReplyProcessFixed and smb2ReplyProcessVariable: what the block       *)
(* decodes to by the class that was asked for.  An empty block is refused.  *)
Decoded(class) ==
    IF reply.len = 0 THEN [ok |-> FALSE]
    ELSE CASE class = "ea" -> smb2_decode_file_extended_info(reply)
           [] class = "stream" -> smb2_decode_file_stream_info(reply)
           [] class = "security" ->
                 LET sd == smb2DecodeSecDescInternal(Iovec(reply.block, 0, reply.len))
                 IN  [ok |-> sd # Bad, sd |-> sd]
           [] OTHER -> [ok |-> reply.len >= Needed(class), value |-> reply.block]

(* A reply that cannot be decoded ends the exchange as a socket error.      *)
TakeUndecodable ==
    /\ call # None /\ reply # None
    /\ call.op = "query" /\ reply.status = "success"
    /\ ~Decoded(call.class).ok
    /\ Return("socket_error", None)
    /\ live' = FALSE
    /\ UNCHANGED <<dir, secbuf>>

TakeQuery ==
    /\ call # None /\ reply # None
    /\ call.op = "query" /\ reply.status = "success"
    /\ call.class # "security"
    /\ Decoded(call.class).ok
    /\ Return("success", Decoded(call.class))
    /\ UNCHANGED <<dir, secbuf, live>>

(* smb2_get_security encodes what was decoded into a buffer it doubles      *)
(* until the descriptor's size, as computed, fits.                          *)
Buffer(size) ==
    LET doubled[b \in Nat \ {0}] == IF b >= size THEN b ELSE doubled[2 * b]
    IN  doubled[FirstBuffer]

TakeSecurity ==
    /\ call # None /\ reply # None
    /\ call.op = "query" /\ reply.status = "success"
    /\ call.class = "security"
    /\ \E read \in {Decoded("security")} :
        /\ read.ok
        /\ \E room \in {Buffer(smb2_get_security_descriptor_size(read.sd))} :
           \E enc \in {smb2EncodeSecurityDescriptor(read.sd, room)} :
              /\ Return(IF enc.ok THEN "success" ELSE "internal_error",
                        [sd |-> read.sd, room |-> room, used |-> Bytes(enc.out)])
              /\ secbuf' = IF enc.ok THEN [units |-> enc.out, meant |-> file.sd] ELSE secbuf
    /\ UNCHANGED <<dir, live>>

TakeSet ==
    /\ call # None /\ reply # None
    /\ call.op \in {"set_ea", "rename", "set_basic", "truncate", "set_security"}
    /\ Return(reply.status, None)
    /\ UNCHANGED <<dir, secbuf, live>>

(* Smb2QueryDir::smb2ProcessReplyAndAppData: the entries are collected and  *)
(* the next request is queued, until the server has no more.                *)
TakeDirents ==
    /\ call # None /\ reply # None
    /\ call.op = "dir" /\ reply.status = "success"
    /\ decode_dirents(reply).ok
    /\ dir' = dir \o decode_dirents(reply).list
    /\ reply' = None
    /\ UNCHANGED <<file, call, secbuf, outcome, live, calls>>

(* A block that does not decode ends the call with a text that says so, and *)
(* the listing is deleted, as it is when the server refuses (the status the *)
(* handler set, success, is read by nobody).  What becomes of the pointer   *)
(* the application gets is the subject of Smb2Api.                          *)
TakeMalformedDirents ==
    /\ call # None /\ reply # None
    /\ call.op = "dir" /\ reply.status = "success"
    /\ ~decode_dirents(reply).ok
    /\ Return("malformed", None)
    /\ dir' = <<>>
    /\ UNCHANGED <<secbuf, live>>

TakeNoMoreFiles ==
    /\ call # None /\ reply # None
    /\ reply.status = "no_more_files"
    /\ Return("success", dir)
    /\ UNCHANGED <<dir, secbuf, live>>

TakeError ==
    /\ call # None /\ reply # None
    /\ call.op \in {"query", "dir"} /\ reply.status = "error"
    /\ Return("error", None)
    /\ dir' = <<>>
    /\ UNCHANGED <<secbuf, live>>

Next ==
    \/ GetInfo \/ SetinfoExtended \/ Rename \/ SetinfoBasic \/ Truncate
    \/ SetSecurity \/ SetSecurityRefused \/ QueryDir
    \/ ServeQuery \/ ServeSetEa \/ ServeRename \/ ServeSetFixed \/ ServeSetSecurity
    \/ ServeQueryDir \/ ServeCutDirents \/ ServeNoMoreFiles \/ ServeError
    \/ TakeUndecodable \/ TakeQuery \/ TakeSecurity \/ TakeSet \/ TakeDirents
    \/ TakeMalformedDirents \/ TakeNoMoreFiles \/ TakeError

Spec == Init /\ [][Next]_vars

-----------------------------------------------------------------------------
(* Properties.                                                             *)

Succeeded(op) == outcome # None /\ outcome.status = "success" /\ outcome.of.op = op
Queried(class) == Succeeded("query") /\ outcome.of.class = class

NamesOf(list) == [i \in DOMAIN list |-> list[i].name]

(* A query that succeeds returns the server's list, complete and in order,  *)
(* however a directory is cut into replies: the walk along the offsets      *)
(* skips no entry and reads none twice.  The name of a stream is whole      *)
(* exactly when it has no character outside ASCII, the value of an          *)
(* attribute exactly when it is empty.                                      *)
QueryTellsAll ==
    /\ Queried("ea") =>
        /\ NamesOf(outcome.value.list) = NamesOf(file.eas)
        /\ \A i \in DOMAIN file.eas :
            outcome.value.list[i].whole <=> file.eas[i].value_len = 0
    /\ Queried("stream") =>
        /\ NamesOf(outcome.value.list) = NamesOf(file.streams)
        /\ \A i \in DOMAIN file.streams :
            outcome.value.list[i].whole <=> file.streams[i].bytes = file.streams[i].units
    /\ Succeeded("dir") => outcome.value = NamesOf(file.entries)
    /\ \A c \in FixedClasses : Queried(c) => outcome.value.value = <<file.time, file.size>>

(* What the server accepted is what the application asked for, except that *)
(* a list of more than two attributes that gets through has lost some.  A  *)
(* file is never renamed to a name with a '/': the loop at                 *)
(* Smb2SetInfo.cpp:84, "Convert '/' to '\'", leaves the name as it is, and  *)
(* the server refuses it.                                                   *)
SetIsApplied ==
    /\ Succeeded("set_ea") => (file.eas = outcome.of.asked <=> Len(outcome.of.asked) <= 2)
    /\ Succeeded("rename") => file.name = outcome.of.asked /\ NoSlash(outcome.of.asked)
    /\ Succeeded("set_basic") => outcome.of.asked \in {0, file.time}
    /\ Succeeded("truncate") => file.size = outcome.of.asked

(* What a decoded descriptor says: SIDs, and the type and SID of each ACE.  *)
Says(sd) ==
    [owner |-> sd.owner, group |-> sd.group,
     aces |-> IF sd.dacl = None THEN None
              ELSE [i \in DOMAIN sd.dacl.aces |->
                        <<sd.dacl.aces[i].ace_type, sd.dacl.aces[i].body.sid>>]]
Means(d) ==
    [owner |-> d.owner, group |-> d.group,
     aces |-> IF d.dacl = None THEN None
              ELSE [i \in DOMAIN d.dacl.aces |-> <<d.dacl.aces[i].type, d.dacl.aces[i].sid>>]]

EmptyAcl(d) == d.dacl # None /\ d.dacl.aces = <<>> /\ d.dacl.slack = 0
AtTheEnd(d) == ~d.acl_first \/ (d.owner = None /\ d.group = None)

Described == outcome # None /\ outcome.of.op = "query" /\ outcome.of.class = "security"
             /\ outcome.status # "error"

(* The SID of an ACE of a type the library does not know stays in its blob. *)
Overlooked(d) ==
    d.dacl # None /\ \E i \in DOMAIN d.dacl.aces :
        Unknown(d.dacl.aces[i]) /\ d.dacl.aces[i].sid # None

(* A descriptor the server sends is decoded, and as the server means it,    *)
(* wherever its parts lie and however the ACEs are filled up, unless a SID  *)
(* is overlooked or the DACL is empty and the last part: then it is taken   *)
(* for absent.                                                              *)
DescriptorRead ==
    Described =>
        /\ outcome.status # "socket_error"
        /\ Says(outcome.value.sd) = Means(file.sd)
                <=> ~Overlooked(file.sd) /\ ~(EmptyAcl(file.sd) /\ AtTheEnd(file.sd))

(* What the encoder reproduces: ACEs no longer than their contents, none    *)
(* with data after its SID, and the blob of a type the library does not     *)
(* know, which it takes to reach to the end of the ACL, in the last place.  *)
Reproducible(acl) ==
    /\ \A i \in DOMAIN acl.aces :
        IF Unknown(acl.aces[i]) THEN i = Len(acl.aces)
        ELSE acl.aces[i].pad = 0 /\ acl.aces[i].type % 256 \notin CALLBACK
    /\ acl.slack > 0 => acl.aces # <<>> /\ Unknown(acl.aces[Len(acl.aces)])

(* smb2_get_security hands the application the block the server would send  *)
(* with the DACL last, exactly when the DACL was read and is reproducible.  *)
(* Otherwise the copies the decoder made of what follows an ACE, or the     *)
(* bytes the encoder leaves out, move the ACEs behind it.                   *)
DescriptorKept ==
    secbuf # None =>
        LET d == secbuf.meant
        IN  secbuf.units = DescriptorUnits([d EXCEPT !.acl_first = FALSE])
                <=> \/ d.dacl = None
                    \/ Reproducible(d.dacl) /\ ~(EmptyAcl(d) /\ AtTheEnd(d))

(* A descriptor that is reproducible, with no slack behind its last ACE, is *)
(* written, and within the buffer smb2_get_security found large enough.     *)
BufferRespected ==
    Described /\ (file.sd.dacl # None => Reproducible(file.sd.dacl) /\ file.sd.dacl.slack = 0)
        => outcome.status = "success" /\ outcome.value.used <= outcome.value.room
=============================================================================
