------------------------- MODULE SecurityDescriptor -------------------------
(***************************************************************************)
(* Security descriptors of OpenSmbC: src/Smb2DataSecurity.cpp.             *)
(*                                                                         *)
(* A descriptor travels as a block of bytes: a header with the offsets of  *)
(* the owner SID, the group SID and the DACL, and these parts in any       *)
(* order.  Every field that steers the decoder is a multiple of 16 bits,   *)
(* so a block is a sequence of 16-bit units; offsets and lengths stay in   *)
(* bytes, as in the code.  The two bytes of an ACE's type and flags, of an *)
(* ACL's revision and padding, and of a SID's revision and count share one *)
(* unit.  Flags, control bits and the identifier authority are carried by  *)
(* one value each: nothing depends on them.                                *)
(*                                                                         *)
(* The decoder does not work on the size of an ACE: an iovec handed to     *)
(* decode_ace reaches to the end of the ACL.  The encoder walks by the     *)
(* bytes it wrote, not by the size the ACE carries.                        *)
(***************************************************************************)
EXTENDS Integers, Sequences

(* The ACE types decode_ace and encode_ace tell apart (smb2.h): those with a  *)
(* mask and a SID, those with object types between the two, those with data  *)
(* after the SID.  The blob of any other type is kept as it is.              *)
PLAIN == {0, 1, 2, 17, 19}
OBJECT == {5, 6, 7}
CALLBACK == {9, 16, 18}

Bad == [bad |-> TRUE]
None == [none |-> TRUE]

(* An iovec: the units of a block from byte "at" on, "len" bytes of them.   *)
Iovec(block, at, len) == [buf |-> block, at |-> at, len |-> len]
Skip(v, n) == Iovec(v.buf, v.at + n, v.len - n)

(* A unit has 16 bits.                                                      *)
Base == 65536

Get16(v, o) == v.buf[(v.at + o) \div 2 + 1]
Get32(v, o) == Get16(v, o) + Base * Get16(v, o + 2)
Set32(n) == <<n % Base, n \div Base>>
Copy(v, o, n) == [i \in 1..(n \div 2) |-> v.buf[(v.at + o) \div 2 + i]]

Bytes(units) == 2 * Len(units)

(* The bytes left behind an offset are an unsigned difference.              *)
Unlimited == 1000000
Room(buffer_len, offset) ==
    IF offset <= buffer_len THEN buffer_len - offset ELSE Unlimited

(***************************************************************************)
(* Decoding.                                                               *)
(***************************************************************************)

(* A SID of n sub-authorities is 8 + 4 * n bytes long.                      *)
SidSize(sid) == 8 + 4 * sid.sub_auth_count

decode_sid(v) ==
    LET count == Get16(v, 0) \div 256
    IN  IF \/ v.len < 8
           \/ Get16(v, 0) % 256 # 1
           \/ v.len < 8 + 4 * count
        THEN Bad
        ELSE [sub_auth_count |-> count, id_auth |-> Copy(v, 2, 6),
              sub_auth |-> [i \in 1..count |-> Get32(v, 8 + 4 * (i - 1))]]

(* The body of an ACE, by its type.  What follows the SID of a callback ACE *)
(* is taken from the iovec decode_sid was given a copy of: it starts with   *)
(* the SID once more.                                                       *)
Body(type, v) ==
    CASE type % 256 \in PLAIN ->
            IF v.len < 4 THEN Bad
            ELSE [mask |-> Get32(v, 0), object |-> <<>>, blob |-> <<>>,
                  sid |-> decode_sid(Skip(v, 4))]
      [] type % 256 \in OBJECT ->
            IF v.len < 40 THEN Bad
            ELSE [mask |-> Get32(v, 0), object |-> Copy(v, 4, 36), blob |-> <<>>,
                  sid |-> decode_sid(Skip(v, 40))]
      [] type % 256 \in CALLBACK ->
            IF v.len < 4 THEN Bad
            ELSE [mask |-> Get32(v, 0), object |-> <<>>, blob |-> Copy(v, 4, v.len - 4),
                  sid |-> decode_sid(Skip(v, 4))]
      [] OTHER ->
            [mask |-> 0, object |-> <<>>, blob |-> Copy(v, 0, v.len), sid |-> None]

decode_ace(v) ==
    LET size == Get16(v, 2)
        type == Get16(v, 0)
    IN  IF v.len < 4 THEN Bad
        ELSE IF size < 4 \/ v.len < size THEN Bad
        ELSE LET body == Body(type, Skip(v, 4))
             IN  IF body = Bad THEN Bad
                 ELSE IF body.sid = Bad THEN Bad
                 ELSE [ace_type |-> type, ace_size |-> size, body |-> body]

(* Mutant: the size of an ACE is taken not to count its header.             *)
M_DecodeNext(s) ==
    LET ace == decode_ace(s.v)
    IN  IF s = Bad THEN Bad
        ELSE IF ace = Bad THEN Bad
        ELSE [v |-> Skip(s.v, ace.ace_size + 4), aces |-> Append(s.aces, ace)]

(* One round of the loop of decode_acl: the ACE at the front of the iovec,  *)
(* and the iovec past the size the ACE carries.                             *)
DecodeNext(s) ==
    LET ace == decode_ace(s.v)
    IN  IF s = Bad THEN Bad
        ELSE IF ace = Bad THEN Bad
        ELSE [v |-> Skip(s.v, ace.ace_size), aces |-> Append(s.aces, ace)]

DecodeAces(v, count) ==
    LET after[i \in 0..count] ==
            IF i = 0 THEN [v |-> v, aces |-> <<>>] ELSE DecodeNext(after[i - 1])
    IN  after[count]

decode_acl(v) ==
    LET revision == Get16(v, 0)
        size == Get16(v, 2)
        count == Get16(v, 4)
        read == DecodeAces(Iovec(v.buf, v.at + 8, Room(size, 8)), count)
    IN  IF v.len < 8 THEN Bad
        ELSE IF revision \notin {2, 4} \/ v.len < size THEN Bad
        ELSE IF read = Bad THEN Bad
        ELSE [revision |-> revision, acl_size |-> size, ace_count |-> count, aces |-> read.aces]

(* A part of the descriptor is decoded when its offset is set and more than *)
(* eight bytes follow it; offsets are below 2^32 - 8, so that the sum, of   *)
(* 32 bits, does not wrap around.                                           *)
Present(vec, offset) == offset > 0 /\ offset + 8 < vec.len
From(vec, offset) == Iovec(vec.buf, offset, vec.len - offset)

WholeOrBad(sd) == IF Bad \in {sd.owner, sd.group, sd.dacl} THEN Bad ELSE sd

smb2DecodeSecDescInternal(vec) ==
    LET Sid(at) == IF Present(vec, at) THEN decode_sid(From(vec, at)) ELSE None
        Acl(at) == IF Present(vec, at) THEN decode_acl(From(vec, at)) ELSE None
    IN  IF vec.len < 20 THEN Bad
        ELSE IF Get16(vec, 0) # 1 THEN Bad
        ELSE WholeOrBad([control |-> Get16(vec, 2), owner |-> Sid(Get32(vec, 4)),
                         group |-> Sid(Get32(vec, 8)), dacl |-> Acl(Get32(vec, 16))])

(***************************************************************************)
(* Encoding.  An encoder returns the units it wrote and whether it          *)
(* succeeded.  Once the encoder has gone past the end of its buffer the     *)
(* room is never too small again.                                           *)
(***************************************************************************)

Wrote(units) == [ok |-> TRUE, out |-> units]
GaveUp(units) == [ok |-> FALSE, out |-> units]

(* One part after another; the first that fails ends it.                    *)
Then(done, part) ==
    IF done.ok THEN [ok |-> part.ok, out |-> done.out \o part.out] ELSE done

SubUnits(sid) ==
    [i \in 1..(2 * sid.sub_auth_count) |-> Set32(sid.sub_auth[(i + 1) \div 2])[((i + 1) % 2) + 1]]

encode_sid(sid, room) ==
    IF room < SidSize(sid) THEN GaveUp(<<>>)
    ELSE Wrote(<<1 + 256 * sid.sub_auth_count>> \o sid.id_auth \o SubUnits(sid))

encode_ace(ace, room) ==
    LET header == <<ace.ace_type, ace.ace_size>>
        fixed == header \o Set32(ace.body.mask) \o ace.body.object
        sid == encode_sid(ace.body.sid, Room(room, Bytes(fixed)))
    IN  IF room < ace.ace_size THEN GaveUp(<<>>)
        ELSE IF ace.body.sid = None THEN Wrote(header \o ace.body.blob)
        ELSE IF sid.ok THEN Wrote(fixed \o sid.out \o ace.body.blob)
        ELSE GaveUp(fixed)

(* smb2_get_acl_size: the header and the sizes the ACEs carry.              *)
AclSize(acl) ==
    LET upto[i \in 0..Len(acl.aces)] ==
            IF i = 0 THEN 8 ELSE upto[i - 1] + acl.aces[i].ace_size
    IN  upto[Len(acl.aces)]

(* The ACEs in turn, each told the room that is left.                       *)
EncodeAces(header, aces, room) ==
    LET upto[i \in 0..Len(aces)] ==
            IF i = 0 THEN Wrote(header)
            ELSE Then(upto[i - 1], encode_ace(aces[i], Room(room, Bytes(upto[i - 1].out))))
    IN  upto[Len(aces)]

encode_acl(acl, room) ==
    IF AclSize(acl) > acl.acl_size \/ room < AclSize(acl) THEN GaveUp(<<>>)
    ELSE EncodeAces(<<acl.revision, acl.acl_size, acl.ace_count, 0>>, acl.aces, room)

(* Mutant: the group is not counted.                                        *)
M_smb2_get_security_descriptor_size(sd) ==
    20 + (IF sd.owner = None THEN 0 ELSE SidSize(sd.owner))
       + (IF sd.dacl = None THEN 0 ELSE AclSize(sd.dacl))


smb2_get_security_descriptor_size(sd) ==
    20 + (IF sd.owner = None THEN 0 ELSE SidSize(sd.owner))
       + (IF sd.group = None THEN 0 ELSE SidSize(sd.group))
       + (IF sd.dacl = None THEN 0 ELSE AclSize(sd.dacl))

(* Mutant: the DACL is said to start where the group does.                  *)
M_Header(sd) ==
    LET group == 20 + (IF sd.owner = None THEN 0 ELSE SidSize(sd.owner))
    IN  <<1, sd.control>>
        \o Set32(IF sd.owner = None THEN 0 ELSE 20)
        \o Set32(IF sd.group = None THEN 0 ELSE group)
        \o Set32(0)
        \o Set32(IF sd.dacl = None THEN 0 ELSE group)

(* The header's offsets are filled in as the parts are placed, owner, group *)
(* and DACL in this order; a part that is absent keeps offset zero.         *)
Header(sd) ==
    LET group == 20 + (IF sd.owner = None THEN 0 ELSE SidSize(sd.owner))
        dacl == group + (IF sd.group = None THEN 0 ELSE SidSize(sd.group))
    IN  <<1, sd.control>>
        \o Set32(IF sd.owner = None THEN 0 ELSE 20)
        \o Set32(IF sd.group = None THEN 0 ELSE group)
        \o Set32(0)
        \o Set32(IF sd.dacl = None THEN 0 ELSE dacl)

(* buffer_len is at least smb2_get_security_descriptor_size: the caller     *)
(* doubles its buffer for as long as it is not.                             *)
smb2EncodeSecurityDescriptor(sd, buffer_len) ==
    LET WithSid(done, sid) ==
            IF sid = None THEN done
            ELSE Then(done, encode_sid(sid, Room(buffer_len, Bytes(done.out))))
        sids == WithSid(WithSid(Wrote(Header(sd)), sd.owner), sd.group)
    IN  IF sd.dacl = None THEN sids
        ELSE Then(sids, encode_acl(sd.dacl, Room(buffer_len, Bytes(sids.out))))

=============================================================================
