------------------------------- MODULE Smb2Api -------------------------------
(***************************************************************************)
(* The objects that the functions of Smb2Api.cpp allocate, hand to the     *)
(* application and take back: file handles (smb2fh), directory listings    *)
(* (smb2dir), info lists, security descriptors and their encodings; and    *)
(* the file handles open at the server.                                    *)
(*                                                                         *)
(* One exchange (Smb2Build...Request, sendAndReceive and the reply's       *)
(* handler) is one step; Smb2Client is the model of what happens inside    *)
(* it.  Only the functions that allocate, touch or release an object       *)
(* appear: a function that takes a path and fills a struct of the caller   *)
(* (smb2_stat, smb2_rename, ...) is a stuttering step here, and so is a    *)
(* call that returns at once because the context is not connected.         *)
(***************************************************************************)
EXTENDS Naturals

CONSTANTS
    Objects,     \* the addresses operator new and malloc can return
    Refuses,     \* TRUE: the server may answer with an error
    Faulty       \* TRUE: sendAndReceive may return -1

Null == "NULL"

ASSUME ObjectAssumption == Null \notin Objects
ASSUME OutcomeAssumption == {Refuses, Faulty} \subseteq BOOLEAN

VARIABLES
    connected,  \* isConnected()
    heap,       \* what has been allocated at each address
    freed,      \* the addresses that have been released
    opened,     \* the file handles whose file_id is open at the server
    held,       \* the pointers the application has been given and not returned
    call,       \* the rest of a function that makes several exchanges
    misused,    \* history: objects touched or freed after they were freed
    refused,    \* history: objects whose CREATE or QUERY_DIRECTORY failed
    failed,     \* history: some exchange has failed
    unconverted \* history: some security descriptor could not be en- or decoded

vars == <<connected, heap, freed, opened, held, call, misused, refused, failed,
          unconverted>>

(* File handles, directory listings, the lists of EAs or streams, encoded   *)
(* descriptors, and the decoded ones of a reply and of a caller's buffer.   *)
Kinds == {"fh", "dir", "list", "buf", "sd", "debug_sd"}
Idle == [at |-> "idle", fh |-> Null, ret |-> Null]

TypeOK ==
    /\ connected \in BOOLEAN
    /\ heap \in [Objects -> Kinds \cup {"unused"}] /\ freed \subseteq Objects
    /\ opened \subseteq Objects /\ held \subseteq Objects
    /\ call \in [at : {"idle", "query", "close"}, fh : Objects \cup {Null},
                 ret : Objects \cup {Null}]
    /\ misused \subseteq Objects /\ refused \subseteq Objects
    /\ failed \in BOOLEAN /\ unconverted \in BOOLEAN

Init ==
    /\ connected = FALSE
    /\ heap = [o \in Objects |-> "unused"] /\ freed = {}
    /\ opened = {} /\ held = {}
    /\ call = Idle
    /\ misused = {} /\ refused = {} /\ failed = FALSE /\ unconverted = FALSE

(* How an exchange ends: the two kinds of answer, or no answer.             *)
Outcomes ==
    {"SUCCESS"} \cup (IF Refuses THEN {"ERROR"} ELSE {})
                \cup (IF Faulty THEN {"FAILED"} ELSE {})

Unused == {o \in Objects : heap[o] = "unused"}

Touch(S) == misused' = misused \cup (S \cap freed)

Note(out) == failed' = (failed \/ out = "FAILED")

CanCall == connected /\ call = Idle

(* The file handles the application can pass to a function.                 *)
Files == {o \in held : heap[o] = "fh"}

(***************************************************************************)
(* The connection.                                                         *)
(***************************************************************************)

ConnectShare ==
    /\ ~connected /\ call = Idle
    /\ connected' = TRUE
    /\ UNCHANGED <<heap, freed, opened, held, call, misused, refused, failed, unconverted>>

(* The server closes what the session has open; the application keeps its   *)
(* pointers.                                                                *)
DisconnectShare ==
    /\ CanCall
    /\ \E out \in Outcomes :
        /\ connected' = (out = "FAILED")
        /\ opened' = IF out = "FAILED" THEN opened ELSE {}
        /\ Note(out)
    /\ UNCHANGED <<heap, freed, held, call, misused, refused, unconverted>>

(***************************************************************************)
(* CREATE and CLOSE.                                                       *)
(***************************************************************************)

(* Smb2BuildCreateRequest allocates the handle; the handler of the reply    *)
(* deletes it when the server refuses.  Without a reply the server may have *)
(* opened the file.                                                         *)
Create(o, out) ==
    /\ heap' = [heap EXCEPT ![o] = "fh"]
    /\ freed' = IF out = "ERROR" THEN freed \cup {o} ELSE freed
    /\ opened' \in {opened \cup S : S \in
                        CASE out = "SUCCESS" -> {{o}}
                          [] out = "ERROR" -> {{}}
                          [] out = "FAILED" -> {{}, {o}}}
    /\ refused' = IF out = "ERROR" THEN refused \cup {o} ELSE refused
    /\ Note(out)
    /\ UNCHANGED <<connected, misused, unconverted>>

(* CreateData::getFH: the pointer set before the request was sent.          *)
Open ==
    /\ CanCall
    /\ \E o \in Unused, out \in Outcomes :
        /\ Create(o, out)
        /\ held' = IF out = "FAILED" THEN held ELSE held \cup {o}
    /\ UNCHANGED call

OpenFile == Open
OpenPipe == Open

(* Mutant: the handle is only deleted when the server agrees to close it.   *)
M_CloseFh(o, out) ==
    /\ Touch({o})
    /\ freed' = IF out = "SUCCESS" THEN freed \cup {o} ELSE freed
    /\ opened' = IF out = "FAILED" THEN opened ELSE opened \ {o}
    /\ Note(out)

(* Smb2BuildCloseRequest reads file_id, and the handler of the reply, good  *)
(* or bad, deletes the handle.                                              *)
CloseFh(o, out) ==
    /\ Touch({o})
    /\ freed' = IF out = "FAILED" THEN freed ELSE freed \cup {o}
    /\ opened' = IF out = "FAILED" THEN opened ELSE opened \ {o}
    /\ Note(out)

Close(o) ==
    /\ CanCall
    /\ o \in Files
    /\ \E out \in Outcomes : CloseFh(o, out)
    /\ held' = held \ {o}
    /\ UNCHANGED <<connected, heap, call, refused, unconverted>>

(***************************************************************************)
(* Functions on an open file.                                              *)
(***************************************************************************)

(* A request that only carries the file_id.                                 *)
Use(o) ==
    /\ CanCall
    /\ o \in Files
    /\ Touch({o})
    /\ \E out \in Outcomes : Note(out)
    /\ UNCHANGED <<connected, heap, freed, opened, held, call, refused, unconverted>>

Fsync(o) == Use(o)
Fstat(o) == Use(o)
FgetinfoAll(o) == Use(o)
FgetinfoBasic(o) == Use(o)
FgetinfoStandard(o) == Use(o)
FsetinfoBasic(o) == Use(o)
FsetinfoExtended(o) == Use(o)
Ftruncate(o) == Use(o)
Ioctl(o) == Use(o)

(* The offset of the handle, and the bytes the server has transferred, do   *)
(* not matter here.                                                         *)
Pread(o) == Use(o)
Pwrite(o) == Use(o)
Read(o) == Use(o)
Write(o) == Use(o)

(* The four functions clear byte_count and bytes_remaining before they look *)
(* whether the context is connected.                                        *)
ReadUnconnected(o) ==
    /\ ~connected /\ call = Idle
    /\ o \in Files
    /\ Touch({o})
    /\ UNCHANGED <<connected, heap, freed, opened, held, call, refused, failed,
                   unconverted>>

(***************************************************************************)
(* Functions that return a buffer, which the application frees.            *)
(***************************************************************************)

(* The handler of QUERY_INFO leaves a list of the attributes or streams.    *)
GetList(S) ==
    /\ CanCall
    /\ Touch(S)
    /\ \E out \in Outcomes :
        /\ Note(out)
        /\ IF out # "SUCCESS"
           THEN UNCHANGED <<heap, held>>
           ELSE \E b \in Unused :
                    /\ heap' = [heap EXCEPT ![b] = "list"]
                    /\ held' = held \cup {b}
    /\ UNCHANGED <<connected, freed, opened, call, refused, unconverted>>

GetinfoExtended == GetList({})
GetinfoStream == GetList({})
FgetinfoExtended(o) == o \in Files /\ GetList({o})
FgetinfoStream(o) == o \in Files /\ GetList({o})

(* The handler leaves the decoded descriptor sd, which is encoded into the  *)
(* buffer b and freed.  When it cannot be encoded the function returns with *)
(* both allocated and neither handed over.                                  *)
Encode(sd, b) ==
    /\ heap' = [heap EXCEPT ![sd] = "sd", ![b] = "buf"]
    /\ \/ freed' = freed \cup {sd} /\ held' = held \cup {b} /\ UNCHANGED unconverted
       \/ unconverted' = TRUE /\ UNCHANGED <<freed, held>>

GetDescriptor(S) ==
    /\ CanCall
    /\ Touch(S)
    /\ \E out \in Outcomes :
        /\ Note(out)
        /\ IF out # "SUCCESS"
           THEN UNCHANGED <<heap, freed, held, unconverted>>
           ELSE \E sd, b \in Unused : sd # b /\ Encode(sd, b)
    /\ UNCHANGED <<connected, opened, call, refused>>

GetSecurity == GetDescriptor({})
FgetSecurity(o) == o \in Files /\ GetDescriptor({o})

(* The caller's buffer is decoded into a descriptor of its own, printed and *)
(* freed before the request is built; when it does not decode the function  *)
(* returns with the descriptor allocated and nothing sent.                  *)
SetDescriptor(S) ==
    /\ CanCall
    /\ \E sd \in Unused :
        /\ heap' = [heap EXCEPT ![sd] = "debug_sd"]
        /\ \/ /\ unconverted' = TRUE
              /\ UNCHANGED <<freed, misused, failed>>
           \/ /\ freed' = freed \cup {sd}
              /\ Touch(S)
              /\ \E out \in Outcomes : Note(out)
              /\ UNCHANGED unconverted
    /\ UNCHANGED <<connected, opened, held, call, refused>>

SetSecurity == SetDescriptor({})
FsetSecurity(o) == o \in Files /\ SetDescriptor({o})

(* free, smb2FreeFileExtendedInfo, smb2FreeFileStreamInfo, smb2_closedir.   *)
Free(o) ==
    /\ call = Idle
    /\ o \in held \ Files
    /\ Touch({o})
    /\ freed' = freed \cup {o}
    /\ held' = held \ {o}
    /\ UNCHANGED <<connected, heap, opened, call, refused, failed, unconverted>>

(***************************************************************************)
(* Listing a directory, and the functions that open a file only to close   *)
(* it.                                                                     *)
(***************************************************************************)

(* Mutant: the listing is deleted although the application gets it.         *)
M_QueryDirectory(o, d, out) ==
    /\ Touch({o})
    /\ heap' = [heap EXCEPT ![d] = "dir"]
    /\ freed' = IF out = "FAILED" THEN freed ELSE freed \cup {d}
    /\ UNCHANGED refused
    /\ Note(out)

(* Smb2BuildQueryDirectoryRequest allocates the listing; the handler of the *)
(* reply deletes it when the server refuses or an entry does not parse.     *)
QueryDirectory(o, d, out) ==
    /\ Touch({o})
    /\ heap' = [heap EXCEPT ![d] = "dir"]
    /\ freed' = IF out = "ERROR" THEN freed \cup {d} ELSE freed
    /\ refused' = IF out = "ERROR" THEN refused \cup {d} ELSE refused
    /\ Note(out)

(* QueryDirData::getDir, as for getFH above.                                *)
Fquerydir(o) ==
    /\ CanCall
    /\ o \in Files
    /\ \E d \in Unused, out \in Outcomes :
        /\ QueryDirectory(o, d, out)
        /\ held' = IF out = "FAILED" THEN held ELSE held \cup {d}
    /\ UNCHANGED <<connected, opened, call, unconverted>>

(* smb2_querydir calls smb2_open_file, smb2_fquerydir and smb2_close.       *)
Querydir ==
    /\ CanCall
    /\ \E o \in Unused, out \in Outcomes :
        /\ Create(o, out)
        /\ call' = IF out = "FAILED" THEN Idle ELSE [at |-> "query", fh |-> o, ret |-> Null]
    /\ UNCHANGED held

QuerydirQuery ==
    /\ call.at = "query"
    /\ \E d \in Unused, out \in Outcomes :
        /\ QueryDirectory(call.fh, d, out)
        /\ call' = [at |-> "close", fh |-> call.fh,
                    ret |-> IF out = "FAILED" THEN Null ELSE d]
    /\ UNCHANGED <<connected, opened, held, unconverted>>

(* CREATE with a disposition and options that do the work, then smb2_close  *)
(* of what CreateData::getFH returns.                                       *)
CreateThenClose ==
    /\ CanCall
    /\ \E o \in Unused, out \in Outcomes :
        /\ Create(o, out)
        /\ call' = IF out = "FAILED" THEN Idle ELSE [at |-> "close", fh |-> o, ret |-> Null]
    /\ UNCHANGED held

Unlink == CreateThenClose
Rmdir == CreateThenClose
Mkdir == CreateThenClose

(* smb2_close at the end of the four functions, and their return.           *)
CloseAndReturn ==
    /\ call.at = "close"
    /\ \E out \in Outcomes : CloseFh(call.fh, out)
    /\ held' = held \cup ({call.ret} \ {Null})
    /\ call' = Idle
    /\ UNCHANGED <<connected, heap, refused, unconverted>>

(***************************************************************************)
(* The specification.                                                      *)
(***************************************************************************)

OnFile(o) ==
    \/ Close(o)
    \/ Fsync(o) \/ Fstat(o) \/ FgetinfoAll(o) \/ FgetinfoBasic(o) \/ FgetinfoStandard(o)
    \/ FsetinfoBasic(o) \/ FsetinfoExtended(o) \/ Ftruncate(o) \/ FsetSecurity(o) \/ Ioctl(o)
    \/ Pread(o) \/ Pwrite(o) \/ Read(o) \/ Write(o) \/ ReadUnconnected(o)
    \/ FgetinfoExtended(o) \/ FgetinfoStream(o) \/ FgetSecurity(o)
    \/ Fquerydir(o) \/ Free(o)

Next ==
    \/ ConnectShare \/ DisconnectShare
    \/ Open \/ OpenFile \/ OpenPipe
    \/ \E o \in held : OnFile(o)
    \/ GetinfoExtended \/ GetinfoStream \/ GetSecurity \/ SetSecurity
    \/ Querydir \/ QuerydirQuery \/ Unlink \/ Rmdir \/ Mkdir \/ CloseAndReturn

Spec == Init /\ [][Next]_vars

(***************************************************************************)
(* Properties.                                                             *)
(***************************************************************************)

Live == {o \in Objects : heap[o] # "unused"} \ freed

(* As long as every exchange is answered, what the API has allocated and    *)
(* opened and has not released is what it has handed to the application,    *)
(* except for what the four security functions drop when a descriptor       *)
(* cannot be converted: no other error path, and no function made of        *)
(* several exchanges, leaves an object on the heap or a file open at the    *)
(* server that nobody can release.                                          *)
NothingLeaked ==
    (call = Idle /\ ~failed) =>
        /\ opened \subseteq held \cap Live
        /\ \A o \in Live \ held : unconverted /\ heap[o] \in {"buf", "sd", "debug_sd"}

(* An object is only touched after it was freed if the server refused its   *)
(* CREATE or QUERY_DIRECTORY: otherwise the delete of the handlers, of      *)
(* smb2_close and of smb2_closedir meet each object once, and last.         *)
OnlyRefusedMisused == misused \subseteq refused
=============================================================================
