---------------------------- MODULE Smb2ApiProofs ----------------------------
(***************************************************************************)
(* Proofs that the API leaks nothing but the security descriptors it could *)
(* not convert, with their encodings, and touches freed memory only        *)
(* through a pointer whose request the server refused, for any number of   *)
(* objects and any sequence of calls.                                      *)
(***************************************************************************)
EXTENDS Smb2Api, TLAPS

(* The objects of the function that is being executed.                      *)
Pending == {call.fh, call.ret} \ {Null}

(* A function between two exchanges owns an open file handle (and maybe a   *)
(* listing) that the application does not have.                             *)
CallShape ==
    /\ call.at = "idle" => call = Idle
    /\ call.at # "idle" => call.fh \in Objects /\ heap[call.fh] = "fh"
    /\ call.fh \notin held
    /\ call.ret \in Objects => call.at = "close" /\ heap[call.ret] = "dir"

(* Only what was allocated is released, held or open at the server.         *)
Allocated ==
    /\ \A o \in held \cup freed : heap[o] # "unused"
    /\ \A o \in opened : heap[o] = "fh" /\ o \notin freed

(* A pointer that somebody still has is dangling only if its request was    *)
(* refused.                                                                 *)
DanglingRefused == \A o \in held \cup Pending : o \in freed => o \in refused

(* What a security function may have dropped.                               *)
Dropped == {o \in Objects : unconverted /\ heap[o] \in {"buf", "sd", "debug_sd"}}

(* Somebody has every live object and every open file, except for what was  *)
(* dropped.                                                                 *)
Accounted == ~failed => Live \cup opened \subseteq held \cup Pending \cup Dropped

(* The inductive invariant.                                                 *)
Safe == TypeOK /\ CallShape /\ Allocated /\ DanglingRefused /\ OnlyRefusedMisused

IInv == Safe /\ Accounted

-----------------------------------------------------------------------------

(* What the history of failures records.                                    *)
LEMMA NoteFact ==
    ASSUME failed \in BOOLEAN, NEW out, Note(out)
    PROVE  failed' \in BOOLEAN /\ (~failed' => ~failed /\ out # "FAILED")
<1>1. failed' \in BOOLEAN
    BY Zenon DEF Note
<1>2. ~failed' => ~failed /\ out # "FAILED"
    BY Zenon DEF Note
<1>. QED
    BY <1>1, <1>2

(* A step that allocates, releases and hands over nothing.                  *)
LEMMA QuietStep ==
    ASSUME IInv, failed' \in BOOLEAN, ~failed' => ~failed,
           UNCHANGED <<heap, freed, held, call, refused, unconverted>>,
           connected' \in BOOLEAN, opened' \in {opened, {}},
           misused' \subseteq misused \cup (held \cap freed)
    PROVE  IInv'
<1>. USE DEF IInv, Safe
<1>1. TypeOK'
    BY DEF TypeOK, OnlyRefusedMisused
<1>2. CallShape'
    BY DEF CallShape, Idle
<1>3. Allocated'
    BY DEF Allocated, TypeOK
<1>4. DanglingRefused'
    BY DEF DanglingRefused, Pending
<1>5. OnlyRefusedMisused'
    BY DEF OnlyRefusedMisused, DanglingRefused
<1>6. Accounted'
    BY DEF Accounted, Live, Pending, Dropped
<1>. QED
    BY <1>1, <1>2, <1>3, <1>4, <1>5, <1>6

(* A new object that nobody has, whether released at once or not.           *)
LEMMA UnusedFact ==
    ASSUME Safe, NEW o \in Unused
    PROVE  /\ o \in Objects /\ heap[o] = "unused"
           /\ o \notin held /\ o \notin freed /\ o \notin opened /\ o \notin Pending
           /\ o # Null
<1>1. o \in Objects /\ heap[o] = "unused" /\ o # Null
    BY ObjectAssumption DEF Unused
<1>2. o \notin held /\ o \notin freed /\ o \notin opened
    BY <1>1 DEF Safe, Allocated
<1>3. o \notin Pending
  <2>1. o # call.fh
      BY <1>1 DEF Safe, CallShape, Idle
  <2>2. o # call.ret
      BY <1>1 DEF Safe, CallShape
  <2>. QED
      BY <2>1, <2>2 DEF Pending
<1>. QED
    BY <1>1, <1>2, <1>3

(* CREATE, when the handle goes to the application, to the rest of the      *)
(* function, or, without an answer, to nobody.                              *)
LEMMA CreateStep ==
    ASSUME IInv, call = Idle, NEW o \in Unused, NEW out \in Outcomes, Create(o, out),
           \/ /\ call' = call
              /\ held' = IF out = "FAILED" THEN held ELSE held \cup {o}
           \/ /\ held' = held
              /\ \/ out = "FAILED" /\ call' = Idle
                 \/ /\ out # "FAILED"
                    /\ \E at \in {"query", "close"} :
                        call' = [at |-> at, fh |-> o, ret |-> Null]
    PROVE  IInv'
<1>0. /\ o \in Objects /\ heap[o] = "unused" /\ o # Null
      /\ o \notin held /\ o \notin freed /\ o \notin opened /\ o \notin Pending
    BY UnusedFact DEF IInv
<1>1. failed' \in BOOLEAN /\ (~failed' => ~failed /\ out # "FAILED")
    BY NoteFact DEF IInv, Safe, TypeOK, Create
<1>. USE DEF IInv, Safe
<1>2. opened' \subseteq opened \cup {o} /\ (out = "ERROR" => opened' = opened)
  <2>1. out \in {"SUCCESS", "ERROR", "FAILED"}
      BY DEF Outcomes
  <2>2. PICK S \in CASE out = "SUCCESS" -> {{o}}
                     [] out = "ERROR" -> {{}}
                     [] out = "FAILED" -> {{}, {o}} : opened' = opened \cup S
      BY DEF Create
  <2>. QED
      BY <2>1, <2>2
<1>3. /\ heap' = [heap EXCEPT ![o] = "fh"]
      /\ freed' = IF out = "ERROR" THEN freed \cup {o} ELSE freed
      /\ refused' = IF out = "ERROR" THEN refused \cup {o} ELSE refused
      /\ UNCHANGED <<connected, misused, unconverted>>
    BY DEF Create
<1>4. TypeOK'
  <2>1. /\ heap' \in [Objects -> Kinds \cup {"unused"}] /\ freed' \subseteq Objects
        /\ refused' \subseteq Objects /\ opened' \subseteq Objects /\ held' \subseteq Objects
      BY <1>0, <1>2, <1>3 DEF TypeOK, Kinds
  <2>2. call' \in [at : {"idle", "query", "close"}, fh : Objects \cup {Null},
                   ret : Objects \cup {Null}]
      BY <1>0 DEF TypeOK, Idle
  <2>. QED
      BY <1>1, <1>3, <2>1, <2>2 DEF TypeOK
<1>5. CallShape'
  <2>1. CASE call' = Idle
      BY <1>0, <1>3, <2>1 DEF CallShape, Idle, TypeOK
  <2>2. CASE call' # Idle
      BY <1>0, <1>3, <2>2, ObjectAssumption DEF CallShape, Idle, TypeOK
  <2>. QED
      BY <2>1, <2>2
<1>6. Allocated'
    BY <1>0, <1>2, <1>3 DEF Allocated, TypeOK
<1>7. Pending = {}
    BY DEF Pending, Idle
<1>8. Pending' \subseteq {o}
    BY DEF Pending, Idle
<1>9. DanglingRefused'
  <2>. SUFFICES ASSUME NEW p \in held' \cup Pending', p \in freed' PROVE p \in refused'
      BY DEF DanglingRefused
  <2>1. CASE p = o
      BY <1>0, <1>3, <2>1
  <2>2. CASE p # o
      BY <1>3, <1>8, <2>2 DEF DanglingRefused
  <2>. QED
      BY <2>1, <2>2
<1>10. OnlyRefusedMisused'
    BY <1>3 DEF OnlyRefusedMisused
<1>11. Accounted'
  <2>. SUFFICES ASSUME ~failed'
                PROVE  Live' \cup opened' \subseteq held' \cup Pending' \cup Dropped'
      BY DEF Accounted
  <2>1. out # "FAILED" /\ Live \cup opened \subseteq held \cup Dropped
      BY <1>1, <1>7 DEF Accounted
  <2>2. Live' \subseteq Live \cup {o}
      BY <1>3 DEF Live, TypeOK
  <2>3. o \in held' \cup Pending' /\ held \subseteq held'
      BY <1>0, <2>1 DEF Pending, Idle
  <2>4. Dropped \subseteq Dropped'
      BY <1>0, <1>3 DEF Dropped, TypeOK
  <2>. QED
      BY <1>2, <2>1, <2>2, <2>3, <2>4
<1>. QED
    BY <1>4, <1>5, <1>6, <1>9, <1>10, <1>11

(* Releasing an object o that the application or the function has.          *)
LEMMA ReleaseStep ==
    ASSUME IInv, NEW o \in held \cup Pending,
           failed' \in BOOLEAN, ~failed' => ~failed,
           freed' \in {freed, freed \cup {o}}, ~failed' => o \in freed',
           misused' = misused \cup ({o} \cap freed),
           \/ opened' = opened \ {o}
           \/ opened' = opened /\ (freed' = freed \/ o \notin opened),
           call' = Idle,
           \/ /\ call = Idle /\ held' = held \ {o}
           \/ /\ call.at = "close" /\ o = call.fh /\ held' = held \cup ({call.ret} \ {Null}),
           UNCHANGED <<connected, heap, refused, unconverted>>
    PROVE  IInv'
<1>. USE DEF IInv, Safe
<1>0. o \in Objects /\ heap[o] # "unused" /\ o # Null
    BY ObjectAssumption DEF Pending, TypeOK, Allocated, CallShape, Idle
<1>1. TypeOK'
  <2>1. opened' \subseteq Objects /\ misused' \subseteq Objects /\ held' \subseteq Objects
            /\ freed' \subseteq Objects
      BY <1>0 DEF TypeOK
  <2>2. call' \in [at : {"idle", "query", "close"}, fh : Objects \cup {Null},
                   ret : Objects \cup {Null}]
      BY DEF Idle
  <2>. QED
      BY <2>1, <2>2 DEF TypeOK
<1>2. held' \subseteq (held \cup Pending) \ {o}
    BY DEF Pending, Idle, CallShape
<1>3. CallShape'
    BY <1>1, ObjectAssumption DEF CallShape, Idle, TypeOK
<1>4. Allocated'
    BY <1>0, <1>2 DEF Allocated, Pending, CallShape, TypeOK
<1>5. Pending' = {}
    BY DEF Pending, Idle
<1>6. DanglingRefused'
    BY <1>2, <1>5 DEF DanglingRefused
<1>7. OnlyRefusedMisused'
    BY DEF OnlyRefusedMisused, DanglingRefused
<1>8. Accounted'
  <2>. SUFFICES ASSUME ~failed'
                PROVE  Live' \cup opened' \subseteq held' \cup Pending' \cup Dropped'
      BY DEF Accounted
  <2>1. Live \cup opened \subseteq held \cup Pending \cup Dropped
      BY DEF Accounted
  <2>2. Live' \cup opened' \subseteq ((held \cup Pending) \ {o}) \cup Dropped
      BY <2>1 DEF Live, Allocated
  <2>3. (held \cup Pending) \ {o} \subseteq held'
      BY DEF Pending, Idle, CallShape
  <2>4. Dropped' = Dropped
      BY DEF Dropped
  <2>. QED
      BY <2>2, <2>3, <2>4
<1>. QED
    BY <1>1, <1>3, <1>4, <1>6, <1>7, <1>8

(* QUERY_DIRECTORY, when the listing goes to the application, to the rest   *)
(* of smb2_querydir, or to nobody.                                          *)
LEMMA QueryStep ==
    ASSUME IInv, NEW o \in held \cup Pending, NEW d \in Unused, NEW out \in Outcomes,
           QueryDirectory(o, d, out), UNCHANGED <<connected, opened, unconverted>>,
           \/ /\ call = Idle /\ call' = call
              /\ held' = IF out = "FAILED" THEN held ELSE held \cup {d}
           \/ /\ call.at = "query" /\ held' = held
              /\ call' = [at |-> "close", fh |-> call.fh,
                          ret |-> IF out = "FAILED" THEN Null ELSE d]
    PROVE  IInv'
<1>0. /\ d \in Objects /\ heap[d] = "unused" /\ d # Null
      /\ d \notin held /\ d \notin freed /\ d \notin opened /\ d \notin Pending
    BY UnusedFact DEF IInv
<1>1. failed' \in BOOLEAN /\ (~failed' => ~failed /\ out # "FAILED")
    BY NoteFact DEF IInv, Safe, TypeOK, QueryDirectory
<1>. USE DEF IInv, Safe
<1>2. /\ heap' = [heap EXCEPT ![d] = "dir"]
      /\ freed' = IF out = "ERROR" THEN freed \cup {d} ELSE freed
      /\ refused' = IF out = "ERROR" THEN refused \cup {d} ELSE refused
      /\ misused' = misused \cup ({o} \cap freed)
    BY DEF QueryDirectory, Touch
<1>3. o \in Objects
    BY DEF Pending, TypeOK
<1>4. TypeOK'
  <2>1. /\ heap' \in [Objects -> Kinds \cup {"unused"}] /\ freed' \subseteq Objects
        /\ refused' \subseteq Objects /\ misused' \subseteq Objects /\ held' \subseteq Objects
      BY <1>0, <1>2, <1>3 DEF TypeOK, Kinds
  <2>2. call' \in [at : {"idle", "query", "close"}, fh : Objects \cup {Null},
                   ret : Objects \cup {Null}]
      BY <1>0 DEF TypeOK
  <2>. QED
      BY <1>1, <2>1, <2>2 DEF TypeOK
<1>5. CallShape'
  <2>1. CASE call' = call
      BY <1>0, <1>2, <2>1, ObjectAssumption DEF CallShape, Idle, TypeOK
  <2>2. CASE call' # call
      BY <1>0, <1>2, <2>2, ObjectAssumption DEF CallShape, Idle, TypeOK
  <2>. QED
      BY <2>1, <2>2
<1>6. Allocated'
    BY <1>0, <1>2 DEF Allocated, TypeOK
<1>7. /\ held' \cup Pending' \subseteq held \cup Pending \cup {d}
      /\ held \cup Pending \subseteq held' \cup Pending'
      /\ out # "FAILED" => d \in held' \cup Pending'
  <2>1. CASE call = Idle /\ call' = call
      BY <2>1 DEF Pending, Idle
  <2>2. CASE call.at = "query" /\ call.ret = Null
      BY <1>0, <2>2 DEF Pending, Idle
  <2>. QED
      BY <2>1, <2>2 DEF CallShape, TypeOK
<1>8. DanglingRefused'
  <2>. SUFFICES ASSUME NEW p \in held' \cup Pending', p \in freed' PROVE p \in refused'
      BY DEF DanglingRefused
  <2>1. CASE p = d
      BY <1>0, <1>2, <2>1
  <2>2. CASE p # d
      BY <1>2, <1>7, <2>2 DEF DanglingRefused
  <2>. QED
      BY <2>1, <2>2
<1>9. OnlyRefusedMisused'
    BY <1>2 DEF OnlyRefusedMisused, DanglingRefused
<1>10. Accounted'
  <2>. SUFFICES ASSUME ~failed'
                PROVE  Live' \cup opened' \subseteq held' \cup Pending' \cup Dropped'
      BY DEF Accounted
  <2>1. out # "FAILED" /\ Live \cup opened \subseteq held \cup Pending \cup Dropped
      BY <1>1 DEF Accounted
  <2>2. Live' \subseteq Live \cup {d}
      BY <1>2 DEF Live, TypeOK
  <2>3. Dropped \subseteq Dropped'
      BY <1>0, <1>2 DEF Dropped, TypeOK
  <2>. QED
      BY <1>7, <2>1, <2>2, <2>3
<1>. QED
    BY <1>4, <1>5, <1>6, <1>8, <1>9, <1>10

(* A step of one call that allocates the objects N and neither opens nor    *)
(* closes a file: N is released at once, handed over or dropped.            *)
LEMMA AllocateStep ==
    ASSUME IInv, call = Idle, NEW N \in SUBSET Unused, NEW S \in SUBSET held,
           heap' \in [Objects -> Kinds \cup {"unused"}],
           \A o \in Objects \ N : heap'[o] = heap[o],
           \A o \in N : heap'[o] \notin {"unused", "fh"},
           freed \subseteq freed', freed' \subseteq freed \cup N,
           held \subseteq held', held' \subseteq held \cup (N \ freed'),
           unconverted' \in BOOLEAN, unconverted => unconverted',
           \A o \in N \ (freed' \cup held') :
                unconverted' /\ heap'[o] \in {"buf", "sd", "debug_sd"},
           misused' \in {misused, misused \cup (S \cap freed)},
           failed' \in BOOLEAN, ~failed' => ~failed,
           UNCHANGED <<connected, opened, call, refused>>
    PROVE  IInv'
<1>. USE DEF IInv, Safe
<1>0. /\ N \subseteq Objects /\ N \cap held = {} /\ N \cap freed = {} /\ N \cap opened = {}
      /\ \A o \in N : heap[o] = "unused"
    BY UnusedFact
<1>1. Pending = {} /\ Pending' = {}
    BY DEF Pending, Idle
<1>2. TypeOK'
  <2>1. freed' \subseteq Objects /\ held' \subseteq Objects /\ misused' \subseteq Objects
      BY <1>0 DEF TypeOK
  <2>. QED
      BY <2>1 DEF TypeOK
<1>3. CallShape'
    BY <1>2, ObjectAssumption DEF CallShape, Idle, TypeOK
<1>4. Allocated'
  <2>1. \A o \in held' \cup freed' : heap'[o] # "unused"
    <3>. SUFFICES ASSUME NEW o \in held' \cup freed' PROVE heap'[o] # "unused"
        OBVIOUS
    <3>1. CASE o \in N
        BY <3>1
    <3>2. CASE o \notin N
        BY <3>2 DEF Allocated, TypeOK
    <3>. QED
        BY <3>1, <3>2
  <2>2. \A o \in opened' : heap'[o] = "fh" /\ o \notin freed'
      BY <1>0 DEF Allocated, TypeOK
  <2>. QED
      BY <2>1, <2>2 DEF Allocated
<1>5. DanglingRefused'
    BY <1>0, <1>1 DEF DanglingRefused
<1>6. OnlyRefusedMisused'
    BY DEF OnlyRefusedMisused, DanglingRefused
<1>7. Accounted'
  <2>. SUFFICES ASSUME ~failed', NEW o \in Live' \cup opened'
                PROVE  o \in held' \cup Dropped'
      BY <1>1 DEF Accounted
  <2>1. CASE o \in N
      BY <1>0, <2>1 DEF Live, Dropped, Allocated
  <2>2. CASE o \notin N
    <3>1. o \in Live \cup opened
        BY <2>2 DEF Live
    <3>2. o \in held \cup Dropped
        BY <1>1, <3>1 DEF Accounted
    <3>3. o \in Dropped => o \in Dropped'
        BY <2>2 DEF Dropped
    <3>. QED
        BY <3>2, <3>3
  <2>. QED
      BY <2>1, <2>2
<1>. QED
    BY <1>2, <1>3, <1>4, <1>5, <1>6, <1>7

(* A list of attributes or streams, which goes to the application.          *)
LEMMA ListStep ==
    ASSUME IInv, NEW S \in SUBSET held, GetList(S)
    PROVE  IInv'
<1>1. PICK out \in Outcomes :
        /\ Note(out)
        /\ IF out # "SUCCESS"
           THEN UNCHANGED <<heap, held>>
           ELSE \E b \in Unused :
                    /\ heap' = [heap EXCEPT ![b] = "list"]
                    /\ held' = held \cup {b}
    BY DEF GetList
<1>2. /\ misused' = misused \cup (S \cap freed) /\ call = Idle
      /\ UNCHANGED <<connected, freed, opened, call, refused, unconverted>>
    BY DEF GetList, Touch, CanCall
<1>3. failed' \in BOOLEAN /\ (~failed' => ~failed)
    BY <1>1, NoteFact DEF IInv, Safe, TypeOK
<1>4. CASE out # "SUCCESS"
    BY <1>1, <1>2, <1>3, <1>4, QuietStep DEF IInv, Safe, TypeOK
<1>5. CASE out = "SUCCESS"
  <2>1. PICK b \in Unused : heap' = [heap EXCEPT ![b] = "list"] /\ held' = held \cup {b}
      BY <1>1, <1>5
  <2>2. b \in Objects /\ b \notin freed
      BY UnusedFact DEF IInv
  <2>3. /\ heap' \in [Objects -> Kinds \cup {"unused"}]
        /\ \A o \in Objects \ {b} : heap'[o] = heap[o]
        /\ heap'[b] = "list"
      BY <2>1, <2>2 DEF IInv, Safe, TypeOK, Kinds
  <2>4. unconverted' \in BOOLEAN
      BY <1>2 DEF IInv, Safe, TypeOK
  <2>5. {b} \in SUBSET Unused
      OBVIOUS
  <2>6. /\ freed' \subseteq freed \cup {b} /\ held' \subseteq held \cup ({b} \ freed')
        /\ {b} \ (freed' \cup held') = {}
      BY <1>2, <2>1, <2>2
  <2>. QED
      BY <1>2, <1>3, <2>1, <2>3, <2>4, <2>5, <2>6, AllocateStep
<1>. QED
    BY <1>4, <1>5

(* A descriptor that is encoded and handed over, or dropped.                *)
LEMMA DescriptorStep ==
    ASSUME IInv, NEW S \in SUBSET held, GetDescriptor(S)
    PROVE  IInv'
<1>1. PICK out \in Outcomes :
        /\ Note(out)
        /\ IF out # "SUCCESS"
           THEN UNCHANGED <<heap, freed, held, unconverted>>
           ELSE \E sd, b \in Unused : sd # b /\ Encode(sd, b)
    BY DEF GetDescriptor
<1>2. /\ misused' = misused \cup (S \cap freed) /\ call = Idle
      /\ UNCHANGED <<connected, opened, call, refused>>
    BY DEF GetDescriptor, Touch, CanCall
<1>3. failed' \in BOOLEAN /\ (~failed' => ~failed)
    BY <1>1, NoteFact DEF IInv, Safe, TypeOK
<1>4. CASE out # "SUCCESS"
    BY <1>1, <1>2, <1>3, <1>4, QuietStep DEF IInv, Safe, TypeOK
<1>5. CASE out = "SUCCESS"
  <2>1. PICK sd \in Unused, b \in Unused : sd # b /\ Encode(sd, b)
      BY <1>1, <1>5
  <2>2. sd \in Objects /\ b \in Objects /\ b \notin freed
      BY UnusedFact DEF IInv
  <2>3. /\ heap' \in [Objects -> Kinds \cup {"unused"}]
        /\ \A o \in Objects \ {sd, b} : heap'[o] = heap[o]
        /\ heap'[sd] = "sd" /\ heap'[b] = "buf"
    <3>1. heap' = [heap EXCEPT ![sd] = "sd", ![b] = "buf"]
        BY <2>1 DEF Encode
    <3>. QED
        BY <2>1, <2>2, <3>1 DEF IInv, Safe, TypeOK, Kinds
  <2>4. /\ freed \subseteq freed' /\ freed' \subseteq freed \cup {sd, b}
        /\ held \subseteq held' /\ held' \subseteq held \cup ({sd, b} \ freed')
        /\ \A o \in {sd, b} \ (freed' \cup held') : unconverted'
    <3>1. CASE freed' = freed \cup {sd} /\ held' = held \cup {b}
        BY <2>1, <2>2, <3>1
    <3>2. CASE unconverted' = TRUE /\ UNCHANGED <<freed, held>>
        BY <3>2
    <3>. QED
        BY <2>1, <3>1, <3>2 DEF Encode
  <2>5. unconverted' \in BOOLEAN /\ (unconverted => unconverted')
    <3>1. CASE UNCHANGED unconverted
        BY <3>1 DEF IInv, Safe, TypeOK
    <3>2. CASE unconverted' = TRUE
        BY <3>2
    <3>. QED
        BY <2>1, <3>1, <3>2 DEF Encode
  <2>6. {sd, b} \in SUBSET Unused
      OBVIOUS
  <2>. QED
      BY <1>2, <1>3, <2>3, <2>4, <2>5, <2>6, AllocateStep
<1>. QED
    BY <1>4, <1>5

(* A caller's descriptor that is decoded and freed, or dropped.             *)
LEMMA SetDescriptorStep ==
    ASSUME IInv, NEW S \in SUBSET held, SetDescriptor(S)
    PROVE  IInv'
<1>1. PICK sd \in Unused :
        /\ heap' = [heap EXCEPT ![sd] = "debug_sd"]
        /\ \/ /\ unconverted' = TRUE
              /\ UNCHANGED <<freed, misused, failed>>
           \/ /\ freed' = freed \cup {sd}
              /\ Touch(S)
              /\ \E out \in Outcomes : Note(out)
              /\ UNCHANGED unconverted
    BY DEF SetDescriptor
<1>2. call = Idle /\ UNCHANGED <<connected, opened, held, call, refused>>
    BY DEF SetDescriptor, CanCall
<1>3. sd \in Objects
    BY UnusedFact DEF IInv
<1>4. /\ heap' \in [Objects -> Kinds \cup {"unused"}]
      /\ \A o \in Objects \ {sd} : heap'[o] = heap[o]
      /\ heap'[sd] = "debug_sd"
    BY <1>1, <1>3 DEF IInv, Safe, TypeOK, Kinds
<1>5. /\ freed' \in {freed, freed \cup {sd}}
      /\ misused' \in {misused, misused \cup (S \cap freed)}
      /\ \A o \in {sd} \ (freed' \cup held') : unconverted'
    BY <1>1 DEF Touch
<1>6. unconverted' \in BOOLEAN /\ (unconverted => unconverted')
  <2>1. CASE UNCHANGED unconverted
      BY <2>1 DEF IInv, Safe, TypeOK
  <2>2. CASE unconverted' = TRUE
      BY <2>2
  <2>. QED
      BY <1>1, <2>1, <2>2
<1>7. failed' \in BOOLEAN /\ (~failed' => ~failed)
  <2>1. CASE UNCHANGED failed
      BY <2>1 DEF IInv, Safe, TypeOK
  <2>2. CASE \E out \in Outcomes : Note(out)
      BY <2>2, NoteFact DEF IInv, Safe, TypeOK
  <2>. QED
      BY <1>1, <2>1, <2>2
<1>8. {sd} \in SUBSET Unused
    OBVIOUS
<1>. QED
    BY <1>2, <1>4, <1>5, <1>6, <1>7, <1>8, AllocateStep

(* Every step of the functions on an open file preserves the invariant.     *)
LEMMA FileStep ==
    ASSUME IInv, NEW o \in held, OnFile(o)
    PROVE  IInv'
<1>. USE DEF IInv, Safe
<1>1. CASE Use(o)
  <2>1. PICK out \in Outcomes : Note(out)
      BY <1>1 DEF Use
  <2>2. failed' \in BOOLEAN /\ (~failed' => ~failed)
      BY <2>1, NoteFact DEF TypeOK
  <2>. QED
      BY <1>1, <2>2, QuietStep DEF Use, Touch, TypeOK
<1>2. CASE ReadUnconnected(o)
    BY <1>2, QuietStep DEF ReadUnconnected, Touch, TypeOK
<1>3. CASE Close(o)
  <2>1. PICK out \in Outcomes : CloseFh(o, out)
      BY <1>3 DEF Close
  <2>2. failed' \in BOOLEAN /\ (~failed' => ~failed /\ out # "FAILED")
      BY <2>1, NoteFact DEF TypeOK, CloseFh
  <2>. QED
      BY <1>3, <2>1, <2>2, ReleaseStep DEF Close, CanCall, CloseFh, Touch
<1>4. CASE Free(o)
  <2>1. o \notin opened
      BY <1>4 DEF Free, Files, Allocated
  <2>. QED
      BY <1>4, <2>1, ReleaseStep DEF Free, Touch, TypeOK
<1>5. CASE FgetinfoExtended(o) \/ FgetinfoStream(o)
  <2>1. GetList({o})
      BY <1>5 DEF FgetinfoExtended, FgetinfoStream
  <2>. QED
      BY <2>1, ListStep
<1>6. CASE FgetSecurity(o)
    BY <1>6, DescriptorStep DEF FgetSecurity
<1>7. CASE Fquerydir(o)
  <2>1. PICK d \in Unused, out \in Outcomes :
            /\ QueryDirectory(o, d, out)
            /\ held' = IF out = "FAILED" THEN held ELSE held \cup {d}
      BY <1>7 DEF Fquerydir
  <2>. QED
      BY <1>7, <2>1, QueryStep DEF Fquerydir, CanCall
<1>8. CASE FsetSecurity(o)
    BY <1>8, SetDescriptorStep DEF FsetSecurity
<1>. QED
    BY <1>1, <1>2, <1>3, <1>4, <1>5, <1>6, <1>7, <1>8
    DEF OnFile, Fsync, Fstat, FgetinfoAll, FgetinfoBasic, FgetinfoStandard, FsetinfoBasic,
        FsetinfoExtended, Ftruncate, Ioctl, Pread, Pwrite, Read,
        Write

(* The invariant holds in every state.                                      *)
THEOREM InvCorrect == Spec => []IInv
<1>1. Init => IInv
  <2>. SUFFICES ASSUME Init PROVE IInv
      OBVIOUS
  <2>. USE DEF Init
  <2>1. TypeOK
      BY DEF TypeOK, Idle, Kinds
  <2>2. CallShape
      BY ObjectAssumption DEF CallShape, Idle
  <2>3. Pending = {}
      BY DEF Pending, Idle
  <2>4. Allocated /\ DanglingRefused /\ OnlyRefusedMisused
      BY <2>3 DEF Allocated, DanglingRefused, OnlyRefusedMisused
  <2>5. Accounted
      BY DEF Accounted, Live
  <2>. QED
      BY <2>1, <2>2, <2>4, <2>5 DEF IInv, Safe
<1>2. IInv /\ [Next]_vars => IInv'
  <2>. SUFFICES ASSUME IInv, [Next]_vars PROVE IInv'
      OBVIOUS
  <2>1. CASE UNCHANGED vars
      BY <2>1, QuietStep DEF vars, IInv, Safe, TypeOK
  <2>2. CASE ConnectShare
      BY <2>2, QuietStep DEF ConnectShare, IInv, Safe, TypeOK
  <2>3. CASE DisconnectShare
    <3>1. PICK out \in Outcomes :
            /\ connected' = (out = "FAILED")
            /\ opened' = IF out = "FAILED" THEN opened ELSE {}
            /\ Note(out)
        BY <2>3 DEF DisconnectShare
    <3>2. failed' \in BOOLEAN /\ (~failed' => ~failed)
        BY <3>1, NoteFact DEF IInv, Safe, TypeOK
    <3>3. connected' \in BOOLEAN
        BY <3>1
    <3>4. opened' \in {opened, {}}
        BY <3>1
    <3>. QED
        BY <2>3, <3>2, <3>3, <3>4, QuietStep
        DEF DisconnectShare, IInv, Safe, TypeOK
  <2>4. CASE Open
    <3>1. PICK o \in Unused, out \in Outcomes :
            /\ Create(o, out)
            /\ held' = IF out = "FAILED" THEN held ELSE held \cup {o}
        BY <2>4 DEF Open
    <3>. QED
        BY <2>4, <3>1, CreateStep DEF Open, CanCall
  <2>5. CASE Querydir
    <3>1. PICK o \in Unused, out \in Outcomes :
            /\ Create(o, out)
            /\ call' = IF out = "FAILED" THEN Idle
                       ELSE [at |-> "query", fh |-> o, ret |-> Null]
        BY <2>5 DEF Querydir
    <3>. QED
        BY <2>5, <3>1, CreateStep DEF Querydir, CanCall
  <2>6. CASE CreateThenClose
    <3>1. PICK o \in Unused, out \in Outcomes :
            /\ Create(o, out)
            /\ call' = IF out = "FAILED" THEN Idle
                       ELSE [at |-> "close", fh |-> o, ret |-> Null]
        BY <2>6 DEF CreateThenClose
    <3>. QED
        BY <2>6, <3>1, CreateStep DEF CreateThenClose, CanCall
  <2>7. CASE QuerydirQuery
    <3>1. PICK d \in Unused, out \in Outcomes :
            /\ QueryDirectory(call.fh, d, out)
            /\ call' = [at |-> "close", fh |-> call.fh,
                        ret |-> IF out = "FAILED" THEN Null ELSE d]
        BY <2>7 DEF QuerydirQuery
    <3>2. call.fh \in Pending
        BY <2>7, ObjectAssumption DEF QuerydirQuery, IInv, Safe, CallShape, Pending
    <3>. QED
        BY <2>7, <3>1, <3>2, QueryStep DEF QuerydirQuery
  <2>8. CASE CloseAndReturn
    <3>1. PICK out \in Outcomes : CloseFh(call.fh, out)
        BY <2>8 DEF CloseAndReturn
    <3>2. failed' \in BOOLEAN /\ (~failed' => ~failed /\ out # "FAILED")
        BY <3>1, NoteFact DEF IInv, Safe, TypeOK, CloseFh
    <3>3. call.fh \in Pending
        BY <2>8, ObjectAssumption DEF CloseAndReturn, IInv, Safe, CallShape, Pending
    <3>. QED
        BY <2>8, <3>1, <3>2, <3>3, ReleaseStep DEF CloseAndReturn, CloseFh, Touch
  <2>9. CASE GetinfoExtended \/ GetinfoStream
    <3>1. GetList({})
        BY <2>9 DEF GetinfoExtended, GetinfoStream
    <3>. QED
        BY <3>1, ListStep
  <2>10. CASE GetSecurity
      BY <2>10, DescriptorStep DEF GetSecurity
  <2>11. CASE \E o \in held : OnFile(o)
      BY <2>11, FileStep
  <2>12. CASE SetSecurity
      BY <2>12, SetDescriptorStep DEF SetSecurity
  <2>. QED
      BY <2>1, <2>2, <2>3, <2>4, <2>5, <2>6, <2>7, <2>8, <2>9, <2>10, <2>11, <2>12
      DEF Next, OpenFile, OpenPipe, Unlink, Rmdir, Mkdir
<1>. QED
    BY <1>1, <1>2, PTL DEF Spec

(* The variables of the model keep their types.                             *)
THEOREM TypeCorrect == Spec => []TypeOK
<1>1. IInv => TypeOK
    BY DEF IInv, Safe
<1>. QED
    BY <1>1, InvCorrect, PTL

(* Freed memory is only ever touched through a pointer whose CREATE or      *)
(* QUERY_DIRECTORY the server refused, whatever fails and however the calls *)
(* of Smb2Api.cpp are ordered.                                              *)
THEOREM MisuseNeedsRefusal == Spec => []OnlyRefusedMisused
<1>1. IInv => OnlyRefusedMisused
    BY DEF IInv, Safe
<1>. QED
    BY <1>1, InvCorrect, PTL

(* While every exchange is answered, nothing the API allocates or opens at  *)
(* the server is lost, except for the descriptors and buffers that          *)
(* smb2_(f)get_security and smb2_(f)set_security drop when a descriptor     *)
(* cannot be encoded or decoded; and nothing at all is lost before such a   *)
(* failure.                                                                 *)
THEOREM NoLeak == Spec => []NothingLeaked
<1>1. IInv => NothingLeaked
  <2>. SUFFICES ASSUME IInv, call = Idle, ~failed
                PROVE  /\ opened \subseteq held \cap Live
                       /\ \A o \in Live \ held :
                            unconverted /\ heap[o] \in {"buf", "sd", "debug_sd"}
      BY DEF NothingLeaked
  <2>1. Pending = {}
      BY DEF Pending, Idle
  <2>2. Live \cup opened \subseteq held \cup Dropped
      BY <2>1 DEF IInv, Accounted
  <2>3. opened \subseteq Live
      BY DEF IInv, Safe, Allocated, Live, TypeOK
  <2>4. opened \cap Dropped = {}
      BY DEF IInv, Safe, Allocated, Dropped
  <2>. QED
      BY <2>2, <2>3, <2>4 DEF Dropped
<1>. QED
    BY <1>1, InvCorrect, PTL
=============================================================================
