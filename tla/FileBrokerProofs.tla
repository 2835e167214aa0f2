-------------------------- MODULE FileBrokerProofs --------------------------
(***************************************************************************)
(* Proofs about the file-system broker, for every set of files and values, *)
(* every limit and any number of restarts: its accounting is exact and     *)
(* within its limits, no write is ever seen in part, and what was written  *)
(* is read back.                                                           *)
(***************************************************************************)
EXTENDS FileBroker, TLAPS

USE SMTT(60)

Results == {"none", "Ok", "PermissionDenied", "OperationLimit", "NotFound", "FileTooLarge",
            "ReadLimit", "WriteLimit", "NotDirectory", "TargetChanged", "Io"}

ReadPlaces == {"list", "lookup", "open", "stat", "reading", "check"}
WritePlaces == {"verify", "create", "fill", "rename", "reopen", "remove"}

Contents == [by : Value \cup {Foreign}, len : Nat, disk : Nat]

Calls == [at : {"over"} \cup ReadPlaces \cup WritePlaces,
          op : {"none", "read", "list", "search", "write"}, root : Root,
          value : Value \cup {Nothing}, file : Inode \cup {NoFile}, length : Nat, got : Nat,
          seen : SUBSET (Value \cup {Foreign}), result : Results]

(* The types of what the broker and the file system keep.                  *)
Typed ==
  /\ inode \in [Inode -> Contents]
  /\ name \in Inode \cup {NoFile}
  /\ onDisk \in Inode \cup {NoFile}
  /\ temp \in Inode \cup {NoFile}
  /\ usage \in [operations : Nat, read : Nat, write : Nat]
  /\ held \in [state : {"none", "asked", "granted"}, file : Inode \cup {NoFile},
               rights : SUBSET {"read", "write"}]
  /\ call \in Calls
  /\ moved \in Nat
  /\ expected \in [Root -> Value \cup {Nothing}]

(* What a call in progress has to work with.                               *)
Underway ==
  /\ call.at \in {"stat", "reading", "check"} => call.file \in Inode
  /\ call.at = "reading" => call.got <= call.length
  /\ call.at \in WritePlaces => call.value \in Value
  /\ call.at # "over" /\ call.root = "file" => held.state = "granted"
  /\ call.at # "over" => call.result = "none"
  /\ call.at \in {"list", "lookup"} => call.root = "dir"
  /\ call.at \in {"list", "lookup", "open", "stat"} => call.got = 0 /\ call.seen = {}

(* A file the name refers to, or refers to on the disk, and that a program *)
(* of this host has written is whole, also on the disk; the temporary file *)
(* is another file, and is whole on the disk when it is renamed.           *)
Whole(i) ==
  inode[i].by \in Value =>
    inode[i].len = Size(inode[i].by) /\ inode[i].disk = Size(inode[i].by)

Written ==
  /\ name # NoFile => Whole(name)
  /\ onDisk # NoFile => Whole(onDisk)
  /\ call.at \in {"fill", "rename"} =>
       temp \in Inode \ {name, onDisk, held.file} /\ inode[temp].by = call.value
  /\ call.at = "rename" => Whole(temp)

(* What the file a root leads to contains, as far as it is known.          *)
Known(i, v) == i \in Inode /\ inode[i].by = v /\ inode[i].len = Size(v)

Remembered ==
  /\ expected["dir"] # Nothing => Known(name, expected["dir"])
  /\ expected["file"] # Nothing /\ held.state = "granted" => Known(held.file, expected["file"])
  /\ call.at \in {"stat", "reading", "check"} /\ expected[call.root] # Nothing =>
       /\ call.file = IF call.root = "dir" THEN name ELSE held.file
       /\ call.seen \subseteq {expected[call.root]}

IInv == Typed /\ Underway /\ UsageIsHonest /\ Written /\ Remembered

-----------------------------------------------------------------------------
Places == {"over"} \cup ReadPlaces \cup WritePlaces

(* A call that goes on changes its place and nothing else.                 *)
LEMMA CallGoesOn ==
  ASSUME NEW c \in Calls, NEW place \in Places
  PROVE  LET d == GoesTo(place, c) IN
         /\ d \in Calls /\ d.at = place /\ d.root = c.root /\ d.value = c.value
         /\ d.file = c.file /\ d.length = c.length /\ d.got = c.got /\ d.seen = c.seen
         /\ d.result = c.result
BY DEF GoesTo, Calls, Places

-----------------------------------------------------------------------------
(* The broker starts in the invariant.                                     *)
LEMMA InitInvariant == Init => IInv
<1> SUFFICES ASSUME Init PROVE IInv
  OBVIOUS
<1> USE FilesAssumption DEF Init, Over, Call, NoUsage, NoGrant, Unknown, Root
<1>1. Typed
  BY DEF Typed, Contents, Calls, Results
<1>2. Underway
  BY DEF Underway, WritePlaces
<1>3. UsageIsHonest
  BY DEF UsageIsHonest
<1>4. Written /\ Remembered
  BY DEF Written, Whole, Remembered, Known
<1> QED
  BY <1>1, <1>2, <1>3, <1>4 DEF IInv

(* A call that ends, or is refused, leaves everything else alone.          *)
LEMMA CallEnds ==
  ASSUME IInv, NEW result \in Results, call.at # "reading", call' = Over(result),
         UNCHANGED <<disk, temp, usage, held, history>>
  PROVE  IInv'
<1> USE FilesAssumption DEF IInv, Over, Call, disk, history, Root
<1>1. Typed'
  BY DEF Typed, Calls
<1>2. Underway'
  BY DEF Underway, WritePlaces
<1>3. UsageIsHonest'
  BY DEF UsageIsHonest
<1>4. Written' /\ Remembered'
  BY DEF Written, Whole, Remembered, Known
<1> QED
  BY <1>1, <1>2, <1>3, <1>4

(* A request retains its target.                                           *)
LEMMA RetainKeeps ==
  ASSUME IInv, NEW rights \in SUBSET {"read", "write"}, retain_file(rights)
  PROVE  IInv'
<1> USE FilesAssumption DEF IInv, retain_file, Idle, disk, history, Root
<1>1. Typed'
  BY DEF Typed, Calls, Contents, ReadPlaces, WritePlaces, Results
<1>2. Underway'
  BY DEF Typed, Calls, Underway, ReadPlaces, WritePlaces
<1>3. UsageIsHonest'
  BY DEF Typed, Calls, Contents, Underway, UsageIsHonest, Unread
<1>4. Written'
  BY DEF Typed, Calls, Contents, Underway, Written, Whole, WritePlaces
<1>5. Remembered'
  BY DEF Typed, Calls, Contents, Underway, Written, Whole, Remembered, Known, WritePlaces
<1> QED
  BY <1>1, <1>2, <1>3, <1>4, <1>5

(* A grant takes over what is known of the file.                           *)
LEMMA GrantKeeps ==
  ASSUME IInv, NEW rights \in SUBSET {"read", "write"}, into_grant(rights)
  PROVE  IInv'
<1> USE FilesAssumption DEF IInv, into_grant, Idle, NoGrant, disk, history, Root
<1>1. Typed'
  <2>1. held' \in [state : {"none", "asked", "granted"}, file : Inode \cup {NoFile},
                    rights : SUBSET {"read", "write"}]
    BY DEF Typed
  <2>2. expected' \in [Root -> Value \cup {Nothing}]
    BY DEF Typed
  <2> QED
    BY <2>1, <2>2 DEF Typed
<1>2. Underway'
  BY DEF Typed, Calls, Underway, ReadPlaces, WritePlaces
<1>3. UsageIsHonest'
  BY DEF Typed, Calls, Contents, Underway, UsageIsHonest, Unread
<1>4. Written'
  BY DEF Typed, Calls, Contents, Underway, Written, Whole, WritePlaces
<1>5. Remembered'
  <2>1. CASE name = held.file
    <3>1. expected'["dir"] = expected["dir"] /\ expected'["file"] = expected["dir"]
      BY <2>1 DEF Typed
    <3>2. held'.file = held.file
      BY <2>1 DEF Typed
    <3> QED
      BY <2>1, <3>1, <3>2 DEF Typed, Calls, Remembered, Known
  <2>2. CASE name # held.file
    BY <2>2 DEF Typed, Calls, Remembered, Known
  <2> QED
    BY <2>1, <2>2
<1> QED
  BY <1>1, <1>2, <1>3, <1>4, <1>5

(* A grant is given up.                                                    *)
LEMMA ReleaseKeeps ==
  ASSUME IInv, Release
  PROVE  IInv'
<1> USE FilesAssumption DEF IInv, Release, Idle, NoGrant, disk, history, Root
<1>1. Typed'
  BY DEF Typed, Calls, Contents, ReadPlaces, WritePlaces, Results
<1>2. Underway'
  BY DEF Typed, Calls, Underway, ReadPlaces, WritePlaces
<1>3. UsageIsHonest'
  BY DEF Typed, Calls, Contents, Underway, UsageIsHonest, Unread
<1>4. Written'
  BY DEF Typed, Calls, Contents, Underway, Written, Whole, WritePlaces
<1>5. Remembered'
  BY DEF Typed, Calls, Contents, Underway, Written, Whole, Remembered, Known, WritePlaces
<1> QED
  BY <1>1, <1>2, <1>3, <1>4, <1>5

(* A read is charged.                                                      *)
LEMMA ChargeReadKeeps ==
  ASSUME IInv, NEW r \in Root, NEW op \in {"read", "list", "search"}, Usable(r), Idle,
         CanOperate(r), op = "read" \/ r = "dir", usage' = charge_operation,
         call' = Begins(r, op, Nothing, FirstStep[op]),
         UNCHANGED <<disk, temp, held, history>>
  PROVE  IInv'
<1> USE FilesAssumption DEF IInv, Usable, Idle, CanOperate,
                            charge_operation, Begins, Call, FirstStep, disk, history, Root
<1>1. Typed'
  <2>1. FirstStep[op] \in ReadPlaces
    BY DEF ReadPlaces
  <2>2. call' \in Calls
    BY <2>1 DEF Calls, Results
  <2>3. usage' \in [operations : Nat, read : Nat, write : Nat]
    BY DEF Typed
  <2> QED
    BY <2>2, <2>3 DEF Typed
<1>2. Underway'
  BY DEF Typed, Calls, Underway, ReadPlaces, WritePlaces
<1>3. UsageIsHonest'
  BY DEF Typed, Calls, Contents, Underway, UsageIsHonest, Unread
<1>4. Written'
  BY DEF Typed, Calls, Contents, Underway, Written, Whole, WritePlaces
<1>5. Remembered'
  BY DEF Typed, Calls, Contents, Underway, Written, Whole, Remembered, Known, WritePlaces
<1> QED
  BY <1>1, <1>2, <1>3, <1>4, <1>5

(* A write is charged.                                                     *)
LEMMA ChargeWriteKeeps ==
  ASSUME IInv, NEW r \in Root, NEW v \in Value, Usable(r), Idle, CanWrite(r, Size(v)),
         usage' = charge_write(Size(v)), call' = Begins(r, "write", v, "verify"),
         UNCHANGED <<disk, temp, held, history>>
  PROVE  IInv'
<1> USE FilesAssumption DEF IInv, Usable, Idle, CanOperate, CanWrite, charge_operation, charge_write,
                            Begins, Call, disk, history, Root
<1>1. Typed'
  <2>1. call' \in Calls
    BY DEF Calls, Results, WritePlaces
  <2>2. usage' \in [operations : Nat, read : Nat, write : Nat]
    <3>1. charge_operation \in [operations : Nat, read : Nat, write : Nat]
      BY DEF Typed
    <3> HIDE DEF charge_operation
    <3> QED
      BY <3>1
  <2> QED
    BY <2>1, <2>2 DEF Typed
<1>2. Underway'
  BY DEF Typed, Calls, Underway, ReadPlaces, WritePlaces
<1>3. UsageIsHonest'
  <2>1. /\ usage'.read = usage.read /\ usage'.operations = usage.operations + 1
        /\ usage'.write = usage.write + Size(v)
    BY DEF Typed
  <2> QED
    BY <2>1 DEF Typed, UsageIsHonest
<1>4. Written'
  BY DEF Typed, Calls, Contents, Underway, Written, Whole, WritePlaces
<1>5. Remembered'
  BY DEF Typed, Calls, Contents, Underway, Written, Whole, Remembered, Known, WritePlaces
<1> QED
  BY <1>1, <1>2, <1>3, <1>4, <1>5

(* A search goes on with the file it has found.                            *)
LEMMA LookupKeeps ==
  ASSUME IInv, call.at = "list", call' = GoesTo("lookup", call),
         UNCHANGED <<disk, temp, usage, held, history>>
  PROVE  IInv'
<1> USE FilesAssumption DEF IInv, disk, history, Root
<1>0. /\ call' \in Calls /\ call'.at = "lookup" /\ call'.root = call.root
      /\ call'.value = call.value /\ call'.file = call.file /\ call'.length = call.length
      /\ call'.got = call.got /\ call'.seen = call.seen /\ call'.result = call.result
  BY CallGoesOn DEF Typed, Places, ReadPlaces, WritePlaces
<1>1. Typed'
  BY <1>0 DEF Typed
<1>2. Underway'
  BY <1>0 DEF Typed, Calls, Underway, WritePlaces
<1>3. UsageIsHonest'
  BY <1>0 DEF Typed, Calls, Contents, Underway, UsageIsHonest, Unread
<1>4. Written'
  BY <1>0 DEF Typed, Calls, Contents, Underway, Written, Whole, WritePlaces
<1>5. Remembered'
  BY <1>0 DEF Typed, Calls, Contents, Underway, Written, Whole, Remembered, Known, WritePlaces
<1> QED
  BY <1>1, <1>2, <1>3, <1>4, <1>5

(* The file a search opens is charged.                                     *)
LEMMA SearchKeeps ==
  ASSUME IInv, call.at = "lookup", CanOperate(call.root), usage' = charge_operation,
         call' = GoesTo("open", call), UNCHANGED <<disk, temp, held, history>>
  PROVE  IInv'
<1> USE FilesAssumption DEF IInv, CanOperate, charge_operation, disk, history, Root
<1>0. /\ call' \in Calls /\ call'.at = "open" /\ call'.root = call.root
      /\ call'.value = call.value /\ call'.file = call.file /\ call'.length = call.length
      /\ call'.got = call.got /\ call'.seen = call.seen /\ call'.result = call.result
  BY CallGoesOn DEF Typed, Places, ReadPlaces, WritePlaces
<1>1. Typed'
  BY <1>0 DEF Typed
<1>2. Underway'
  BY <1>0 DEF Typed, Calls, Underway, WritePlaces
<1>3. UsageIsHonest'
  BY <1>0 DEF Typed, Calls, Contents, Underway, UsageIsHonest, Unread
<1>4. Written'
  BY <1>0 DEF Typed, Calls, Contents, Underway, Written, Whole, WritePlaces
<1>5. Remembered'
  BY <1>0 DEF Typed, Calls, Contents, Underway, Written, Whole, Remembered, Known, WritePlaces
<1> QED
  BY <1>1, <1>2, <1>3, <1>4, <1>5

(* A file is opened.                                                       *)
LEMMA OpenKeeps ==
  ASSUME IInv, call.at = "open", Target # NoFile,
         call' = GoesTo("stat", [call EXCEPT !.file = Target]),
         UNCHANGED <<disk, temp, usage, held, history>>
  PROVE  IInv'
<1> USE FilesAssumption DEF IInv, disk, history, Root
<1> DEFINE c == [call EXCEPT !.file = Target]
<1>a. call \in Calls
  BY DEF Typed
<1>b. Target \in Inode /\ call.got = 0 /\ call.seen = {}
  BY DEF Target, Typed, Underway
<1>c. /\ c \in Calls /\ c.root = call.root /\ c.value = call.value /\ c.seen = call.seen
      /\ c.got = call.got /\ c.result = call.result /\ c.file = Target
  BY <1>a, <1>b DEF Calls
<1>d. call' = GoesTo("stat", c)
  OBVIOUS
<1> HIDE DEF c
<1>0. /\ call' \in Calls /\ call'.at = "stat" /\ call'.root = call.root
      /\ call'.value = call.value /\ call'.got = call.got /\ call'.seen = call.seen
      /\ call'.result = call.result
      /\ call'.file = Target
  BY <1>c, <1>d, CallGoesOn DEF Places, ReadPlaces
<1>1. Typed'
  BY <1>0 DEF Typed
<1>2. Underway'
  BY <1>0, <1>b DEF Typed, Calls, Underway, WritePlaces
<1>3. UsageIsHonest'
  BY <1>0 DEF Typed, Calls, Contents, Underway, UsageIsHonest, Unread
<1>4. Written'
  BY <1>0 DEF Typed, Calls, Contents, Underway, Written, Whole, WritePlaces
<1>5. Remembered'
  BY <1>0, <1>b DEF Typed, Calls, Underway, Remembered, Known, Target
<1> QED
  BY <1>1, <1>2, <1>3, <1>4, <1>5

(* The length of the file is reserved before it is read.                   *)
LEMMA ReserveKeeps ==
  ASSUME IInv, call.at = "stat", CanReserve(call.root, inode[call.file].len),
         usage' = reserve_read(inode[call.file].len),
         call' = GoesTo("reading", [call EXCEPT !.length = inode[call.file].len]),
         UNCHANGED <<disk, temp, held, history>>
  PROVE  IInv'
<1> USE FilesAssumption DEF IInv, CanReserve, reserve_read, disk, history, Root
<1> DEFINE c == [call EXCEPT !.length = inode[call.file].len]
<1>a. call \in Calls
  BY DEF Typed
<1>b. call.file \in Inode /\ inode[call.file].len \in Nat /\ call.got = 0
  BY DEF Typed, Underway, Contents
<1>c. /\ c \in Calls /\ c.root = call.root /\ c.value = call.value /\ c.seen = call.seen
      /\ c.got = call.got /\ c.result = call.result /\ c.file = call.file
      /\ c.length = inode[call.file].len
  BY <1>a, <1>b DEF Calls
<1>d. call' = GoesTo("reading", c)
  OBVIOUS
<1> HIDE DEF c
<1>0. /\ call' \in Calls /\ call'.at = "reading" /\ call'.root = call.root
      /\ call'.value = call.value /\ call'.got = call.got /\ call'.seen = call.seen
      /\ call'.result = call.result
      /\ call'.file = call.file /\ call'.length = inode[call.file].len
  BY <1>c, <1>d, CallGoesOn DEF Places, ReadPlaces
<1>1. Typed'
  <2>1. usage' \in [operations : Nat, read : Nat, write : Nat]
    BY <1>b DEF Typed
  <2> QED
    BY <1>0, <2>1 DEF Typed
<1>2. Underway'
  BY <1>0, <1>b DEF Typed, Calls, Underway, WritePlaces
<1>3. UsageIsHonest'
  <2>1. /\ usage'.read = usage.read + inode[call.file].len
        /\ usage'.operations = usage.operations /\ usage'.write = usage.write
    BY DEF Typed
  <2>2. call.root \in Root /\ Limits[call.root].read <= Limits["dir"].read
    BY DEF Typed, Calls
  <2>3. Limits["dir"].read \in Nat /\ Limits[call.root].read \in Nat
    BY <2>2
  <2> QED
    BY <1>0, <1>b, <2>1, <2>2, <2>3 DEF Typed, UsageIsHonest, Unread
<1>4. Written'
  BY <1>0 DEF Typed, Calls, Contents, Underway, Written, Whole, WritePlaces
<1>5. Remembered'
  BY <1>0, <1>b DEF Typed, Calls, Underway, Remembered, Known
<1> QED
  BY <1>1, <1>2, <1>3, <1>4, <1>5

(* A byte is read: it is the file's, and was reserved.                     *)
LEMMA ReadByteKeeps ==
  ASSUME IInv, ReadByte
  PROVE  IInv'
<1> USE FilesAssumption DEF IInv, ReadByte, disk, history, Root
<1> DEFINE c == [call EXCEPT !.got = @ + 1]
<1>a. call \in Calls
  BY DEF Typed
<1>b. call.file \in Inode /\ inode[call.file] \in Contents /\ call.got + 1 <= call.length
      /\ call.got \in Nat /\ call.length \in Nat
  BY DEF Typed, Underway, Calls
<1>c. /\ c \in Calls /\ c.at = "reading" /\ c.root = call.root /\ c.value = call.value
      /\ c.seen = call.seen /\ c.result = call.result
      /\ c.got = call.got + 1 /\ c.file = call.file /\ c.length = call.length
  BY <1>a, <1>b DEF Calls
<1>d. call' = [c EXCEPT !.seen = @ \cup {inode[call.file].by}]
  OBVIOUS
<1> HIDE DEF c
<1>e. inode[call.file].by \in Value \cup {Foreign}
  BY <1>b DEF Contents
<1>0. /\ call' \in Calls /\ call'.at = "reading" /\ call'.root = call.root
      /\ call'.value = call.value /\ call'.file = call.file /\ call'.length = call.length
      /\ call'.got = call.got + 1 /\ call'.seen = call.seen \cup {inode[call.file].by}
      /\ call'.result = call.result
  BY <1>c, <1>d, <1>e DEF Calls
<1>1. Typed'
  BY <1>0 DEF Typed
<1>2. Underway'
  BY <1>0, <1>b DEF Typed, Underway, WritePlaces
<1>3. UsageIsHonest'
  <2>1. usage' = usage /\ moved' = moved + 1
    OBVIOUS
  <2> QED
    BY <1>0, <1>b, <2>1 DEF Typed, UsageIsHonest, Unread
<1>4. Written'
  BY <1>0 DEF Typed, Written, Whole
<1>5. Remembered'
  <2>1. expected' = expected /\ name' = name /\ held' = held /\ inode' = inode
    OBVIOUS
  <2>2. ASSUME expected[call.root] # Nothing
        PROVE  call'.file = (IF call.root = "dir" THEN name ELSE held.file)
               /\ call'.seen \subseteq {expected[call.root]}
    BY <1>0, <1>b, <2>2 DEF Typed, Underway, Remembered, Known, Calls
  <2> QED
    BY <1>0, <2>1, <2>2 DEF Remembered, Known
<1> QED
  BY <1>1, <1>2, <1>3, <1>4, <1>5

(* What a read did not use is given back when it is through.               *)
LEMMA ReadEndsKeeps ==
  ASSUME IInv, ReadEnds
  PROVE  IInv'
<1> USE FilesAssumption DEF IInv, ReadEnds, refund_read, disk, history, Root
<1>b. /\ Unread \in Nat /\ usage.read = moved + Unread /\ Unread <= usage.read
      /\ usage.read \in Nat /\ moved \in Nat
  BY DEF Typed, Calls, Underway, UsageIsHonest, Unread
<1>l. Limits["dir"].read \in Nat
  OBVIOUS
<1>0. /\ call' \in Calls /\ call'.at = "check" /\ call'.root = call.root
      /\ call'.value = call.value /\ call'.file = call.file /\ call'.length = call.length
      /\ call'.got = call.got /\ call'.seen = call.seen /\ call'.result = call.result
  BY CallGoesOn DEF Typed, Places, ReadPlaces, WritePlaces
<1>1. Typed'
  <2>1. usage' \in [operations : Nat, read : Nat, write : Nat]
    BY <1>b DEF Typed
  <2> QED
    BY <1>0, <2>1 DEF Typed
<1>2. Underway'
  BY <1>0 DEF Typed, Calls, Underway, WritePlaces
<1>3. UsageIsHonest'
  <2>1. /\ usage'.read = usage.read - Unread
        /\ usage'.operations = usage.operations /\ usage'.write = usage.write
    BY <1>b DEF Typed
  <2> QED
    BY <1>0, <1>b, <2>1 DEF Typed, UsageIsHonest
<1>4. Written'
  BY <1>0 DEF Typed, Calls, Contents, Underway, Written, Whole, WritePlaces
<1>5. Remembered'
  BY <1>0 DEF Typed, Calls, Contents, Underway, Written, Whole, Remembered, Known, WritePlaces
<1> QED
  BY <1>1, <1>2, <1>3, <1>4, <1>5

(* What a read did not use is given back when it fails.                    *)
LEMMA ReadFailsKeeps ==
  ASSUME IInv, ReadFails
  PROVE  IInv'
<1> USE FilesAssumption DEF IInv, ReadFails, refund_read, Over, Call, disk, history, Root
<1>b. /\ Unread \in Nat /\ usage.read = moved + Unread /\ Unread <= usage.read
      /\ usage.read \in Nat /\ moved \in Nat
  BY DEF Typed, Calls, Underway, UsageIsHonest, Unread
<1>1. Typed'
  <2>1. usage' \in [operations : Nat, read : Nat, write : Nat]
    BY <1>b DEF Typed
  <2>2. call' \in Calls
    BY DEF Calls, Results
  <2> QED
    BY <2>1, <2>2 DEF Typed
<1>2. Underway'
  BY DEF Typed, Calls, Underway, ReadPlaces, WritePlaces
<1>3. UsageIsHonest'
  <2>1. /\ usage'.read = usage.read - Unread
        /\ usage'.operations = usage.operations /\ usage'.write = usage.write
    BY <1>b DEF Typed
  <2> QED
    BY <1>b, <2>1 DEF Typed, UsageIsHonest
<1>4. Written'
  BY DEF Typed, Calls, Contents, Underway, Written, Whole, WritePlaces
<1>5. Remembered'
  BY DEF Typed, Calls, Contents, Underway, Written, Whole, Remembered, Known, WritePlaces
<1> QED
  BY <1>1, <1>2, <1>3, <1>4, <1>5

(* A write goes on with a temporary file.                                  *)
LEMMA VerifyKeeps ==
  ASSUME IInv, call.at = "verify", call' = GoesTo("create", call),
         UNCHANGED <<disk, temp, usage, held, history>>
  PROVE  IInv'
<1> USE FilesAssumption DEF IInv, disk, history, Root
<1>0. /\ call' \in Calls /\ call'.at = "create" /\ call'.root = call.root
      /\ call'.value = call.value /\ call'.file = call.file /\ call'.length = call.length
      /\ call'.got = call.got /\ call'.seen = call.seen /\ call'.result = call.result
  BY CallGoesOn DEF Typed, Places, ReadPlaces, WritePlaces
<1>1. Typed'
  BY <1>0 DEF Typed
<1>2. Underway'
  BY <1>0 DEF Typed, Calls, Underway, WritePlaces
<1>3. UsageIsHonest'
  BY <1>0 DEF Typed, Calls, Contents, Underway, UsageIsHonest, Unread
<1>4. Written'
  BY <1>0 DEF Typed, Calls, Contents, Underway, Written, Whole, WritePlaces
<1>5. Remembered'
  BY <1>0 DEF Typed, Calls, Contents, Underway, Written, Whole, Remembered, Known, WritePlaces
<1> QED
  BY <1>1, <1>2, <1>3, <1>4, <1>5

(* The temporary file is one nothing refers to.                            *)
LEMMA CreateKeeps ==
  ASSUME IInv, create_temporary
  PROVE  IInv'
<1> USE FilesAssumption DEF IInv, disk, history, Root
<1>p. PICK i \in Free :
        /\ temp' = i
        /\ inode' = [inode EXCEPT ![i] = [by |-> call.value, len |-> 0, disk |-> 0]]
  BY Zenon DEF create_temporary
<1>q. /\ call.at = "create" /\ call' = GoesTo("fill", call)
      /\ UNCHANGED <<name, onDisk, usage, held, history>>
  BY Zenon DEF create_temporary
<1>0. /\ call' \in Calls /\ call'.at = "fill" /\ call'.root = call.root
      /\ call'.value = call.value /\ call'.file = call.file /\ call'.length = call.length
      /\ call'.got = call.got /\ call'.seen = call.seen /\ call'.result = call.result
  BY <1>q, CallGoesOn DEF Typed, Places, ReadPlaces, WritePlaces
<1>f. i \in Inode /\ i \notin {name, onDisk, temp, held.file, call.file}
  BY DEF Free
<1>i. /\ inode' \in [Inode -> Contents] /\ inode'[i].by = call.value
      /\ \A j \in Inode : j # i => inode'[j] = inode[j]
      /\ i \in Inode \ {name, onDisk, held.file}
  BY <1>f, <1>p, <1>q DEF Typed, Underway, Contents, WritePlaces
<1>1. Typed'
  BY <1>0, <1>i, <1>p, <1>q DEF Typed
<1>2. Underway'
  BY <1>0, <1>q DEF Typed, Calls, Underway, WritePlaces
<1>3. UsageIsHonest'
  BY <1>0, <1>q DEF Typed, Calls, Contents, Underway, UsageIsHonest, Unread
<1>4. Written'
  BY <1>0, <1>i, <1>p, <1>q DEF Typed, Written, Whole
<1>5. Remembered'
  BY <1>0, <1>i, <1>p, <1>q DEF Typed, Remembered, Known
<1> QED
  BY <1>1, <1>2, <1>3, <1>4, <1>5

(* A byte of the value is written to the temporary file.                   *)
LEMMA WriteByteKeeps ==
  ASSUME IInv, WriteByte
  PROVE  IInv'
<1> USE FilesAssumption DEF IInv, WriteByte, disk, history, Root
<1>t. temp \in Inode \ {name, onDisk, held.file} /\ inode[temp] \in Contents
  BY DEF Typed, Written
<1> DEFINE f == [inode[temp] EXCEPT !.len = @ + 1]
<1>f. f \in Contents /\ f.by = inode[temp].by
  BY <1>t DEF Contents
<1>g. inode' = [inode EXCEPT ![temp] = f]
  OBVIOUS
<1> HIDE DEF f
<1>i. /\ inode' \in [Inode -> Contents] /\ inode'[temp] = f
      /\ \A j \in Inode : j # temp => inode'[j] = inode[j]
  BY <1>t, <1>f, <1>g DEF Typed
<1>1. Typed'
  BY <1>i DEF Typed
<1>2. Underway'
  BY DEF Underway
<1>3. UsageIsHonest'
  BY DEF UsageIsHonest, Unread
<1>4. Written'
  BY <1>t, <1>f, <1>i DEF Typed, Written, Whole
<1>5. Remembered'
  BY <1>t, <1>i DEF Typed, Remembered, Known
<1> QED
  BY <1>1, <1>2, <1>3, <1>4, <1>5

(* The temporary file is whole, and on the disk.                           *)
LEMMA SyncKeeps ==
  ASSUME IInv, SyncAll
  PROVE  IInv'
<1> USE FilesAssumption DEF IInv, SyncAll, disk, history, Root
<1>0. /\ call' \in Calls /\ call'.at = "rename" /\ call'.root = call.root
      /\ call'.value = call.value /\ call'.file = call.file /\ call'.length = call.length
      /\ call'.got = call.got /\ call'.seen = call.seen /\ call'.result = call.result
  BY CallGoesOn DEF Typed, Places, ReadPlaces, WritePlaces
<1>t. temp \in Inode \ {name, onDisk, held.file} /\ inode[temp] \in Contents
  BY DEF Typed, Written
<1> DEFINE f == [inode[temp] EXCEPT !.disk = inode[temp].len]
<1>f. f \in Contents /\ f.by = inode[temp].by /\ f.len = inode[temp].len /\ f.disk = inode[temp].len
  BY <1>t DEF Contents
<1>g. inode' = [inode EXCEPT ![temp] = f]
  OBVIOUS
<1> HIDE DEF f
<1>i. /\ inode' \in [Inode -> Contents] /\ inode'[temp] = f
      /\ \A j \in Inode : j # temp => inode'[j] = inode[j]
  BY <1>t, <1>f, <1>g DEF Typed
<1>1. Typed'
  BY <1>0, <1>i DEF Typed
<1>2. Underway'
  BY <1>0 DEF Typed, Calls, Underway, WritePlaces
<1>3. UsageIsHonest'
  BY <1>0 DEF UsageIsHonest
<1>4. Written'
  BY <1>0, <1>t, <1>f, <1>i DEF Typed, Written, Whole
<1>5. Remembered'
  BY <1>0, <1>t, <1>i DEF Typed, Remembered, Known
<1> QED
  BY <1>1, <1>2, <1>3, <1>4, <1>5

(* The temporary file, which is whole, takes the name.                     *)
LEMMA RenameKeeps ==
  ASSUME IInv, Rename
  PROVE  IInv'
<1> USE FilesAssumption DEF IInv, Rename, disk, history, Root
<1>e. /\ expected' = [r \in Root |-> IF r = "dir" THEN call.value ELSE Nothing]
      /\ call.value \in Value
  BY DEF Underway, WritePlaces
<1>t. temp \in Inode /\ inode[temp].by = call.value /\ Whole(temp)
  BY DEF Written
<1>0. /\ call' \in Calls /\ call'.at \in {"over", "reopen"}
      /\ call'.at = "reopen" => /\ call'.root = call.root /\ call'.value = call.value
                               /\ call'.result = call.result
  <2>1. CASE call.root = "dir"
    BY <2>1 DEF Over, Call, Calls, Results
  <2>2. CASE call.root # "dir"
    <3>1. call' = GoesTo("reopen", call)
      BY <2>2
    <3> QED
      BY <3>1, CallGoesOn DEF Typed, Places, WritePlaces
  <2> QED
    BY <2>1, <2>2
<1>1. Typed'
  <2>1. expected' \in [Root -> Value \cup {Nothing}]
    BY <1>e
  <2> QED
    BY <1>0, <2>1 DEF Typed
<1>2. Underway'
  BY <1>0 DEF Underway, WritePlaces
<1>3. UsageIsHonest'
  BY <1>0 DEF UsageIsHonest
<1>4. Written'
  BY <1>0, <1>t DEF Typed, Written, Whole
<1>5. Remembered'
  BY <1>0, <1>e, <1>t DEF Typed, Written, Whole, Remembered, Known
<1> QED
  BY <1>1, <1>2, <1>3, <1>4, <1>5

(* The grant takes the file at the name, and what is known of it.          *)
LEMMA ReopenKeeps ==
  ASSUME IInv, call.at = "reopen", name # NoFile, held' = [held EXCEPT !.file = name],
         expected' = [expected EXCEPT !["file"] = expected["dir"]], call' = Over("Ok"),
         UNCHANGED <<disk, temp, usage, moved, starts>>
  PROVE  IInv'
<1> USE FilesAssumption DEF IInv, Over, Call, disk, history, Root
<1>h. /\ held' \in [state : {"none", "asked", "granted"}, file : Inode \cup {NoFile},
                    rights : SUBSET {"read", "write"}]
      /\ held'.file = name
  BY DEF Typed
<1>1. Typed'
  <2>1. call' \in Calls
    BY DEF Calls, Results
  <2>2. expected' \in [Root -> Value \cup {Nothing}]
    BY DEF Typed
  <2> QED
    BY <1>h, <2>1, <2>2 DEF Typed
<1>2. Underway'
  BY DEF Typed, Calls, Underway, ReadPlaces, WritePlaces
<1>3. UsageIsHonest'
  BY DEF Typed, Calls, Contents, Underway, UsageIsHonest, Unread
<1>4. Written'
  BY DEF Typed, Calls, Contents, Underway, Written, Whole, WritePlaces
<1>5. Remembered'
  <2>1. expected'["dir"] = expected["dir"] /\ expected'["file"] = expected["dir"]
    BY DEF Typed
  <2> QED
    BY <1>h, <2>1 DEF Typed, Remembered, Known
<1> QED
  BY <1>1, <1>2, <1>3, <1>4, <1>5

(* A write that fails turns to its temporary file.                         *)
LEMMA WriteFailsKeeps ==
  ASSUME IInv, call.at \in {"fill", "rename"}, call' = GoesTo("remove", call),
         UNCHANGED <<disk, temp, usage, held, history>>
  PROVE  IInv'
<1> USE FilesAssumption DEF IInv, disk, history, Root
<1>0. /\ call' \in Calls /\ call'.at = "remove" /\ call'.root = call.root
      /\ call'.value = call.value /\ call'.file = call.file /\ call'.length = call.length
      /\ call'.got = call.got /\ call'.seen = call.seen /\ call'.result = call.result
  BY CallGoesOn DEF Typed, Places, ReadPlaces, WritePlaces
<1>1. Typed'
  BY <1>0 DEF Typed
<1>2. Underway'
  BY <1>0 DEF Typed, Calls, Underway, WritePlaces
<1>3. UsageIsHonest'
  BY <1>0 DEF Typed, Calls, Contents, Underway, UsageIsHonest, Unread
<1>4. Written'
  BY <1>0 DEF Typed, Calls, Contents, Underway, Written, Whole, WritePlaces
<1>5. Remembered'
  BY <1>0 DEF Typed, Calls, Contents, Underway, Written, Whole, Remembered, Known, WritePlaces
<1> QED
  BY <1>1, <1>2, <1>3, <1>4, <1>5

(* The temporary file of a write that failed is removed.                   *)
LEMMA RemoveKeeps ==
  ASSUME IInv, RemoveTemporary
  PROVE  IInv'
<1> USE FilesAssumption DEF IInv, RemoveTemporary, Over, Call, disk, history, Root
<1>1. Typed'
  BY DEF Typed, Calls, Contents, ReadPlaces, WritePlaces, Results
<1>2. Underway'
  BY DEF Typed, Calls, Underway, ReadPlaces, WritePlaces
<1>3. UsageIsHonest'
  BY DEF Typed, Calls, Contents, Underway, UsageIsHonest, Unread
<1>4. Written'
  BY DEF Typed, Calls, Contents, Underway, Written, Whole, WritePlaces
<1>5. Remembered'
  BY DEF Typed, Calls, Contents, Underway, Written, Whole, Remembered, Known, WritePlaces
<1> QED
  BY <1>1, <1>2, <1>3, <1>4, <1>5

(* Another program writes to the file: it is not the temporary file, and   *)
(* what the broker knew of it is forgotten.                                *)
LEMMA OverwriteKeeps ==
  ASSUME IInv, NEW n \in 0..MaxForeign, name # NoFile, expected' = Unknown,
         inode' = [inode EXCEPT ![name] = ForeignFile(n)],
         UNCHANGED <<name, onDisk, temp, usage, held, call, moved, starts>>
  PROVE  IInv'
<1> USE FilesAssumption DEF IInv, ForeignFile, Unknown, disk, history, Root
<1>i. /\ inode' \in [Inode -> Contents] /\ inode'[name].by = Foreign /\ name \in Inode
      /\ \A j \in Inode : j # name => inode'[j] = inode[j]
  BY DEF Typed, Contents
<1>1. Typed'
  <2>1. expected' \in [Root -> Value \cup {Nothing}]
    OBVIOUS
  <2> QED
    BY <1>i, <2>1 DEF Typed
<1>2. Underway'
  BY DEF Typed, Calls, Underway, ReadPlaces, WritePlaces
<1>3. UsageIsHonest'
  BY DEF Typed, Calls, Contents, Underway, UsageIsHonest, Unread
<1>4. Written'
  BY <1>i DEF Typed, Written, Whole
<1>5. Remembered'
  BY DEF Typed, Calls, Remembered
<1> QED
  BY <1>1, <1>2, <1>3, <1>4, <1>5

(* Another program puts a file of its own at the name.                     *)
LEMMA ReplaceKeeps ==
  ASSUME IInv, NEW i \in Free, NEW n \in 0..MaxForeign, expected' = Unknown,
         inode' = [inode EXCEPT ![i] = ForeignFile(n)], name' = i, onDisk' = i,
         UNCHANGED <<temp, usage, held, call, moved, starts>>
  PROVE  IInv'
<1> USE FilesAssumption DEF IInv, ForeignFile, Unknown, disk, history, Root
<1>f. i \in Inode /\ i \notin {name, onDisk, temp, held.file, call.file}
  BY DEF Free
<1>i. /\ inode' \in [Inode -> Contents] /\ inode'[i].by = Foreign
      /\ \A j \in Inode : j # i => inode'[j] = inode[j]
      /\ i \in Inode /\ i # temp /\ i # held.file
  BY <1>f DEF Typed, Contents
<1>1. Typed'
  <2>1. expected' \in [Root -> Value \cup {Nothing}]
    OBVIOUS
  <2> QED
    BY <1>i, <2>1 DEF Typed
<1>2. Underway'
  BY DEF Typed, Calls, Underway, ReadPlaces, WritePlaces
<1>3. UsageIsHonest'
  BY DEF Typed, Calls, Contents, Underway, UsageIsHonest, Unread
<1>4. Written'
  BY <1>i DEF Typed, Written, Whole
<1>5. Remembered'
  BY DEF Typed, Calls, Remembered
<1> QED
  BY <1>1, <1>2, <1>3, <1>4, <1>5

(* Another program removes the file.                                       *)
LEMMA OtherRemovesKeeps ==
  ASSUME IInv, OtherRemoves
  PROVE  IInv'
<1> USE FilesAssumption DEF IInv, OtherRemoves, Unknown, disk, history, Root
<1>1. Typed'
  BY DEF Typed, Calls, Contents, ReadPlaces, WritePlaces, Results
<1>2. Underway'
  BY DEF Typed, Calls, Underway, ReadPlaces, WritePlaces
<1>3. UsageIsHonest'
  BY DEF Typed, Calls, Contents, Underway, UsageIsHonest, Unread
<1>4. Written'
  BY DEF Typed, Calls, Contents, Underway, Written, Whole, WritePlaces
<1>5. Remembered'
  BY DEF Typed, Calls, Contents, Underway, Written, Whole, Remembered, Known, WritePlaces
<1> QED
  BY <1>1, <1>2, <1>3, <1>4, <1>5

(* The directory reaches the disk.                                         *)
LEMMA DirectoryKeeps ==
  ASSUME IInv, DirectorySynced
  PROVE  IInv'
<1> USE FilesAssumption DEF IInv, DirectorySynced, disk, history, Root
<1>1. Typed'
  BY DEF Typed, Calls, Contents, ReadPlaces, WritePlaces, Results
<1>2. Underway'
  BY DEF Typed, Calls, Underway, ReadPlaces, WritePlaces
<1>3. UsageIsHonest'
  BY DEF Typed, Calls, Contents, Underway, UsageIsHonest, Unread
<1>4. Written'
  BY DEF Typed, Calls, Contents, Underway, Written, Whole, WritePlaces
<1>5. Remembered'
  BY DEF Typed, Calls, Contents, Underway, Written, Whole, Remembered, Known, WritePlaces
<1> QED
  BY <1>1, <1>2, <1>3, <1>4, <1>5

(* The machine stops: what a write had put on the disk is all of it.       *)
LEMMA CrashKeeps ==
  ASSUME IInv, Crash
  PROVE  IInv'
<1> USE FilesAssumption DEF IInv, Unknown, NoUsage, NoGrant, Over, Call, disk, history, Root
<1> PICK kept \in {name, onDisk}, lost \in SUBSET Inode :
      /\ name' = kept /\ onDisk' = kept
      /\ inode' = [i \in Inode |-> IF i \in lost THEN [inode[i] EXCEPT !.len = inode[i].disk]
                                  ELSE inode[i]]
  BY Zenon DEF Crash
<1>k. kept \in Inode \cup {NoFile} /\ (kept # NoFile => Whole(kept))
  BY DEF Typed, Written
<1>l. ASSUME NEW i \in Inode
      PROVE  /\ inode'[i] \in Contents /\ inode'[i].by = inode[i].by
             /\ inode'[i].disk = inode[i].disk /\ inode'[i].len \in {inode[i].len, inode[i].disk}
  <2>1. inode[i] \in Contents
    BY DEF Typed
  <2>2. CASE i \in lost
    <3>1. inode'[i] = [inode[i] EXCEPT !.len = inode[i].disk]
      BY <2>2
    <3> QED
      BY <2>1, <3>1 DEF Contents
  <2>3. CASE i \notin lost
    <3>1. inode'[i] = inode[i]
      BY <2>3
    <3> QED
      BY <2>1, <3>1
  <2> QED
    BY <2>2, <2>3
<1>i. /\ inode' \in [Inode -> Contents]
      /\ \A i \in Inode : /\ inode'[i].by = inode[i].by /\ inode'[i].disk = inode[i].disk
                          /\ inode'[i].len \in {inode[i].len, inode[i].disk}
  BY <1>l
<1>1. Typed'
  <2>1. call' \in Calls
    BY DEF Calls, Results, Crash
  <2>2. expected' \in [Root -> Value \cup {Nothing}]
    BY DEF Crash
  <2>3. usage' \in [operations : Nat, read : Nat, write : Nat]
    BY DEF Crash
  <2> QED
    BY <1>i, <1>k, <2>1, <2>2, <2>3 DEF Typed, Crash
<1>2. Underway'
  BY DEF Underway, Crash, WritePlaces
<1>3. UsageIsHonest'
  BY DEF UsageIsHonest, Crash
<1>4. Written'
  BY <1>i, <1>k DEF Typed, Written, Whole, Crash
<1>5. Remembered'
  BY DEF Crash, Remembered, Known
<1> QED
  BY <1>1, <1>2, <1>3, <1>4, <1>5

-----------------------------------------------------------------------------
(* Every step of the broker, of other programs and of the machine keeps    *)
(* the invariant.                                                          *)
LEMMA NextInvariant == IInv /\ [Next]_vars => IInv'
<1> SUFFICES ASSUME IInv, [Next]_vars PROVE IInv'
  OBVIOUS
<1>1. CASE UNCHANGED vars
  BY <1>1 DEF vars, IInv, Typed, Underway, UsageIsHonest, Unread, Written, Whole, Remembered, Known
<1>2. ASSUME NEW rights \in SUBSET {"read", "write"}, retain_file(rights) \/ into_grant(rights)
      PROVE  IInv'
  BY <1>2, RetainKeeps, GrantKeeps
<1>3. ASSUME NEW result \in Results, Ends(result), call.at # "reading" PROVE IInv'
  BY <1>3, CallEnds DEF Ends
<1>4. ASSUME NEW r \in Root, NEW op \in {"read", "list", "search"}, BeginRead(r, op)
      PROVE  IInv'
  BY <1>4, <1>3, ChargeReadKeeps DEF Idle, BeginRead, Serves, Results
<1>5. ASSUME NEW r \in Root, NEW v \in Value, BeginWrite(r, v) PROVE IInv'
  BY <1>5, <1>3, ChargeWriteKeeps DEF Idle, BeginWrite, Results
<1>6. CASE ListEntries \/ SearchFile \/ OpenFile
  BY <1>3, <1>6, LookupKeeps, SearchKeeps, OpenKeeps DEF ListEntries, SearchFile, OpenFile, Results
<1>7. CASE ReserveRead \/ ReadByte \/ ReadEnds \/ ReadFails
  BY <1>3, <1>7, ReserveKeeps, ReadByteKeeps, ReadEndsKeeps, ReadFailsKeeps DEF ReserveRead, Results
<1>8. CASE CheckLength \/ SystemCallFails
  BY <1>3, <1>8 DEF CheckLength, SystemCallFails, Results
<1>9. CASE VerifyTarget \/ create_temporary \/ WriteByte \/ SyncAll
  <2>1. CASE VerifyTarget
    BY <1>3, <2>1, VerifyKeeps DEF VerifyTarget, Results
  <2> QED
    BY <1>9, <2>1, CreateKeeps, WriteByteKeeps, SyncKeeps
<1>10. CASE Rename \/ ReopenTarget \/ WriteFails \/ RemoveTemporary
  BY <1>3, <1>10, RenameKeeps, ReopenKeeps, WriteFailsKeeps, RemoveKeeps
     DEF ReopenTarget, WriteFails, Results
<1>11. CASE OtherOverwrites \/ OtherReplaces
  BY <1>11, OverwriteKeeps, ReplaceKeeps DEF OtherOverwrites, OtherReplaces
<1> QED
  BY <1>1, <1>2, <1>4, <1>5, <1>6, <1>7, <1>8, <1>9, <1>10, <1>11, ReleaseKeeps,
     OtherRemovesKeeps, DirectoryKeeps, CrashKeeps
     DEF Next, Broker

(* The invariant holds in every reachable state.                           *)
LEMMA Invariance == Spec => []IInv
BY InitInvariant, NextInvariant, PTL DEF Spec

(* usage.read_bytes is exactly what was read and what is reserved for the  *)
(* read in progress, and no total passes its limit: charge_operation,      *)
(* reserve_read, refund_read and charge_write over two roots.              *)
THEOREM Accounting == Spec => []UsageIsHonest
<1>1. IInv => UsageIsHonest
  BY DEF IInv
<1> QED
  BY <1>1, Invariance, PTL

(* No part of a value is ever found at the file's name, whatever fails and *)
(* whenever the machine stops: create_temporary, sync_all and rename.      *)
THEOREM Atomicity == Spec => []WritesAreAtomic
<1>1. IInv => WritesAreAtomic
  BY DEF IInv, Typed, Written, Whole, WritesAreAtomic
<1> QED
  BY <1>1, Invariance, PTL

(* A read that succeeds returns what was last written through its root, if *)
(* nothing else touched the file: read_opened_file after write_bytes.      *)
THEOREM ReadBack == Spec => ReadYourWrites
<1>1. IInv /\ [Next]_vars =>
        [call.at = "check" /\ call'.result = "Ok" /\ expected[call.root] # Nothing =>
           /\ call.got = Size(expected[call.root])
           /\ call.seen \subseteq {expected[call.root]}]_vars
  <2> SUFFICES ASSUME IInv, Next, call.at = "check", call'.result = "Ok",
                      expected[call.root] # Nothing
               PROVE  /\ call.got = Size(expected[call.root])
                      /\ call.seen \subseteq {expected[call.root]}
    OBVIOUS
  <2>1. call.root \in Root /\ call.seen \subseteq {expected[call.root]}
    BY DEF IInv, Typed, Calls, Remembered
  <2>2. inode[call.file].len = Size(expected[call.root])
    BY <2>1 DEF IInv, Underway, Remembered, Known, Root
  <2>3. inode[call.file].len = call.got
    <3>1. CASE UNCHANGED call
      BY <3>1 DEF IInv, Underway
    <3>2. CASE Broker
      BY <3>2 DEF Broker, ListEntries, SearchFile, OpenFile, ReserveRead, ReadByte, ReadEnds,
         ReadFails, CheckLength, VerifyTarget, create_temporary, WriteByte, SyncAll, Rename,
         ReopenTarget, WriteFails, RemoveTemporary, SystemCallFails, Ends, Over, Call
    <3>3. CASE Crash
      BY <3>3 DEF Crash, Over, Call
    <3>4. UNCHANGED call \/ Broker \/ Crash
      BY DEF Next, Idle, retain_file, into_grant, Release, BeginRead, BeginWrite,
         OtherOverwrites, OtherReplaces, OtherRemoves, DirectorySynced
    <3> QED
      BY <3>1, <3>2, <3>3, <3>4
  <2> QED
    BY <2>1, <2>2, <2>3
<1> QED
  BY <1>1, Invariance, PTL DEF Spec, ReadYourWrites
=============================================================================
