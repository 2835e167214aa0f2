----------------------------- MODULE FileBroker -----------------------------
(***************************************************************************)
(* The file-system broker (crates/allen-sandbox-fs/src/broker.rs): reads   *)
(* and atomic writes of one file through two capabilities that share one   *)
(* ExecutionAccounting.  The root "dir" is a directory capability that     *)
(* looks the name up on every call; the root "file" is a grant of the file *)
(* itself, which keeps an open descriptor and the identity it had.         *)
(*                                                                         *)
(* Calls are made one at a time by the execution thread.  Other programs   *)
(* change the file between any two system calls, system calls fail, and    *)
(* the machine may stop at any moment.  A file's content is the program    *)
(* that wrote it and how much of it is there; bytes are counted, not kept. *)
(***************************************************************************)
EXTENDS Integers

CONSTANTS
  Inode,        \* the files of the directory: what a descriptor refers to
  NoFile,       \* no inode
  Value,        \* what the program writes; Foreign and Nothing are not among them
  Foreign,      \* the content of a file another program wrote
  Nothing,      \* no value
  Size(_),      \* the length of a value
  MaxForeign,   \* bound: the length another program gives the file
  Limits,       \* root -> [operations, file, read, write], the WorkspaceLimits
  Starts        \* bound: how often the machine stops and starts again

Root == {"dir", "file"}

ASSUME FilesAssumption ==
  /\ NoFile \notin Inode
  /\ {Foreign, Nothing} \cap Value = {}
  /\ Foreign # Nothing
  /\ \A v \in Value : Size(v) \in Nat
  /\ MaxForeign \in Nat
  /\ Starts \in Nat
  /\ Limits \in [Root -> [operations : Nat, file : Nat, read : Nat, write : Nat]]
  /\ \A f \in {"operations", "file", "read", "write"} : Limits["file"][f] <= Limits["dir"][f]

VARIABLES
  inode,      \* the content of each inode: whose it is, its length, the length on disk
  name,       \* the inode the file's name refers to
  onDisk,     \* the inode the name refers to on disk; rename is not synchronised
  temp,       \* the inode of this call's temporary file
  usage,      \* ExecutionAccounting.usage
  held,       \* FileRootState: the retained descriptor and the identity
  call,       \* the call in progress
  moved,      \* history: bytes read since the accounting began
  expected,   \* history: what a read through each root must return, if known
  starts      \* how often the machine has stopped and started

vars == <<inode, name, onDisk, temp, usage, held, call, moved, expected, starts>>

NoUsage == [operations |-> 0, read |-> 0, write |-> 0]

NoGrant == [state |-> "none", file |-> NoFile, rights |-> {}]

Call(at, op, root, value, result) ==
  [at |-> at, op |-> op, root |-> root, value |-> value, file |-> NoFile,
   length |-> 0, got |-> 0, seen |-> {}, result |-> result]

Over(result) == Call("over", "none", "dir", Nothing, result)

Unknown == [r \in Root |-> Nothing]

Init ==
  /\ inode \in [Inode -> {[by |-> Foreign, len |-> MaxForeign, disk |-> MaxForeign]}]
  /\ name \in Inode \cup {NoFile}
  /\ onDisk = name
  /\ temp = NoFile
  /\ usage = NoUsage
  /\ held = NoGrant
  /\ call = Over("none")
  /\ moved = 0
  /\ expected = Unknown
  /\ starts = 0

disk == <<inode, name, onDisk>>
history == <<moved, expected, starts>>

(* An inode nothing refers to, which the file system may give a new file.  *)
Free == Inode \ {name, onDisk, temp, held.file, call.file}

-----------------------------------------------------------------------------
(* The accounting all roots share.  Each root compares the totals with its *)
(* own limits, and a charge that would pass one changes nothing.           *)

CanOperate(r) == usage.operations + 1 <= Limits[r].operations
CanReserve(r, n) == usage.read + n <= Limits[r].read
CanWrite(r, n) == CanOperate(r) /\ usage.write + n <= Limits[r].write

charge_operation == [usage EXCEPT !.operations = @ + 1]
reserve_read(n) == [usage EXCEPT !.read = @ + n]
refund_read(n) == [usage EXCEPT !.read = IF n <= @ THEN @ - n ELSE 0]
charge_write(n) == [charge_operation EXCEPT !.write = @ + n]

-----------------------------------------------------------------------------
(* The grant of the file: its target is held open from the request on, and *)
(* the decision stands only if the name still refers to it.                *)

Idle == call.at = "over"
Usable(r) == r = "dir" \/ held.state = "granted"
Rights(r) == IF r = "dir" THEN {"read", "write"} ELSE held.rights

retain_file(rights) ==
  /\ Idle
  /\ held.state = "none"
  /\ name # NoFile \/ "write" \in rights
  /\ held' = [state |-> "asked", file |-> name, rights |-> rights]
  /\ UNCHANGED <<disk, temp, usage, call, history>>

into_grant(rights) ==
  /\ Idle
  /\ held.state = "asked"
  /\ rights \subseteq held.rights
  /\ IF name = held.file
       THEN /\ held' = [state |-> "granted", file |-> held.file, rights |-> rights]
            /\ expected' = [expected EXCEPT !["file"] = expected["dir"]]
       ELSE held' = NoGrant /\ UNCHANGED expected
  /\ UNCHANGED <<disk, temp, usage, call, moved, starts>>

(* A denied request, and a grant that is revoked, let go of the target.    *)
Release ==
  /\ Idle
  /\ held.state # "none"
  /\ held' = NoGrant
  /\ UNCHANGED <<disk, temp, usage, call, history>>

-----------------------------------------------------------------------------
(* Calls.                                                                  *)

Ends(result) == call' = Over(result) /\ UNCHANGED <<disk, temp, usage, held, history>>

Begins(r, op, v, at) == Call(at, op, r, v, "none")

GoesTo(place, c) == [c EXCEPT !.at = place]

(* read_bytes, list and search of a root, up to the first charge.          *)
FirstStep == [read |-> "open", list |-> "list", search |-> "list"]

Serves(r, op) == op = "read" \/ r = "dir"

BeginRead(r, op) ==
  /\ Idle
  /\ Usable(r)
  /\ \/ "read" \notin Rights(r) /\ Ends("PermissionDenied")
     \/ "read" \in Rights(r) /\ ~Serves(r, op) /\ Ends("NotDirectory")
     \/ "read" \in Rights(r) /\ Serves(r, op) /\ ~CanOperate(r) /\ Ends("OperationLimit")
     \/ /\ "read" \in Rights(r)
        /\ Serves(r, op)
        /\ CanOperate(r)
        /\ usage' = charge_operation
        /\ call' = Begins(r, op, Nothing, FirstStep[op])
        /\ UNCHANGED <<disk, temp, held, history>>

(* The entries of the directory are read; a search goes on with the file.  *)
ListEntries ==
  /\ call.at = "list"
  /\ IF call.op = "search" /\ name # NoFile
       THEN /\ call' = GoesTo("lookup", call)
            /\ UNCHANGED <<disk, temp, usage, held, history>>
       ELSE Ends("Ok")

(* The listed name is looked up, which it may no longer be there for.      *)
SearchFile ==
  /\ call.at = "lookup"
  /\ \/ name = NoFile /\ Ends("NotFound")
     \/ name # NoFile /\ ~CanOperate(call.root) /\ Ends("OperationLimit")
     \/ /\ name # NoFile
        /\ CanOperate(call.root)
        /\ usage' = charge_operation
        /\ call' = GoesTo("open", call)
        /\ UNCHANGED <<disk, temp, held, history>>

Target == IF call.root = "dir" THEN name ELSE held.file

OpenFile ==
  /\ call.at = "open"
  /\ \/ Target = NoFile /\ Ends("NotFound")
     \/ /\ Target # NoFile
        /\ call' = GoesTo("stat", [call EXCEPT !.file = Target])
        /\ UNCHANGED <<disk, temp, usage, held, history>>

ReserveRead ==
  LET length == inode[call.file].len IN
  /\ call.at = "stat"
  /\ \/ length > Limits[call.root].file /\ Ends("FileTooLarge")
     \/ /\ length <= Limits[call.root].file
        /\ ~CanReserve(call.root, length)
        /\ Ends("ReadLimit")
     \/ /\ length <= Limits[call.root].file
        /\ CanReserve(call.root, length)
        /\ usage' = reserve_read(length)
        /\ call' = GoesTo("reading", [call EXCEPT !.length = length])
        /\ UNCHANGED <<disk, temp, held, history>>

(* One more byte arrives, from the file as it is now.                      *)
ReadByte ==
  /\ call.at = "reading"
  /\ call.got < call.length
  /\ call.got < inode[call.file].len
  /\ call' = LET counted == [call EXCEPT !.got = @ + 1]
             IN  [counted EXCEPT !.seen = @ \cup {inode[call.file].by}]
  /\ moved' = moved + 1
  /\ UNCHANGED <<disk, temp, usage, held, expected, starts>>

Unread == call.length - call.got

ReadEnds ==
  /\ call.at = "reading"
  /\ call.got = call.length \/ inode[call.file].len <= call.got
  /\ usage' = refund_read(Unread)
  /\ call' = GoesTo("check", call)
  /\ UNCHANGED <<disk, temp, held, history>>

(* Mutant: a read that fails keeps its reservation.                        *)
ReadFails_KeepsReservation ==
  /\ call.at = "reading"
  /\ call' = Over("Io")
  /\ UNCHANGED <<disk, temp, usage, held, history>>

ReadFails ==
  /\ call.at = "reading"
  /\ usage' = refund_read(Unread)
  /\ call' = Over("Io")
  /\ UNCHANGED <<disk, temp, held, history>>

CheckLength ==
  /\ call.at = "check"
  /\ Ends(IF inode[call.file].len = call.got THEN "Ok" ELSE "Io")

-----------------------------------------------------------------------------
(* write_bytes: everything is charged, then the value is written to a      *)
(* temporary file that takes the place of the target in one rename.        *)

BeginWrite(r, v) ==
  /\ Idle
  /\ Usable(r)
  /\ \/ /\ "write" \notin Rights(r)
        /\ Ends("PermissionDenied")
     \/ /\ "write" \in Rights(r)
        /\ Size(v) > Limits[r].file
        /\ Ends("FileTooLarge")
     \/ /\ "write" \in Rights(r)
        /\ Size(v) <= Limits[r].file
        /\ ~CanWrite(r, Size(v))
        /\ Ends(IF CanOperate(r) THEN "WriteLimit" ELSE "OperationLimit")
     \/ /\ "write" \in Rights(r)
        /\ Size(v) <= Limits[r].file
        /\ CanWrite(r, Size(v))
        /\ usage' = charge_write(Size(v))
        /\ call' = Begins(r, "write", v, "verify")
        /\ UNCHANGED <<disk, temp, held, history>>

(* A grant writes only while the name refers to the file it holds, or to   *)
(* none if it holds none; a directory takes whatever file is there.        *)
VerifyTarget ==
  /\ call.at = "verify"
  /\ IF call.root = "dir" \/ name = held.file
       THEN /\ call' = GoesTo("create", call)
            /\ UNCHANGED <<disk, temp, usage, held, history>>
       ELSE Ends(IF name = NoFile THEN "NotFound" ELSE "TargetChanged")

create_temporary ==
  /\ call.at = "create"
  /\ \E i \in Free :
       /\ temp' = i
       /\ inode' = [inode EXCEPT ![i] = [by |-> call.value, len |-> 0, disk |-> 0]]
  /\ call' = GoesTo("fill", call)
  /\ UNCHANGED <<name, onDisk, usage, held, history>>

WriteByte ==
  /\ call.at = "fill"
  /\ inode[temp].len < Size(call.value)
  /\ inode' = [inode EXCEPT ![temp] = [inode[temp] EXCEPT !.len = @ + 1]]
  /\ UNCHANGED <<name, onDisk, temp, usage, held, call, history>>

(* Mutant: the temporary file is not synchronised.                         *)
SyncAll_Skipped ==
  /\ call.at = "fill"
  /\ inode[temp].len = Size(call.value)
  /\ call' = GoesTo("rename", call)
  /\ UNCHANGED <<disk, temp, usage, held, history>>

SyncAll ==
  /\ call.at = "fill"
  /\ inode[temp].len = Size(call.value)
  /\ inode' = [inode EXCEPT ![temp] = [inode[temp] EXCEPT !.disk = inode[temp].len]]
  /\ call' = GoesTo("rename", call)
  /\ UNCHANGED <<name, onDisk, temp, usage, held, history>>

Rename ==
  /\ call.at = "rename"
  /\ name' = temp
  /\ temp' = NoFile
  /\ expected' = [r \in Root |-> IF r = "dir" THEN call.value ELSE Nothing]
  /\ call' = IF call.root = "dir"
               THEN Over("Ok")
               ELSE GoesTo("reopen", call)
  /\ UNCHANGED <<inode, onDisk, usage, held, moved, starts>>

(* Mutant: the grant keeps the descriptor of the file it replaced.         *)
ReopenTarget_KeepsOld ==
  /\ call.at = "reopen"
  /\ expected' = [expected EXCEPT !["file"] = expected["dir"]]
  /\ call' = Over("Ok")
  /\ UNCHANGED <<disk, temp, usage, held, moved, starts>>

(* The grant takes the new file, whatever it finds at the name by then.    *)
ReopenTarget ==
  /\ call.at = "reopen"
  /\ \/ name = NoFile /\ Ends("NotFound")
     \/ /\ name # NoFile
        /\ held' = [held EXCEPT !.file = name]
        /\ expected' = [expected EXCEPT !["file"] = expected["dir"]]
        /\ call' = Over("Ok")
        /\ UNCHANGED <<disk, temp, usage, moved, starts>>

(* A system call of a write fails before the rename took place.            *)
WriteFails ==
  /\ call.at \in {"fill", "rename"}
  /\ call' = GoesTo("remove", call)
  /\ UNCHANGED <<disk, temp, usage, held, history>>

(* The temporary file is removed; a failure to do so is not reported, and  *)
(* the file keeps a name no later call uses (TEMP_SEQUENCE).               *)
RemoveTemporary ==
  /\ call.at = "remove"
  /\ temp' = NoFile
  /\ call' = Over("Io")
  /\ UNCHANGED <<disk, usage, held, history>>

(* Any other system call fails, and the call with it.                      *)
SystemCallFails ==
  /\ call.at \in {"list", "lookup", "open", "stat", "check", "verify", "create", "reopen"}
  /\ Ends("Io")

Broker ==
  \/ ListEntries \/ SearchFile \/ OpenFile \/ ReserveRead \/ ReadByte \/ ReadEnds
  \/ ReadFails \/ CheckLength \/ VerifyTarget \/ create_temporary \/ WriteByte
  \/ SyncAll \/ Rename \/ ReopenTarget \/ WriteFails \/ RemoveTemporary \/ SystemCallFails

-----------------------------------------------------------------------------
(* Other programs, and the machine.                                        *)

ForeignFile(n) == [by |-> Foreign, len |-> n, disk |-> n]

OtherOverwrites ==
  /\ name # NoFile
  /\ \E n \in 0..MaxForeign : inode' = [inode EXCEPT ![name] = ForeignFile(n)]
  /\ expected' = Unknown
  /\ UNCHANGED <<name, onDisk, temp, usage, held, call, moved, starts>>

OtherReplaces ==
  /\ \E i \in Free, n \in 0..MaxForeign :
       /\ inode' = [inode EXCEPT ![i] = ForeignFile(n)]
       /\ name' = i
       /\ onDisk' = i
  /\ expected' = Unknown
  /\ UNCHANGED <<temp, usage, held, call, moved, starts>>

OtherRemoves ==
  /\ name # NoFile
  /\ name' = NoFile
  /\ onDisk' = NoFile
  /\ expected' = Unknown
  /\ UNCHANGED <<inode, temp, usage, held, call, moved, starts>>

(* The directory reaches the disk some time after a rename.                *)
DirectorySynced ==
  /\ onDisk # name
  /\ onDisk' = name
  /\ UNCHANGED <<inode, name, temp, usage, held, call, history>>

(* The machine stops and starts again: what was not on the disk may be     *)
(* lost, and a new execution finds the directory as it is then.            *)
Crash ==
  /\ starts < Starts
  /\ starts' = starts + 1
  /\ \E kept \in {name, onDisk}, lost \in SUBSET Inode :
       /\ name' = kept
       /\ onDisk' = kept
       /\ inode' = [i \in Inode |-> IF i \in lost THEN [inode[i] EXCEPT !.len = inode[i].disk] ELSE inode[i]]
  /\ temp' = NoFile
  /\ usage' = NoUsage
  /\ held' = NoGrant
  /\ call' = Over("none")
  /\ moved' = 0
  /\ expected' = Unknown

Next ==
  \/ \E rights \in SUBSET {"read", "write"} \ {{}} : retain_file(rights)
  \/ \E rights \in SUBSET {"read", "write"} : into_grant(rights)
  \/ Release
  \/ \E r \in Root, op \in {"read", "list", "search"} : BeginRead(r, op)
  \/ \E r \in Root, v \in Value : BeginWrite(r, v)
  \/ Broker
  \/ OtherOverwrites \/ OtherReplaces \/ OtherRemoves
  \/ DirectorySynced
  \/ Crash

Spec == Init /\ [][Next]_vars

-----------------------------------------------------------------------------
(* usage.read_bytes is the number of bytes read from opened files, plus    *)
(* what the read in progress has reserved and not read: a read that fails, *)
(* or finds the file shorter than it was, gives back what it did not use   *)
(* and nothing else.  No total passes the limit of the execution, although *)
(* each root compares it with its own (ExecutionAccounting).               *)
UsageIsHonest ==
  /\ usage.read = moved + (IF call.at = "reading" THEN Unread ELSE 0)
  /\ usage.operations <= Limits["dir"].operations
  /\ usage.read <= Limits["dir"].read
  /\ usage.write <= Limits["dir"].write

(* The file's name never refers to a part of a value the broker writes:    *)
(* not while the write is in progress, not when a system call of it fails, *)
(* and not after the machine stopped in the middle of it.                  *)
WritesAreAtomic ==
  name # NoFile /\ inode[name].by \in Value => inode[name].len = Size(inode[name].by)

(* A successful read through a root returns what was last written through  *)
(* it if nothing else has touched the file: a grant follows its own writes *)
(* to the new file, and a directory those of the grant too.                *)
ReadYourWrites ==
  [][call.at = "check" /\ call'.result = "Ok" /\ expected[call.root] # Nothing =>
       /\ call.got = Size(expected[call.root])
       /\ call.seen \subseteq {expected[call.root]}]_vars
=============================================================================
