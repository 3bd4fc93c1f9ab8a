---------------------------- MODULE ExtentFields ----------------------------
(***************************************************************************)
(* What the extent records of the block map are to the code that uses      *)
(* them: four fields each, set together or one by one.  BmbtRecord         *)
(* implements this in two words.                                           *)
(***************************************************************************)
CONSTANT Field  \* the records [off, block, count, unwritten]

VARIABLES host,  \* a record of the list in memory
          disk,  \* a record of a block of the tree
          call   \* the call made last: [op, arg]

Init == /\ host \in Field
        /\ disk \in Field
        /\ call = [op |-> "none"]

\* A record gets all its fields, or one field and no other changes.
SetAll == /\ call'.op = "set_all"
          /\ host' = call'.arg
          /\ UNCHANGED disk
SetOne == /\ call'.op \in {"off", "block", "count", "unwritten"}
          /\ host' = [host EXCEPT ![call'.op] = call'.arg]
          /\ UNCHANGED disk
DiskSetAll == /\ call'.op = "disk_set_all"
              /\ disk' = call'.arg
              /\ UNCHANGED host

\* From disk to memory and back; a record is made from its key alone.
Load == call'.op = "load" /\ host' = disk /\ UNCHANGED disk
Flush == call'.op = "flush" /\ disk' = host /\ UNCHANGED host
Rekey == /\ call'.op = "rekey"
         /\ disk' = [off |-> disk.off, block |-> 0, count |-> 0, unwritten |-> FALSE]
         /\ UNCHANGED host

Next == SetAll \/ SetOne \/ DiskSetAll \/ Load \/ Flush \/ Rekey

Spec == Init /\ [][Next]_<<host, disk, call>>
=============================================================================
