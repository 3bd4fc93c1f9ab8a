------------------------------- MODULE Driver -------------------------------
(***************************************************************************)
(* driver/Driver.cpp: the driver comes and goes with its device and link,  *)
(* and its dispatch routines complete the requests they are given in the   *)
(* thread that made them.  A read runs read_file_from_disk; several        *)
(* threads that share the one handle may be in it at once.                 *)
(*                                                                         *)
(* The I/O manager is modelled from how the driver relies on it: only a    *)
(* loaded driver with a link is opened, once at a time because the device  *)
(* is exclusive; requests come through the handle, which closes after they *)
(* are complete; the driver is unloaded when the handle is closed.  The    *)
(* driver never calls init: the image is taken to be open all the time.   *)
(***************************************************************************)
EXTENDS ReadFile

CONSTANT Length  \* the lengths of read requests, in units

\* What a request is answered with comes out of the memory that its call was given.
\* The driver takes no lock and buff2 has one size: an instance sets Overlap and has
\* one Room, at least any Length; what is proved of the driver needs neither.
ASSUME LengthAssumption == Length \subseteq 0 .. Arena

VARIABLES
  loaded,  \* DriverEntry has succeeded and HelloDDKUnload has not run
  device,  \* \Device\XFSDevice exists
  link,    \* \??\XFSD exists
  handle,  \* the device is open
  irp,     \* the request of each thread
  alone    \* whether its read overlapped no other (history)

dvars == <<loaded, device, link, handle>>
all   == <<vars, dvars, irp, alone>>

NoIrp == [stage |-> "free", kind |-> "read", len |-> 0, info |-> 0, buf |-> << >>]
Pending(r) == irp[r].stage \in {"init", "call", "work"}

DriverInit ==
  /\ Init
  /\ loaded = FALSE /\ device = FALSE /\ link = FALSE /\ handle = FALSE
  /\ irp = [r \in Caller |-> NoIrp]
  /\ alone = [r \in Caller |-> FALSE]

(***************************************************************************)
(* DriverEntry with CreateDevice, and HelloDDKUnload.                      *)
(***************************************************************************)
\* WRONG: a link that cannot be made leaves the device behind.
CreateDeviceKept ==
  \/ UNCHANGED <<loaded, device, link>>
  \/ device' = TRUE /\ UNCHANGED <<loaded, link>>
  \/ device' = TRUE /\ link' = TRUE /\ loaded' = TRUE

\* IoCreateDevice fails; it succeeds and IoCreateSymbolicLink fails, after
\* which IoDeleteDevice undoes it; both succeed.
CreateDevice ==
  \/ UNCHANGED <<loaded, device, link>>
  \/ device' = FALSE /\ UNCHANGED <<loaded, link>>
  \/ device' = TRUE /\ link' = TRUE /\ loaded' = TRUE

DriverEntry == /\ ~ loaded
               /\ CreateDevice
               /\ UNCHANGED <<vars, handle, irp, alone>>

\* The static variables go with the driver, and come back as they were.
HelloDDKUnload ==
  /\ loaded /\ ~ handle
  /\ loaded' = FALSE /\ device' = FALSE /\ link' = FALSE /\ UNCHANGED handle
  /\ rootino' = 0 /\ pos' = 0 /\ block_bufp' = 0
  /\ block_buf' = [j \in Buffer |-> Zero]
  /\ pc' = [r \in Caller |-> "start"]
  /\ irp' = [r \in Caller |-> NoIrp]
  /\ alone' = [r \in Caller |-> FALSE]
  /\ UNCHANGED <<disk, frame, mem, rc, tainted>>

(***************************************************************************)
(* Requests.  HelloDDKDispatchRoutine and WriteRoutine succeed and move    *)
(* nothing.                                                                *)
(***************************************************************************)
Create == /\ loaded /\ ~ handle
          /\ handle' = TRUE
          /\ UNCHANGED <<vars, loaded, device, link, irp, alone>>

Close == /\ handle /\ \A r \in Caller : ~ Pending(r)
         /\ handle' = FALSE
         /\ UNCHANGED <<vars, loaded, device, link, irp, alone>>

WriteRoutine(r) ==
  /\ handle /\ ~ Pending(r)
  /\ irp' = [irp EXCEPT ![r] = [NoIrp EXCEPT !.stage = "done", !.kind = "write"]]
  /\ UNCHANGED <<vars, dvars, alone>>

\* ReadRoutine, in four parts: its arguments, the two calls, the completion.
Accept(r) ==
  /\ handle /\ ~ Pending(r)
  /\ \E n \in Length : irp' = [irp EXCEPT ![r] = [NoIrp EXCEPT !.stage = "init", !.len = n]]
  /\ UNCHANGED <<vars, dvars, alone>>

Prepare(r) ==
  /\ irp[r].stage = "init"
  /\ InitReadFile(r)
  /\ irp' = [irp EXCEPT ![r].stage = "call"]
  /\ UNCHANGED <<dvars, alone>>

\* addr is uninitialized: the path is any.
Start(r) ==
  /\ irp[r].stage = "call" /\ pc[r] = "idle"
  /\ Call(r)
  /\ irp' = [irp EXCEPT ![r].stage = "work"]
  /\ alone' = [q \in Caller |-> IF q = r THEN \A p \in Caller : ~ Under(p)
                                ELSE alone[q] /\ ~ Under(q)]
  /\ UNCHANGED dvars

Step(r) == Work(r) /\ UNCHANGED <<dvars, irp, alone>>

\* The result of the read is not looked at.
Complete(r) ==
  /\ irp[r].stage = "work" /\ pc[r] = "done"
  /\ irp' = [irp EXCEPT ![r].stage = "done", ![r].info = irp[r].len,
                        ![r].buf = [j \in 0 .. irp[r].len - 1 |-> mem[r][j]]]
  /\ UNCHANGED <<vars, dvars, alone>>

ReadRoutine(r) == Prepare(r) \/ Start(r) \/ Step(r) \/ Complete(r)

DriverNext ==
  \/ DriverEntry \/ HelloDDKUnload \/ Create \/ Close
  \/ \E r \in Caller : WriteRoutine(r) \/ Accept(r) \/ ReadRoutine(r)

DriverSpec == DriverInit /\ [][DriverNext]_all

\* The thread of a request goes on running.
FairDriver == DriverSpec /\ \A r \in Caller : WF_all(ReadRoutine(r))

-----------------------------------------------------------------------------
(***************************************************************************)
(* Properties.                                                             *)
(***************************************************************************)
\* A request that ReadRoutine is given is completed, whatever the requests of
\* other threads do to the block it parses.
RequestsComplete == \A r \in Caller : Pending(r) ~> ~ Pending(r)

ReadDone(r) == irp[r].stage = "done" /\ irp[r].kind = "read" /\ Supported(disk)

\* A read that ran alone is answered rightly and hands up the front of the
\* file, whatever overlapped reads left in the static variables before it.
AloneReadsRight ==
  \A r \in Caller : ReadDone(r) /\ alone[r] =>
    /\ Answer(disk, frame[r].path, frame[r].n, rc[r], mem[r])
    /\ rc[r] = 0 =>
         LET i == InodeAt(disk, frame[r].next_ino) IN
         \A j \in DOMAIN irp[r].buf : j < i.size => Contains(disk, i, j, irp[r].buf[j])

\* A driver that is not loaded has neither device nor link, so that it can be
\* loaded again; one that is has both, and no read is under way without them.
NothingLeft ==
  /\ device = loaded /\ link = loaded
  /\ ~ loaded => ~ handle /\ \A r \in Caller : ~ Under(r)
=============================================================================
