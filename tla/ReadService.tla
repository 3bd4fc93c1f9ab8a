---------------------------- MODULE ReadService ----------------------------
(***************************************************************************)
(* What read_file_from_disk promises its callers, without the steps: a     *)
(* call asks for a path with room for n units, and is answered once, in    *)
(* one step, with what the image says.  Callers do not see each other.     *)
(***************************************************************************)
EXTENDS Integers, Sequences

CONSTANTS
  Caller, Path, Room, Arena, Blank, Running, Images,  \* as in ReadFile
  Promised(_),         \* the images the promise is about
  Right(_, _, _, _, _) \* whether code c and memory m answer path p and room n

VARIABLES
  disk,     \* the image
  state,    \* "free", "asked" or "answered", for each caller
  request,  \* the path and the room of its last call
  code,     \* what the call returned, Running unless answered
  out       \* the memory the call left, blank unless answered

vars == <<disk, state, request, code, out>>

Nothing == [j \in 0 .. Arena - 1 |-> Blank]
NoCall  == [path |-> [abs |-> TRUE, comps |-> << >>], n |-> 0]

Init ==
  /\ disk \in Images
  /\ state = [r \in Caller |-> "free"]
  /\ request = [r \in Caller |-> NoCall]
  /\ code = [r \in Caller |-> Running]
  /\ out = [r \in Caller |-> Nothing]

Silent(r) ==
  /\ code' = [code EXCEPT ![r] = Running]
  /\ out' = [out EXCEPT ![r] = Nothing]
  /\ UNCHANGED disk

Ask(r) ==
  /\ state[r] # "asked"
  /\ state' = [state EXCEPT ![r] = "asked"]
  /\ \E p \in Path, n \in Room : request' = [request EXCEPT ![r] = [path |-> p, n |-> n]]
  /\ Silent(r)

Reply(r) ==
  /\ state[r] = "asked"
  /\ state' = [state EXCEPT ![r] = "answered"]
  /\ code' = [code EXCEPT ![r] = code'[r]]
  /\ out' = [out EXCEPT ![r] = out'[r]]
  /\ Promised(disk) =>
       Right(disk, request[r].path, request[r].n, code'[r], out'[r])
  /\ UNCHANGED <<disk, request>>

\* The caller is done with the answer.
Forget(r) ==
  /\ state[r] = "answered"
  /\ state' = [state EXCEPT ![r] = "free"]
  /\ UNCHANGED request
  /\ Silent(r)

Next == \E r \in Caller : Ask(r) \/ Reply(r) \/ Forget(r)
Spec == Init /\ [][Next]_vars

=============================================================================
