------------------------------ MODULE ReadDir -------------------------------
(***************************************************************************)
(* A readdir over several calls of getdents, of `xfs/xfs_dir2_sf.c' and,   *)
(* while the directory is a block, of `xfs/xfs_dir2_block.c'.  Between two *)
(* calls the directory of ShortDir changes as it likes.                    *)
(***************************************************************************)
EXTENDS ShortDir

CONSTANT Dot  \* .

ASSUMPTION DotAssumption == Dot \notin Name \cup {DotDot}

VARIABLE scan \* the cookie, and which names the reader has been told

vars == <<dir, scan>>

All == Name \cup {Dot, DotDot}

\* A name is owed from the start of a scan until it is told, if it is there
\* all the time.
Scan == [cookie : 0..BlockSize, owed : SUBSET All, done : SUBSET All, twice : BOOLEAN]

\* What getdents goes over, . and .. first, and the cookie behind it all.
Listing(d) == <<[name |-> Dot, offset |-> DotOffset], [name |-> DotDot, offset |-> DotDotOffset]>>
              \o d.entries
PastEnd == BlockSize

From(names) == [cookie |-> 0, owed |-> {Dot, DotDot} \cup names, done |-> {}, twice |-> FALSE]

\* The entries before entry m that are not behind the cookie.
Told(m) ==
    LET L == Listing(dir)
    IN {L[i].name : i \in {j \in 1..(m - 1) : L[j].offset >= scan.cookie}}

\* WRONG: the cookie is that of the last entry told.
GetDentsAgain(m) ==
    LET L == Listing(dir)
    IN /\ scan.cookie # PastEnd
       /\ m <= Len(L) => L[m].offset >= scan.cookie
       /\ scan' = [cookie |-> IF m > Len(L) THEN PastEnd
                              ELSE IF Told(m) = {} THEN scan.cookie ELSE L[m - 1].offset,
                   owed |-> scan.owed \ Told(m),
                   done |-> scan.done \cup (scan.owed \cap Told(m)),
                   twice |-> scan.twice \/ Told(m) \cap scan.done # {}]
       /\ UNCHANGED dir

\* WRONG: the end is not marked.
GetDentsEndless(m) ==
    LET L == Listing(dir)
    IN /\ scan.cookie # PastEnd
       /\ m <= Len(L) => L[m].offset >= scan.cookie
       /\ scan' = [scan EXCEPT !.cookie = IF m > Len(L) THEN @ ELSE L[m].offset]
       /\ UNCHANGED dir

\* Entries are skipped up to the cookie, those before entry m fit into the
\* caller's buffer, and the cookie becomes that of entry m.
GetDents(m) ==
    LET L == Listing(dir)
    IN /\ scan.cookie # PastEnd
       /\ m <= Len(L) => L[m].offset >= scan.cookie
       /\ scan' = [cookie |-> IF m > Len(L) THEN PastEnd ELSE L[m].offset,
                   owed |-> scan.owed \ Told(m),
                   done |-> scan.done \cup (scan.owed \cap Told(m)),
                   twice |-> scan.twice \/ Told(m) \cap scan.done # {}]
       /\ UNCHANGED dir

\* The reader begins again.
Rewind == /\ scan.cookie = PastEnd
          /\ scan' = From(Names(dir))
          /\ UNCHANGED dir

\* Somebody else changes the directory.
Change == \/ \E n \in Name, ino \in Ino : AddName(n, ino) /\ UNCHANGED scan
          \/ \E n \in Name : /\ RemoveName(n)
                             /\ scan' = [scan EXCEPT !.owed = @ \ {n}, !.done = @ \ {n}]
          \/ \E n \in Name \cup {DotDot}, ino \in Ino : Replace(n, ino) /\ UNCHANGED scan

\* A buffer with room for an entry takes none only if there are no more.
Read == \E m \in 1..(Len(dir.entries) + 3) :
            /\ GetDents(m)
            /\ Told(m) = {} => scan'.cookie = PastEnd

\* One that has not leaves the cookie at the next entry.
ReadNone == \E m \in 1..(Len(dir.entries) + 2) : GetDents(m) /\ Told(m) = {}

ScanInit == Init /\ scan = From({})
ScanNext == Read \/ ReadNone \/ Rewind \/ Change

\* The reader goes on while it has not been told of the end.
ScanSpec == ScanInit /\ [][ScanNext]_vars /\ WF_vars(Read)
-----------------------------------------------------------------------------
\* A name that is there from the start of a scan to its end is told once,
\* whatever is added, removed, replaced and converted between the calls.
TellsOnce == /\ ~scan.twice
             /\ scan.cookie = PastEnd => scan.owed = {}

\* A scan comes to its end, though names are added behind the cookie and
\* taken away before it all the time.
ScanEnds == scan.cookie # PastEnd ~> scan.cookie = PastEnd
=============================================================================
