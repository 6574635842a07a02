---------------------------- MODULE TraceCatalog ----------------------------
(***************************************************************************)
(* The trace files of traceDB and the MySQL table that catalogues them,    *)
(* over several lives of the process: storage/storage.h derives the number *)
(* of the file to write from the rows of the table, storage/trace_file.h   *)
(* opens it with "wb", and dumpTraceAndIndex adds a row before it closes   *)
(* the file. A life ends with the capture or in a crash, at any step.      *)
(*                                                                         *)
(* The files and the table outlive the process; what the C library has     *)
(* buffered does not. The indexes are left to IndexPipeline. A flow is the *)
(* number under which some life stored it.                                 *)
(***************************************************************************)
EXTENDS Naturals, Sequences

CONSTANTS
    NumFlows,         \* flows stored over all lives: bounds every counter
    MaxFlowsPerFile,  \* TRACE_FILE_MAX_FLOWS
    MaxLives,         \* starts of the process: a bound
    DbMayFail         \* whether MySQL may refuse a query

ASSUME CatalogAssumption ==
    /\ NumFlows \in Nat
    /\ MaxFlowsPerFile \in Nat \ {0}
    /\ MaxLives \in Nat
    /\ DbMayFail \in BOOLEAN

VARIABLES
    pc,          \* where the receiver is; "down" if there is no process
    life,        \* which start of the process this is
    fileID, totalFlows,   \* FileManager and TraceFile
    buffer,      \* flows in the stdio buffer of file_handle_
    disk,        \* flows on disk, with the file that holds them
    rows,        \* the MySQL table: the file ids of its rows, in order
    position,    \* position[n]: the file and flow id of flow n, and the life that stored it
    dbError      \* a query has failed; no code looks at this

fileVars == <<fileID, totalFlows, buffer, disk>>
historyVars == <<position, dbError>>
vars == <<pc, life, fileVars, rows, historyVars>>

Init ==
    /\ pc = "down" /\ life = 0
    /\ fileID = 0 /\ totalFlows = 0 /\ buffer = {} /\ disk = {}
    /\ rows = <<>>
    /\ position = <<>> /\ dbError = FALSE

-----------------------------------------------------------------------------

\* Mutant: the file is opened with "ab".
OpenedToAppend(f, d) == d

\* fopen(..., "wb") of file f truncates it.
Opened(f, d) == {x \in d : x.file # f}

\* The buffered flows up to n are in the file.
Flushed(n) == disk \cup {[file |-> fileID, flow |-> m] : m \in {k \in buffer : k <= n}}

\* Mutant: the file is dropped without fclose.
NotClosed == disk

\* fclose flushes what is buffered.
Closed == disk \cup {[file |-> fileID, flow |-> m] : m \in buffer}

\* Mutant: TraceFile's constructor does not increase the id.
SameFile(total) == total

\* TraceFile's constructor increases the id after resetFileID(getTotalRows()).
FirstFile(total) == total + 1

\* getTotalRows returns 0 when the query fails, and nobody asks whether it did.
getTotalRows == {Len(rows)} \cup (IF DbMayFail THEN {0} ELSE {})

\* Storage's constructor.
Start ==
    /\ pc = "down"
    /\ life < MaxLives
    /\ life' = life + 1
    /\ \E total \in getTotalRows :
          /\ fileID' = FirstFile(total)
          /\ dbError' = (dbError \/ total # Len(rows))
    /\ totalFlows' = 0
    /\ disk' = Opened(fileID', disk)
    /\ pc' = "write"
    /\ UNCHANGED <<buffer, rows, position>>

\* A flow is written to the buffer of the file; a full file is dumped next.
storeFlowRecords ==
    LET n == Len(position) + 1 IN
    /\ pc = "write"
    /\ n <= NumFlows
    /\ position' = Append(position, [file |-> fileID, id |-> totalFlows + 1, life |-> life])
    /\ buffer' = buffer \cup {n}
    /\ totalFlows' = totalFlows + 1
    /\ pc' = IF totalFlows' >= MaxFlowsPerFile THEN "insertRow" ELSE "write"
    /\ UNCHANGED <<life, fileID, disk, rows, dbError>>

\* The C library writes some of its buffer to the file.
Flush ==
    \E n \in buffer :
        /\ disk' = Flushed(n)
        /\ buffer' = {k \in buffer : k > n}
        /\ UNCHANGED <<pc, life, fileID, totalFlows, rows, historyVars>>

\* dumpTraceAndIndex adds the file's row; its result is ignored.
insertRow ==
    /\ pc = "insertRow"
    /\ \/ rows' = Append(rows, fileID) /\ UNCHANGED dbError
       \/ DbMayFail /\ dbError' = TRUE /\ UNCHANGED rows
    /\ pc' = "newFile"
    /\ UNCHANGED <<life, fileVars, position>>

\* Mutant: newFile forgets FileManager::increaseFileID().
SameFileID == fileID

increaseFileID == fileID + 1

\* TraceFile::newFile
newFile ==
    /\ pc = "newFile"
    /\ fileID' = increaseFileID
    /\ totalFlows' = 0
    /\ disk' = Opened(fileID', Closed)
    /\ buffer' = {}
    /\ pc' = "write"
    /\ UNCHANGED <<life, rows, historyVars>>

\* The capture ends: ~TraceFile closes the file, which gets no row.
Exit ==
    /\ pc = "write"
    /\ disk' = Closed
    /\ buffer' = {}
    /\ pc' = "down"
    /\ UNCHANGED <<life, fileID, totalFlows, rows, historyVars>>

\* The process dies.
Crash ==
    /\ pc # "down"
    /\ buffer' = {}
    /\ pc' = "down"
    /\ UNCHANGED <<life, fileID, totalFlows, disk, rows, historyVars>>

Next == Start \/ storeFlowRecords \/ Flush \/ insertRow \/ newFile \/ Exit \/ Crash

Spec == Init /\ [][Next]_vars

-----------------------------------------------------------------------------
(* Properties. *)

Flow == [file : Nat, id : Nat, life : Nat]

\* Every variable has its type; a live process writes to a file from 1 on, a dead one has
\* no buffer.
TypeOK ==
    /\ pc \in {"down", "write", "insertRow", "newFile"} /\ life \in Nat
    /\ fileID \in Nat /\ totalFlows \in Nat
    /\ buffer \subseteq Nat /\ disk \subseteq [file : Nat, flow : Nat]
    /\ rows \in Seq(Nat)
    /\ position \in Seq(Flow) /\ dbError \in BOOLEAN
    /\ IF pc = "down" THEN buffer = {} ELSE fileID > 0

\* As long as MySQL refuses no query the i-th row is that of trace file i, over all lives
\* and crashes, and the file being written is one past the table (before its row is
\* added): the table's size is all that the next life knows of the files on disk.
RowsNumbered ==
    ~dbError =>
        /\ \A i \in 1..Len(rows) : rows[i] = i
        /\ pc \in {"write", "insertRow"} => fileID = Len(rows) + 1
        /\ pc = "newFile" => fileID = Len(rows)

\* A trace file holds flows of one life only, each at the place its flow id says: the ids
\* the indexes keep would otherwise find flows of another life.
OneLifePerFile ==
    \A x, y \in disk : x.file = y.file =>
        /\ position[x.flow].file = x.file
        /\ position[x.flow].life = position[y.flow].life
        /\ x.flow < y.flow => position[y.flow].id = position[x.flow].id + (y.flow - x.flow)

\* The flows that are in a file or will be, unless the process dies.
Safe == {x.flow : x \in disk} \cup buffer

\* As long as MySQL refuses no query a life loses no flow before it ends, and of a life
\* that has ended only flows of the last file it wrote to may ever be lost, be it in the
\* crash or when the next life opens that file again.
LostOnlyInLastFile ==
    ~dbError =>
        \A n \in 1..Len(position) : n \notin Safe =>
            /\ position[n].life = life => pc = "down"
            /\ \A m \in 1..Len(position) :
                  position[m].life = position[n].life => position[m].file <= position[n].file

\* As long as MySQL refuses no query a file that has a row never loses a flow: no life
\* writes to, or opens again, a file of the table.
DumpedTraceKept ==
    [][~dbError' =>
          \A i \in 1..Len(rows) : \A x \in disk : x.file = rows[i] => x \in disk']_vars

-----------------------------------------------------------------------------
(* The inductive invariant behind these properties. *)

\* Flow n was stored by this life, and is as far from the end as its id says.
FromEnd(n) ==
    /\ position[n].life = life
    /\ position[n].id + Len(position) = totalFlows + n

\* A flow is on disk in the file it was stored in, and is buffered for the current one.
\* Every flow of the current file is of this life and in its place.
PlaceInv ==
    /\ \A n \in 1..Len(position) : position[n].life <= life
    /\ \A x \in disk : x.flow \in 1..Len(position) /\ position[x.flow].file = x.file
    /\ \A n \in buffer : n \in 1..Len(position) /\ position[n].file = fileID
    /\ pc # "down" =>
          /\ \A n \in buffer : FromEnd(n)
          /\ \A x \in disk : x.file = fileID => FromEnd(x.flow)

\* No flow was stored in a file beyond the one that follows the table, nor by a life in a
\* file beyond the one it writes to.
LastFileInv ==
    /\ ~dbError => \A n \in 1..Len(position) :
          position[n].file <= Len(rows) + (IF pc = "newFile" THEN 0 ELSE 1)
    /\ \A n \in 1..Len(position) : position[n].life = life => position[n].file <= fileID

\* Together: every part is kept by every step.
CatalogInv ==
    /\ TypeOK /\ RowsNumbered /\ PlaceInv /\ LastFileInv
    /\ OneLifePerFile /\ LostOnlyInLastFile

=============================================================================
