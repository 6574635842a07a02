--------------------------- MODULE IndexPipeline ---------------------------
(***************************************************************************)
(* The flow-record pipeline of traceDB: the receiver thread                *)
(* (main.cpp, receiveFlowRecords) writes every flow to the current trace   *)
(* file and hands its position to the six field indexes; one index thread  *)
(* per field (storage/index.cpp, index_thread_start) moves the positions   *)
(* into its trie and, when the receiver has dumped the trace file, writes  *)
(* the trie to an index file and starts a new one.                         *)
(*                                                                         *)
(* A step is one access to state another thread can see: a critical        *)
(* section of IndexBase::mutex_ or of the flag and exit rwlocks, or one    *)
(* read or write of an unprotected field (the IndexBase pointers, fileID_).*)
(* A flow is the number under which the receiver read it.                  *)
(***************************************************************************)
EXTENDS Naturals, Sequences

CONSTANTS
    NumFields,        \* indexed fields; addRecord serves them in this order
    NumFlows,         \* lines of the offline input: bounds every counter
    MaxFlowsPerFile,  \* TRACE_FILE_MAX_FLOWS
    InitialRows,      \* rows the MySQL table has when the process starts
    OpenMayFail,      \* whether fopen of an index file may fail
    InsertMayFail     \* whether MySQL may reject the row of a dump

ASSUME PipelineAssumption ==
    /\ NumFields \in Nat \ {0}
    /\ NumFlows \in Nat
    /\ MaxFlowsPerFile \in Nat \ {0}
    /\ InitialRows \in Nat
    /\ OpenMayFail \in BOOLEAN
    /\ InsertMayFail \in BOOLEAN

\* The index codes, by the place of their bit (SRCIP is 1, DSTIP is 2, ...).
Fields == 1..NumFields

VARIABLES
    rPc, fld, rPtr, captureDone,             \* the receiver thread
    fileID, totalFlows, totalBytes,          \* FileManager and TraceFile
    position,      \* position[n]: the file and flow id writeFlowRecord gave flow n
    rows,          \* the MySQL table: the file ids of its rows, in order
    iPc, newName,                            \* the index threads
    live, gen,     \* is the object of Index::<field>Index alive; which one it is
    name,          \* IndexBase::index_file_, by its file id
    records, trie, \* IndexBase::records_ and the flows in IndexBase::index
    idxFiles,      \* the index files on disk
    flag, exitSignal                         \* write_index_flag, exit_signal

receiverVars == <<rPc, fld, rPtr, captureDone>>
traceVars == <<fileID, totalFlows, totalBytes, position, rows>>
threadVars == <<iPc, newName>>
indexVars == <<live, gen, name, records, trie, idxFiles>>
signalVars == <<flag, exitSignal>>
vars == <<receiverVars, traceVars, threadVars, indexVars, signalVars>>

ReceiverPcs == {"read", "load", "push", "check", "insertRow", "newFile",
                "setFlag", "signal", "join", "done"}
ThreadPcs == {"build", "flag", "write", "delete", "name", "publish",
              "reset", "exit", "done"}

-----------------------------------------------------------------------------
\* Storage's constructor has run: fileID is one past the table's rows, every
\* field has an empty index named after it, and its thread has started.
Init ==
    /\ rPc = "read" /\ fld = 1 /\ rPtr = 0 /\ captureDone = FALSE
    /\ fileID = InitialRows + 1
    /\ totalFlows = 0 /\ totalBytes = 0
    /\ position = <<>>
    /\ rows = [i \in 1..InitialRows |-> i]
    /\ iPc = [c \in Fields |-> "build"]
    /\ newName = [c \in Fields |-> 0]
    /\ live = [c \in Fields |-> TRUE]
    /\ gen = [c \in Fields |-> 0]
    /\ name = [c \in Fields |-> fileID]
    /\ records = [c \in Fields |-> {}]
    /\ trie = [c \in Fields |-> {}]
    /\ idxFiles = {}
    /\ flag = {} /\ exitSignal = FALSE

-----------------------------------------------------------------------------
(* The receiver. *)

flow == Len(position)   \* the flow the receiver is working on

\* TraceFile::writeFlowRecord returns ++total_flows_.
NextFlowID == totalFlows + 1

\* One line is read and written to the trace file. total_bytes_ is not touched.
storeFlowRecords ==
    /\ rPc = "read"
    /\ flow < NumFlows
    /\ position' = Append(position, [file |-> fileID, id |-> NextFlowID])
    /\ totalFlows' = totalFlows + 1
    /\ fld' = 1
    /\ rPc' = "load"
    /\ UNCHANGED <<rPtr, captureDone, fileID, totalBytes, rows,
                   threadVars, indexVars, signalVars>>

\* fs.eof(): the capture is over.
EndOfCapture ==
    /\ rPc = "read"
    /\ flow = NumFlows
    /\ captureDone' = TRUE
    /\ rPc' = "check"
    /\ UNCHANGED <<fld, rPtr, traceVars, threadVars, indexVars, signalVars>>

\* addRecord loads the pointer of the next field's index, without a lock.
LoadIndexPointer ==
    /\ rPc = "load"
    /\ rPtr' = gen[fld]
    /\ rPc' = "push"
    /\ UNCHANGED <<fld, captureDone, traceVars, threadVars, indexVars, signalVars>>

\* IndexBase::addItem appends under the lock of the object it was called on. When
\* the index thread has deleted that object the call is undefined: the append is
\* lost in freed memory, or reaches the new object if it took the same address.
addItem ==
    LET pushed == [records EXCEPT ![fld] = @ \cup {flow}]
        valid == live[fld] /\ rPtr = gen[fld]
    IN
    /\ rPc = "push"
    /\ \/ records' = pushed /\ live[fld]
       \/ ~valid /\ UNCHANGED records
    /\ fld' = IF fld < NumFields THEN fld + 1 ELSE 1
    /\ rPc' = IF fld < NumFields THEN "load" ELSE "check"
    /\ rPtr' = 0
    /\ UNCHANGED <<captureDone, traceVars, threadVars,
                   live, gen, name, trie, idxFiles, signalVars>>

DumpNeeded ==
    \/ totalFlows >= MaxFlowsPerFile
    \/ captureDone /\ totalBytes > 0

\* Mutant: the loop forgets to leave when the capture is over.
NeverLeave == "read"

\* Where the loop goes on once a dump is done or not needed.
AfterDump == IF captureDone THEN "signal" ELSE "read"

CheckDump ==
    /\ rPc = "check"
    /\ rPc' = IF DumpNeeded THEN "insertRow" ELSE AfterDump
    /\ UNCHANGED <<fld, rPtr, captureDone, traceVars, threadVars, indexVars, signalVars>>

\* dumpTraceAndIndex, first half: the row names the files of the current fileID. The
\* result is ignored: when MySQL rejects the row the dump goes on without it.
insertRow ==
    /\ rPc = "insertRow"
    /\ \/ rows' = Append(rows, fileID)
       \/ InsertMayFail /\ UNCHANGED rows
    /\ rPc' = "newFile"
    /\ UNCHANGED <<fld, rPtr, captureDone, fileID, totalFlows, totalBytes, position,
                   threadVars, indexVars, signalVars>>

\* Mutant: newFile forgets FileManager::increaseFileID().
SameFileID == fileID

increaseFileID == fileID + 1

\* TraceFile::newFile closes the file, resets the totals and opens the next one.
newFile ==
    /\ rPc = "newFile"
    /\ fileID' = increaseFileID
    /\ totalFlows' = 0
    /\ totalBytes' = 0
    /\ rPc' = "setFlag"
    /\ UNCHANGED <<fld, rPtr, captureDone, position, rows,
                   threadVars, indexVars, signalVars>>

\* The last step of dumpTraceAndIndex: every index thread shall write its index.
setWriteIndexFlag ==
    /\ rPc = "setFlag"
    /\ flag' = Fields
    /\ rPc' = AfterDump
    /\ UNCHANGED <<fld, rPtr, captureDone, traceVars, threadVars, indexVars, exitSignal>>

\* delete pstorage: the trace file is closed and ~Index raises the exit signal.
setExitSignal ==
    /\ rPc = "signal"
    /\ exitSignal' = TRUE
    /\ rPc' = "join"
    /\ UNCHANGED <<fld, rPtr, captureDone, traceVars, threadVars, indexVars, flag>>

\* Mutant: ~Index does not wait for its threads.
NoJoin == TRUE

Joined == \A c \in Fields : iPc[c] = "done"

\* ~Index has joined every thread; it deletes the indexes with all they hold.
deleteIndexes ==
    /\ rPc = "join"
    /\ Joined
    /\ live' = [c \in Fields |-> FALSE]
    /\ records' = [c \in Fields |-> {}]
    /\ trie' = [c \in Fields |-> {}]
    /\ rPc' = "done"
    /\ UNCHANGED <<fld, rPtr, captureDone, traceVars, threadVars,
                   gen, name, idxFiles, signalVars>>

Receiver ==
    \/ storeFlowRecords \/ EndOfCapture
    \/ LoadIndexPointer \/ addItem
    \/ CheckDump \/ insertRow \/ newFile \/ setWriteIndexFlag
    \/ setExitSignal \/ deleteIndexes

-----------------------------------------------------------------------------
(* The index thread of field c. *)

Goto(c, from, to) ==
    /\ iPc[c] = from
    /\ iPc' = [iPc EXCEPT ![c] = to]

\* Mutant: the buffer is cleared but its records are not inserted.
ClearedOnly(c) == trie[c]

\* What the trie holds once the buffered records are inserted.
Inserted(c) == trie[c] \cup records[c]

\* Mutant: records_.clear() is missing.
NotCleared(c) == records[c]

\* What the buffer holds after records_.clear().
Cleared(c) == {}

\* buildIndex: IndexBase::insertRecords, under the lock.
insertRecords(c) ==
    /\ Goto(c, "build", "flag")
    /\ trie' = [trie EXCEPT ![c] = Inserted(c)]
    /\ records' = [records EXCEPT ![c] = Cleared(c)]
    /\ UNCHANGED <<receiverVars, traceVars, newName, live, gen, name, idxFiles, signalVars>>

\* Mutant: the flag is compared with ==.
OnlyFlag(c) == flag = {c}

\* getWriteIndexFlag() & code
FlagRaised(c) == c \in flag

getWriteIndexFlag(c) ==
    /\ Goto(c, "flag", IF FlagRaised(c) THEN "write" ELSE "exit")
    /\ UNCHANGED <<receiverVars, traceVars, newName, indexVars, signalVars>>

\* fopen(..., "wb") replaces a file of the same name.
WithIndexFile(c) ==
    {x \in idxFiles : ~(x.field = c /\ x.file = name[c])}
        \cup {[field |-> c, file |-> name[c], flows |-> trie[c]]}

\* IndexBase::write2file: the trie, not the buffer, goes to the file, and its lists
\* are freed. The result is ignored: when the file cannot be opened nothing is written.
write2file(c) ==
    /\ Goto(c, "write", "delete")
    /\ \/ /\ idxFiles' = WithIndexFile(c)
          /\ trie' = [trie EXCEPT ![c] = {}]
       \/ /\ OpenMayFail
          /\ UNCHANGED <<idxFiles, trie>>
    /\ UNCHANGED <<receiverVars, traceVars, newName, live, gen, name, records, signalVars>>

\* delete <field>Index: the pointer dangles, what was buffered is gone.
deleteIndex(c) ==
    /\ Goto(c, "delete", "name")
    /\ live' = [live EXCEPT ![c] = FALSE]
    /\ records' = [records EXCEPT ![c] = {}]
    /\ trie' = [trie EXCEPT ![c] = {}]
    /\ UNCHANGED <<receiverVars, traceVars, newName, gen, name, idxFiles, signalVars>>

\* Mutant: the new index is named after the next trace file.
NextFileName == fileID + 1

\* FileManager::get<Field>IndexName reads fileID_ without its mutex.
getIndexName == fileID

evaluateName(c) ==
    /\ Goto(c, "name", "publish")
    /\ newName' = [newName EXCEPT ![c] = getIndexName]
    /\ UNCHANGED <<receiverVars, traceVars, indexVars, signalVars>>

\* The pointer is assigned the new, empty IndexBase (the temporary is reset to keep
\* the state space small, as is rPtr after a push).
newIndex(c) ==
    /\ Goto(c, "publish", "reset")
    /\ live' = [live EXCEPT ![c] = TRUE]
    /\ gen' = [gen EXCEPT ![c] = @ + 1]
    /\ name' = [name EXCEPT ![c] = newName[c]]
    /\ newName' = [newName EXCEPT ![c] = 0]
    /\ UNCHANGED <<receiverVars, traceVars, records, trie, idxFiles, signalVars>>

\* Mutant: the field's mask is built from the code's complement.
XorOthers(c) == (flag \ (Fields \ {c})) \cup ((Fields \ {c}) \ flag)

\* write_index_flag ^= code
XorBit(c) == (flag \ {c}) \cup ({c} \ flag)

resetWriteIndexFlag(c) ==
    /\ Goto(c, "reset", "exit")
    /\ flag' = XorBit(c)
    /\ UNCHANGED <<receiverVars, traceVars, newName, indexVars, exitSignal>>

getExitSignal(c) ==
    /\ Goto(c, "exit", IF exitSignal THEN "done" ELSE "build")
    /\ UNCHANGED <<receiverVars, traceVars, newName, indexVars, signalVars>>

IndexThread(c) ==
    \/ insertRecords(c) \/ getWriteIndexFlag(c)
    \/ write2file(c) \/ deleteIndex(c) \/ evaluateName(c) \/ newIndex(c)
    \/ resetWriteIndexFlag(c) \/ getExitSignal(c)

\* The receiver and every index thread have returned.
Terminated == rPc = "done" /\ Joined /\ UNCHANGED vars

Next == Receiver \/ (\E c \in Fields : IndexThread(c)) \/ Terminated

Spec == Init /\ [][Next]_vars

\* The receiver has input to work on: it is not waiting for the next flow.
Working == rPc # "read" /\ Receiver

\* Every thread that can run is eventually scheduled (no lock is held across a step),
\* but the receiver may wait for its input forever.
FairSpec == Spec /\ WF_vars(Working) /\ \A c \in Fields : WF_vars(IndexThread(c))

-----------------------------------------------------------------------------
(* Properties. *)

Position == [file : Nat, id : Nat]
IndexFile == [field : Fields, file : Nat, flows : SUBSET Nat]

\* Every variable has its type.
TypeOK ==
    /\ rPc \in ReceiverPcs /\ fld \in Fields /\ rPtr \in Nat /\ captureDone \in BOOLEAN
    /\ fileID \in Nat /\ totalFlows \in Nat /\ totalBytes \in Nat
    /\ position \in Seq(Position) /\ rows \in Seq(Nat)
    /\ iPc \in [Fields -> ThreadPcs] /\ newName \in [Fields -> Nat]
    /\ live \in [Fields -> BOOLEAN] /\ gen \in [Fields -> Nat] /\ name \in [Fields -> Nat]
    /\ records \in [Fields -> SUBSET Nat] /\ trie \in [Fields -> SUBSET Nat]
    /\ idxFiles \subseteq IndexFile
    /\ flag \subseteq Fields /\ exitSignal \in BOOLEAN

\* The index thread of a field never runs on a deleted index: it calls insertRecords
\* and write2file on a live object, and ~Index deletes each object exactly once.
ThreadUsesLiveIndex ==
    /\ \A c \in Fields : iPc[c] \in {"build", "flag", "write", "delete"} => live[c]
    /\ rPc = "join" /\ Joined => \A c \in Fields : live[c]

\* The buffer, the trie and the index files of a field hold the flows in the order of
\* their arrival, each flow at most once: index files of earlier traces before those of
\* later ones, these before the trie, the trie before the buffer (LinkList and
\* OffsetsResult rely on positions that ascend).
FlowsInOrder ==
    \A c \in Fields :
        /\ \A m \in trie[c], n \in records[c] : m < n
        /\ \A x \in idxFiles : x.field = c =>
              /\ \A m \in x.flows, n \in trie[c] \cup records[c] : m < n
              /\ \A y \in idxFiles : y.field = c /\ x.file < y.file =>
                    \A m \in x.flows, n \in y.flows : m < n

\* An index file never holds a flow of an earlier trace file than the one it is named
\* after, nor will the index in memory when it is written.
NoFlowOfEarlierTrace ==
    /\ \A x \in idxFiles : \A n \in x.flows : position[n].file >= x.file
    /\ \A c \in Fields : \A n \in trie[c] \cup records[c] : position[n].file >= name[c]

\* Each row names files that no other row names and that are no longer written to. If no
\* insert fails the i-th row is that of trace file i, and fileID is one past the table
\* except between insertRow and newFile: what resetFileID(getTotalRows()) relies on after
\* a restart, or the constructor would truncate a trace file that has a row.
RowsNumbered ==
    /\ \A i, j \in 1..Len(rows) : i < j => rows[i] < rows[j]
    /\ \A i \in 1..Len(rows) : rows[i] < fileID \/ (rows[i] = fileID /\ rPc = "newFile")
    /\ ~InsertMayFail =>
          /\ \A i \in 1..Len(rows) : rows[i] = i
          /\ fileID = Len(rows) + (IF rPc = "newFile" THEN 0 ELSE 1)

\* Flow ids number the flows of a trace file 1, 2, 3, ... in the order they are in it.
FlowIdsConsecutive ==
    \A n \in 1..Len(position) :
        IF position[n].id = 1
        THEN n > 1 => position[n - 1].file < position[n].file
        ELSE n > 1 /\ position[n - 1] = [position[n] EXCEPT !.id = @ - 1]

\* What field c's index holds, in memory or on disk.
Stored(c) == records[c] \cup trie[c] \cup UNION {x.flows : x \in {y \in idxFiles : y.field = c}}

\* Only setWriteIndexFlag raises bits of the flag: the ^= of resetWriteIndexFlag never does.
OnlyDumpRaisesFlag ==
    [][\A c \in Fields : c \in flag' /\ c \notin flag => rPc = "setFlag"]_vars

\* An index loses flows only while its thread serves a write request (buffered flows die
\* with the object, an index file of the same name is replaced) or when ~Index deletes it.
LossOnlyWhileWriting ==
    [][\A c \in Fields :
          \/ Stored(c) \subseteq Stored(c)'
          \/ c \in flag /\ iPc[c] \in {"write", "delete"}
          \/ rPc = "join"]_vars

\* After the end of the capture the receiver and all index threads return.
Termination == captureDone ~> (rPc = "done" /\ Joined)

\* A request to write an index is served even if no further flow arrives, unless the
\* storage is being closed.
WriteRequestServed ==
    \A c \in Fields : c \in flag ~> (c \notin flag \/ exitSignal)

\* A flow does not stay in the buffer of an index forever, even if no further flow
\* arrives: it is inserted or deleted.
BufferDrained ==
    \A c \in Fields : \A n \in 1..NumFlows : n \in records[c] ~> n \notin records[c]

-----------------------------------------------------------------------------
(* The inductive invariant behind the safety properties. *)

\* The flows field c has been offered: during addRecord the later fields lag by one.
Offered(c) == IF rPc \in {"load", "push"} /\ c >= fld THEN flow - 1 ELSE flow

\* The receiver works on a flow of the current trace file; no flow is of a later one.
ReceiverInv ==
    /\ rPc \in {"load", "push"} => flow > 0 /\ position[flow].file = fileID
    /\ \A n \in 1..flow : position[n].file <= fileID

\* The receiver returns only after the index threads.
DoneInv == rPc = "done" => Joined

\* The last flow read is the totalFlows-th of the current file, if it has any.
FlowIdInv ==
    IF totalFlows = 0
    THEN \A n \in 1..flow : position[n].file < fileID
    ELSE flow > 0 /\ position[flow] = [file |-> fileID, id |-> totalFlows]

\* The object of a field is dead exactly between deleteIndex and newIndex, and empty then.
LiveInv ==
    \A c \in Fields :
        /\ rPc # "done" => (live[c] <=> iPc[c] \notin {"name", "publish"})
        /\ ~live[c] => records[c] = {} /\ trie[c] = {}

\* A thread that serves a write request still has its bit in the flag.
FlagInv ==
    \A c \in Fields :
        iPc[c] \in {"write", "delete", "name", "publish", "reset"} => c \in flag

\* Successive indexes of a field are named after trace files in order.
NameInv ==
    /\ \A c \in Fields :
          /\ name[c] <= fileID
          /\ iPc[c] = "publish" => name[c] <= newName[c] /\ newName[c] <= fileID
    /\ \A x \in idxFiles : x.file <= name[x.field]

\* Nothing is stored for a field that was not offered to it.
StoredInv ==
    /\ \A c \in Fields : \A n \in records[c] \cup trie[c] : n \in 1..Offered(c)
    /\ \A x \in idxFiles : \A n \in x.flows : n \in 1..Offered(x.field)

\* Together: every part is kept by every step.
PipelineInv ==
    /\ TypeOK /\ DoneInv /\ LiveInv /\ ReceiverInv /\ FlowIdInv
    /\ FlagInv /\ NameInv /\ StoredInv
    /\ FlowsInOrder /\ NoFlowOfEarlierTrace /\ RowsNumbered /\ FlowIdsConsecutive

-----------------------------------------------------------------------------
(* What comments of the code say, and the code does not do. *)

\* "after finishing capture, trace file and index files need to be dumped" (main.cpp):
\* when the receiver has returned, the trace file of every flow has its row.
CapturedFlowsDumped ==
    rPc = "done" => \A n \in 1..Len(position) : \E i \in 1..Len(rows) : rows[i] = position[n].file

\* The same comment, for the index files: every dumped trace file has all of them.
DumpedIndexesWritten ==
    rPc = "done" => \A i \in InitialRows + 1..Len(rows), c \in Fields :
        \E x \in idxFiles : x.field = c /\ x.file = rows[i]

=============================================================================
