------------------------ MODULE IndexPipeline_proofs ------------------------
(***************************************************************************)
(* Theorems about IndexPipeline for every number of fields and flows, every*)
(* size of trace file and every table the process may start with.          *)
(* The parts of PipelineInv are proved one after the other, each from the  *)
(* parts before it. The end of the module proves that IndexPipeline        *)
(* implements FlowIndex under the mapping of IndexPipelineRefinement.      *)
(***************************************************************************)
EXTENDS IndexPipelineRefinement, TLAPS

LEMMA FieldsType == Fields \subseteq Nat \ {0} /\ 1 \in Fields /\ NumFields \in Fields
BY PipelineAssumption DEF Fields

\* Every variable keeps its type, whatever the threads' interleaving.
THEOREM TypeCorrect == Spec => []TypeOK
<1> USE PipelineAssumption
<1>1. Init => TypeOK
  <2> SUFFICES ASSUME Init PROVE TypeOK
    OBVIOUS
  <2>1. rows \in Seq(Nat) /\ position \in Seq(Position)
    BY DEF Init
  <2>2. idxFiles \subseteq IndexFile /\ flag \subseteq Fields
    BY DEF Init
  <2>3. fileID \in Nat
    BY DEF Init
  <2>4. /\ rPc \in ReceiverPcs /\ fld \in Fields /\ rPtr \in Nat /\ captureDone \in BOOLEAN
        /\ totalFlows \in Nat /\ totalBytes \in Nat /\ exitSignal \in BOOLEAN
    BY FieldsType DEF Init, ReceiverPcs
  <2>5. /\ iPc \in [Fields -> ThreadPcs] /\ newName \in [Fields -> Nat]
        /\ live \in [Fields -> BOOLEAN] /\ gen \in [Fields -> Nat] /\ name \in [Fields -> Nat]
    BY <2>3 DEF Init, ThreadPcs
  <2>6. records \in [Fields -> SUBSET Nat] /\ trie \in [Fields -> SUBSET Nat]
    BY DEF Init
  <2>. QED  BY <2>1, <2>2, <2>3, <2>4, <2>5, <2>6 DEF TypeOK
<1>2. TypeOK /\ [Next]_vars => TypeOK'
  <2> SUFFICES ASSUME TypeOK, [Next]_vars PROVE TypeOK'
    OBVIOUS
  <2> USE DEF TypeOK, receiverVars, traceVars, threadVars, indexVars, signalVars
  <2>1. CASE storeFlowRecords
    <3>1. [file |-> fileID, id |-> NextFlowID] \in Position
      BY DEF Position, NextFlowID
    <3>2. position' \in Seq(Position)
      BY <2>1, <3>1 DEF storeFlowRecords
    <3>3. fld' \in Fields /\ rPc' \in ReceiverPcs /\ totalFlows' \in Nat
      BY <2>1, FieldsType DEF storeFlowRecords, ReceiverPcs
    <3>. QED  BY <2>1, <3>2, <3>3 DEF storeFlowRecords
  <2>2. CASE EndOfCapture
    BY <2>2 DEF EndOfCapture, ReceiverPcs
  <2>3. CASE LoadIndexPointer
    BY <2>3 DEF LoadIndexPointer, ReceiverPcs
  <2>4. CASE addItem
    <3>1. records' \in [Fields -> SUBSET Nat]
      <4>1. flow \in Nat
        BY DEF flow
      <4>2. records[fld] \cup {flow} \in SUBSET Nat
        BY <4>1
      <4>. QED  BY <2>4, <4>2 DEF addItem
    <3>2. fld' \in Fields /\ rPc' \in ReceiverPcs
      BY <2>4 DEF addItem, Fields, ReceiverPcs
    <3>. QED  BY <2>4, <3>1, <3>2 DEF addItem
  <2>5. CASE CheckDump
    BY <2>5 DEF CheckDump, AfterDump, ReceiverPcs
  <2>6. CASE insertRow
    <3>1. rows' \in Seq(Nat)
      <4>1. rows \in Seq(Nat) /\ fileID \in Nat
        OBVIOUS
      <4>2. Append(rows, fileID) \in Seq(Nat)
        BY <4>1
      <4>. QED  BY <2>6, <4>1, <4>2 DEF insertRow
    <3>2. /\ rPc' \in ReceiverPcs
          /\ UNCHANGED <<fld, rPtr, captureDone, fileID, totalFlows, totalBytes, position,
                         threadVars, indexVars, signalVars>>
      BY <2>6 DEF insertRow, ReceiverPcs
    <3>. QED  BY <3>1, <3>2
  <2>7. CASE newFile
    BY <2>7 DEF newFile, increaseFileID, ReceiverPcs
  <2>8. CASE setWriteIndexFlag
    BY <2>8 DEF setWriteIndexFlag, AfterDump, ReceiverPcs
  <2>9. CASE setExitSignal
    BY <2>9 DEF setExitSignal, ReceiverPcs
  <2>10. CASE deleteIndexes
    BY <2>10 DEF deleteIndexes, ReceiverPcs
  <2>11. ASSUME NEW c \in Fields, IndexThread(c) PROVE TypeOK'
    <3> USE DEF Goto
    <3>1. CASE insertRecords(c)
      BY <3>1 DEF insertRecords, Inserted, Cleared, ThreadPcs
    <3>2. CASE getWriteIndexFlag(c)
      BY <3>2 DEF getWriteIndexFlag, ThreadPcs
    <3>3. CASE write2file(c)
      <4>1. [field |-> c, file |-> name[c], flows |-> trie[c]] \in IndexFile
        BY DEF IndexFile
      <4>2. idxFiles' \subseteq IndexFile
        BY <3>3, <4>1 DEF write2file, WithIndexFile
      <4>. QED  BY <3>3, <4>2 DEF write2file, ThreadPcs
    <3>4. CASE deleteIndex(c)
      BY <3>4 DEF deleteIndex, ThreadPcs
    <3>5. CASE evaluateName(c)
      BY <3>5 DEF evaluateName, getIndexName, ThreadPcs
    <3>6. CASE newIndex(c)
      BY <3>6 DEF newIndex, ThreadPcs
    <3>7. CASE resetWriteIndexFlag(c)
      BY <3>7 DEF resetWriteIndexFlag, XorBit, ThreadPcs
    <3>8. CASE getExitSignal(c)
      BY <3>8 DEF getExitSignal, ThreadPcs
    <3>. QED  BY <2>11, <3>1, <3>2, <3>3, <3>4, <3>5, <3>6, <3>7, <3>8 DEF IndexThread
  <2>12. CASE UNCHANGED vars
    BY <2>12 DEF vars
  <2>. QED  BY <2>1, <2>2, <2>3, <2>4, <2>5, <2>6, <2>7, <2>8, <2>9, <2>10, <2>11, <2>12
            DEF Next, Receiver, Terminated
<1>. QED  BY <1>1, <1>2, PTL DEF Spec

-----------------------------------------------------------------------------
\* The threads' control: which index is alive, whose bit of the flag is set.
LEMMA ControlInit == Init => DoneInv /\ LiveInv /\ FlagInv
BY DEF Init, DoneInv, LiveInv, FlagInv

LEMMA ControlStep ==
    TypeOK /\ DoneInv /\ LiveInv /\ FlagInv /\ [Next]_vars
        => DoneInv' /\ LiveInv' /\ FlagInv'
<1> SUFFICES ASSUME TypeOK, DoneInv, LiveInv, FlagInv, [Next]_vars
             PROVE  DoneInv' /\ LiveInv' /\ FlagInv'
  OBVIOUS
<1> USE DEF TypeOK, DoneInv, Joined, LiveInv, FlagInv,
            receiverVars, traceVars, threadVars, indexVars, signalVars
<1>1. CASE storeFlowRecords \/ EndOfCapture \/ LoadIndexPointer \/ CheckDump
           \/ insertRow \/ newFile \/ setWriteIndexFlag \/ setExitSignal
  BY <1>1 DEF storeFlowRecords, EndOfCapture, LoadIndexPointer, CheckDump, insertRow,
              newFile, setWriteIndexFlag, setExitSignal, AfterDump
<1>2. CASE addItem
  BY <1>2 DEF addItem
<1>3. CASE deleteIndexes
  BY <1>3 DEF deleteIndexes
<1>4. ASSUME NEW c \in Fields, IndexThread(c) PROVE DoneInv' /\ LiveInv' /\ FlagInv'
  <2> USE DEF Goto
  <2>1. CASE insertRecords(c)
    BY <2>1 DEF insertRecords, Inserted, Cleared
  <2>2. CASE getWriteIndexFlag(c)
    BY <2>2 DEF getWriteIndexFlag, FlagRaised
  <2>3. CASE write2file(c)
    BY <2>3 DEF write2file
  <2>4. CASE deleteIndex(c)
    BY <2>4 DEF deleteIndex
  <2>5. CASE evaluateName(c)
    BY <2>5 DEF evaluateName
  <2>6. CASE newIndex(c)
    BY <2>6 DEF newIndex
  <2>7. CASE resetWriteIndexFlag(c)
    BY <2>7 DEF resetWriteIndexFlag, XorBit
  <2>8. CASE getExitSignal(c)
    BY <2>8 DEF getExitSignal
  <2>. QED  BY <1>4, <2>1, <2>2, <2>3, <2>4, <2>5, <2>6, <2>7, <2>8 DEF IndexThread
<1>5. CASE UNCHANGED vars
  BY <1>5 DEF vars
<1>. QED  BY <1>1, <1>2, <1>3, <1>4, <1>5 DEF Next, Receiver, Terminated

THEOREM ControlCorrect == Spec => [](DoneInv /\ LiveInv /\ FlagInv)
<1>. QED  BY TypeCorrect, ControlInit, ControlStep, PTL DEF Spec

\* No index thread runs on a deleted index and ~Index deletes each object once.
THEOREM LiveIndexCorrect == Spec => []ThreadUsesLiveIndex
<1>1. TypeOK /\ DoneInv /\ LiveInv => ThreadUsesLiveIndex
  BY DEF TypeOK, DoneInv, Joined, LiveInv, ThreadUsesLiveIndex
<1>. QED  BY <1>1, TypeCorrect, ControlCorrect, PTL

\* Only the dump raises bits of the flag; resetWriteIndexFlag's xor only clears one.
THEOREM FlagCorrect == Spec => OnlyDumpRaisesFlag
<1>1. TypeOK /\ FlagInv /\ [Next]_vars
        => [\A c \in Fields : c \in flag' /\ c \notin flag => rPc = "setFlag"]_vars
  <2> SUFFICES ASSUME TypeOK, FlagInv, Next
               PROVE  \A c \in Fields : c \in flag' /\ c \notin flag => rPc = "setFlag"
    BY DEF vars
  <2> USE DEF receiverVars, traceVars, threadVars, indexVars, signalVars
  <2>1. CASE Receiver
    BY <2>1 DEF Receiver, storeFlowRecords, EndOfCapture, LoadIndexPointer, addItem,
                CheckDump, insertRow, newFile, setWriteIndexFlag, setExitSignal, deleteIndexes
  <2>2. ASSUME NEW d \in Fields, IndexThread(d) PROVE flag' \subseteq flag
    <3>1. CASE resetWriteIndexFlag(d)
      BY <3>1 DEF resetWriteIndexFlag, XorBit, Goto, FlagInv
    <3>2. CASE ~resetWriteIndexFlag(d)
      BY <2>2, <3>2 DEF IndexThread, insertRecords, getWriteIndexFlag, write2file,
                        deleteIndex, evaluateName, newIndex, getExitSignal
    <3>. QED  BY <3>1, <3>2
  <2>3. CASE Terminated
    BY <2>3 DEF Terminated, vars
  <2>. QED  BY <2>1, <2>2, <2>3 DEF Next
<1>. QED  BY <1>1, TypeCorrect, ControlCorrect, PTL DEF Spec, OnlyDumpRaisesFlag

-----------------------------------------------------------------------------
\* A step of an index thread leaves the receiver and the trace files alone.
LEMMA ThreadKeepsReceiver ==
    ASSUME NEW c \in Fields, IndexThread(c)
    PROVE  UNCHANGED <<receiverVars, traceVars>>
BY DEF IndexThread, insertRecords, getWriteIndexFlag, write2file, deleteIndex,
       evaluateName, newIndex, resetWriteIndexFlag, getExitSignal

\* Rows name distinct, finished trace files, and are numbered as them if no insert fails.
THEOREM RowsCorrect == Spec => []RowsNumbered
<1> USE PipelineAssumption
<1>1. Init => RowsNumbered
  BY DEF Init, RowsNumbered
<1>2. TypeOK /\ RowsNumbered /\ [Next]_vars => RowsNumbered'
  <2> SUFFICES ASSUME TypeOK, RowsNumbered, [Next]_vars PROVE RowsNumbered'
    OBVIOUS
  <2> USE DEF TypeOK, RowsNumbered, receiverVars, traceVars
  <2>1. CASE insertRow
    <3>1. CASE rows' = Append(rows, fileID)
      <4> HIDE DEF RowsNumbered
      <4>1. rows \in Seq(Nat) /\ fileID \in Nat
        OBVIOUS
      <4>2. /\ Len(rows) \in Nat
            /\ Len(rows') = Len(rows) + 1 /\ rows'[Len(rows) + 1] = fileID
            /\ \A i \in 1..Len(rows) : rows'[i] = rows[i]
        BY <3>1, <4>1
      <4>3. rPc = "insertRow" /\ rPc' = "newFile" /\ fileID' = fileID
        BY <2>1 DEF insertRow
      <4> HIDE DEF TypeOK
      <4>4. /\ \A i \in 1..Len(rows) : rows[i] < fileID
            /\ \A i, j \in 1..Len(rows) : i < j => rows[i] < rows[j]
            /\ ~InsertMayFail => /\ \A i \in 1..Len(rows) : rows[i] = i
                                 /\ fileID = Len(rows) + 1
        BY <4>3 DEF RowsNumbered
      <4>5. \A i \in 1..Len(rows') : rows'[i] < fileID' \/ (rows'[i] = fileID' /\ rPc' = "newFile")
        BY <4>1, <4>2, <4>3, <4>4
      <4>6. \A i, j \in 1..Len(rows') : i < j => rows'[i] < rows'[j]
        BY <4>1, <4>2, <4>4
      <4>7. ~InsertMayFail => /\ \A i \in 1..Len(rows') : rows'[i] = i
                              /\ fileID' = Len(rows')
        BY <4>1, <4>2, <4>3, <4>4
      <4>. QED  BY <4>3, <4>5, <4>6, <4>7 DEF RowsNumbered
    <3>2. CASE InsertMayFail /\ UNCHANGED rows
      BY <2>1, <3>2 DEF insertRow
    <3>3. rows' = Append(rows, fileID) \/ (InsertMayFail /\ UNCHANGED rows)
      BY <2>1 DEF insertRow
    <3>. QED  BY <3>1, <3>2, <3>3
  <2>2. CASE newFile
    <3>1. /\ rPc = "newFile" /\ rPc' = "setFlag"
          /\ fileID' = fileID + 1 /\ rows' = rows
      BY <2>2 DEF newFile, increaseFileID
    <3>2. /\ fileID \in Nat /\ Len(rows) \in Nat
          /\ \A i \in 1..Len(rows) : rows[i] \in Nat
      OBVIOUS
    <3> HIDE DEF TypeOK, RowsNumbered
    <3>3. \A i \in 1..Len(rows) : rows[i] < fileID + 1
      BY <3>1, <3>2 DEF RowsNumbered
    <3>4. ~InsertMayFail => fileID + 1 = Len(rows) + 1
      BY <3>1, <3>2 DEF RowsNumbered
    <3>. QED  BY <3>1, <3>3, <3>4 DEF RowsNumbered
  <2>3. CASE storeFlowRecords \/ EndOfCapture \/ LoadIndexPointer \/ addItem \/ CheckDump
             \/ setWriteIndexFlag \/ setExitSignal \/ deleteIndexes
    BY <2>3 DEF storeFlowRecords, EndOfCapture, LoadIndexPointer, addItem, CheckDump,
                setWriteIndexFlag, setExitSignal, deleteIndexes, AfterDump
  <2>4. CASE \E c \in Fields : IndexThread(c)
    BY <2>4, ThreadKeepsReceiver
  <2>5. CASE UNCHANGED vars
    BY <2>5 DEF vars
  <2>. QED  BY <2>1, <2>2, <2>3, <2>4, <2>5 DEF Next, Receiver, Terminated
<1>. QED  BY <1>1, <1>2, TypeCorrect, PTL DEF Spec

\* What storeFlowRecords appends.
LEMMA PositionAppended ==
    ASSUME TypeOK, storeFlowRecords
    PROVE  /\ flow \in Nat /\ flow' = flow + 1
           /\ position'[flow + 1] = [file |-> fileID, id |-> totalFlows + 1]
           /\ \A n \in 1..flow : position'[n] = position[n]
<1>1. [file |-> fileID, id |-> NextFlowID] \in Position
  BY DEF TypeOK, Position, NextFlowID
<1>. QED  BY <1>1 DEF TypeOK, storeFlowRecords, flow, NextFlowID

\* Every other step keeps the positions.
LEMMA PositionKept ==
    ASSUME [Next]_vars, ~storeFlowRecords
    PROVE  position' = position /\ flow' = flow
<1>1. CASE Receiver
  BY <1>1 DEF Receiver, EndOfCapture, LoadIndexPointer, addItem, CheckDump, insertRow,
              newFile, setWriteIndexFlag, setExitSignal, deleteIndexes, traceVars, flow
<1>2. CASE \E c \in Fields : IndexThread(c)
  BY <1>2, ThreadKeepsReceiver DEF traceVars, flow
<1>3. CASE UNCHANGED vars
  BY <1>3 DEF vars, traceVars, flow
<1>. QED  BY <1>1, <1>2, <1>3 DEF Next, Terminated

LEMMA PositionType ==
    ASSUME TypeOK
    PROVE  /\ flow \in Nat
           /\ \A n \in 1..flow : /\ position[n] \in Position
                                 /\ position[n].file \in Nat /\ position[n].id \in Nat
<1>1. flow \in Nat /\ \A n \in 1..flow : position[n] \in Position
  BY DEF TypeOK, flow
<1>2. \A p \in Position : p.file \in Nat /\ p.id \in Nat
  BY DEF Position
<1>. QED  BY <1>1, <1>2

LEMMA TraceInit == Init => ReceiverInv /\ FlowIdInv /\ FlowIdsConsecutive
<1> SUFFICES ASSUME Init PROVE ReceiverInv /\ FlowIdInv /\ FlowIdsConsecutive
  OBVIOUS
<1>1. position = <<>> /\ Len(position) = 0 /\ 1..Len(position) = {}
  BY DEF Init
<1>2. totalFlows = 0 /\ rPc = "read"
  BY DEF Init
<1>. QED  BY <1>1, <1>2 DEF ReceiverInv, FlowIdInv, FlowIdsConsecutive, flow

\* The receiver's flow is of the current file, no flow is of a later one, and ids count.
LEMMA TraceStep ==
    TypeOK /\ ReceiverInv /\ FlowIdInv /\ FlowIdsConsecutive /\ [Next]_vars
        => ReceiverInv' /\ FlowIdInv' /\ FlowIdsConsecutive'
<1> SUFFICES ASSUME TypeOK, ReceiverInv, FlowIdInv, FlowIdsConsecutive, [Next]_vars
             PROVE  ReceiverInv' /\ FlowIdInv' /\ FlowIdsConsecutive'
  OBVIOUS
<1> USE DEF receiverVars, traceVars
<1>a. fileID \in Nat /\ totalFlows \in Nat
  BY DEF TypeOK
<1>b. FlowIdsConsecutive <=> \A n \in 1..flow :
          IF position[n].id = 1
          THEN n > 1 => position[n - 1].file < position[n].file
          ELSE n > 1 /\ position[n - 1] = [position[n] EXCEPT !.id = @ - 1]
  BY DEF FlowIdsConsecutive, flow
<1>1. CASE storeFlowRecords
  <2>1. fileID' = fileID /\ totalFlows' = totalFlows + 1 /\ rPc' = "load"
    BY <1>1 DEF storeFlowRecords
  <2>2. ReceiverInv'
    BY <1>1, <1>a, <2>1, PositionAppended DEF ReceiverInv
  <2>3. FlowIdInv'
    BY <1>1, <1>a, <2>1, PositionAppended DEF FlowIdInv
  <2>4. FlowIdsConsecutive'
    <3> SUFFICES ASSUME NEW n \in 1..flow'
                 PROVE  IF position'[n].id = 1
                        THEN n > 1 => position'[n - 1].file < position'[n].file
                        ELSE n > 1 /\ position'[n - 1] = [position'[n] EXCEPT !.id = @ - 1]
      BY DEF FlowIdsConsecutive, flow
    <3>1. CASE n \in 1..flow
      BY <1>1, <1>b, <3>1, PositionAppended
    <3>2. CASE n = flow + 1
      <4>1. position'[n] = [file |-> fileID, id |-> totalFlows + 1]
        BY <1>1, <3>2, PositionAppended
      <4>2. CASE totalFlows = 0
        BY <1>1, <1>a, <3>2, <4>1, <4>2, PositionAppended DEF FlowIdInv
      <4>3. CASE totalFlows # 0
        <5>1. flow > 0 /\ position[flow] = [file |-> fileID, id |-> totalFlows]
          BY <4>3 DEF FlowIdInv
        <5>2. position'[n - 1] = position[flow]
          BY <1>1, <3>2, <5>1, PositionAppended
        <5>3. [position'[n] EXCEPT !.id = @ - 1] = [file |-> fileID, id |-> totalFlows]
          BY <1>a, <4>1
        <5>. QED  BY <1>1, <1>a, <3>2, <4>1, <4>3, <5>1, <5>2, <5>3, PositionAppended
      <4>. QED  BY <4>2, <4>3
    <3>. QED  BY <1>1, <3>1, <3>2, PositionAppended
  <2>. QED  BY <2>2, <2>3, <2>4
<1>2. CASE ~storeFlowRecords
  <2>1. position' = position /\ flow' = flow
    BY <1>2, PositionKept
  <2>2. FlowIdsConsecutive'
    BY <2>1 DEF FlowIdsConsecutive
  <2>3. CASE newFile
    BY <1>a, <2>1, <2>2, <2>3, PositionType DEF newFile, increaseFileID, ReceiverInv, FlowIdInv
  <2>4. CASE EndOfCapture \/ LoadIndexPointer \/ addItem \/ CheckDump \/ insertRow
             \/ setWriteIndexFlag \/ setExitSignal \/ deleteIndexes
    <3>1. fileID' = fileID /\ totalFlows' = totalFlows
      BY <2>4 DEF EndOfCapture, LoadIndexPointer, addItem, CheckDump, insertRow,
                  setWriteIndexFlag, setExitSignal, deleteIndexes
    <3>2. rPc' \in {"load", "push"} => rPc \in {"load", "push"}
      BY <2>4 DEF EndOfCapture, LoadIndexPointer, addItem, CheckDump, insertRow,
                  setWriteIndexFlag, setExitSignal, deleteIndexes, AfterDump
    <3>. QED  BY <2>1, <2>2, <3>1, <3>2 DEF ReceiverInv, FlowIdInv
  <2>5. CASE (\E c \in Fields : IndexThread(c)) \/ UNCHANGED vars
    <3>1. UNCHANGED <<receiverVars, traceVars>>
      BY <2>5, ThreadKeepsReceiver DEF vars
    <3>. QED  BY <2>1, <2>2, <3>1 DEF ReceiverInv, FlowIdInv
  <2>. QED  BY <1>2, <2>3, <2>4, <2>5 DEF Next, Receiver, Terminated
<1>. QED  BY <1>1, <1>2

\* Flow ids number the flows of every trace file 1, 2, 3, ...
THEOREM FlowIdsCorrect == Spec => [](ReceiverInv /\ FlowIdInv /\ FlowIdsConsecutive)
<1>. QED  BY TypeCorrect, TraceInit, TraceStep, PTL DEF Spec

-----------------------------------------------------------------------------
\* Successive indexes of a field are named after trace files in order.
THEOREM NamesCorrect == Spec => []NameInv
<1> USE PipelineAssumption
<1>1. Init => NameInv
  BY DEF Init, NameInv
<1>2. TypeOK /\ NameInv /\ [Next]_vars => NameInv'
  <2> SUFFICES ASSUME TypeOK, NameInv, [Next]_vars PROVE NameInv'
    OBVIOUS
  <2> USE DEF NameInv, receiverVars, traceVars, threadVars, indexVars, signalVars
  <2>a. /\ fileID \in Nat /\ \A c \in Fields : name[c] \in Nat /\ newName[c] \in Nat
        /\ \A x \in idxFiles : x.field \in Fields /\ x.file \in Nat
    BY DEF TypeOK, IndexFile
  <2>1. CASE Receiver
    <3>1. fileID' \in {fileID, fileID + 1}
      BY <2>1 DEF Receiver, storeFlowRecords, EndOfCapture, LoadIndexPointer, addItem, CheckDump,
                  insertRow, newFile, increaseFileID, setWriteIndexFlag, setExitSignal, deleteIndexes
    <3>2. UNCHANGED <<iPc, newName, name, idxFiles>>
      BY <2>1 DEF Receiver, storeFlowRecords, EndOfCapture, LoadIndexPointer, addItem, CheckDump,
                  insertRow, newFile, setWriteIndexFlag, setExitSignal, deleteIndexes
    <3>. QED  BY <2>a, <3>1, <3>2
  <2>2. ASSUME NEW c \in Fields, IndexThread(c) PROVE NameInv'
    <3> USE DEF Goto, TypeOK
    <3>1. CASE write2file(c)
      BY <2>a, <3>1 DEF write2file, WithIndexFile
    <3>2. CASE evaluateName(c)
      BY <2>a, <3>2 DEF evaluateName, getIndexName
    <3>3. CASE newIndex(c)
      BY <2>a, <3>3 DEF newIndex
    <3>4. CASE insertRecords(c) \/ getWriteIndexFlag(c) \/ deleteIndex(c)
               \/ resetWriteIndexFlag(c) \/ getExitSignal(c)
      BY <2>a, <3>4 DEF insertRecords, getWriteIndexFlag, deleteIndex, resetWriteIndexFlag,
                        getExitSignal
    <3>. QED  BY <2>2, <3>1, <3>2, <3>3, <3>4 DEF IndexThread
  <2>3. CASE UNCHANGED vars
    BY <2>3 DEF vars
  <2>. QED  BY <2>1, <2>2, <2>3 DEF Next, Terminated
<1>. QED  BY <1>1, <1>2, TypeCorrect, PTL DEF Spec

-----------------------------------------------------------------------------
\* What a step does to the flows stored for the fields, in four shapes.

\* A flow is offered to field fld and may be stored in its buffer.
LEMMA PushShape ==
    ASSUME TypeOK, ReceiverInv, addItem
    PROVE  /\ flow \in Nat \ {0} /\ flow' = flow /\ position' = position
           /\ \A c \in Fields : /\ Offered(c) \in Nat /\ Offered(c)' \in Nat
                                /\ Offered(c) <= Offered(c)' /\ Offered(c)' <= flow
           /\ \A c \in Fields : c = fld => Offered(c) = flow - 1 /\ Offered(c)' = flow
           /\ \A c \in Fields : c # fld => Offered(c)' = Offered(c)
           /\ \A c \in Fields : records'[c] = records[c]
                                \/ (c = fld /\ records'[c] = records[c] \cup {flow})
           /\ UNCHANGED <<trie, idxFiles, name, fileID>>
<1>1. flow \in Nat \ {0} /\ flow' = flow /\ position' = position
  BY PositionType DEF addItem, ReceiverInv, traceVars, flow
<1>2. \A c \in Fields : Offered(c) = IF c >= fld THEN flow - 1 ELSE flow
  BY DEF addItem, Offered
<1>3. /\ fld \in Fields /\ fld \in Nat /\ NumFields \in Nat /\ Fields \subseteq Nat
      /\ \A c \in Fields : c <= NumFields
  BY PipelineAssumption DEF TypeOK, Fields
<1>4. rPc' = (IF fld < NumFields THEN "load" ELSE "check")
      /\ fld' = (IF fld < NumFields THEN fld + 1 ELSE 1)
  BY DEF addItem
<1>5. \A c \in Fields : Offered(c)' = IF c > fld THEN flow - 1 ELSE flow
  BY <1>1, <1>3, <1>4 DEF Offered
<1>6. \A c \in Fields : records'[c] = records[c]
                        \/ (c = fld /\ records'[c] = records[c] \cup {flow})
  <2>1. fld \in Fields /\ records \in [Fields -> SUBSET Nat]
    BY DEF TypeOK
  <2>2. \/ records' = [records EXCEPT ![fld] = @ \cup {flow}]
        \/ records' = records
    BY DEF addItem
  <2>. QED  BY <2>1, <2>2
<1>7. UNCHANGED <<trie, idxFiles, name, fileID>>
  BY DEF addItem, traceVars
<1>8. \A c \in Fields : /\ Offered(c) \in Nat /\ Offered(c)' \in Nat
                        /\ Offered(c) <= Offered(c)' /\ Offered(c)' <= flow
  <2> SUFFICES ASSUME NEW c \in Fields
               PROVE  /\ Offered(c) \in Nat /\ Offered(c)' \in Nat
                      /\ Offered(c) <= Offered(c)' /\ Offered(c)' <= flow
    OBVIOUS
  <2>1. c \in Nat /\ fld \in Nat
    BY <1>3
  <2>2. Offered(c) = (IF c >= fld THEN flow - 1 ELSE flow)
    BY <1>2
  <2>3. Offered(c)' = (IF c > fld THEN flow - 1 ELSE flow)
    BY <1>5
  <2>. QED  BY <1>1, <2>1, <2>2, <2>3
<1>9. \A c \in Fields : c = fld => Offered(c) = flow - 1 /\ Offered(c)' = flow
  <2>1. fld \in Nat /\ fld >= fld /\ ~(fld > fld)
    BY <1>3
  <2>. QED  BY <1>2, <1>5, <2>1
<1>10. \A c \in Fields : c # fld => Offered(c)' = Offered(c)
  <2>1. \A c \in Fields : c \in Nat /\ (c # fld => (c >= fld <=> c > fld))
    BY <1>3
  <2>. QED  BY <1>2, <1>5, <2>1
<1>. QED  BY <1>1, <1>6, <1>7, <1>8, <1>9, <1>10

\* Any other step of the receiver stores nothing and offers no field less.
LEMMA ReceiverShape ==
    ASSUME TypeOK, ReceiverInv, Receiver, ~addItem
    PROVE  /\ \A c \in Fields : Offered(c) \in Nat /\ Offered(c)' = Offered(c)
           /\ \A c \in Fields : records'[c] \subseteq records[c] /\ trie'[c] \subseteq trie[c]
           /\ UNCHANGED <<idxFiles, name>>
<1>1. /\ fld \in Fields /\ Fields \subseteq Nat /\ 1 \in Fields /\ flow \in Nat
      /\ \A c \in Fields : c >= 1
  BY FieldsType, PositionType DEF TypeOK, Fields
<1>2. \A c \in Fields : Offered(c) \in Nat
  BY <1>1 DEF Offered, ReceiverInv
<1>3. CASE storeFlowRecords
  <2>1. rPc = "read" /\ rPc' = "load" /\ fld' = 1 /\ flow' = flow + 1
    BY <1>3, PositionAppended DEF storeFlowRecords
  <2>2. \A c \in Fields : Offered(c)' = Offered(c)
    BY <1>1, <2>1 DEF Offered
  <2>. QED  BY <1>2, <1>3, <2>2 DEF storeFlowRecords, indexVars
<1>4. CASE ~storeFlowRecords
  <2>1. flow' = flow /\ UNCHANGED <<idxFiles, name>>
    BY <1>4 DEF Receiver, EndOfCapture, LoadIndexPointer, CheckDump, insertRow, newFile,
                setWriteIndexFlag, setExitSignal, deleteIndexes, traceVars, indexVars, flow
  <2>2. /\ rPc \in {"load", "push"} <=> rPc' \in {"load", "push"}
        /\ fld' = fld
    BY <1>4 DEF Receiver, EndOfCapture, LoadIndexPointer, CheckDump, insertRow, newFile,
                setWriteIndexFlag, setExitSignal, deleteIndexes, AfterDump
  <2>3. \A c \in Fields : records'[c] \subseteq records[c] /\ trie'[c] \subseteq trie[c]
    BY <1>4 DEF Receiver, EndOfCapture, LoadIndexPointer, CheckDump, insertRow, newFile,
                setWriteIndexFlag, setExitSignal, deleteIndexes, indexVars, TypeOK
  <2>. QED  BY <1>2, <2>1, <2>2, <2>3 DEF Offered
<1>. QED  BY <1>3, <1>4

-----------------------------------------------------------------------------
\* A thread's step moves, writes or drops flows; the receiver's view is unchanged.
LEMMA ThreadShape ==
    ASSUME TypeOK, DoneInv, LiveInv, NEW c \in Fields, IndexThread(c)
    PROVE  /\ \A d \in Fields : Offered(d)' = Offered(d)
           /\ position' = position
           /\ \A d \in Fields \ {c} :
                 records'[d] = records[d] /\ trie'[d] = trie[d] /\ name'[d] = name[d]
           /\ \/ /\ records'[c] \subseteq records[c] /\ trie'[c] \subseteq trie[c]
                 /\ name'[c] = name[c]
              \/ records'[c] = {} /\ trie'[c] = trie[c] \cup records[c] /\ name'[c] = name[c]
              \/ records'[c] = {} /\ trie'[c] = {}
           /\ \/ idxFiles' = idxFiles
              \/ /\ idxFiles' = WithIndexFile(c) /\ trie'[c] = {}
                 /\ records' = records /\ name' = name
<1> USE DEF TypeOK, Goto, receiverVars, traceVars, indexVars
<1>1. rPc' = rPc /\ fld' = fld /\ position' = position
  BY ThreadKeepsReceiver
<1>2. \A d \in Fields : Offered(d)' = Offered(d)
  BY <1>1 DEF Offered, flow
<1>3. CASE insertRecords(c)
  BY <1>2, <1>3 DEF insertRecords, Inserted, Cleared
<1>4. CASE write2file(c)
  BY <1>2, <1>4 DEF write2file
<1>5. CASE deleteIndex(c)
  BY <1>2, <1>5 DEF deleteIndex
<1>6. CASE newIndex(c)
  <2>1. records[c] = {} /\ trie[c] = {}
    BY <1>6 DEF newIndex, DoneInv, Joined, LiveInv
  <2>. QED  BY <1>2, <1>6, <2>1 DEF newIndex
<1>7. CASE getWriteIndexFlag(c) \/ evaluateName(c) \/ resetWriteIndexFlag(c) \/ getExitSignal(c)
  BY <1>2, <1>7 DEF getWriteIndexFlag, evaluateName, resetWriteIndexFlag, getExitSignal
<1>. QED  BY <1>3, <1>4, <1>5, <1>6, <1>7 DEF IndexThread

LEMMA StoreType ==
    ASSUME TypeOK
    PROVE  /\ \A c \in Fields : /\ records[c] \subseteq Nat /\ trie[c] \subseteq Nat
                                /\ name[c] \in Nat
           /\ \A x \in idxFiles : x.field \in Fields /\ x.file \in Nat /\ x.flows \subseteq Nat
BY DEF TypeOK, IndexFile

LEMMA StoreInit == Init => StoredInv /\ FlowsInOrder /\ NoFlowOfEarlierTrace
BY DEF Init, StoredInv, FlowsInOrder, NoFlowOfEarlierTrace

\* Nothing is stored for a field that it was not offered.
LEMMA StoredStep ==
    ASSUME TypeOK, DoneInv, LiveInv, ReceiverInv, StoredInv, [Next]_vars
    PROVE  StoredInv'
<1> USE DEF StoredInv
<1>1. CASE addItem
  <2>1. \A c \in Fields : \A n \in records'[c] \cup trie'[c] : n \in 1..Offered(c)'
    <3> SUFFICES ASSUME NEW c \in Fields, NEW n \in records'[c] \cup trie'[c]
                 PROVE  n \in 1..Offered(c)'
      OBVIOUS
    <3>1. CASE n \in records[c] \cup trie[c]
      BY <1>1, <3>1, PushShape
    <3>2. CASE n \notin records[c] \cup trie[c]
      BY <1>1, <3>2, PushShape
    <3>. QED  BY <3>1, <3>2
  <2>2. \A x \in idxFiles' : \A n \in x.flows : n \in 1..Offered(x.field)'
    BY <1>1, PushShape, StoreType
  <2>. QED  BY <2>1, <2>2
<1>2. CASE Receiver /\ ~addItem
  BY <1>2, ReceiverShape, StoreType
<1>3. ASSUME NEW c \in Fields, IndexThread(c) PROVE StoredInv'
  <2>1. \A d \in Fields : \A n \in records'[d] \cup trie'[d] : n \in 1..Offered(d)'
    BY <1>3, ThreadShape
  <2>2. ASSUME NEW x \in idxFiles', NEW n \in x.flows PROVE n \in 1..Offered(x.field)'
    <3>1. CASE x \in idxFiles
      BY <1>3, <2>2, <3>1, ThreadShape, StoreType
    <3>2. CASE x = [field |-> c, file |-> name[c], flows |-> trie[c]]
      BY <1>3, <2>2, <3>2, ThreadShape
    <3>. QED  BY <1>3, <3>1, <3>2, ThreadShape DEF WithIndexFile
  <2>. QED  BY <2>1, <2>2
<1>4. CASE UNCHANGED vars
  BY <1>4 DEF vars, receiverVars, traceVars, indexVars, Offered, flow
<1>. QED  BY <1>1, <1>2, <1>3, <1>4 DEF Next, Terminated

\* Every flow in memory or on disk is at its place in the order of arrival.
LEMMA OrderStep ==
    ASSUME TypeOK, DoneInv, LiveInv, ReceiverInv, NameInv, StoredInv, FlowsInOrder, [Next]_vars
    PROVE  FlowsInOrder'
<1> USE DEF FlowsInOrder
<1>1. CASE addItem
  <2>1. \A c \in Fields : c = fld => \A n \in Nat : n \in 1..Offered(c) => n < flow
    BY <1>1, PushShape
  <2>2. ASSUME NEW c \in Fields PROVE \A m \in trie'[c], n \in records'[c] : m < n
    BY <1>1, <2>1, <2>2, PushShape, StoreType DEF StoredInv
  <2>3. ASSUME NEW c \in Fields, NEW x \in idxFiles, x.field = c
        PROVE  \A m \in x.flows, n \in trie'[c] \cup records'[c] : m < n
    BY <1>1, <2>1, <2>3, PushShape, StoreType DEF StoredInv
  <2>. QED  BY <1>1, <2>2, <2>3, PushShape
<1>2. CASE Receiver /\ ~addItem
  BY <1>2, ReceiverShape
<1>3. ASSUME NEW c \in Fields, IndexThread(c) PROVE FlowsInOrder'
  <2>1. CASE idxFiles' = idxFiles
    BY <1>3, <2>1, ThreadShape
  <2>2. CASE /\ idxFiles' = WithIndexFile(c) /\ trie'[c] = {}
             /\ records' = records /\ name' = name
    <3> DEFINE new == [field |-> c, file |-> name[c], flows |-> trie[c]]
    <3>1. \A x \in idxFiles' : x = new \/ (x \in idxFiles /\ (x.field = c => x.file # name[c]))
      BY <2>2 DEF WithIndexFile
    <3>2. \A x \in idxFiles : x.field = c => x.file <= name[c]
      BY DEF NameInv
    <3>3. new.field = c /\ new.file = name[c] /\ new.flows = trie[c]
      OBVIOUS
    <3> HIDE DEF new
    <3>4. ASSUME NEW d \in Fields PROVE \A m \in trie'[d], n \in records'[d] : m < n
      BY <1>3, <2>2, ThreadShape
    <3>5. ASSUME NEW d \in Fields, NEW x \in idxFiles', x.field = d
          PROVE  \A m \in x.flows, n \in trie'[d] \cup records'[d] : m < n
      <4>1. CASE x = new
        BY <2>2, <3>3, <3>5, <4>1
      <4>2. CASE x \in idxFiles
        BY <1>3, <2>2, <3>5, <4>2, ThreadShape
      <4>. QED  BY <3>1, <4>1, <4>2
    <3>6. ASSUME NEW d \in Fields, NEW x \in idxFiles', NEW y \in idxFiles',
                 x.field = d, y.field = d, x.file < y.file
          PROVE  \A m \in x.flows, n \in y.flows : m < n
      <4>1. CASE x = new
        <5>1. y # new /\ y \in idxFiles /\ y.field = c
          BY <3>1, <3>3, <3>6, <4>1, StoreType
        <5>. QED  BY <3>2, <3>3, <3>6, <4>1, <5>1, StoreType
      <4>2. CASE x \in idxFiles /\ y = new
        BY <3>3, <3>6, <4>2
      <4>3. CASE x \in idxFiles /\ y \in idxFiles
        BY <3>6, <4>3
      <4>. QED  BY <3>1, <4>1, <4>2, <4>3
    <3>. QED  BY <3>4, <3>5, <3>6
  <2>. QED  BY <1>3, <2>1, <2>2, ThreadShape
<1>4. CASE UNCHANGED vars
  BY <1>4 DEF vars, indexVars
<1>. QED  BY <1>1, <1>2, <1>3, <1>4 DEF Next, Terminated

\* A flow is never filed under a later trace than its own.
LEMMA TraceOfFlowStep ==
    ASSUME TypeOK, DoneInv, LiveInv, ReceiverInv, NameInv, StoredInv,
           NoFlowOfEarlierTrace, [Next]_vars
    PROVE  NoFlowOfEarlierTrace'
<1> USE DEF NoFlowOfEarlierTrace
<1>1. CASE addItem
  <2>1. position[flow].file = fileID
    BY <1>1 DEF addItem, ReceiverInv
  <2>2. \A c \in Fields : name[c] <= fileID
    BY DEF NameInv
  <2>3. ASSUME NEW c \in Fields, NEW n \in trie'[c] \cup records'[c]
        PROVE  position'[n].file >= name'[c]
    <3>1. CASE n \in trie[c] \cup records[c]
      BY <1>1, <3>1, PushShape
    <3>2. CASE n \notin trie[c] \cup records[c]
      <4>1. n = flow
        BY <1>1, <2>3, <3>2, PushShape
      <4>2. name[c] \in Nat /\ fileID \in Nat
        BY DEF TypeOK
      <4>. QED  BY <1>1, <2>1, <2>2, <4>1, <4>2, PushShape
    <3>. QED  BY <3>1, <3>2
  <2>. QED  BY <1>1, <2>3, PushShape
<1>2. CASE Receiver /\ ~addItem
  <2>1. \A n \in Nat : n \in 1..flow => position'[n] = position[n]
    BY <1>2, PositionAppended, PositionKept
  <2>2. \A c \in Fields : Offered(c) \in Nat /\ Offered(c) <= flow
    BY <1>2, ReceiverShape, PositionType DEF Offered
  <2>3. \A c \in Fields : \A n \in records[c] \cup trie[c] : position'[n] = position[n]
    BY <2>1, <2>2, StoreType, PositionType DEF StoredInv
  <2>4. \A x \in idxFiles : \A n \in x.flows : position'[n] = position[n]
    BY <2>1, <2>2, StoreType, PositionType DEF StoredInv
  <2>. QED  BY <1>2, <2>3, <2>4, ReceiverShape
<1>3. ASSUME NEW c \in Fields, IndexThread(c) PROVE NoFlowOfEarlierTrace'
  <2>1. ASSUME NEW x \in idxFiles', NEW n \in x.flows PROVE position'[n].file >= x.file
    <3>1. CASE x \in idxFiles
      BY <1>3, <2>1, <3>1, ThreadShape
    <3>2. CASE x = [field |-> c, file |-> name[c], flows |-> trie[c]]
      BY <1>3, <2>1, <3>2, ThreadShape
    <3>. QED  BY <1>3, <3>1, <3>2, ThreadShape DEF WithIndexFile
  <2>2. ASSUME NEW d \in Fields, NEW n \in trie'[d] \cup records'[d]
        PROVE  position'[n].file >= name'[d]
    BY <1>3, <2>2, ThreadShape
  <2>. QED  BY <2>1, <2>2
<1>4. CASE UNCHANGED vars
  BY <1>4 DEF vars, indexVars, traceVars
<1>. QED  BY <1>1, <1>2, <1>3, <1>4 DEF Next, Terminated

\* The inductive invariant of the pipeline.
THEOREM PipelineCorrect == Spec => []PipelineInv
<1>1. TypeOK /\ DoneInv /\ LiveInv /\ ReceiverInv /\ NameInv /\ StoredInv /\ FlowsInOrder
        /\ NoFlowOfEarlierTrace /\ [Next]_vars
        => StoredInv' /\ FlowsInOrder' /\ NoFlowOfEarlierTrace'
  BY StoredStep, OrderStep, TraceOfFlowStep
<1>2. Spec => [](StoredInv /\ FlowsInOrder /\ NoFlowOfEarlierTrace)
  BY <1>1, StoreInit, TypeCorrect, ControlCorrect, FlowIdsCorrect, NamesCorrect, PTL DEF Spec
<1>. QED  BY <1>2, TypeCorrect, ControlCorrect, FlowIdsCorrect, NamesCorrect, RowsCorrect, PTL
          DEF PipelineInv

\* The positions of every field ascend from its first index file to its buffer.
THEOREM OrderCorrect == Spec => []FlowsInOrder
<1>. QED  BY PipelineCorrect, PTL DEF PipelineInv

\* No index file holds a flow of an earlier trace than the one it is named after.
THEOREM TraceOfFlowCorrect == Spec => []NoFlowOfEarlierTrace
<1>. QED  BY PipelineCorrect, PTL DEF PipelineInv

\* An index loses flows only while its thread serves a write request, or when it is closed.
THEOREM LossCorrect == Spec => LossOnlyWhileWriting
<1>1. TypeOK /\ FlagInv /\ [Next]_vars
        => [\A c \in Fields : \/ Stored(c) \subseteq Stored(c)'
                              \/ c \in flag /\ iPc[c] \in {"write", "delete"}
                              \/ rPc = "join"]_vars
  <2> SUFFICES ASSUME TypeOK, FlagInv, Next, NEW c \in Fields,
                      ~(c \in flag /\ iPc[c] \in {"write", "delete"}), rPc # "join"
               PROVE  Stored(c) \subseteq Stored(c)'
    BY DEF vars
  <2> USE DEF TypeOK, indexVars
  <2>1. CASE Receiver
    <3>1. /\ \A d \in Fields : records[d] \subseteq records'[d]
          /\ trie' = trie /\ idxFiles' = idxFiles
      BY <2>1 DEF Receiver, storeFlowRecords, EndOfCapture, LoadIndexPointer, addItem, CheckDump,
                  insertRow, newFile, setWriteIndexFlag, setExitSignal, deleteIndexes
    <3>. QED  BY <3>1 DEF Stored
  <2>2. ASSUME NEW d \in Fields, IndexThread(d) PROVE Stored(c) \subseteq Stored(c)'
    <3> USE DEF Goto
    <3>1. CASE insertRecords(d)
      BY <3>1 DEF insertRecords, Inserted, Cleared, Stored
    <3>2. CASE write2file(d)
      <4>1. d # c
        BY <3>2 DEF write2file, FlagInv
      <4>2. /\ records' = records /\ trie'[c] = trie[c]
            /\ \A x \in idxFiles : x.field = c => x \in idxFiles'
        BY <3>2, <4>1 DEF write2file, WithIndexFile
      <4>. QED  BY <4>2 DEF Stored
    <3>3. CASE deleteIndex(d)
      <4>1. d # c
        BY <3>3 DEF deleteIndex, FlagInv
      <4>. QED  BY <3>3, <4>1 DEF deleteIndex, Stored
    <3>4. CASE getWriteIndexFlag(d) \/ evaluateName(d) \/ newIndex(d)
               \/ resetWriteIndexFlag(d) \/ getExitSignal(d)
      BY <3>4 DEF getWriteIndexFlag, evaluateName, newIndex, resetWriteIndexFlag,
                  getExitSignal, Stored
    <3>. QED  BY <2>2, <3>1, <3>2, <3>3, <3>4 DEF IndexThread
  <2>3. CASE Terminated
    BY <2>3 DEF Terminated, vars, Stored
  <2>. QED  BY <2>1, <2>2, <2>3 DEF Next
<1>. QED  BY <1>1, TypeCorrect, ControlCorrect, PTL DEF Spec, LossOnlyWhileWriting

-----------------------------------------------------------------------------
(***************************************************************************)
(* IndexPipeline implements FlowIndex, for every instance: the mapping of  *)
(* IndexPipelineRefinement takes every step to a step of FlowIndex or to a *)
(* stutter.                                                                *)
(***************************************************************************)
Stage == [c \in Fields |-> [n \in 1..NumFlows |-> StageOf(c, n)]]

InputBound == flow <= NumFlows

\* The receiver reads no more flows than the input has.
LEMMA InputBounded == Spec => []InputBound
<1> USE PipelineAssumption DEF InputBound
<1>1. Init => InputBound
  BY DEF Init, flow
<1>2. TypeOK /\ InputBound /\ [Next]_vars => InputBound'
  <2> SUFFICES ASSUME TypeOK, InputBound, [Next]_vars PROVE InputBound'
    OBVIOUS
  <2>1. CASE storeFlowRecords
    BY <2>1, PositionAppended DEF storeFlowRecords
  <2>2. CASE ~storeFlowRecords
    BY <2>2, PositionKept
  <2>. QED  BY <2>1, <2>2
<1>. QED  BY <1>1, <1>2, TypeCorrect, PTL DEF Spec

LEMMA InitRefines == Init => FI!Init
<1> SUFFICES ASSUME Init, NEW c \in Fields, NEW n \in 1..NumFlows
             PROVE  StageOf(c, n) = "unseen"
  BY DEF FI!Init
<1>1. Offered(c) = 0
  BY DEF Init, Offered, flow
<1>. QED  BY <1>1 DEF StageOf

\* A step that leaves the stored flows and what was offered alone is a stutter.
LEMMA StutterRefines ==
    ASSUME \A c \in Fields : Offered(c)' = Offered(c), UNCHANGED <<records, trie, idxFiles>>
    PROVE  Stage' = Stage
<1>1. \A c \in Fields : OnDisk(c)' = OnDisk(c)
  BY DEF OnDisk
<1>2. \A c \in Fields, n \in 1..NumFlows : StageOf(c, n)' = StageOf(c, n)
  BY <1>1 DEF StageOf
<1>. QED  BY <1>2 DEF Stage

\* addItem offers the receiver's flow to the field it serves.
LEMMA PushRefines ==
    ASSUME TypeOK, ReceiverInv, StoredInv, InputBound, addItem
    PROVE  FI!Offer(fld)
<1> DEFINE s == IF flow \in records'[fld] THEN "buffered" ELSE "lost"
<1>1. fld \in Fields /\ flow \in 1..NumFlows
  BY PushShape, PipelineAssumption DEF TypeOK, InputBound
<1>2. /\ \A c \in Fields : OnDisk(c)' = OnDisk(c)
      /\ trie' = trie
  BY PushShape DEF OnDisk
<1>3. \A m \in 1..NumFlows : m < flow => StageOf(fld, m) # "unseen"
  BY <1>1, PushShape DEF StageOf
<1>4. StageOf(fld, flow) = "unseen"
  BY <1>1, PushShape DEF StageOf
<1>5. flow \notin records[fld] \cup trie[fld] \cup OnDisk(fld)
  BY <1>1, PushShape DEF StoredInv, OnDisk
<1>6. ASSUME NEW c \in Fields, NEW n \in 1..NumFlows
      PROVE  StageOf(c, n)' = IF c = fld /\ n = flow THEN s ELSE StageOf(c, n)
  <2>1. CASE c # fld
    BY <1>2, <2>1, PushShape DEF StageOf
  <2>2. CASE c = fld /\ n = flow
    <3>1. Offered(c)' = flow /\ ~(n > flow)
      BY <1>1, <2>2, PushShape
    <3>2. n \notin trie'[c] /\ n \notin OnDisk(c)'
      BY <1>2, <1>5, <2>2
    <3>. QED  BY <2>2, <3>1, <3>2 DEF StageOf
  <2>3. CASE c = fld /\ n # flow
    <3>1. n > Offered(c)' <=> n > Offered(c)
      BY <1>1, <2>3, PushShape
    <3>2. n \in records'[c] <=> n \in records[c]
      BY <2>3, PushShape
    <3>. QED  BY <1>2, <2>3, <3>1, <3>2 DEF StageOf
  <2>. QED  BY <2>1, <2>2, <2>3
<1>7. Stage' = [Stage EXCEPT ![fld][flow] = s]
  BY <1>1, <1>6 DEF Stage
<1>. QED  BY <1>1, <1>3, <1>4, <1>7 DEF FI!Offer, Stage

\* What an index thread stores for the other fields is not touched by its steps.
LEMMA OtherFieldsKept ==
    ASSUME TypeOK, DoneInv, LiveInv, NEW c \in Fields, IndexThread(c),
           NEW d \in Fields, d # c, NEW n \in 1..NumFlows
    PROVE  StageOf(d, n)' = StageOf(d, n)
<1>1. Offered(d)' = Offered(d) /\ records'[d] = records[d] /\ trie'[d] = trie[d]
  BY ThreadShape
<1>2. OnDisk(d)' = OnDisk(d)
  <2>1. \A x \in idxFiles : x.field = d => x \in idxFiles'
    BY ThreadShape DEF WithIndexFile
  <2>2. \A x \in idxFiles' : x.field = d => x \in idxFiles
    BY ThreadShape DEF WithIndexFile
  <2>. QED  BY <2>1, <2>2 DEF OnDisk
<1>. QED  BY <1>1, <1>2 DEF StageOf

LEMMA InsertRefines ==
    ASSUME TypeOK, DoneInv, LiveInv, NEW c \in Fields, insertRecords(c)
    PROVE  FI!Insert(c)
<1>1. IndexThread(c)
  BY DEF IndexThread
<1>2. /\ records'[c] = {} /\ trie'[c] = trie[c] \cup records[c]
      /\ idxFiles' = idxFiles
  BY DEF TypeOK, insertRecords, Inserted, Cleared
<1>3. Offered(c)' = Offered(c) /\ OnDisk(c)' = OnDisk(c)
  BY <1>1, <1>2, ThreadShape DEF OnDisk
<1>4. \A n \in 1..NumFlows :
          StageOf(c, n)' = IF StageOf(c, n) = "buffered" THEN "indexed" ELSE StageOf(c, n)
  BY <1>2, <1>3 DEF StageOf
<1>5. \A d \in Fields : d # c => \A n \in 1..NumFlows : StageOf(d, n)' = StageOf(d, n)
  BY <1>1, OtherFieldsKept
<1>. QED  BY <1>4, <1>5 DEF FI!Insert

LEMMA PersistRefines ==
    ASSUME TypeOK, DoneInv, LiveInv, NEW c \in Fields, write2file(c),
           idxFiles' = WithIndexFile(c), trie' = [trie EXCEPT ![c] = {}]
    PROVE  FI!Persist(c)
<1> DEFINE replaced == {n \in 1..NumFlows : StageOf(c, n) = "persisted" /\ n \notin OnDisk(c)'}
<1>1. IndexThread(c)
  BY DEF IndexThread
<1>2. records' = records /\ trie'[c] = {} /\ Offered(c)' = Offered(c)
  BY <1>1, ThreadShape DEF write2file, TypeOK
<1>3. OnDisk(c)' \subseteq OnDisk(c) \cup trie[c] /\ trie[c] \subseteq OnDisk(c)'
  <2>1. [field |-> c, file |-> name[c], flows |-> trie[c]] \in idxFiles'
    BY DEF WithIndexFile
  <2>2. \A x \in idxFiles' : x \in idxFiles \/ x.flows = trie[c]
    BY DEF WithIndexFile
  <2>. QED  BY <2>1, <2>2 DEF OnDisk
<1>4. \A n \in 1..NumFlows :
          StageOf(c, n)' = IF n \in replaced THEN "lost"
                           ELSE IF StageOf(c, n) = "indexed" THEN "persisted"
                           ELSE StageOf(c, n)
  BY <1>2, <1>3 DEF StageOf
<1>5. \A d \in Fields : d # c => \A n \in 1..NumFlows : StageOf(d, n)' = StageOf(d, n)
  BY <1>1, OtherFieldsKept
<1>6. replaced \in SUBSET {n \in 1..NumFlows : Stage[c][n] = "persisted"}
  BY DEF Stage
<1> HIDE DEF replaced
<1>7. Stage' = [Stage EXCEPT ![c] =
                  [n \in 1..NumFlows |-> IF n \in replaced THEN "lost"
                                         ELSE IF @[n] = "indexed" THEN "persisted" ELSE @[n]]]
  BY <1>4, <1>5 DEF Stage
<1>. QED  BY <1>6, <1>7 DEF FI!Persist, Stage

LEMMA DropRefines ==
    ASSUME TypeOK, DoneInv, LiveInv, FlowsInOrder, NEW c \in Fields, deleteIndex(c)
    PROVE  FI!Drop(c)
<1>1. IndexThread(c)
  BY DEF IndexThread
<1>2. records'[c] = {} /\ trie'[c] = {} /\ idxFiles' = idxFiles
  BY DEF TypeOK, deleteIndex
<1>3. Offered(c)' = Offered(c) /\ OnDisk(c)' = OnDisk(c)
  BY <1>1, <1>2, ThreadShape DEF OnDisk
<1>4. \A n \in records[c] \cup trie[c] : n \notin OnDisk(c)
  BY StoreType DEF FlowsInOrder, OnDisk
<1>5. \A n \in 1..NumFlows : StageOf(c, n)' = FI!Deleted(StageOf(c, n))
  BY <1>2, <1>3, <1>4 DEF StageOf, FI!Deleted
<1>6. \A d \in Fields : d # c => \A n \in 1..NumFlows : StageOf(d, n)' = StageOf(d, n)
  BY <1>1, OtherFieldsKept
<1>. QED  BY <1>5, <1>6 DEF FI!Drop

LEMMA CloseRefines ==
    ASSUME TypeOK, ReceiverInv, FlowsInOrder, deleteIndexes
    PROVE  FI!Close
<1>1. /\ \A c \in Fields : records'[c] = {} /\ trie'[c] = {}
      /\ idxFiles' = idxFiles
  BY DEF deleteIndexes
<1>2. \A c \in Fields : Offered(c)' = Offered(c) /\ OnDisk(c)' = OnDisk(c)
  BY <1>1 DEF deleteIndexes, Offered, OnDisk, traceVars, flow
<1>3. \A c \in Fields : \A n \in records[c] \cup trie[c] : n \notin OnDisk(c)
  BY StoreType DEF FlowsInOrder, OnDisk
<1>4. \A c \in Fields, n \in 1..NumFlows : StageOf(c, n)' = FI!Deleted(StageOf(c, n))
  BY <1>1, <1>2, <1>3 DEF StageOf, FI!Deleted
<1>. QED  BY <1>4 DEF FI!Close

LEMMA StepRefines ==
    PipelineInv /\ InputBound /\ [Next]_vars => [FI!Next]_Stage
<1> SUFFICES ASSUME PipelineInv, InputBound, [Next]_vars PROVE [FI!Next]_Stage
  OBVIOUS
<1>a. /\ TypeOK /\ DoneInv /\ LiveInv /\ ReceiverInv /\ StoredInv /\ FlowsInOrder
  BY DEF PipelineInv
<1>1. CASE addItem
  <2>1. fld \in Fields
    BY <1>a DEF TypeOK
  <2>. QED  BY <1>1, <1>a, <2>1, PushRefines DEF FI!Next
<1>2. CASE deleteIndexes
  BY <1>2, <1>a, CloseRefines DEF FI!Next
<1>3. CASE Receiver /\ ~addItem /\ ~deleteIndexes
  <2>1. UNCHANGED <<records, trie, idxFiles>>
    BY <1>3 DEF Receiver, storeFlowRecords, EndOfCapture, LoadIndexPointer, CheckDump, insertRow,
                newFile, setWriteIndexFlag, setExitSignal, indexVars
  <2>. QED  BY <1>3, <1>a, <2>1, ReceiverShape, StutterRefines
<1>4. ASSUME NEW c \in Fields, IndexThread(c) PROVE [FI!Next]_Stage
  <2>1. CASE insertRecords(c)
    BY <1>a, <2>1, InsertRefines DEF FI!Next
  <2>2. CASE write2file(c) /\ idxFiles' = WithIndexFile(c) /\ trie' = [trie EXCEPT ![c] = {}]
    BY <1>a, <2>2, PersistRefines DEF FI!Next
  <2>3. CASE deleteIndex(c)
    BY <1>a, <2>3, DropRefines DEF FI!Next
  <2>4. CASE UNCHANGED <<records, trie, idxFiles>>
    BY <1>4, <1>a, <2>4, ThreadShape, StutterRefines
  <2>. QED  BY <1>4, <2>1, <2>2, <2>3, <2>4
            DEF IndexThread, getWriteIndexFlag, write2file, evaluateName, newIndex,
                resetWriteIndexFlag, getExitSignal, indexVars
<1>5. CASE UNCHANGED vars
  BY <1>5, StutterRefines DEF vars, receiverVars, traceVars, indexVars, Offered, flow
<1>. QED  BY <1>1, <1>2, <1>3, <1>4, <1>5 DEF Next, Terminated

\* The pipeline's threads implement the abstract index.
THEOREM Refinement == Spec => ImplementsFlowIndex
<1>1. Spec => FI!Init /\ [][FI!Next]_Stage
  BY InitRefines, StepRefines, PipelineCorrect, InputBounded, PTL DEF Spec
<1>. QED  BY <1>1, PTL DEF ImplementsFlowIndex, FI!Spec, Stage

=============================================================================
