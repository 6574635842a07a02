------------------------ MODULE TraceCatalog_proofs ------------------------
(***************************************************************************)
(* Theorems about TraceCatalog for every number of flows, lives and flows  *)
(* per file. The parts of CatalogInv are proved one after the other, each  *)
(* from the parts before it.                                               *)
(***************************************************************************)
EXTENDS TraceCatalog, TLAPS

\* Every variable keeps its type over all lives of the process.
THEOREM TypeCorrect == Spec => []TypeOK
<1> USE CatalogAssumption
<1>1. Init => TypeOK
  <2>1. <<>> \in Seq(Nat) /\ <<>> \in Seq(Flow)
    OBVIOUS
  <2>2. Init => pc = "down" /\ buffer = {} /\ life \in Nat /\ fileID \in Nat /\ totalFlows \in Nat
    BY DEF Init
  <2>3. Init => disk = {} /\ rows = <<>> /\ position = <<>> /\ dbError = FALSE
    BY DEF Init
  <2>. QED  BY <2>1, <2>2, <2>3 DEF TypeOK
<1>2. TypeOK /\ [Next]_vars => TypeOK'
  <2> SUFFICES ASSUME TypeOK, [Next]_vars PROVE TypeOK'
    OBVIOUS
  <2> USE DEF TypeOK, fileVars, historyVars
  <2>1. CASE Start
    <3>1. Len(rows) \in Nat
      OBVIOUS
    <3>2. fileID' \in Nat \ {0} /\ dbError' \in BOOLEAN
      BY <2>1, <3>1 DEF Start, getTotalRows, FirstFile
    <3>3. disk' \subseteq [file : Nat, flow : Nat]
      BY <2>1 DEF Start, Opened
    <3>. QED  BY <2>1, <3>2, <3>3 DEF Start
  <2>2. CASE storeFlowRecords
    <3>1. position' \in Seq(Flow)
      <4>1. [file |-> fileID, id |-> totalFlows + 1, life |-> life] \in Flow
        BY DEF Flow
      <4>2. Append(position, [file |-> fileID, id |-> totalFlows + 1, life |-> life]) \in Seq(Flow)
        BY <4>1
      <4>. QED  BY <2>2, <4>2 DEF storeFlowRecords
    <3>2. buffer' \subseteq Nat
      <4>1. Len(position) + 1 \in Nat
        OBVIOUS
      <4>. QED  BY <2>2, <4>1 DEF storeFlowRecords
    <3>. QED  BY <2>2, <3>1, <3>2 DEF storeFlowRecords
  <2>3. CASE Flush
    <3>1. PICK n \in buffer : disk' = Flushed(n) /\ buffer' = {k \in buffer : k > n}
      BY <2>3 DEF Flush
    <3>2. disk' \subseteq [file : Nat, flow : Nat]
      BY <3>1 DEF Flushed
    <3>. QED  BY <2>3, <3>1, <3>2 DEF Flush
  <2>4. CASE insertRow
    <3>1. Append(rows, fileID) \in Seq(Nat)
      OBVIOUS
    <3>2. rows' \in Seq(Nat) /\ dbError' \in BOOLEAN
      BY <2>4, <3>1 DEF insertRow
    <3>. QED  BY <2>4, <3>2 DEF insertRow
  <2>5. CASE newFile
    BY <2>5 DEF newFile, increaseFileID, Opened, Closed
  <2>6. CASE Exit
    BY <2>6 DEF Exit, Closed
  <2>7. CASE Crash
    BY <2>7 DEF Crash
  <2>8. CASE UNCHANGED vars
    BY <2>8 DEF vars
  <2>. QED  BY <2>1, <2>2, <2>3, <2>4, <2>5, <2>6, <2>7, <2>8 DEF Next
<1>. QED  BY <1>1, <1>2, PTL DEF Spec

-----------------------------------------------------------------------------
\* The table and the number of the current file.
LEMMA RowsStep == TypeOK /\ RowsNumbered /\ [Next]_vars => RowsNumbered'
<1> SUFFICES ASSUME TypeOK, RowsNumbered, [Next]_vars, ~dbError' PROVE RowsNumbered'
  BY DEF RowsNumbered
<1> USE DEF TypeOK, RowsNumbered, fileVars, historyVars
<1>1. CASE Start
  BY <1>1 DEF Start, getTotalRows, FirstFile
<1>2. CASE insertRow
  <2>1. /\ ~dbError /\ rows' = Append(rows, fileID)
        /\ pc = "insertRow" /\ pc' = "newFile" /\ fileID' = fileID
    BY <1>2 DEF insertRow
  <2>2. fileID = Len(rows) + 1
    BY <2>1
  <2>3. \A i \in 1..Len(rows) : rows[i] = i
    BY <2>1
  <2>4. Len(rows') = Len(rows) + 1 /\ \A i \in 1..Len(rows) + 1 : rows'[i] = i
    BY <2>1, <2>2, <2>3
  <2>. QED  BY <2>1, <2>2, <2>4
<1>3. CASE storeFlowRecords
  BY <1>3 DEF storeFlowRecords
<1>4. CASE newFile
  BY <1>4 DEF newFile, increaseFileID
<1>5. CASE Flush \/ Exit \/ Crash
  BY <1>5 DEF Flush, Exit, Crash
<1>6. CASE UNCHANGED vars
  BY <1>6 DEF vars
<1>. QED  BY <1>1, <1>2, <1>3, <1>4, <1>5, <1>6 DEF Next

\* As long as no query fails the rows number the trace files 1, 2, 3, ... over all lives.
THEOREM RowsCorrect == Spec => []RowsNumbered
<1>1. Init => RowsNumbered
  BY DEF Init, RowsNumbered
<1>. QED  BY <1>1, TypeCorrect, RowsStep, PTL DEF Spec

\* No life truncates or writes to a file that has a row.
THEOREM KeptCorrect == Spec => DumpedTraceKept
<1> DEFINE Kept == ~dbError' =>
               \A i \in 1..Len(rows) : \A x \in disk : x.file = rows[i] => x \in disk'
<1>1. TypeOK /\ RowsNumbered /\ [Next]_vars => [Kept]_vars
  <2> SUFFICES ASSUME TypeOK, RowsNumbered, Next, ~dbError',
                      NEW i \in 1..Len(rows), NEW x \in disk, x.file = rows[i]
               PROVE  x \in disk'
    OBVIOUS
  <2> USE DEF TypeOK, RowsNumbered, fileVars, historyVars
  <2>1. CASE Start
    <3>1. ~dbError /\ fileID' = Len(rows) + 1 /\ disk' = Opened(fileID', disk)
      BY <2>1 DEF Start, getTotalRows, FirstFile
    <3>2. x.file = i /\ i # fileID'
      BY <3>1
    <3>. QED  BY <3>1, <3>2 DEF Opened
  <2>2. CASE newFile
    <3>1. ~dbError /\ fileID' = Len(rows) + 1 /\ disk' = Opened(fileID', Closed)
      BY <2>2 DEF newFile, increaseFileID
    <3>2. x.file = i /\ i # fileID' /\ x \in Closed
      BY <3>1 DEF Closed
    <3>. QED  BY <3>1, <3>2 DEF Opened
  <2>3. CASE Flush \/ Exit
    BY <2>3 DEF Flush, Flushed, Exit, Closed
  <2>4. CASE storeFlowRecords \/ insertRow \/ Crash
    BY <2>4 DEF storeFlowRecords, insertRow, Crash
  <2>. QED  BY <2>1, <2>2, <2>3, <2>4 DEF Next
<1>. QED  BY <1>1, TypeCorrect, RowsCorrect, PTL DEF Spec, DumpedTraceKept

-----------------------------------------------------------------------------
LEMMA FlowTypes ==
    TypeOK => /\ Len(position) \in Nat
              /\ \A n \in 1..Len(position) :
                    /\ position[n].file \in Nat
                    /\ position[n].id \in Nat
                    /\ position[n].life \in Nat
<1> SUFFICES ASSUME TypeOK, NEW n \in 1..Len(position)
             PROVE  position[n] \in Flow
  BY DEF TypeOK, Flow
<1>. QED  BY DEF TypeOK

\* What storeFlowRecords appends leaves the earlier flows alone.
LEMMA AppendedFlow ==
    TypeOK /\ storeFlowRecords =>
        /\ Len(position) \in Nat /\ Len(position') = Len(position) + 1
        /\ \A n \in 1..Len(position) : position'[n] = position[n]
        /\ position'[Len(position) + 1].file = fileID
        /\ position'[Len(position) + 1].id = totalFlows + 1
        /\ position'[Len(position) + 1].life = life
BY DEF TypeOK, storeFlowRecords

\* A step that at most moves buffered flows to the file they belong to.
LEMMA PlaceKept ==
    ASSUME TypeOK, PlaceInv, UNCHANGED <<life, position>>,
           \A x \in disk' : x \in disk \/ (x.file = fileID /\ x.flow \in buffer),
           \/ buffer' = {} /\ pc' = "down"
           \/ buffer' = {} /\ \A x \in disk' : x.file # fileID'
           \/ buffer' \subseteq buffer /\ pc # "down" /\ UNCHANGED <<fileID, totalFlows>>
    PROVE  PlaceInv'
<1>1. \A n \in 1..Len(position') : position'[n].life <= life'
  BY DEF PlaceInv
<1>2. ASSUME NEW x \in disk'
      PROVE  x.flow \in 1..Len(position') /\ position'[x.flow].file = x.file
  BY DEF PlaceInv
<1>3. \A n \in buffer' : n \in 1..Len(position') /\ position'[n].file = fileID'
  BY DEF PlaceInv
<1>4. ASSUME pc' # "down", NEW n \in buffer' PROVE FromEnd(n)'
  BY <1>4 DEF PlaceInv, FromEnd
<1>5. ASSUME pc' # "down", NEW x \in disk', x.file = fileID' PROVE FromEnd(x.flow)'
  BY <1>5 DEF PlaceInv, FromEnd
<1>. QED  BY <1>1, <1>2, <1>3, <1>4, <1>5 DEF PlaceInv

\* Where the flows are.
LEMMA PlaceStep == TypeOK /\ PlaceInv /\ [Next]_vars => PlaceInv'
<1> SUFFICES ASSUME TypeOK, PlaceInv, [Next]_vars PROVE PlaceInv'
  OBVIOUS
<1> USE DEF fileVars, historyVars
<1>1. CASE Start
  <2>1. /\ pc = "down" /\ buffer = {} /\ buffer' = {} /\ life' = life + 1 /\ life \in Nat
        /\ disk' = Opened(fileID', disk) /\ UNCHANGED position
    BY <1>1 DEF Start, TypeOK
  <2>2. \A x \in disk' : x \in disk /\ x.file # fileID'
    BY <2>1 DEF Opened
  <2>3. \A n \in 1..Len(position) : position[n].life \in Nat
    BY FlowTypes
  <2>4. \A n \in 1..Len(position') : position'[n].life <= life'
    BY <2>1, <2>3 DEF PlaceInv
  <2>. QED  BY <2>1, <2>2, <2>4 DEF PlaceInv
<1>2. CASE storeFlowRecords
  <2>1. /\ pc = "write"
        /\ buffer' = buffer \cup {Len(position) + 1} /\ totalFlows' = totalFlows + 1
        /\ UNCHANGED <<life, fileID, disk>>
    BY <1>2 DEF storeFlowRecords
  <2>2. life \in Nat /\ fileID \in Nat /\ totalFlows \in Nat
    BY DEF TypeOK
  <2>3. /\ position'[Len(position) + 1].file = fileID'
        /\ position'[Len(position) + 1].life = life'
        /\ position'[Len(position) + 1].id + Len(position') = totalFlows' + (Len(position) + 1)
    <3>1. position'[Len(position) + 1].id = totalFlows + 1
      BY <1>2, AppendedFlow
    <3>2. Len(position') = Len(position) + 1 /\ Len(position) \in Nat
      BY <1>2, AppendedFlow
    <3>3. position'[Len(position) + 1].file = fileID /\ position'[Len(position) + 1].life = life
      BY <1>2, AppendedFlow
    <3>. QED  BY <2>1, <2>2, <3>1, <3>2, <3>3
  <2>4. ASSUME NEW n \in 1..Len(position), FromEnd(n) PROVE FromEnd(n)'
    <3>1. position[n].id \in Nat
      BY FlowTypes
    <3>2. position[n].life = life /\ position[n].id + Len(position) = totalFlows + n
      BY <2>4 DEF FromEnd
    <3>3. Len(position') = Len(position) + 1 /\ Len(position) \in Nat /\ position'[n] = position[n]
      BY <1>2, AppendedFlow
    <3>4. position'[n].id + Len(position') = totalFlows' + n
      BY <2>1, <2>2, <3>1, <3>2, <3>3
    <3>. QED  BY <2>1, <3>2, <3>3, <3>4 DEF FromEnd
  <2>5. \A n \in 1..Len(position') : position'[n].life <= life'
    BY <1>2, <2>1, <2>2, AppendedFlow DEF PlaceInv
  <2>6. ASSUME NEW x \in disk'
        PROVE  /\ x.flow \in 1..Len(position') /\ position'[x.flow].file = x.file
               /\ x.file = fileID' => FromEnd(x.flow)'
    <3>1. x \in disk /\ x.flow \in 1..Len(position) /\ position[x.flow].file = x.file
      BY <2>1 DEF PlaceInv
    <3>2. x.file = fileID => FromEnd(x.flow)
      BY <2>1, <3>1 DEF PlaceInv
    <3>. QED  BY <1>2, <2>1, <2>4, <3>1, <3>2, AppendedFlow
  <2>7. ASSUME NEW n \in buffer'
        PROVE  n \in 1..Len(position') /\ position'[n].file = fileID' /\ FromEnd(n)'
    <3>1. CASE n = Len(position) + 1
      <4>1. Len(position') = Len(position) + 1 /\ Len(position) \in Nat
        BY <1>2, AppendedFlow
      <4>2. FromEnd(n)'
        BY <2>3, <3>1 DEF FromEnd
      <4>. QED  BY <2>3, <3>1, <4>1, <4>2
    <3>2. CASE n \in buffer
      <4>1. n \in 1..Len(position) /\ position[n].file = fileID /\ FromEnd(n)
        BY <2>1, <3>2 DEF PlaceInv
      <4>. QED  BY <1>2, <2>1, <2>4, <4>1, AppendedFlow
    <3>. QED  BY <2>1, <3>1, <3>2
  <2>. QED  BY <2>5, <2>6, <2>7 DEF PlaceInv
<1>3. CASE Flush
  <2>1. \A x \in disk' : x \in disk \/ (x.file = fileID /\ x.flow \in buffer)
    BY <1>3 DEF Flush, Flushed
  <2>2. /\ UNCHANGED <<pc, life, fileID, totalFlows, position>> /\ pc # "down"
        /\ buffer' \subseteq buffer
    BY <1>3 DEF Flush, TypeOK
  <2>. QED  BY <2>1, <2>2, PlaceKept
<1>4. CASE insertRow \/ Crash
  <2>1. /\ UNCHANGED <<life, disk, fileID, totalFlows, position>>
        /\ \/ buffer' = buffer /\ pc # "down"
           \/ buffer' = {} /\ pc' = "down"
    BY <1>4 DEF insertRow, Crash
  <2>. QED  BY <2>1, PlaceKept
<1>5. CASE newFile
  <2>1. \A x \in disk' : x \in disk \/ (x.file = fileID /\ x.flow \in buffer)
    BY <1>5 DEF newFile, increaseFileID, Opened, Closed
  <2>2. buffer' = {} /\ (\A x \in disk' : x.file # fileID') /\ UNCHANGED <<life, position>>
    BY <1>5 DEF newFile, increaseFileID, Opened
  <2>. QED  BY <2>1, <2>2, PlaceKept
<1>6. CASE Exit
  <2>1. \A x \in disk' : x \in disk \/ (x.file = fileID /\ x.flow \in buffer)
    BY <1>6 DEF Exit, Closed
  <2>2. buffer' = {} /\ pc' = "down" /\ UNCHANGED <<life, position>>
    BY <1>6 DEF Exit
  <2>. QED  BY <2>1, <2>2, PlaceKept
<1>7. CASE UNCHANGED vars
  BY <1>7 DEF vars, PlaceInv, FromEnd
<1>. QED  BY <1>1, <1>2, <1>3, <1>4, <1>5, <1>6, <1>7 DEF Next

LEMMA PlaceCorrect == Spec => []PlaceInv
<1>1. Init => PlaceInv
  BY DEF Init, PlaceInv
<1>. QED  BY <1>1, TypeCorrect, PlaceStep, PTL DEF Spec

-----------------------------------------------------------------------------
LEMMA SameEnd ==
    ASSUME NEW a \in Nat, NEW b \in Nat, NEW l \in Nat, NEW t \in Nat,
           NEW m \in Nat, NEW n \in Nat, a + l = t + m, b + l = t + n
    PROVE  b = a + (n - m)
OBVIOUS

\* A file holds flows of one life, in the order of their ids.
LEMMA OneLifeStep ==
    TypeOK /\ PlaceInv /\ OneLifePerFile /\ [Next]_vars => OneLifePerFile'
<1> SUFFICES ASSUME TypeOK, PlaceInv, OneLifePerFile, [Next]_vars PROVE OneLifePerFile'
  OBVIOUS
<1> USE DEF TypeOK, fileVars, historyVars
<1> DEFINE Open(n) == n \in buffer \/ \E x \in disk : x.file = fileID /\ x.flow = n
           Added == \A x \in disk' : x \in disk \/ (x.file = fileID /\ x.flow \in buffer)
\* Two flows of the current file, on disk or not, are as far apart as their ids.
<1>1. ASSUME pc # "down", NEW m, NEW n, Open(m), Open(n)
      PROVE  /\ position[m].file = fileID /\ position[m].life = position[n].life
             /\ position[n].id = position[m].id + (n - m)
  <2>1. /\ m \in 1..Len(position) /\ n \in 1..Len(position)
        /\ position[m].file = fileID
    BY <1>1 DEF PlaceInv
  <2>2. FromEnd(m) /\ FromEnd(n)
    BY <1>1 DEF PlaceInv
  <2>4. position[m].id \in Nat /\ position[n].id \in Nat
    BY <2>1, FlowTypes
  <2>8. Len(position) \in Nat
    BY FlowTypes
  <2>9. totalFlows \in Nat
    OBVIOUS
  <2>5. Len(position) \in Nat /\ totalFlows \in Nat /\ m \in Nat /\ n \in Nat
    BY <2>1, <2>8, <2>9
  <2>6. /\ position[m].id + Len(position) = totalFlows + m
        /\ position[n].id + Len(position) = totalFlows + n
        /\ position[m].life = life /\ position[n].life = life
    BY <2>2 DEF FromEnd
  <2>7. position[n].id = position[m].id + (n - m)
    <3>1. PICK a \in Nat, b \in Nat, l \in Nat, t \in Nat :
              a = position[m].id /\ b = position[n].id /\ l = Len(position) /\ t = totalFlows
      BY <2>4, <2>5
    <3>2. a + l = t + m /\ b + l = t + n
      BY <2>6, <3>1
    <3>3. m \in Nat /\ n \in Nat
      BY <2>5
    <3>4. b = a + (n - m)
      BY <3>2, <3>3, SameEnd
    <3>. QED  BY <3>1, <3>4
  <2>. QED  BY <2>1, <2>6, <2>7
\* A step that adds buffered flows to the current file keeps the invariant.
<1>2. ASSUME pc # "down", Added, UNCHANGED position PROVE OneLifePerFile'
  <2> SUFFICES ASSUME NEW x \in disk', NEW y \in disk', x.file = y.file
               PROVE  /\ position[x.flow].file = x.file
                      /\ position[x.flow].life = position[y.flow].life
                      /\ x.flow < y.flow =>
                            position[y.flow].id = position[x.flow].id + (y.flow - x.flow)
    BY <1>2 DEF OneLifePerFile
  <2>1. CASE x.file = fileID
    <3>1. Open(x.flow) /\ Open(y.flow)
      BY <1>2, <2>1
    <3>. QED  BY <1>1, <1>2, <2>1, <3>1
  <2>2. CASE x.file # fileID
    <3>1. x \in disk /\ y \in disk
      BY <1>2, <2>2
    <3>. QED  BY <3>1 DEF OneLifePerFile
  <2>. QED  BY <2>1, <2>2
<1>3. CASE Start
  BY <1>3 DEF Start, Opened, OneLifePerFile
<1>4. CASE storeFlowRecords
  <2>1. \A x \in disk : x.flow \in 1..Len(position)
    BY DEF PlaceInv
  <2>2. UNCHANGED disk
    BY <1>4 DEF storeFlowRecords
  <2>3. \A n \in 1..Len(position) : position'[n] = position[n]
    BY <1>4, AppendedFlow
  <2>. QED  BY <2>1, <2>2, <2>3 DEF OneLifePerFile
<1>5. CASE Flush
  <2>1. pc # "down" /\ UNCHANGED position
    BY <1>5 DEF Flush
  <2>2. Added
    BY <1>5 DEF Flush, Flushed
  <2>. QED  BY <1>2, <2>1, <2>2
<1>6. CASE newFile
  <2>1. pc # "down" /\ UNCHANGED position
    BY <1>6 DEF newFile, increaseFileID
  <2>2. Added
    BY <1>6 DEF newFile, increaseFileID, Opened, Closed
  <2>. QED  BY <1>2, <2>1, <2>2
<1>7. CASE Exit
  <2>1. pc # "down" /\ UNCHANGED position
    BY <1>7 DEF Exit
  <2>2. Added
    BY <1>7 DEF Exit, Closed
  <2>. QED  BY <1>2, <2>1, <2>2
<1>8. CASE insertRow \/ Crash
  BY <1>8 DEF insertRow, Crash, OneLifePerFile
<1>9. CASE UNCHANGED vars
  BY <1>9 DEF vars, OneLifePerFile
<1>. QED  BY <1>3, <1>4, <1>5, <1>6, <1>7, <1>8, <1>9 DEF Next

\* A trace file never mixes flows of two lives, whatever crashes and failed queries there
\* were, and a flow is at the place in its file that its id says.
THEOREM OneLifeCorrect == Spec => []OneLifePerFile
<1>1. Init => OneLifePerFile
  BY DEF Init, OneLifePerFile
<1>. QED  BY <1>1, TypeCorrect, PlaceCorrect, OneLifeStep, PTL DEF Spec

-----------------------------------------------------------------------------
\* The last files.
LEMMA LastFileStep ==
    TypeOK /\ RowsNumbered /\ PlaceInv /\ LastFileInv /\ [Next]_vars => LastFileInv'
<1> SUFFICES ASSUME TypeOK, RowsNumbered, PlaceInv, LastFileInv, [Next]_vars
             PROVE  LastFileInv'
  OBVIOUS
<1> USE DEF fileVars, historyVars
<1> DEFINE Limit == Len(rows) + (IF pc = "newFile" THEN 0 ELSE 1)
<1>1. Len(rows) \in Nat /\ fileID \in Nat /\ life \in Nat
  BY DEF TypeOK
\* What the later cases show: no flow is new and neither limit goes down.
<1>2. ASSUME UNCHANGED position, ~dbError' => ~dbError /\ Limit <= Limit',
             Len(rows') \in Nat, fileID' \in Nat,
             \A n \in 1..Len(position) : position[n].life = life' =>
                 position[n].life = life /\ fileID <= fileID'
      PROVE  LastFileInv'
  <2>1. ASSUME ~dbError', NEW n \in 1..Len(position') PROVE position'[n].file <= Limit'
    <3>1. position[n].file \in Nat /\ position[n].file <= Limit
      BY <1>2, <2>1, FlowTypes DEF LastFileInv
    <3>. QED  BY <1>1, <1>2, <2>1, <3>1
  <2>2. ASSUME NEW n \in 1..Len(position'), position'[n].life = life'
        PROVE  position'[n].file <= fileID'
    <3>1. position[n].file \in Nat /\ position[n].file <= fileID /\ fileID <= fileID'
      BY <1>2, <2>2, FlowTypes DEF LastFileInv
    <3>. QED  BY <1>1, <1>2, <3>1
  <2>. QED  BY <2>1, <2>2 DEF LastFileInv
<1>3. CASE Start
  <2>1. \A n \in 1..Len(position) : position[n].life # life + 1
    BY <1>1, FlowTypes DEF PlaceInv
  <2>2. /\ UNCHANGED <<position, rows>> /\ life' = life + 1
        /\ pc = "down" /\ pc' = "write"
    BY <1>3 DEF Start
  <2>3. fileID' \in Nat /\ (~dbError' => ~dbError)
    BY <1>1, <1>3 DEF Start, getTotalRows, FirstFile, TypeOK
  <2>. QED  BY <1>1, <1>2, <2>1, <2>2, <2>3
<1>4. CASE storeFlowRecords
  <2>1. /\ pc = "write" /\ pc' \in {"write", "insertRow"}
        /\ UNCHANGED <<life, fileID, rows, dbError>>
    BY <1>4 DEF storeFlowRecords
  <2>2. ~dbError => fileID <= Len(rows) + 1
    BY <1>1, <2>1 DEF RowsNumbered
  <2>3. /\ Len(position) \in Nat /\ Len(position') = Len(position) + 1
        /\ position'[Len(position) + 1].file = fileID
    BY <1>4, AppendedFlow
  <2>4. \A n \in 1..Len(position) : position'[n] = position[n]
    BY <1>4, AppendedFlow
  <2>5. ASSUME ~dbError', NEW n \in 1..Len(position') PROVE position'[n].file <= Limit'
    BY <2>1, <2>2, <2>3, <2>4, <2>5 DEF LastFileInv
  <2>6. ASSUME NEW n \in 1..Len(position'), position'[n].life = life'
        PROVE  position'[n].file <= fileID'
    BY <1>1, <2>1, <2>3, <2>4, <2>6 DEF LastFileInv
  <2>. QED  BY <2>5, <2>6 DEF LastFileInv
<1>5. CASE insertRow
  <2>1. /\ UNCHANGED <<position, life, fileID>> /\ pc = "insertRow" /\ pc' = "newFile"
        /\ ~dbError' => ~dbError /\ rows' = Append(rows, fileID)
    BY <1>5 DEF insertRow, TypeOK
  <2>2. Len(rows') \in Nat /\ (~dbError' => Len(rows') = Len(rows) + 1)
    BY <1>5 DEF insertRow, TypeOK
  <2>. QED  BY <1>1, <1>2, <2>1, <2>2
<1>6. CASE newFile
  BY <1>1, <1>2, <1>6 DEF newFile, increaseFileID
<1>7. CASE Flush \/ Exit
  <2>1. UNCHANGED <<position, life, fileID, rows, dbError>>
    BY <1>7 DEF Flush, Exit
  <2>2. pc' # "newFile" \/ pc' = pc
    BY <1>7 DEF Flush, Exit
  <2>. QED  BY <1>1, <1>2, <2>1, <2>2
<1>8. CASE Crash
  BY <1>1, <1>2, <1>8 DEF Crash
<1>9. CASE UNCHANGED vars
  BY <1>1, <1>2, <1>9 DEF vars
<1>. QED  BY <1>3, <1>4, <1>5, <1>6, <1>7, <1>8, <1>9 DEF Next

LEMMA LastFileCorrect == Spec => []LastFileInv
<1>1. Init => LastFileInv
  BY DEF Init, LastFileInv
<1>. QED  BY <1>1, TypeCorrect, RowsCorrect, PlaceCorrect, LastFileStep, PTL DEF Spec

-----------------------------------------------------------------------------
\* What may be lost.
LEMMA LostStep ==
    /\ TypeOK /\ RowsNumbered /\ PlaceInv /\ LastFileInv /\ LostOnlyInLastFile
    /\ [Next]_vars
    => LostOnlyInLastFile'
<1> USE DEF fileVars, historyVars
<1> DEFINE Last(n) == \A m \in 1..Len(position) :
               position[m].life = position[n].life => position[m].file <= position[n].file
<1> SUFFICES ASSUME TypeOK, RowsNumbered, PlaceInv, LastFileInv, LostOnlyInLastFile,
                    [Next]_vars, ~dbError', NEW n \in 1..Len(position'), n \notin Safe'
             PROVE  /\ position'[n].life = life' => pc' = "down"
                    /\ \A m \in 1..Len(position') :
                          position'[m].life = position'[n].life
                              => position'[m].file <= position'[n].file
  BY DEF LostOnlyInLastFile
<1>1. Len(position) \in Nat /\ Len(rows) \in Nat /\ life \in Nat /\ fileID \in Nat
  BY DEF TypeOK
<1>2. ASSUME ~dbError, n \in 1..Len(position), n \notin Safe
      PROVE  (position[n].life = life => pc = "down") /\ Last(n)
  BY <1>2 DEF LostOnlyInLastFile
<1>3. CASE Start
  <2>1. /\ UNCHANGED <<position, rows, buffer>> /\ life' = life + 1 /\ pc = "down"
        /\ disk' = Opened(fileID', disk)
    BY <1>3 DEF Start
  <2>2. ~dbError /\ fileID' = Len(rows) + 1
    BY <1>1, <1>3 DEF Start, getTotalRows, FirstFile, TypeOK
  <2>3. position[n].life # life'
    BY <1>1, <2>1, FlowTypes DEF PlaceInv
  <2>4. Last(n)
    <3>1. CASE n \notin Safe
      BY <1>2, <2>1, <2>2, <3>1
    <3>2. CASE n \in Safe
      <4>1. PICK x \in disk : x.flow = n /\ x \notin disk'
        BY <2>1, <3>2 DEF Safe
      <4>2. x.file = Len(rows) + 1
        BY <2>1, <2>2, <4>1 DEF Opened
      <4>3. position[n].file = Len(rows) + 1
        BY <4>1, <4>2 DEF PlaceInv
      <4>4. \A m \in 1..Len(position) : position[m].file <= Len(rows) + 1
        BY <2>1, <2>2 DEF LastFileInv
      <4>. QED  BY <4>3, <4>4
    <3>. QED  BY <3>1, <3>2
  <2>. QED  BY <2>1, <2>3, <2>4
<1>4. CASE storeFlowRecords
  <2>1. /\ pc = "write" /\ UNCHANGED <<life, fileID, disk, dbError>>
        /\ buffer' = buffer \cup {Len(position) + 1}
    BY <1>4 DEF storeFlowRecords
  <2>2. /\ Len(position') = Len(position) + 1
        /\ \A m \in 1..Len(position) : position'[m] = position[m]
        /\ position'[Len(position) + 1].life = life
    BY <1>4, AppendedFlow
  <2>3. n \in 1..Len(position) /\ n \notin Safe
    BY <1>1, <2>1, <2>2 DEF Safe
  <2>4. position[n].life # life /\ Last(n)
    BY <1>2, <2>1, <2>3
  <2>5. ASSUME NEW m \in 1..Len(position'), position'[m].life = position'[n].life
        PROVE  position'[m].file <= position'[n].file
    <3>1. m # Len(position) + 1
      BY <2>2, <2>3, <2>4, <2>5
    <3>2. m \in 1..Len(position)
      BY <1>1, <2>2, <3>1
    <3>. QED  BY <2>2, <2>3, <2>4, <2>5, <3>2
  <2>. QED  BY <2>1, <2>2, <2>3, <2>4, <2>5
\* A step after which no flow is lost that was not lost before.
<1>5. ASSUME UNCHANGED <<life, position, dbError>>, Safe \subseteq Safe', pc # "down"
      PROVE  /\ position'[n].life = life' => pc' = "down"
             /\ \A m \in 1..Len(position') :
                   position'[m].life = position'[n].life
                       => position'[m].file <= position'[n].file
  BY <1>2, <1>5
<1>6. CASE Flush
  <2>1. PICK k \in buffer : disk' = Flushed(k) /\ buffer' = {j \in buffer : j > k}
    BY <1>6 DEF Flush
  <2>2. ASSUME NEW m \in buffer PROVE m \in Safe'
    <3>1. m \in Nat /\ k \in Nat
      BY DEF TypeOK
    <3>2. CASE m > k
      BY <2>1, <3>2 DEF Safe
    <3>3. CASE m <= k
      <4>1. [file |-> fileID, flow |-> m] \in disk'
        BY <2>1, <3>3 DEF Flushed
      <4>. QED  BY <4>1 DEF Safe
    <3>. QED  BY <3>1, <3>2, <3>3
  <2>3. disk \subseteq disk'
    BY <2>1 DEF Flushed
  <2>4. Safe \subseteq Safe'
    BY <2>2, <2>3 DEF Safe
  <2>5. pc # "down" /\ UNCHANGED <<life, position, dbError>>
    BY <1>6 DEF Flush, TypeOK
  <2>. QED  BY <1>5, <2>4, <2>5
<1>7. CASE insertRow
  <2>1. ~dbError /\ pc = "insertRow" /\ UNCHANGED <<life, position, buffer, disk>>
    BY <1>7 DEF insertRow, TypeOK
  <2>2. n \notin Safe /\ n \in 1..Len(position)
    BY <2>1 DEF Safe
  <2>3. position[n].life # life /\ Last(n)
    BY <1>2, <2>1, <2>2
  <2>. QED  BY <2>1, <2>3
<1>8. ASSUME disk' = Opened(fileID + 1, Closed),
             \A x \in disk : x.file # fileID + 1
      PROVE  Safe \subseteq Safe'
  <2>1. \A x \in Closed : x.file # fileID + 1
    BY <1>1, <1>8 DEF Closed
  <2>2. disk' = Closed
    BY <1>8, <2>1 DEF Opened
  <2>3. ASSUME NEW m \in buffer PROVE m \in Safe'
    <3>1. [file |-> fileID, flow |-> m] \in disk'
      BY <2>2 DEF Closed
    <3>. QED  BY <3>1 DEF Safe
  <2>4. disk \subseteq disk'
    BY <2>2 DEF Closed
  <2>. QED  BY <2>3, <2>4 DEF Safe
<1>9. CASE newFile
  <2>1. /\ pc = "newFile" /\ UNCHANGED <<life, position, dbError>>
        /\ disk' = Opened(fileID + 1, Closed)
    BY <1>9 DEF newFile, increaseFileID
  <2>2. fileID = Len(rows)
    BY <2>1 DEF RowsNumbered
  <2>3. ASSUME NEW x \in disk PROVE x.file # fileID + 1
    <3>1. x.flow \in 1..Len(position) /\ position[x.flow].file = x.file
      BY DEF PlaceInv
    <3>2. position[x.flow].file \in Nat /\ position[x.flow].file <= Len(rows)
      BY <1>1, <2>1, <3>1, FlowTypes DEF LastFileInv
    <3>. QED  BY <1>1, <2>2, <3>1, <3>2
  <2>. QED  BY <1>5, <1>8, <2>1, <2>3
<1>10. CASE Exit
  <2>1. /\ pc = "write" /\ UNCHANGED <<life, position, dbError>> /\ disk' = Closed
    BY <1>10 DEF Exit
  <2>2. ASSUME NEW m \in buffer PROVE m \in Safe'
    <3>1. [file |-> fileID, flow |-> m] \in disk'
      BY <2>1 DEF Closed
    <3>. QED  BY <3>1 DEF Safe
  <2>3. Safe \subseteq Safe'
    <3>1. disk \subseteq disk'
      BY <2>1 DEF Closed
    <3>. QED  BY <2>2, <3>1 DEF Safe
  <2>. QED  BY <1>5, <2>1, <2>3
<1>11. CASE Crash
  <2>1. /\ pc # "down" /\ pc' = "down" /\ UNCHANGED <<life, position, dbError, disk>>
    BY <1>11 DEF Crash
  <2>2. Last(n)
    <3>1. CASE n \notin Safe
      BY <1>2, <2>1, <3>1
    <3>2. CASE n \in Safe
      <4>1. n \in buffer
        BY <2>1, <3>2 DEF Safe
      <4>2. position[n].file = fileID /\ position[n].life = life
        BY <2>1, <4>1 DEF PlaceInv, FromEnd
      <4>. QED  BY <4>2 DEF LastFileInv
    <3>. QED  BY <3>1, <3>2
  <2>. QED  BY <2>1, <2>2
<1>12. CASE UNCHANGED vars
  <2>1. UNCHANGED <<pc, life, position, buffer, disk, dbError>>
    BY <1>12 DEF vars
  <2>2. n \notin Safe /\ n \in 1..Len(position) /\ ~dbError
    BY <2>1 DEF Safe
  <2>3. (position[n].life = life => pc = "down") /\ Last(n)
    BY <1>2, <2>2
  <2>. QED  BY <2>1, <2>3
<1>. QED  BY <1>3, <1>4, <1>6, <1>7, <1>9, <1>10, <1>11, <1>12 DEF Next

\* As long as no query fails, a flow is lost only in the last file of a life that has ended.
THEOREM LostCorrect == Spec => []LostOnlyInLastFile
<1>1. Init => LostOnlyInLastFile
  BY DEF Init, LostOnlyInLastFile
<1>. QED  BY <1>1, TypeCorrect, RowsCorrect, PlaceCorrect, LastFileCorrect, LostStep, PTL DEF Spec

\* The inductive invariant as a whole.
THEOREM CatalogCorrect == Spec => []CatalogInv
<1>1. TypeOK /\ RowsNumbered /\ PlaceInv /\ LastFileInv /\ OneLifePerFile /\ LostOnlyInLastFile
          => CatalogInv
  BY DEF CatalogInv
<1>. QED  BY <1>1, TypeCorrect, RowsCorrect, PlaceCorrect, LastFileCorrect, OneLifeCorrect,
             LostCorrect, PTL

=============================================================================
