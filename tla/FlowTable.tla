----------------------------- MODULE FlowTable -----------------------------
(***************************************************************************)
(* Packet mode of traceDB: captureThread puts every IPv4 packet into the   *)
(* hash table of flows (hash_table.cpp, hash_bucket.cpp), scanHashTable    *)
(* (main.cpp) walks the table, writes each flow that has timed out to the  *)
(* trace file, deletes it and dumps the file. HEAD compiles both threads   *)
(* but does not list them in threads_list.                                 *)
(*                                                                         *)
(* addPacket and deleteItem are critical sections of HashBucket::mutex_,   *)
(* and each is one step. scanHashTable holds an iterator between them      *)
(* without the mutex; each of its accesses to the bucket is a step. Only   *)
(* the scan erases and addPacket appends, so an iterator is a place in the *)
(* bucket's list. A packet is its number in the capture.                   *)
(***************************************************************************)
EXTENDS Naturals, Sequences, FiniteSets

CONSTANTS
    Tuples,        \* five-tuples
    NumBuckets,    \* table_size_
    BucketOf,      \* hashCode() % table_size_
    NumPackets,    \* packets captured, at most: bounds the capture
    MaxFileItems   \* TRACE_FILE_MAX_SIZE, counted in written items

Buckets == 1..NumBuckets

ASSUME FlowTableAssumption ==
    /\ NumBuckets \in Nat \ {0}
    /\ BucketOf \in [Tuples -> Buckets]
    /\ NumPackets \in Nat
    /\ MaxFileItems \in Nat \ {0}

VARIABLES
    buckets,        \* per bucket the list of PacketsItem
    captured,       \* captured[n]: the five-tuple of packet n
    captureDone,    \* capture_done
    sPc, bucket, it,  \* the scan: where it is, its bucket, its iterator
    trace,          \* the items written to trace files, the last one maybe in part
    fileItems,      \* total_bytes_, counted in items
    fileID, dumped  \* the current trace file and those that have a row

scanVars == <<sPc, bucket, it>>
traceVars == <<trace, fileItems, fileID, dumped>>
vars == <<buckets, captured, captureDone, scanVars, traceVars>>

Init ==
    /\ buckets = [b \in Buckets |-> <<>>]
    /\ captured = <<>> /\ captureDone = FALSE
    /\ sPc = "visit" /\ bucket = 1 /\ it = 1
    /\ trace = <<>> /\ fileItems = 0
    /\ fileID = 1 /\ dumped = {}

-----------------------------------------------------------------------------
(* The capture. *)

\* Mutant: every packet becomes an item of its own.
NoItem(list, t) == {}

\* The items of five-tuple t (equalsTo).
ItemsOf(list, t) == {k \in 1..Len(list) : list[k].flow = t}

\* Mutant: a packet is put in front of its item's packets.
AddedInFront(item, n) ==
    [flow |-> item.flow, packets |-> <<n>> \o item.packets, timedOut |-> FALSE]

\* PacketsItem::addPacket: its last packet is new, so the item is not due.
Added(item, n) ==
    [flow |-> item.flow, packets |-> Append(item.packets, n), timedOut |-> FALSE]

\* What HashBucket::addPacket makes of a bucket.
WithPacket(list, t, n) ==
    IF ItemsOf(list, t) = {}
    THEN Append(list, [flow |-> t, packets |-> <<n>>, timedOut |-> FALSE])
    ELSE LET k == CHOOSE k \in ItemsOf(list, t) : \A m \in ItemsOf(list, t) : k <= m
         IN  [list EXCEPT ![k] = Added(@, n)]

\* captureThread: the next IPv4 packet is copied and added to the bucket of its hash.
addPacket(t) ==
    LET n == Len(captured) + 1 IN
    /\ ~captureDone
    /\ n <= NumPackets
    /\ captured' = Append(captured, t)
    /\ buckets' = [buckets EXCEPT ![BucketOf[t]] = WithPacket(@, t, n)]
    /\ UNCHANGED <<captureDone, scanVars, traceVars>>

\* getNextPacket fails: the capture is over.
EndOfCapture ==
    /\ ~captureDone
    /\ captureDone' = TRUE
    /\ UNCHANGED <<buckets, captured, scanVars, traceVars>>

TimedOut(list, k) ==
    [list EXCEPT ![k] = [flow |-> list[k].flow, packets |-> list[k].packets, timedOut |-> TRUE]]

\* The clock passes the time-out of an item that got no packet meanwhile.
TimeOut(b, k) ==
    /\ k \in 1..Len(buckets[b])
    /\ ~buckets[b][k].timedOut
    /\ buckets' = [buckets EXCEPT ![b] = TimedOut(@, k)]
    /\ UNCHANGED <<captured, captureDone, scanVars, traceVars>>

-----------------------------------------------------------------------------
(* The scan. *)

\* Mutant: the walk over a bucket leaves out its last item.
LastLeftOut == it >= Len(buckets[bucket])

\* it == end()
AtEnd == it > Len(buckets[bucket])

Item == buckets[bucket][it]

Goto(pc) ==
    /\ sPc' = pc
    /\ UNCHANGED <<bucket, it>>

\* needToExport() is false: ++it.
skipItem ==
    /\ sPc = "visit" /\ ~AtEnd /\ ~Item.timedOut
    /\ it' = it + 1
    /\ UNCHANGED <<buckets, captured, captureDone, sPc, bucket, traceVars>>

\* needToExport() is true.
needToExport ==
    /\ sPc = "visit" /\ ~AtEnd /\ Item.timedOut
    /\ Goto("count")
    /\ UNCHANGED <<buckets, captured, captureDone, traceVars>>

\* Mutant: the number of packets is written as one more than the item has.
CountOneMore == Len(Item.packets) + 1

PacketsCount == Len(Item.packets)

\* PacketsItem::write2file writes the number of packets first.
writeCount ==
    /\ sPc = "count"
    /\ trace' = Append(trace, [flow |-> Item.flow, file |-> fileID,
                               count |-> PacketsCount, packets |-> <<>>])
    /\ Goto("packets")
    /\ UNCHANGED <<buckets, captured, captureDone, fileItems, fileID, dumped>>

Current == trace[Len(trace)]
Written == Current.packets

\* Mutant: the loop ends before the last packet.
StopEarly == Len(Written) + 1 >= Len(Item.packets)

\* it == packets_.end()
AllWritten == Len(Written) >= Len(Item.packets)

More(item, n) ==
    [flow |-> item.flow, file |-> item.file, count |-> item.count,
     packets |-> Append(item.packets, n)]

\* It then writes the packets it finds in the item's list, one after the other.
writePacket ==
    /\ sPc = "packets"
    /\ ~AllWritten
    /\ trace' = [trace EXCEPT ![Len(trace)] = More(@, Item.packets[Len(Written) + 1])]
    /\ UNCHANGED <<buckets, captured, captureDone, scanVars, fileItems, fileID, dumped>>

\* The item is written: total_bytes_ grows, and the flow is indexed (IndexPipeline).
endOfItem ==
    /\ sPc = "packets"
    /\ AllWritten
    /\ fileItems' = fileItems + 1
    /\ Goto("delete")
    /\ UNCHANGED <<buckets, captured, captureDone, trace, fileID, dumped>>

\* Mutant: the item stays in the list.
KeepItem(list, k) == list

Without(list, k) == SubSeq(list, 1, k - 1) \o SubSeq(list, k + 1, Len(list))

\* deleteItem frees the item and its packets; the iterator is that of the next item.
deleteItem ==
    /\ sPc = "delete"
    /\ buckets' = [buckets EXCEPT ![bucket] = Without(@, it)]
    /\ Goto("visit")
    /\ UNCHANGED <<captured, captureDone, traceVars>>

MoreBuckets == bucket < NumBuckets

\* it == end(): the scan goes to the next bucket, after the last one to the dump.
nextBucket ==
    /\ sPc = "visit" /\ AtEnd
    /\ IF MoreBuckets
       THEN sPc' = "visit" /\ bucket' = bucket + 1
       ELSE sPc' = "dump" /\ bucket' = 1
    /\ it' = 1
    /\ UNCHANGED <<buckets, captured, captureDone, traceVars>>

\* Mutant: the rest is not dumped when the capture is over.
DumpFullOnly == fileItems >= MaxFileItems

DumpNeeded == fileItems >= MaxFileItems \/ (captureDone /\ fileItems > 0)

\* dumpTraceAndIndex, if it is needed, and a new round after the sleep.
dumpTrace ==
    /\ sPc = "dump"
    /\ IF DumpNeeded
       THEN dumped' = dumped \cup {fileID} /\ fileID' = fileID + 1 /\ fileItems' = 0
       ELSE UNCHANGED <<dumped, fileID, fileItems>>
    /\ Goto("visit")
    /\ UNCHANGED <<buckets, captured, captureDone, trace>>

-----------------------------------------------------------------------------

Capture == EndOfCapture \/ \E t \in Tuples : addPacket(t)

Clock == \E b \in Buckets : \E k \in 1..Len(buckets[b]) : TimeOut(b, k)

Scan ==
    \/ skipItem \/ needToExport
    \/ writeCount \/ writePacket \/ endOfItem \/ deleteItem
    \/ nextBucket \/ dumpTrace

Next == Capture \/ Clock \/ Scan

Spec == Init /\ [][Next]_vars

\* The scan never returns, time passes, and the capture ends (an offline capture, or
\* the device is closed). An item that gets no packet in between times out.
FairSpec == Spec /\ WF_vars(EndOfCapture) /\ WF_vars(Clock) /\ WF_vars(Scan)

-----------------------------------------------------------------------------
(* Properties. *)

PacketNumbers == 1..NumPackets

FlowItem == [flow : Tuples, packets : Seq(PacketNumbers), timedOut : BOOLEAN]
TraceItem == [flow : Tuples, file : Nat, count : Nat, packets : Seq(PacketNumbers)]

\* Every variable has its type; the scan's iterator is at most end().
TypeOK ==
    /\ buckets \in [Buckets -> Seq(FlowItem)]
    /\ captured \in Seq(Tuples) /\ captureDone \in BOOLEAN
    /\ sPc \in {"visit", "count", "packets", "delete", "dump"}
    /\ bucket \in Buckets /\ it \in 1..Len(buckets[bucket]) + 1
    /\ sPc \in {"count", "packets", "delete"} => ~AtEnd
    /\ trace \in Seq(TraceItem) /\ fileItems \in Nat
    /\ fileID \in Nat \ {0} /\ dumped \subseteq 1..fileID - 1

\* Where packet n is: the table's items and the trace's items that hold it.
TablePlaces(n) ==
    {p \in Buckets \X (1..NumPackets) \X (1..NumPackets) :
        /\ p[2] <= Len(buckets[p[1]]) /\ p[3] <= Len(buckets[p[1]][p[2]].packets)
        /\ buckets[p[1]][p[2]].packets[p[3]] = n}
TracePlaces(n) ==
    {p \in (1..Len(trace)) \X (1..NumPackets) :
        p[2] <= Len(trace[p[1]].packets) /\ trace[p[1]].packets[p[2]] = n}

\* The item under the iterator is being exported.
Exporting(b, k) == sPc \in {"count", "packets", "delete"} /\ b = bucket /\ k = it

\* At most one item of the table is of a five-tuple, in the bucket of its hash, even when
\* packets arrive while its last item is exported and deleted.
OneItemPerFlow ==
    \A b \in Buckets : \A k \in 1..Len(buckets[b]) :
        /\ BucketOf[buckets[b][k].flow] = b
        /\ buckets[b][k].packets # <<>>
        /\ \A m \in 1..Len(buckets[b]) : buckets[b][m].flow = buckets[b][k].flow => m = k

\* A packet is written to the trace at most once, and one that is written is in the table
\* only while its item is being exported.
ExportedOnce ==
    \A n \in 1..Len(captured) :
        /\ Cardinality(TracePlaces(n)) <= 1
        /\ Cardinality(TablePlaces(n)) <= 1
        /\ TracePlaces(n) # {} => \A p \in TablePlaces(n) : Exporting(p[1], p[2])

\* The packets of a flow are in the trace, and then in the table, in the order of their
\* capture: the last packet of an item is the one its time-out is counted from.
PacketsInOrder ==
    /\ \A j, k \in 1..Len(trace) : trace[j].flow = trace[k].flow =>
          \A x \in 1..Len(trace[j].packets), y \in 1..Len(trace[k].packets) :
              j < k \/ (j = k /\ x < y) => trace[j].packets[x] < trace[k].packets[y]
    /\ \A b \in Buckets : \A k \in 1..Len(buckets[b]) :
          LET item == buckets[b][k] IN
          /\ \A x, y \in 1..Len(item.packets) : x < y => item.packets[x] < item.packets[y]
          /\ ~Exporting(b, k) =>
                \A j \in 1..Len(trace) : trace[j].flow = item.flow =>
                    \A x \in 1..Len(trace[j].packets), y \in 1..Len(item.packets) :
                        trace[j].packets[x] < item.packets[y]

\* An item in the trace is followed by at least as many packets as its count says: when
\* PacketsItem::readFromFile reads it back it never runs into the next item. The packets
\* that were counted are in the trace when the item is deleted.
CountCovered ==
    \A k \in 1..Len(trace) :
        \/ trace[k].count <= Len(trace[k].packets)
        \/ k = Len(trace) /\ sPc = "packets"

\* Packets disappear only in deleteItem, and only those that reached the item under the
\* iterator after its packets were counted: never one that was there when it timed out.
LossOnlyAfterExport ==
    [][\A n \in 1..Len(captured) :
          TablePlaces(n) \cup TracePlaces(n) # {} /\ (TablePlaces(n) \cup TracePlaces(n))' = {}
              => /\ sPc = "delete"
                 /\ \E m \in trace[Len(trace)].count + 1..Len(Item.packets) :
                       Item.packets[m] = n]_vars

\* Every packet leaves the table, exported or lost.
PacketsLeaveTable ==
    \A n \in PacketNumbers : TablePlaces(n) # {} ~> TablePlaces(n) = {}

\* Every item in the trace gets a row in the table of trace files.
ExportedDumped ==
    \A n \in PacketNumbers :
        TracePlaces(n) # {} ~> \E k \in 1..Len(trace), m \in 1..NumPackets :
            <<k, m>> \in TracePlaces(n) /\ trace[k].file \in dumped

\* "iterator is not thread-safe so lock()/unlock() should be call when used"
\* (hash_bucket.h): under the lock no packet could come between the export of an item and
\* its deletion, and every captured packet would be in the table or in the trace.
NoPacketLost ==
    \A n \in 1..Len(captured) : TablePlaces(n) \cup TracePlaces(n) # {}

=============================================================================
