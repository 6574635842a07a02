-------------------------- MODULE FlowTable_proofs --------------------------
(***************************************************************************)
(* Theorems about FlowTable for every number of buckets, five-tuples and   *)
(* packets and every size of trace file. The table is proved first (its    *)
(* type and one item per flow, which need each other: the item a packet is *)
(* added to is the first of its flow because it is the only one), then     *)
(* what the export has written of the item under the iterator, then order. *)
(***************************************************************************)
EXTENDS FlowTable, FiniteSetTheorems, SequenceTheorems, TLAPS

Distinct(list) ==
    \A j, k \in 1..Len(list) : list[j].flow = list[k].flow => j = k

LEMMA ItemType ==
    ASSUME NEW list \in Seq(FlowItem), NEW k \in 1..Len(list)
    PROVE  /\ list[k] \in FlowItem /\ list[k].flow \in Tuples
           /\ list[k].packets \in Seq(PacketNumbers) /\ Len(list[k].packets) \in Nat
           /\ list[k].timedOut \in BOOLEAN
<1>1. list[k] \in FlowItem
  OBVIOUS
<1>. QED  BY <1>1 DEF FlowItem

\* PacketsItem::addPacket appends the packet and changes no other packet.
LEMMA AddedLemma ==
    ASSUME NEW item \in FlowItem, NEW n \in PacketNumbers
    PROVE  /\ Added(item, n) \in FlowItem
           /\ Added(item, n).flow = item.flow
           /\ Added(item, n).packets = Append(item.packets, n)
<1>1. item.packets \in Seq(PacketNumbers) /\ item.flow \in Tuples
  BY DEF FlowItem
<1>2. Append(item.packets, n) \in Seq(PacketNumbers)
  BY <1>1, AppendProperties
<1> DEFINE more == Append(item.packets, n)
<1>3. Added(item, n) = [flow |-> item.flow, packets |-> more, timedOut |-> FALSE]
  BY DEF Added
<1> HIDE DEF more
<1>4. [flow |-> item.flow, packets |-> more, timedOut |-> FALSE] \in FlowItem
  BY <1>1, <1>2 DEF FlowItem, more
<1>. QED  BY <1>3, <1>4 DEF more

\* HashBucket::addPacket: every item keeps its place; the flow's item, or a new last
\* one, has the packet as its last.
LEMMA WithPacketLemma ==
    ASSUME NEW list \in Seq(FlowItem), Distinct(list), NEW t \in Tuples, NEW n \in PacketNumbers
    PROVE  /\ WithPacket(list, t, n) \in Seq(FlowItem)
           /\ Len(list) <= Len(WithPacket(list, t, n))
           /\ Len(WithPacket(list, t, n)) <= Len(list) + 1
           /\ \A k \in 1..Len(WithPacket(list, t, n)) :
                 \/ k \in 1..Len(list) /\ WithPacket(list, t, n)[k] = list[k]
                 \/ /\ k \in 1..Len(list) /\ list[k].flow = t
                    /\ WithPacket(list, t, n)[k].flow = t
                    /\ WithPacket(list, t, n)[k].packets = Append(list[k].packets, n)
                 \/ /\ k = Len(list) + 1 /\ \A m \in 1..Len(list) : list[m].flow # t
                    /\ WithPacket(list, t, n)[k].flow = t
                    /\ WithPacket(list, t, n)[k].packets = <<n>>
<1>1. CASE ItemsOf(list, t) = {}
  <2> DEFINE item == [flow |-> t, packets |-> <<n>>, timedOut |-> FALSE]
  <2>1. item \in FlowItem /\ item.flow = t /\ item.packets = <<n>>
    BY DEF FlowItem
  <2>2. WithPacket(list, t, n) = Append(list, item)
    BY <1>1 DEF WithPacket
  <2>3. \A m \in 1..Len(list) : list[m].flow # t
    BY <1>1 DEF ItemsOf
  <2> HIDE DEF item
  <2>. QED  BY <2>1, <2>2, <2>3
<1>2. CASE ItemsOf(list, t) # {}
  <2>1. PICK k \in ItemsOf(list, t) : TRUE
    BY <1>2
  <2>2. k \in 1..Len(list) /\ list[k].flow = t
    BY <2>1 DEF ItemsOf
  <2>3. ItemsOf(list, t) = {k}
    BY <2>2 DEF ItemsOf, Distinct
  <2>4. (CHOOSE i \in ItemsOf(list, t) : \A m \in ItemsOf(list, t) : i <= m) = k
    BY <2>2, <2>3
  <2>5. list[k] \in FlowItem
    BY <2>2
  <2>6. /\ Added(list[k], n) \in FlowItem
        /\ Added(list[k], n).flow = t
        /\ Added(list[k], n).packets = Append(list[k].packets, n)
    BY <2>2, <2>5, AddedLemma
  <2>7. WithPacket(list, t, n) = [list EXCEPT ![k] = Added(list[k], n)]
    BY <1>2, <2>4 DEF WithPacket
  <2>. QED  BY <2>2, <2>6, <2>7
<1>. QED  BY <1>1, <1>2

\* HashBucket::deleteItem: the items behind the deleted one move up by one.
LEMMA WithoutLemma ==
    ASSUME NEW list \in Seq(FlowItem), NEW k \in 1..Len(list)
    PROVE  /\ Without(list, k) \in Seq(FlowItem)
           /\ Len(Without(list, k)) = Len(list) - 1
           /\ \A m \in 1..Len(list) - 1 :
                 Without(list, k)[m] = IF m < k THEN list[m] ELSE list[m + 1]
<1> DEFINE front == SubSeq(list, 1, k - 1)
           back == SubSeq(list, k + 1, Len(list))
<1>0. Len(list) \in Nat /\ k \in Nat /\ 1 <= k /\ k <= Len(list)
  OBVIOUS
<1>1. front \in Seq(FlowItem) /\ Len(front) = k - 1 /\ \A m \in 1..k - 1 : front[m] = list[m]
  OBVIOUS
<1>2. /\ back \in Seq(FlowItem) /\ Len(back) = Len(list) - k
      /\ \A m \in 1..Len(list) - k : back[m] = list[m + k]
  OBVIOUS
<1> DEFINE whole == front \o back
<1>3. Without(list, k) = whole
  BY DEF Without
<1> HIDE DEF front, back
<1>4. /\ whole \in Seq(FlowItem) /\ Len(whole) = Len(front) + Len(back)
      /\ \A m \in 1..Len(front) + Len(back) :
            whole[m] = IF m <= Len(front) THEN front[m] ELSE back[m - Len(front)]
  BY <1>1, <1>2, ConcatProperties
<1> HIDE DEF whole
<1>5. ASSUME NEW m \in 1..Len(list) - 1
      PROVE  whole[m] = IF m < k THEN list[m] ELSE list[m + 1]
  <2>1. m \in Nat /\ 1 <= m /\ m <= Len(list) - 1
    BY <1>0
  <2>2. whole[m] = IF m <= k - 1 THEN front[m] ELSE back[m - (k - 1)]
    BY <1>0, <1>1, <1>2, <1>4, <2>1
  <2>3. CASE m < k
    BY <1>0, <1>1, <2>1, <2>2, <2>3
  <2>4. CASE m >= k
    <3>1. m - (k - 1) \in 1..Len(list) - k /\ m - (k - 1) + k = m + 1
      BY <1>0, <2>1, <2>4
    <3>2. back[m - (k - 1)] = list[m - (k - 1) + k]
      BY <1>2, <3>1
    <3>. QED  BY <1>0, <2>1, <2>2, <2>4, <3>1, <3>2
  <2>. QED  BY <1>0, <2>1, <2>3, <2>4
<1>. QED  BY <1>0, <1>1, <1>2, <1>3, <1>4, <1>5

-----------------------------------------------------------------------------
(* The table and the export.                                               *)

\* What HashBucket promises of the list of bucket b.
TableList(b, list) ==
    /\ list \in Seq(FlowItem) /\ Distinct(list)
    /\ \A k \in 1..Len(list) : BucketOf[list[k].flow] = b /\ list[k].packets # <<>>

Exports == sPc \in {"packets", "delete"}

\* While an item is exported the last item of the trace is a copy of its first packets,
\* and counts no more packets than it has.
ExportHolds ==
    Exports =>
        /\ trace # <<>> /\ Current.flow = Item.flow
        /\ Current.count <= Len(Item.packets) /\ Len(Written) <= Len(Item.packets)
        /\ \A m \in 1..Len(Written) : Written[m] = Item.packets[m]
        /\ sPc = "delete" => Current.count <= Len(Written)

TableInv == TypeOK /\ OneItemPerFlow /\ ExportHolds

LEMMA TableListsHold ==
    ASSUME TypeOK, OneItemPerFlow
    PROVE  \A b \in Buckets : TableList(b, buckets[b])
BY DEF TypeOK, OneItemPerFlow, TableList, Distinct

\* One bucket is changed, and its list stays one of single items.
LEMMA TableListChanged ==
    ASSUME TypeOK, OneItemPerFlow, NEW b \in Buckets, NEW list, TableList(b, list),
           buckets' = [buckets EXCEPT ![b] = list]
    PROVE  /\ buckets' \in [Buckets -> Seq(FlowItem)]
           /\ OneItemPerFlow'
           /\ buckets'[b] = list /\ \A d \in Buckets \ {b} : buckets'[d] = buckets[d]
<1>1. /\ buckets' \in [Buckets -> Seq(FlowItem)]
      /\ buckets'[b] = list /\ \A d \in Buckets \ {b} : buckets'[d] = buckets[d]
  BY DEF TypeOK, TableList
<1>2. \A d \in Buckets : TableList(d, buckets'[d])
  BY <1>1, TableListsHold
<1>. QED  BY <1>1, <1>2 DEF OneItemPerFlow, TableList, Distinct

LEMMA WithPacketKeeps ==
    ASSUME NEW t \in Tuples, NEW list, TableList(BucketOf[t], list), NEW n \in PacketNumbers
    PROVE  TableList(BucketOf[t], WithPacket(list, t, n))
<1> DEFINE new == WithPacket(list, t, n)
<1>1. list \in Seq(FlowItem) /\ Distinct(list)
  BY DEF TableList
<1>2. \A k \in 1..Len(list) : list[k].packets \in Seq(PacketNumbers)
  BY <1>1, ItemType
<1>3. /\ new \in Seq(FlowItem) /\ Len(list) <= Len(new) /\ Len(new) <= Len(list) + 1
      /\ \A k \in 1..Len(new) :
            \/ k \in 1..Len(list) /\ new[k] = list[k]
            \/ /\ k \in 1..Len(list) /\ list[k].flow = t
               /\ new[k].flow = t /\ new[k].packets = Append(list[k].packets, n)
            \/ /\ k = Len(list) + 1 /\ \A m \in 1..Len(list) : list[m].flow # t
               /\ new[k].flow = t /\ new[k].packets = <<n>>
  BY <1>1, WithPacketLemma
<1> HIDE DEF new
<1>4. \A k \in 1..Len(list) : Append(list[k].packets, n) # <<>>
  BY <1>2, AppendProperties
<1>5. \A k \in 1..Len(new) : BucketOf[new[k].flow] = BucketOf[t] /\ new[k].packets # <<>>
  <2> SUFFICES ASSUME NEW k \in 1..Len(new)
               PROVE  BucketOf[new[k].flow] = BucketOf[t] /\ new[k].packets # <<>>
    OBVIOUS
  <2>1. CASE k \in 1..Len(list) /\ new[k] = list[k]
    BY <2>1 DEF TableList
  <2>2. CASE k \in 1..Len(list) /\ new[k].packets = Append(list[k].packets, n) /\ new[k].flow = t
    BY <1>4, <2>2
  <2>3. CASE new[k].packets = <<n>> /\ new[k].flow = t
    BY <2>3
  <2>. QED  BY <1>3, <2>1, <2>2, <2>3
<1>6. Distinct(new)
  BY <1>1, <1>3 DEF Distinct
<1>. QED  BY <1>3, <1>5, <1>6 DEF TableList, new

LEMMA WithoutKeeps ==
    ASSUME NEW b, NEW list, TableList(b, list), NEW k \in 1..Len(list)
    PROVE  TableList(b, Without(list, k))
<1> DEFINE new == Without(list, k)
<1>1. list \in Seq(FlowItem) /\ Len(list) \in Nat
  BY DEF TableList
<1>2. /\ new \in Seq(FlowItem) /\ Len(new) = Len(list) - 1
      /\ \A m \in 1..Len(list) - 1 : new[m] = IF m < k THEN list[m] ELSE list[m + 1]
  BY <1>1, WithoutLemma
<1> HIDE DEF new
<1>3. \A m \in 1..Len(new) : BucketOf[new[m].flow] = b /\ new[m].packets # <<>>
  <2> SUFFICES ASSUME NEW m \in 1..Len(new)
               PROVE  BucketOf[new[m].flow] = b /\ new[m].packets # <<>>
    OBVIOUS
  <2>1. PICK i \in 1..Len(list) : new[m] = list[i]
    BY <1>1, <1>2
  <2>. QED  BY <2>1 DEF TableList
<1>4. Distinct(new)
  <2> SUFFICES ASSUME NEW i \in 1..Len(new), NEW j \in 1..Len(new),
                      new[i].flow = new[j].flow
               PROVE  i = j
    BY DEF Distinct
  <2>1. /\ (IF i < k THEN i ELSE i + 1) \in 1..Len(list)
        /\ (IF j < k THEN j ELSE j + 1) \in 1..Len(list)
    BY <1>1, <1>2
  <2>2. /\ new[i] = list[IF i < k THEN i ELSE i + 1]
        /\ new[j] = list[IF j < k THEN j ELSE j + 1]
    BY <1>1, <1>2
  <2>3. (IF i < k THEN i ELSE i + 1) = (IF j < k THEN j ELSE j + 1)
    BY <2>1, <2>2 DEF TableList, Distinct
  <2>. QED  BY <1>1, <1>2, <2>3
<1>. QED  BY <1>2, <1>3, <1>4 DEF TableList, new

LEMMA TimedOutLemma ==
    ASSUME NEW list \in Seq(FlowItem), NEW k \in 1..Len(list)
    PROVE  /\ TimedOut(list, k) \in Seq(FlowItem) /\ Len(TimedOut(list, k)) = Len(list)
           /\ \A m \in 1..Len(list) : /\ TimedOut(list, k)[m].flow = list[m].flow
                                      /\ TimedOut(list, k)[m].packets = list[m].packets
<1> DEFINE item == [flow |-> list[k].flow, packets |-> list[k].packets, timedOut |-> TRUE]
<1>1. item \in FlowItem /\ item.flow = list[k].flow /\ item.packets = list[k].packets
  BY ItemType DEF FlowItem
<1>2. TimedOut(list, k) = [list EXCEPT ![k] = item]
  BY DEF TimedOut
<1> HIDE DEF item
<1>. QED  BY <1>1, <1>2

LEMMA TimedOutKeeps ==
    ASSUME NEW b, NEW list, TableList(b, list), NEW k \in 1..Len(list)
    PROVE  TableList(b, TimedOut(list, k))
<1>1. list \in Seq(FlowItem)
  BY DEF TableList
<1>. QED  BY <1>1, TimedOutLemma DEF TableList, Distinct

\* What one step makes of the item at place k of bucket b. Old: it was item m before.
Kept(b, k, m) == m \in 1..Len(buckets[b]) /\ buckets'[b][k] = buckets[b][m]
Grown(b, k, t, n) ==
    /\ k \in 1..Len(buckets[b]) /\ buckets[b][k].flow = t /\ buckets'[b][k].flow = t
    /\ buckets'[b][k].packets = Append(buckets[b][k].packets, n)
Fresh(b, k, t, n) ==
    /\ k = Len(buckets[b]) + 1 /\ \A m \in 1..Len(buckets[b]) : buckets[b][m].flow # t
    /\ buckets'[b][k].flow = t /\ buckets'[b][k].packets = <<n>>

LEMMA AddPacketEffect ==
    ASSUME TypeOK, OneItemPerFlow, NEW t \in Tuples, addPacket(t)
    PROVE  /\ buckets' \in [Buckets -> Seq(FlowItem)] /\ OneItemPerFlow'
           /\ BucketOf[t] \in Buckets /\ Len(captured) + 1 \in PacketNumbers
           /\ \A b \in Buckets : Len(buckets[b]) <= Len(buckets'[b])
           /\ \A b \in Buckets : \A k \in 1..Len(buckets'[b]) :
                 \/ Kept(b, k, k)
                 \/ b = BucketOf[t] /\ Grown(b, k, t, Len(captured) + 1)
                 \/ b = BucketOf[t] /\ Fresh(b, k, t, Len(captured) + 1)
<1> DEFINE n == Len(captured) + 1
           b == BucketOf[t]
           list == buckets[b]
           new == WithPacket(list, t, n)
<1>1. b \in Buckets /\ n \in PacketNumbers
  BY FlowTableAssumption DEF addPacket, PacketNumbers, TypeOK
<1>2. TableList(b, list)
  BY <1>1, TableListsHold
<1>3. buckets' = [buckets EXCEPT ![b] = new]
  BY DEF addPacket
<1>4. TableList(b, new)
  BY <1>1, <1>2, WithPacketKeeps
<1>5. list \in Seq(FlowItem) /\ Distinct(list)
  BY <1>2 DEF TableList
<1> HIDE DEF n, list
<1>6. /\ Len(list) <= Len(new)
      /\ \A k \in 1..Len(new) :
            \/ k \in 1..Len(list) /\ new[k] = list[k]
            \/ /\ k \in 1..Len(list) /\ list[k].flow = t
               /\ new[k].flow = t /\ new[k].packets = Append(list[k].packets, n)
            \/ /\ k = Len(list) + 1 /\ \A m \in 1..Len(list) : list[m].flow # t
               /\ new[k].flow = t /\ new[k].packets = <<n>>
  BY <1>1, <1>5, WithPacketLemma
<1> HIDE DEF b, new
<1>7. /\ buckets' \in [Buckets -> Seq(FlowItem)] /\ OneItemPerFlow'
      /\ buckets'[b] = new /\ \A d \in Buckets \ {b} : buckets'[d] = buckets[d]
  BY <1>1, <1>3, <1>4, TableListChanged
<1>8. \A d \in Buckets : Len(buckets[d]) \in Nat
  BY DEF TypeOK
<1>9. ASSUME NEW d \in Buckets
      PROVE  /\ Len(buckets[d]) <= Len(buckets'[d])
             /\ \A k \in 1..Len(buckets'[d]) :
                   \/ Kept(d, k, k)
                   \/ d = b /\ Grown(d, k, t, n)
                   \/ d = b /\ Fresh(d, k, t, n)
  <2>1. CASE d = b
    BY <1>6, <1>7, <2>1 DEF Kept, Grown, Fresh, list
  <2>2. CASE d # b
    BY <1>7, <1>8, <2>2 DEF Kept
  <2>. QED  BY <2>1, <2>2
<1>. QED  BY <1>1, <1>7, <1>9 DEF b, n

LEMMA DeleteItemEffect ==
    ASSUME TypeOK, OneItemPerFlow, deleteItem
    PROVE  /\ buckets' \in [Buckets -> Seq(FlowItem)] /\ OneItemPerFlow'
           /\ it \in 1..Len(buckets[bucket])
           /\ Len(buckets'[bucket]) = Len(buckets[bucket]) - 1
           /\ \A k \in 1..Len(buckets'[bucket]) : Kept(bucket, k, IF k < it THEN k ELSE k + 1)
           /\ \A b \in Buckets \ {bucket} : buckets'[b] = buckets[b]
<1> DEFINE list == buckets[bucket]
           new == Without(list, it)
<1>1. bucket \in Buckets /\ it \in 1..Len(list)
  BY DEF deleteItem, TypeOK, AtEnd
<1>2. TableList(bucket, list) /\ list \in Seq(FlowItem) /\ Len(list) \in Nat
  BY <1>1, TableListsHold DEF TypeOK
<1>3. TableList(bucket, new)
  BY <1>1, <1>2, WithoutKeeps
<1>4. /\ Len(new) = Len(list) - 1
      /\ \A m \in 1..Len(list) - 1 : new[m] = IF m < it THEN list[m] ELSE list[m + 1]
  BY <1>1, <1>2, WithoutLemma
<1>5. buckets' = [buckets EXCEPT ![bucket] = new]
  BY DEF deleteItem
<1> HIDE DEF new
<1>6. /\ buckets' \in [Buckets -> Seq(FlowItem)] /\ OneItemPerFlow'
      /\ buckets'[bucket] = new /\ \A d \in Buckets \ {bucket} : buckets'[d] = buckets[d]
  BY <1>1, <1>3, <1>5, TableListChanged
<1>7. ASSUME NEW k \in 1..Len(new) PROVE Kept(bucket, k, IF k < it THEN k ELSE k + 1)
  <2>1. new[k] = list[IF k < it THEN k ELSE k + 1]
    BY <1>1, <1>2, <1>4
  <2>2. (IF k < it THEN k ELSE k + 1) \in 1..Len(list)
    BY <1>1, <1>2, <1>4
  <2>. QED  BY <1>6, <2>1, <2>2 DEF Kept
<1>. QED  BY <1>1, <1>4, <1>6, <1>7

LEMMA TimeOutEffect ==
    ASSUME TypeOK, OneItemPerFlow, NEW b \in Buckets, NEW k, TimeOut(b, k)
    PROVE  /\ buckets' \in [Buckets -> Seq(FlowItem)] /\ OneItemPerFlow'
           /\ \A d \in Buckets : Len(buckets'[d]) = Len(buckets[d])
           /\ \A d \in Buckets : \A m \in 1..Len(buckets[d]) :
                 /\ buckets'[d][m].flow = buckets[d][m].flow
                 /\ buckets'[d][m].packets = buckets[d][m].packets
<1> DEFINE list == buckets[b]
           new == TimedOut(list, k)
<1>1. k \in 1..Len(list) /\ TableList(b, list) /\ list \in Seq(FlowItem)
  BY TableListsHold DEF TimeOut, TypeOK
<1>2. TableList(b, new)
  BY <1>1, TimedOutKeeps
<1>3. /\ Len(new) = Len(list)
      /\ \A m \in 1..Len(list) : new[m].flow = list[m].flow /\ new[m].packets = list[m].packets
  BY <1>1, TimedOutLemma
<1>4. buckets' = [buckets EXCEPT ![b] = new]
  BY DEF TimeOut
<1> HIDE DEF new
<1>5. /\ buckets' \in [Buckets -> Seq(FlowItem)] /\ OneItemPerFlow'
      /\ buckets'[b] = new /\ \A d \in Buckets \ {b} : buckets'[d] = buckets[d]
  BY <1>2, <1>4, TableListChanged
<1>. QED  BY <1>3, <1>5

LEMMA TraceItemType ==
    ASSUME NEW list \in Seq(TraceItem), NEW k \in 1..Len(list)
    PROVE  /\ list[k] \in TraceItem /\ list[k].flow \in Tuples /\ list[k].count \in Nat
           /\ list[k].file \in Nat
           /\ list[k].packets \in Seq(PacketNumbers) /\ Len(list[k].packets) \in Nat
<1>1. list[k] \in TraceItem
  OBVIOUS
<1>. QED  BY <1>1 DEF TraceItem

\* The item under the iterator exists, and at most its last packets are still to write.
LEMMA ItemUnderIterator ==
    ASSUME TypeOK, sPc \in {"count", "packets", "delete"}
    PROVE  /\ it \in 1..Len(buckets[bucket]) /\ bucket \in Buckets
           /\ Item.flow \in Tuples
           /\ Item.packets \in Seq(PacketNumbers) /\ Len(Item.packets) \in Nat
<1>1. it \in 1..Len(buckets[bucket]) /\ buckets[bucket] \in Seq(FlowItem) /\ bucket \in Buckets
  BY DEF TypeOK, AtEnd
<1>. QED  BY <1>1, ItemType DEF Item

\* PacketsItem::write2file starts an item in the trace with the number of its packets.
LEMMA WriteCountEffect ==
    ASSUME TypeOK, writeCount
    PROVE  /\ trace' \in Seq(TraceItem) /\ Len(trace') = Len(trace) + 1 /\ Len(trace) \in Nat
           /\ \A k \in 1..Len(trace) : trace'[k] = trace[k]
           /\ trace'[Len(trace) + 1].flow = Item.flow
           /\ trace'[Len(trace) + 1].count = Len(Item.packets)
           /\ trace'[Len(trace) + 1].packets = <<>>
<1> DEFINE item == [flow |-> Item.flow, file |-> fileID, count |-> Len(Item.packets),
                    packets |-> <<>>]
<1>1. Item.flow \in Tuples /\ Len(Item.packets) \in Nat
  BY ItemUnderIterator DEF writeCount
<1>2. /\ item \in TraceItem /\ item.flow = Item.flow /\ item.count = Len(Item.packets)
      /\ item.packets = <<>>
  BY <1>1 DEF TraceItem, TypeOK
<1>3. trace' = Append(trace, item) /\ trace \in Seq(TraceItem)
  BY DEF writeCount, PacketsCount, TypeOK
<1> HIDE DEF item
<1>. QED  BY <1>2, <1>3, AppendProperties

\* It then adds the packets of the item one by one.
LEMMA WritePacketEffect ==
    ASSUME TypeOK, ExportHolds, writePacket
    PROVE  /\ trace' \in Seq(TraceItem) /\ Len(trace') = Len(trace)
           /\ Len(trace) \in 1..Len(trace)
           /\ \A k \in 1..Len(trace) : k # Len(trace) => trace'[k] = trace[k]
           /\ Len(Written) + 1 \in 1..Len(Item.packets)
           /\ Current'.flow = Current.flow /\ Current'.count = Current.count
           /\ Written' = Append(Written, Item.packets[Len(Written) + 1])
<1> DEFINE last == Len(trace)
           p == Item.packets[Len(Written) + 1]
           item == More(Current, p)
<1>1. last \in 1..Len(trace) /\ trace \in Seq(TraceItem)
  BY DEF TypeOK, ExportHolds, Exports, writePacket
<1>2. /\ Current.flow \in Tuples /\ Current.count \in Nat /\ Current.file \in Nat
      /\ Written \in Seq(PacketNumbers) /\ Len(Written) \in Nat
  BY <1>1, TraceItemType DEF Current, Written
<1>3. Item.packets \in Seq(PacketNumbers) /\ Len(Item.packets) \in Nat
  BY ItemUnderIterator DEF writePacket
<1>4. Len(Written) + 1 \in 1..Len(Item.packets)
  BY <1>2, <1>3 DEF writePacket, AllWritten
<1>5. p \in PacketNumbers
  BY <1>3, <1>4
<1> HIDE DEF p
<1>6. Append(Written, p) \in Seq(PacketNumbers)
  BY <1>2, <1>5, AppendProperties
<1> DEFINE written == Append(Written, p)
<1>7. item = [flow |-> Current.flow, file |-> Current.file, count |-> Current.count,
              packets |-> written]
  BY DEF More, Written
<1> HIDE DEF written, item
<1>8. /\ item \in TraceItem /\ item.flow = Current.flow /\ item.count = Current.count
      /\ item.packets = written
  BY <1>2, <1>6, <1>7 DEF TraceItem, written
<1>9. trace' = [trace EXCEPT ![last] = item]
  BY DEF writePacket, item, p, Current
<1>10. /\ trace' \in Seq(TraceItem) /\ Len(trace') = Len(trace)
       /\ trace'[last] = item
       /\ \A k \in 1..Len(trace) : k # last => trace'[k] = trace[k]
  BY <1>1, <1>8, <1>9
<1>11. Current' = item /\ Written' = item.packets
  BY <1>10 DEF Current, Written
<1>. QED  BY <1>1, <1>4, <1>8, <1>10, <1>11 DEF p, written

\* The type of every variable, one item per flow and the copy the export makes, for every
\* interleaving of capture, clock and scan.
THEOREM TableCorrect == Spec => []TableInv
<1> USE FlowTableAssumption
<1>1. Init => TableInv
  <2> SUFFICES ASSUME Init PROVE TableInv
    OBVIOUS
  <2>1. buckets \in [Buckets -> Seq(FlowItem)] /\ \A b \in Buckets : Len(buckets[b]) = 0
    BY DEF Init
  <2>2. bucket \in Buckets /\ captured \in Seq(Tuples) /\ trace \in Seq(TraceItem)
    BY DEF Init, Buckets
  <2>3. it \in 1..Len(buckets[bucket]) + 1 /\ dumped \subseteq 1..fileID - 1
    BY <2>1, <2>2 DEF Init
  <2>5. TypeOK
    <3>1. captureDone \in BOOLEAN /\ sPc = "visit"
      BY DEF Init
    <3>2. fileID = 1 /\ fileItems = 0
      BY DEF Init
    <3>3. fileID \in Nat \ {0} /\ fileItems \in Nat
      BY <3>2
    <3>. QED  BY <2>1, <2>2, <2>3, <3>1, <3>3 DEF TypeOK
  <2>4. OneItemPerFlow
    BY <2>1 DEF OneItemPerFlow
  <2>. QED  BY <2>4, <2>5 DEF Init, TableInv, ExportHolds, Exports
<1>2. TableInv /\ [Next]_vars => TableInv'
  <2> SUFFICES ASSUME TableInv, [Next]_vars PROVE TableInv'
    OBVIOUS
  <2> USE DEF TableInv
  <2>0. /\ bucket \in Buckets /\ buckets[bucket] \in Seq(FlowItem)
        /\ Len(buckets[bucket]) \in Nat /\ it \in Nat
    BY DEF TypeOK
  <2>1. ASSUME NEW t \in Tuples, addPacket(t) PROVE TableInv'
    <3>1. /\ buckets' \in [Buckets -> Seq(FlowItem)] /\ OneItemPerFlow'
          /\ Len(buckets[bucket]) <= Len(buckets'[bucket])
          /\ \A k \in 1..Len(buckets'[bucket]) :
                \/ Kept(bucket, k, k)
                \/ Grown(bucket, k, t, Len(captured) + 1)
                \/ Fresh(bucket, k, t, Len(captured) + 1)
          /\ Len(captured) + 1 \in PacketNumbers
      BY <2>0, <2>1, AddPacketEffect
    <3>2. UNCHANGED <<captureDone, sPc, bucket, it, trace, fileItems, fileID, dumped>>
      BY <2>1 DEF addPacket, scanVars, traceVars
    <3>3. captured' \in Seq(Tuples)
      BY <2>1, AppendProperties DEF addPacket, TypeOK
    <3>4. Len(buckets'[bucket]) \in Nat
      BY <2>0, <3>1
    <3>5. TypeOK'
      BY <2>0, <3>1, <3>2, <3>3, <3>4 DEF TypeOK, AtEnd
    <3>6. ExportHolds'
      <4> SUFFICES ASSUME Exports PROVE ExportHolds'
        BY <3>2 DEF ExportHolds, Exports
      <4>1. /\ it \in 1..Len(buckets[bucket]) /\ Item.packets \in Seq(PacketNumbers)
            /\ Len(Item.packets) \in Nat
        BY ItemUnderIterator DEF Exports
      <4>2. it \in 1..Len(buckets'[bucket])
        BY <2>0, <3>1, <3>4, <4>1
      <4>3. /\ Item'.flow = Item.flow /\ Len(Item.packets) <= Len(Item'.packets)
            /\ \A m \in 1..Len(Item.packets) : Item'.packets[m] = Item.packets[m]
        <5>1. CASE Kept(bucket, it, it)
          BY <3>2, <4>1, <5>1 DEF Kept, Item
        <5>2. CASE Grown(bucket, it, t, Len(captured) + 1)
          <6>1. /\ Item'.flow = Item.flow
                /\ Item'.packets = Append(Item.packets, Len(captured) + 1)
            BY <3>2, <5>2 DEF Grown, Item
          <6>. QED  BY <3>1, <4>1, <6>1, AppendProperties
        <5>3. CASE Fresh(bucket, it, t, Len(captured) + 1)
          BY <2>0, <4>1, <5>3 DEF Fresh
        <5>. QED  BY <3>1, <4>2, <5>1, <5>2, <5>3
      <4>4. trace # <<>> /\ Current' = Current /\ Written' = Written
        BY <3>2 DEF ExportHolds, Current, Written
      <4>5. Len(Written) \in Nat /\ Current.count \in Nat
        <5>1. Len(trace) \in 1..Len(trace) /\ trace \in Seq(TraceItem)
          BY <4>4 DEF TypeOK
        <5>. QED  BY <5>1, TraceItemType DEF Current, Written
      <4>6. Len(Item'.packets) \in Nat
        <5>1. buckets'[bucket] \in Seq(FlowItem)
          BY <2>0, <3>1
        <5>. QED  BY <3>2, <4>2, <5>1, ItemType DEF Item
      <4>. QED  BY <3>2, <4>1, <4>3, <4>4, <4>5, <4>6 DEF ExportHolds, Exports
    <3>. QED  BY <3>1, <3>5, <3>6
  <2>2. CASE EndOfCapture
    BY <2>2 DEF EndOfCapture, TypeOK, OneItemPerFlow, ExportHolds, Exports, scanVars, traceVars,
                AtEnd, Item, Current, Written
  <2>3. ASSUME NEW b \in Buckets, NEW k, TimeOut(b, k) PROVE TableInv'
    <3>1. /\ buckets' \in [Buckets -> Seq(FlowItem)] /\ OneItemPerFlow'
          /\ Len(buckets'[bucket]) = Len(buckets[bucket])
          /\ \A m \in 1..Len(buckets[bucket]) :
                 /\ buckets'[bucket][m].flow = buckets[bucket][m].flow
                 /\ buckets'[bucket][m].packets = buckets[bucket][m].packets
      BY <2>0, <2>3, TimeOutEffect
    <3>2. UNCHANGED <<captured, captureDone, sPc, bucket, it, trace, fileItems, fileID, dumped>>
      BY <2>3 DEF TimeOut, scanVars, traceVars
    <3>3. TypeOK'
      BY <3>1, <3>2 DEF TypeOK, AtEnd
    <3>4. ExportHolds'
      <4> SUFFICES ASSUME Exports PROVE ExportHolds'
        BY <3>2 DEF ExportHolds, Exports
      <4>1. Item'.flow = Item.flow /\ Item'.packets = Item.packets
        BY <3>1, <3>2, ItemUnderIterator DEF Exports, Item
      <4>2. Current' = Current /\ Written' = Written
        BY <3>2 DEF Current, Written
      <4>. QED  BY <3>2, <4>1, <4>2 DEF ExportHolds, Exports
    <3>. QED  BY <3>1, <3>3, <3>4
  <2>4. CASE skipItem
    <3>1. UNCHANGED <<buckets, captured, captureDone, sPc, bucket, traceVars>> /\ sPc = "visit"
      BY <2>4 DEF skipItem
    <3>2. it' \in 1..Len(buckets[bucket]) + 1
      BY <2>0, <2>4 DEF skipItem, AtEnd, TypeOK
    <3>3. TypeOK'
      BY <3>1, <3>2 DEF TypeOK, traceVars
    <3>. QED  BY <3>1, <3>3 DEF OneItemPerFlow, ExportHolds, Exports
  <2>5. CASE needToExport
    BY <2>5 DEF needToExport, Goto, TypeOK, OneItemPerFlow, ExportHolds, Exports, traceVars, AtEnd
  <2>6. CASE writeCount
    <3>1. /\ trace' \in Seq(TraceItem) /\ Len(trace') = Len(trace) + 1 /\ Len(trace) \in Nat
          /\ trace'[Len(trace) + 1].flow = Item.flow
          /\ trace'[Len(trace) + 1].count = Len(Item.packets)
          /\ trace'[Len(trace) + 1].packets = <<>>
      BY <2>6, WriteCountEffect
    <3>2. /\ UNCHANGED <<buckets, captured, captureDone, bucket, it, fileItems, fileID, dumped>>
          /\ sPc = "count" /\ sPc' = "packets"
      BY <2>6 DEF writeCount, Goto
    <3>3. TypeOK'
      BY <3>1, <3>2 DEF TypeOK, AtEnd
    <3>4. Item' = Item /\ Len(Item.packets) \in Nat
      BY <3>2, ItemUnderIterator DEF Item
    <3>5. /\ Current'.flow = Item.flow /\ Current'.count = Len(Item.packets)
          /\ Written' = <<>> /\ trace' # <<>>
      BY <3>1 DEF Current, Written
    <3>6. ExportHolds'
      BY <3>2, <3>4, <3>5 DEF ExportHolds, Exports
    <3>. QED  BY <3>2, <3>3, <3>6 DEF OneItemPerFlow
  <2>7. CASE writePacket
    <3>1. /\ trace' \in Seq(TraceItem) /\ Len(trace') = Len(trace)
          /\ Len(trace) \in 1..Len(trace)
          /\ Len(Written) + 1 \in 1..Len(Item.packets)
          /\ Current'.flow = Current.flow /\ Current'.count = Current.count
          /\ Written' = Append(Written, Item.packets[Len(Written) + 1])
      BY <2>7, WritePacketEffect
    <3>2. /\ UNCHANGED <<buckets, captured, captureDone, sPc, bucket, it, fileItems, fileID, dumped>>
          /\ sPc = "packets"
      BY <2>7 DEF writePacket, scanVars
    <3>3. TypeOK'
      BY <3>1, <3>2 DEF TypeOK, AtEnd
    <3>4. /\ Item' = Item /\ Item.packets \in Seq(PacketNumbers) /\ Len(Item.packets) \in Nat
      BY <3>2, ItemUnderIterator DEF Item
    <3>5. Written \in Seq(PacketNumbers) /\ Len(Written) \in Nat
      BY <3>1, TraceItemType DEF TypeOK, Current, Written
    <3>6. /\ Len(Written') = Len(Written) + 1
          /\ \A m \in 1..Len(Written) : Written'[m] = Written[m]
          /\ Written'[Len(Written) + 1] = Item.packets[Len(Written) + 1]
      BY <3>1, <3>4, <3>5, AppendProperties
    <3>7. \A m \in 1..Len(Written') : Written'[m] = Item.packets[m]
      BY <3>2, <3>5, <3>6 DEF ExportHolds, Exports
    <3>8. trace' # <<>>
      BY <3>1
    <3>9. ExportHolds'
      BY <3>1, <3>2, <3>4, <3>5, <3>6, <3>7, <3>8 DEF ExportHolds, Exports
    <3>. QED  BY <3>2, <3>3, <3>9 DEF OneItemPerFlow
  <2>8. CASE endOfItem
    <3>1. /\ UNCHANGED <<buckets, captured, captureDone, trace, bucket, it, fileID, dumped>>
          /\ sPc = "packets" /\ sPc' = "delete" /\ fileItems' = fileItems + 1
      BY <2>8 DEF endOfItem, Goto
    <3>2. TypeOK'
      BY <3>1 DEF TypeOK, AtEnd
    <3>3. Item' = Item /\ Current' = Current /\ Written' = Written
      BY <3>1 DEF Item, Current, Written
    <3>4. Len(Item.packets) \in Nat
      BY <3>1, ItemUnderIterator
    <3>5. Len(Written) \in Nat /\ Current.count \in Nat
      <4>1. Len(trace) \in 1..Len(trace) /\ trace \in Seq(TraceItem)
        BY <3>1 DEF TypeOK, ExportHolds, Exports
      <4>. QED  BY <4>1, TraceItemType DEF Current, Written
    <3>6. Len(Written) >= Len(Item.packets)
      BY <2>8 DEF endOfItem, AllWritten
    <3>7. ExportHolds'
      BY <3>1, <3>3, <3>4, <3>5, <3>6 DEF ExportHolds, Exports
    <3>. QED  BY <3>1, <3>2, <3>7 DEF OneItemPerFlow
  <2>9. CASE deleteItem
    <3>1. /\ buckets' \in [Buckets -> Seq(FlowItem)] /\ OneItemPerFlow'
          /\ it \in 1..Len(buckets[bucket])
          /\ Len(buckets'[bucket]) = Len(buckets[bucket]) - 1
      BY <2>9, DeleteItemEffect
    <3>2. /\ UNCHANGED <<captured, captureDone, trace, bucket, it, fileItems, fileID, dumped>>
          /\ sPc' = "visit"
      BY <2>9 DEF deleteItem, Goto, traceVars
    <3>3. TypeOK'
      BY <2>0, <3>1, <3>2 DEF TypeOK, AtEnd
    <3>. QED  BY <3>1, <3>2, <3>3 DEF ExportHolds, Exports
  <2>10. CASE nextBucket
    <3>1. /\ UNCHANGED <<buckets, captured, captureDone, traceVars>> /\ it' = 1
          /\ sPc' \in {"visit", "dump"} /\ bucket' \in Buckets
      BY <2>0, <2>10 DEF nextBucket, MoreBuckets, Buckets
    <3>2. it' \in 1..Len(buckets'[bucket']) + 1
      BY <3>1 DEF TypeOK
    <3>3. TypeOK'
      BY <3>1, <3>2 DEF TypeOK, traceVars
    <3>. QED  BY <3>1, <3>3 DEF OneItemPerFlow, ExportHolds, Exports
  <2>11. CASE dumpTrace
    <3>1. /\ UNCHANGED <<buckets, captured, captureDone, trace, bucket, it>> /\ sPc' = "visit"
          /\ \/ dumped' = dumped \cup {fileID} /\ fileID' = fileID + 1 /\ fileItems' = 0
             \/ UNCHANGED <<dumped, fileID, fileItems>>
      BY <2>11 DEF dumpTrace, Goto
    <3>2. /\ fileID \in Nat \ {0} /\ dumped \subseteq 1..fileID - 1 /\ fileItems \in Nat
      BY DEF TypeOK
    <3>3. fileID' \in Nat \ {0} /\ dumped' \subseteq 1..fileID' - 1 /\ fileItems' \in Nat
      <4>1. CASE dumped' = dumped \cup {fileID} /\ fileID' = fileID + 1 /\ fileItems' = 0
        <5>1. \A f \in dumped \cup {fileID} : f \in 1..(fileID + 1) - 1
          BY <3>2
        <5>. QED  BY <3>2, <4>1, <5>1
      <4>2. CASE UNCHANGED <<dumped, fileID, fileItems>>
        BY <3>2, <4>2
      <4>. QED  BY <3>1, <4>1, <4>2
    <3>4. TypeOK'
      BY <3>1, <3>3 DEF TypeOK
    <3>. QED  BY <3>1, <3>4 DEF OneItemPerFlow, ExportHolds, Exports
  <2>12. CASE UNCHANGED vars
    BY <2>12 DEF vars, TypeOK, OneItemPerFlow, ExportHolds, Exports, scanVars, traceVars,
                 AtEnd, Item, Current, Written
  <2>. QED  BY <2>1, <2>2, <2>3, <2>4, <2>5, <2>6, <2>7, <2>8, <2>9, <2>10, <2>11, <2>12
            DEF Next, Capture, Clock, Scan
<1>. QED  BY <1>1, <1>2, PTL DEF Spec

\* Every variable keeps its type.
THEOREM TypeCorrect == Spec => []TypeOK
BY TableCorrect, PTL DEF TableInv

\* At most one item of the table is of a five-tuple, in the bucket of its hash.
THEOREM OneItemCorrect == Spec => []OneItemPerFlow
BY TableCorrect, PTL DEF TableInv

-----------------------------------------------------------------------------
(* What an item in the trace says of its packets.                          *)

LEMMA CurrentType ==
    ASSUME TypeOK, ExportHolds, Exports
    PROVE  /\ Len(trace) \in 1..Len(trace) /\ Current.count \in Nat
           /\ Written \in Seq(PacketNumbers) /\ Len(Written) \in Nat
<1>1. Len(trace) \in 1..Len(trace) /\ trace \in Seq(TraceItem)
  BY DEF TypeOK, ExportHolds
<1>. QED  BY <1>1, TraceItemType DEF Current, Written

LEMMA CountStep ==
    ASSUME TableInv, CountCovered, [Next]_vars
    PROVE  CountCovered'
<1> USE DEF TableInv
<1>0. Len(trace) \in Nat
  BY DEF TypeOK
<1>1. CASE writeCount
  <2>1. /\ Len(trace') = Len(trace) + 1 /\ \A k \in 1..Len(trace) : trace'[k] = trace[k]
        /\ sPc = "count" /\ sPc' = "packets"
    BY <1>1, WriteCountEffect DEF writeCount, Goto
  <2>. QED  BY <1>0, <2>1 DEF CountCovered
<1>2. CASE writePacket
  <2>1. /\ Len(trace') = Len(trace) /\ \A k \in 1..Len(trace) : k # Len(trace) => trace'[k] = trace[k]
        /\ sPc' = "packets"
    BY <1>2, WritePacketEffect DEF writePacket, scanVars
  <2>. QED  BY <1>0, <2>1 DEF CountCovered
<1>3. CASE endOfItem
  <2>1. /\ UNCHANGED <<trace, buckets, bucket, it>> /\ sPc = "packets"
        /\ Len(Written) >= Len(Item.packets)
    BY <1>3 DEF endOfItem, AllWritten, Goto
  <2>2. /\ Current.count <= Len(Item.packets) /\ Len(Item.packets) \in Nat
        /\ Current.count \in Nat /\ Len(Written) \in Nat
    BY <2>1, ItemUnderIterator, CurrentType DEF ExportHolds, Exports
  <2>3. Current.count <= Len(Written)
    BY <2>1, <2>2
  <2>. QED  BY <2>1, <2>3 DEF CountCovered, Current, Written
<1>4. CASE /\ UNCHANGED trace
           /\ sPc' = sPc \/ sPc # "packets"
  BY <1>4 DEF CountCovered
<1>5. ASSUME [Capture \/ Clock \/ skipItem \/ needToExport \/ deleteItem \/ nextBucket \/ dumpTrace]_vars
      PROVE  UNCHANGED trace /\ (sPc' = sPc \/ sPc # "packets")
  BY <1>5 DEF Capture, EndOfCapture, addPacket, Clock, TimeOut, skipItem, needToExport,
              deleteItem, nextBucket, dumpTrace, Goto, vars, scanVars, traceVars
<1>. QED  BY <1>1, <1>2, <1>3, <1>4, <1>5 DEF Next, Scan

\* An item in the trace is followed by at least as many packets as it says, although
\* packets may join it between the count and the last packet.
THEOREM CountCorrect == Spec => []CountCovered
<1>1. Init => CountCovered
  BY DEF Init, CountCovered
<1>2. TableInv /\ CountCovered /\ [Next]_vars => CountCovered'
  BY CountStep
<1>. QED  BY <1>1, <1>2, TableCorrect, PTL DEF Spec

-----------------------------------------------------------------------------
(* The order of a flow's packets. It is inductive with what each packet    *)
(* belongs to: packets are captured ones of the item's flow.               *)

Ascends(s) == \A x, y \in 1..Len(s) : x < y => s[x] < s[y]
Before(r, s) == \A x \in 1..Len(r), y \in 1..Len(s) : r[x] < s[y]

\* An item's packets were captured, in this order, from its flow.
Owns(item) ==
    /\ Ascends(item.packets)
    /\ \A m \in 1..Len(item.packets) :
          item.packets[m] \in 1..Len(captured) /\ captured[item.packets[m]] = item.flow

\* Item k of bucket b is the one whose copy is the last item of the trace.
Copied(b, k, j) == Exports /\ j = Len(trace) /\ b = bucket /\ k = it

TraceOrder ==
    /\ \A k \in 1..Len(trace) : Owns(trace[k])
    /\ \A j, k \in 1..Len(trace) :
          j < k /\ trace[j].flow = trace[k].flow => Before(trace[j].packets, trace[k].packets)

TableOrder ==
    \A b \in Buckets : \A k \in 1..Len(buckets[b]) :
        /\ Owns(buckets[b][k])
        /\ \A j \in 1..Len(trace) :
              trace[j].flow = buckets[b][k].flow /\ ~Copied(b, k, j) =>
                  Before(trace[j].packets, buckets[b][k].packets)

OrderInv == TraceOrder /\ TableOrder

LEMMA PacketsType ==
    ASSUME TypeOK
    PROVE  /\ \A b \in Buckets : \A k \in 1..Len(buckets[b]) :
                 /\ buckets[b][k].packets \in Seq(PacketNumbers)
                 /\ Len(buckets[b][k].packets) \in Nat
                 /\ \A m \in 1..Len(buckets[b][k].packets) : buckets[b][k].packets[m] \in Nat
           /\ \A k \in 1..Len(trace) :
                 /\ trace[k].packets \in Seq(PacketNumbers) /\ Len(trace[k].packets) \in Nat
                 /\ \A m \in 1..Len(trace[k].packets) : trace[k].packets[m] \in Nat
           /\ Len(captured) \in Nat /\ Len(trace) \in Nat
           /\ \A b \in Buckets : Len(buckets[b]) \in Nat
<1>1. PacketNumbers \subseteq Nat
  BY FlowTableAssumption DEF PacketNumbers
<1>2. ASSUME NEW b \in Buckets, NEW k \in 1..Len(buckets[b])
      PROVE  buckets[b][k].packets \in Seq(PacketNumbers)
  BY ItemType DEF TypeOK
<1>3. ASSUME NEW k \in 1..Len(trace) PROVE trace[k].packets \in Seq(PacketNumbers)
  BY TraceItemType DEF TypeOK
<1>4. ASSUME NEW s \in Seq(PacketNumbers)
      PROVE  Len(s) \in Nat /\ \A m \in 1..Len(s) : s[m] \in Nat
  <2>1. Len(s) \in Nat /\ \A m \in 1..Len(s) : s[m] \in PacketNumbers
    BY <1>4
  <2>. QED  BY <1>1, <2>1
<1>5. \A b \in Buckets : \A k \in 1..Len(buckets[b]) :
         /\ buckets[b][k].packets \in Seq(PacketNumbers)
         /\ Len(buckets[b][k].packets) \in Nat
         /\ \A m \in 1..Len(buckets[b][k].packets) : buckets[b][k].packets[m] \in Nat
  BY <1>2, <1>4
<1>6. \A k \in 1..Len(trace) :
         /\ trace[k].packets \in Seq(PacketNumbers) /\ Len(trace[k].packets) \in Nat
         /\ \A m \in 1..Len(trace[k].packets) : trace[k].packets[m] \in Nat
  BY <1>3, <1>4
<1>7. /\ Len(captured) \in Nat /\ Len(trace) \in Nat
      /\ \A b \in Buckets : Len(buckets[b]) \in Nat
  BY DEF TypeOK
<1>. QED  BY <1>5, <1>6, <1>7

\* captureThread: the new packet is behind every packet of every item.
LEMMA AddPacketOrder ==
    ASSUME TableInv, TableInv', OrderInv, NEW t \in Tuples, addPacket(t)
    PROVE  OrderInv'
<1> USE DEF TableInv
<1> DEFINE n == Len(captured) + 1
<1>0. Len(captured) \in Nat /\ n \in PacketNumbers
  BY AddPacketEffect, PacketsType
<1>1. /\ Len(captured') = n /\ captured'[n] = t
      /\ \A m \in 1..Len(captured) : captured'[m] = captured[m]
  BY AppendProperties DEF addPacket, TypeOK
<1>2. UNCHANGED <<trace, sPc, bucket, it>>
  BY DEF addPacket, scanVars, traceVars
<1>4. \A k \in 1..Len(trace) : Owns(trace[k])'
  <2> SUFFICES ASSUME NEW k \in 1..Len(trace) PROVE Owns(trace[k])'
    OBVIOUS
  <2>1. Owns(trace[k])
    BY DEF OrderInv, TraceOrder
  <2>. QED  BY <1>0, <1>1, <1>2, <2>1 DEF Owns
<1>5. TraceOrder'
  BY <1>2, <1>4 DEF OrderInv, TraceOrder
<1>6. ASSUME NEW b \in Buckets, NEW k \in 1..Len(buckets'[b])
      PROVE  /\ Owns(buckets[b][k])'
             /\ \A j \in 1..Len(trace) :
                   trace[j].flow = buckets'[b][k].flow /\ ~Copied(b, k, j) =>
                       Before(trace[j].packets, buckets'[b][k].packets)
  <2>1. CASE Kept(b, k, k)
    <3>1. /\ k \in 1..Len(buckets[b]) /\ buckets'[b][k] = buckets[b][k]
      BY <2>1 DEF Kept
    <3>2. Owns(buckets[b][k])
      BY <3>1 DEF OrderInv, TableOrder
    <3>3. Owns(buckets[b][k])'
      BY <1>0, <1>1, <3>1, <3>2 DEF Owns
    <3>. QED  BY <3>1, <3>3 DEF OrderInv, TableOrder
  <2>2. CASE Grown(b, k, t, n)
    <3> DEFINE old == buckets[b][k].packets
               new == buckets'[b][k].packets
    <3>1. /\ k \in 1..Len(buckets[b]) /\ buckets[b][k].flow = t /\ buckets'[b][k].flow = t
          /\ new = Append(old, n)
      BY <2>2 DEF Grown
    <3>2. /\ old \in Seq(PacketNumbers) /\ Len(old) \in Nat
          /\ \A m \in 1..Len(old) : old[m] \in Nat
      BY <3>1, PacketsType
    <3>3. /\ Ascends(old)
          /\ \A m \in 1..Len(old) : old[m] \in 1..Len(captured) /\ captured[old[m]] = t
      BY <3>1 DEF OrderInv, TableOrder, Owns
    <3> HIDE DEF old, new
    <3>4. /\ Len(new) = Len(old) + 1 /\ new[Len(old) + 1] = n
          /\ \A m \in 1..Len(old) : new[m] = old[m]
      BY <1>0, <3>1, <3>2, AppendProperties
    <3>5. Ascends(new)
      <4> SUFFICES ASSUME NEW x \in 1..Len(new), NEW y \in 1..Len(new), x < y
                   PROVE  new[x] < new[y]
        BY DEF Ascends
      <4>1. x \in 1..Len(old) /\ new[x] = old[x] /\ old[x] \in 1..Len(captured)
        BY <3>2, <3>3, <3>4
      <4>2. CASE y = Len(old) + 1
        BY <1>0, <3>4, <4>1, <4>2
      <4>3. CASE y \in 1..Len(old)
        BY <3>3, <3>4, <4>1, <4>3 DEF Ascends
      <4>. QED  BY <3>2, <3>4, <4>2, <4>3
    <3>6. \A m \in 1..Len(new) : new[m] \in 1..n /\ captured'[new[m]] = t
      <4> SUFFICES ASSUME NEW m \in 1..Len(new)
                   PROVE  new[m] \in 1..n /\ captured'[new[m]] = t
        OBVIOUS
      <4>1. CASE m = Len(old) + 1
        BY <1>0, <1>1, <3>4, <4>1
      <4>2. CASE m \in 1..Len(old)
        <5>1. new[m] = old[m] /\ old[m] \in 1..Len(captured) /\ captured[old[m]] = t
          BY <3>3, <3>4, <4>2
        <5>. QED  BY <1>0, <1>1, <5>1
      <4>. QED  BY <3>2, <3>4, <4>1, <4>2
    <3>7. Owns(buckets[b][k])'
      BY <1>1, <3>1, <3>5, <3>6 DEF Owns, new
    <3>8. ASSUME NEW j \in 1..Len(trace), trace[j].flow = t, ~Copied(b, k, j)
          PROVE  Before(trace[j].packets, new)
      <4>1. Before(trace[j].packets, old)
        BY <3>1, <3>8 DEF OrderInv, TableOrder, old
      <4>2. \A m \in 1..Len(trace[j].packets) : trace[j].packets[m] \in 1..Len(captured)
        BY DEF OrderInv, TraceOrder, Owns
      <4> SUFFICES ASSUME NEW x \in 1..Len(trace[j].packets), NEW y \in 1..Len(new)
                   PROVE  trace[j].packets[x] < new[y]
        BY DEF Before
      <4>3. trace[j].packets[x] \in Nat /\ trace[j].packets[x] < n
        BY <1>0, <4>2
      <4>4. CASE y = Len(old) + 1
        BY <3>4, <4>3, <4>4
      <4>5. CASE y \in 1..Len(old)
        BY <3>4, <4>1, <4>5 DEF Before
      <4>. QED  BY <3>2, <3>4, <4>4, <4>5
    <3>. QED  BY <3>1, <3>7, <3>8 DEF new
  <2>3. CASE Fresh(b, k, t, n)
    <3>1. buckets'[b][k].flow = t /\ buckets'[b][k].packets = <<n>>
      BY <2>3 DEF Fresh
    <3>2. Owns(buckets[b][k])'
      BY <1>0, <1>1, <3>1 DEF Owns, Ascends
    <3>3. ASSUME NEW j \in 1..Len(trace) PROVE Before(trace[j].packets, <<n>>)
      <4>1. \A m \in 1..Len(trace[j].packets) : trace[j].packets[m] \in 1..Len(captured)
        BY DEF OrderInv, TraceOrder, Owns
      <4>. QED  BY <1>0, <4>1 DEF Before
    <3>. QED  BY <3>1, <3>2, <3>3
  <2>. QED  BY <2>1, <2>2, <2>3, AddPacketEffect
<1>7. TableOrder'
  BY <1>2, <1>6 DEF TableOrder, Copied, Exports
<1>. QED  BY <1>5, <1>7 DEF OrderInv

\* The clock changes no packet.
LEMMA TimeOutOrder ==
    ASSUME TableInv, OrderInv, NEW b \in Buckets, NEW k, TimeOut(b, k)
    PROVE  OrderInv'
<1> USE DEF TableInv
<1>1. /\ \A d \in Buckets : Len(buckets'[d]) = Len(buckets[d])
      /\ \A d \in Buckets : \A m \in 1..Len(buckets[d]) :
            /\ buckets'[d][m].flow = buckets[d][m].flow
            /\ buckets'[d][m].packets = buckets[d][m].packets
  BY TimeOutEffect
<1>2. UNCHANGED <<captured, trace, sPc, bucket, it>>
  BY DEF TimeOut, scanVars, traceVars
<1>3. TraceOrder'
  BY <1>2 DEF OrderInv, TraceOrder, Owns
<1>4. ASSUME NEW d \in Buckets, NEW m \in 1..Len(buckets[d])
      PROVE  /\ Owns(buckets[d][m])'
             /\ \A j \in 1..Len(trace) :
                   trace[j].flow = buckets'[d][m].flow /\ ~Copied(d, m, j) =>
                       Before(trace[j].packets, buckets'[d][m].packets)
  <2>1. /\ buckets'[d][m].flow = buckets[d][m].flow
        /\ buckets'[d][m].packets = buckets[d][m].packets
    BY <1>1
  <2>2. Owns(buckets[d][m])
    BY DEF OrderInv, TableOrder
  <2>3. Owns(buckets[d][m])'
    BY <1>2, <2>1, <2>2 DEF Owns
  <2>. QED  BY <2>1, <2>3 DEF OrderInv, TableOrder
<1>5. TableOrder'
  BY <1>1, <1>2, <1>4 DEF TableOrder, Copied, Exports
<1>. QED  BY <1>3, <1>5 DEF OrderInv

\* PacketsItem::write2file: the item starts without packets.
LEMMA WriteCountOrder ==
    ASSUME TableInv, OrderInv, writeCount
    PROVE  OrderInv'
<1> USE DEF TableInv
<1>1. /\ Len(trace') = Len(trace) + 1 /\ Len(trace) \in Nat
      /\ \A k \in 1..Len(trace) : trace'[k] = trace[k]
      /\ trace'[Len(trace) + 1].packets = <<>>
  BY WriteCountEffect
<1>2. /\ UNCHANGED <<buckets, captured, bucket, it>> /\ sPc = "count"
  BY DEF writeCount, Goto
<1>3. ASSUME NEW k \in 1..Len(trace')
      PROVE  k \in 1..Len(trace) \/ (k = Len(trace) + 1 /\ Len(trace'[k].packets) = 0)
  BY <1>1
<1>4. TraceOrder'
  <2>1. \A k \in 1..Len(trace') : Owns(trace[k])'
    <3> SUFFICES ASSUME NEW k \in 1..Len(trace') PROVE Owns(trace[k])'
      OBVIOUS
    <3>1. CASE k \in 1..Len(trace)
      <4>1. Owns(trace[k]) /\ trace'[k] = trace[k]
        BY <1>1, <3>1 DEF OrderInv, TraceOrder
      <4>. QED  BY <1>2, <4>1 DEF Owns
    <3>2. CASE Len(trace'[k].packets) = 0
      BY <3>2 DEF Owns, Ascends
    <3>. QED  BY <1>3, <3>1, <3>2
  <2>2. ASSUME NEW j \in 1..Len(trace'), NEW k \in 1..Len(trace'), j < k,
               trace'[j].flow = trace'[k].flow
        PROVE  Before(trace'[j].packets, trace'[k].packets)
    <3>1. CASE k \in 1..Len(trace)
      BY <1>1, <2>2, <3>1 DEF OrderInv, TraceOrder
    <3>2. CASE Len(trace'[k].packets) = 0
      BY <3>2 DEF Before
    <3>. QED  BY <1>3, <3>1, <3>2
  <2>. QED  BY <2>1, <2>2 DEF TraceOrder
<1>5. TableOrder'
  <2>1. ASSUME NEW b \in Buckets, NEW k \in 1..Len(buckets[b]) PROVE Owns(buckets[b][k])'
    <3>1. Owns(buckets[b][k]) /\ buckets'[b][k] = buckets[b][k]
      BY <1>2 DEF OrderInv, TableOrder
    <3>. QED  BY <1>2, <3>1 DEF Owns
  <2>2. ASSUME NEW b \in Buckets, NEW k \in 1..Len(buckets[b]), NEW j \in 1..Len(trace'),
               trace'[j].flow = buckets[b][k].flow
        PROVE  Before(trace'[j].packets, buckets[b][k].packets)
    <3>1. CASE j \in 1..Len(trace)
      BY <1>1, <1>2, <2>2, <3>1 DEF OrderInv, TableOrder, Copied, Exports
    <3>2. CASE Len(trace'[j].packets) = 0
      BY <3>2 DEF Before
    <3>. QED  BY <1>3, <3>1, <3>2
  <2>. QED  BY <1>2, <2>1, <2>2 DEF TableOrder
<1>. QED  BY <1>4, <1>5 DEF OrderInv

\* The packet that is written is the next one of the only item of its flow.
LEMMA WritePacketOrder ==
    ASSUME TableInv, TableInv', OrderInv, writePacket
    PROVE  OrderInv'
<1> USE DEF TableInv
<1> DEFINE last == Len(trace)
<1>1. /\ Len(trace') = Len(trace) /\ last \in 1..Len(trace)
      /\ \A k \in 1..Len(trace) : k # last => trace'[k] = trace[k]
      /\ Current'.flow = Current.flow
  BY WritePacketEffect
<1>2. UNCHANGED <<buckets, captured, bucket, it, sPc>> /\ sPc = "packets"
  BY DEF writePacket, scanVars
<1>3. Exports /\ Exports' /\ Item' = Item /\ Current' = trace'[last] /\ Current = trace[last]
  BY <1>1, <1>2 DEF Exports, Item, Current
<1>4. /\ it \in 1..Len(buckets[bucket]) /\ bucket \in Buckets
      /\ Item = buckets[bucket][it] /\ Len(Item.packets) \in Nat
  BY <1>2, ItemUnderIterator DEF Item
<1>5. /\ trace'[last].flow = Item.flow
      /\ Len(trace'[last].packets) \in Nat /\ Len(trace'[last].packets) <= Len(Item.packets)
      /\ \A m \in 1..Len(trace'[last].packets) : trace'[last].packets[m] = Item.packets[m]
  <2>1. /\ Len(Written') <= Len(Item'.packets) /\ Current'.flow = Item'.flow
        /\ \A m \in 1..Len(Written') : Written'[m] = Item'.packets[m]
    BY <1>3 DEF ExportHolds
  <2>2. Written' = trace'[last].packets
    BY <1>3 DEF Written
  <2>3. Len(trace'[last].packets) \in Nat
    <3>1. trace' \in Seq(TraceItem)
      BY DEF TypeOK
    <3>. QED  BY <1>1, <3>1, TraceItemType
  <2>. QED  BY <1>3, <2>1, <2>2, <2>3
<1>6. Owns(Item)
  BY <1>4 DEF OrderInv, TableOrder
<1>7. Owns(trace[last])'
  <2> DEFINE p == trace'[last].packets
  <2> DEFINE q == Item.packets
  <2>1. /\ Len(p) \in Nat /\ Len(q) \in Nat /\ Len(p) <= Len(q)
        /\ \A m \in 1..Len(p) : p[m] = q[m]
    BY <1>4, <1>5
  <2>2. /\ Ascends(q)
        /\ \A m \in 1..Len(q) : q[m] \in 1..Len(captured) /\ captured[q[m]] = Item.flow
    BY <1>6 DEF Owns
  <2> HIDE DEF p, q
  <2>3. /\ Ascends(p)
        /\ \A m \in 1..Len(p) : p[m] \in 1..Len(captured) /\ captured[p[m]] = Item.flow
    <3>1. ASSUME NEW m \in 1..Len(p) PROVE m \in 1..Len(q) /\ p[m] = q[m]
      BY <2>1
    <3>2. ASSUME NEW x \in 1..Len(p), NEW y \in 1..Len(p), x < y PROVE p[x] < p[y]
      <4>1. x \in 1..Len(q) /\ y \in 1..Len(q) /\ p[x] = q[x] /\ p[y] = q[y]
        BY <3>1
      <4>2. q[x] < q[y]
        BY <2>2, <3>2, <4>1 DEF Ascends
      <4>. QED  BY <4>1, <4>2
    <3>3. ASSUME NEW m \in 1..Len(p)
          PROVE  p[m] \in 1..Len(captured) /\ captured[p[m]] = Item.flow
      BY <2>2, <3>1, <3>3
    <3>. QED  BY <3>2, <3>3 DEF Ascends
  <2>. QED  BY <1>1, <1>2, <1>5, <2>3 DEF Owns, p
<1> HIDE DEF last
<1>8. TraceOrder'
  <2>1. \A k \in 1..Len(trace) : Owns(trace[k])'
    <3> SUFFICES ASSUME NEW k \in 1..Len(trace) PROVE Owns(trace[k])'
      OBVIOUS
    <3>1. CASE k = last
      BY <1>1, <1>7, <3>1 DEF last
    <3>2. CASE k # last
      <4>1. Owns(trace[k]) /\ trace'[k] = trace[k]
        BY <1>1, <3>2 DEF OrderInv, TraceOrder
      <4>. QED  BY <1>2, <4>1 DEF Owns
    <3>. QED  BY <3>1, <3>2
  <2>2. ASSUME NEW j \in 1..Len(trace), NEW k \in 1..Len(trace), j < k,
               trace'[j].flow = trace'[k].flow
        PROVE  Before(trace'[j].packets, trace'[k].packets)
    <3>1. j # last /\ trace'[j] = trace[j]
      BY <1>1, <2>2 DEF last
    <3>2. CASE k # last
      BY <1>1, <2>2, <3>1, <3>2 DEF OrderInv, TraceOrder
    <3>3. CASE k = last
      <4>1. Before(trace[j].packets, Item.packets)
        BY <1>4, <1>5, <2>2, <3>1, <3>3 DEF OrderInv, TableOrder, Copied, last
      <4>2. \A y \in 1..Len(trace'[last].packets) :
              y \in 1..Len(Item.packets) /\ trace'[last].packets[y] = Item.packets[y]
        <5> DEFINE p == trace'[last].packets
        <5> DEFINE q == Item.packets
        <5>1. /\ Len(p) \in Nat /\ Len(q) \in Nat /\ Len(p) <= Len(q)
              /\ \A m \in 1..Len(p) : p[m] = q[m]
          BY <1>4, <1>5
        <5> HIDE DEF p, q
        <5>2. \A y \in 1..Len(p) : y \in 1..Len(q) /\ p[y] = q[y]
          BY <5>1
        <5>. QED  BY <5>2 DEF p, q
      <4>. QED  BY <3>1, <3>3, <4>1, <4>2 DEF Before
    <3>. QED  BY <3>2, <3>3
  <2>. QED  BY <1>1, <2>1, <2>2 DEF TraceOrder
<1>9. TableOrder'
  <2>1. ASSUME NEW b \in Buckets, NEW k \in 1..Len(buckets[b]) PROVE Owns(buckets[b][k])'
    <3>1. Owns(buckets[b][k]) /\ buckets'[b][k] = buckets[b][k]
      BY <1>2 DEF OrderInv, TableOrder
    <3>. QED  BY <1>2, <3>1 DEF Owns
  <2>2. ASSUME NEW b \in Buckets, NEW k \in 1..Len(buckets[b]), NEW j \in 1..Len(trace),
               trace'[j].flow = buckets[b][k].flow, ~Copied(b, k, j)
        PROVE  Before(trace'[j].packets, buckets[b][k].packets)
    <3>1. CASE j # last
      BY <1>1, <2>2, <3>1 DEF OrderInv, TableOrder
    <3>2. CASE j = last
      <4>1. buckets[b][k].flow = buckets[bucket][it].flow
        BY <1>4, <1>5, <2>2, <3>2
      <4>2. b = bucket
        BY <1>4, <4>1 DEF OneItemPerFlow
      <4>3. k = it
        BY <1>4, <4>1, <4>2 DEF OneItemPerFlow
      <4>. QED  BY <1>3, <2>2, <3>2, <4>2, <4>3 DEF Copied, last
    <3>. QED  BY <3>1, <3>2
  <2>3. \A b, k, j : Copied(b, k, j)' <=> Copied(b, k, j)
    BY <1>1, <1>2 DEF Copied, Exports
  <2>. QED  BY <1>1, <1>2, <2>1, <2>2, <2>3 DEF TableOrder
<1>. QED  BY <1>8, <1>9 DEF OrderInv

\* HashBucket::deleteItem: the items left are where they were, or one place further up.
LEMMA DeleteItemOrder ==
    ASSUME TableInv, OrderInv, deleteItem
    PROVE  OrderInv'
<1> USE DEF TableInv
<1>1. /\ it \in 1..Len(buckets[bucket]) /\ bucket \in Buckets
      /\ Len(buckets'[bucket]) = Len(buckets[bucket]) - 1
      /\ \A k \in 1..Len(buckets'[bucket]) : Kept(bucket, k, IF k < it THEN k ELSE k + 1)
      /\ \A b \in Buckets \ {bucket} : buckets'[b] = buckets[b]
  BY DeleteItemEffect DEF TypeOK
<1>2. UNCHANGED <<captured, trace>>
  BY DEF deleteItem, traceVars
<1>3. TraceOrder'
  BY <1>2 DEF OrderInv, TraceOrder, Owns
<1>4. ASSUME NEW b \in Buckets, NEW k \in 1..Len(buckets'[b])
      PROVE  \E m \in 1..Len(buckets[b]) :
                 buckets'[b][k] = buckets[b][m] /\ (b # bucket \/ m # it)
  <2>1. CASE b = bucket
    <3>1. Kept(bucket, k, IF k < it THEN k ELSE k + 1)
      BY <1>1, <2>1
    <3>2. it \in Nat /\ k \in Nat /\ Len(buckets[bucket]) \in Nat
      BY DEF TypeOK
    <3>3. (IF k < it THEN k ELSE k + 1) # it
      BY <3>2
    <3>. QED  BY <2>1, <3>1, <3>3 DEF Kept
  <2>2. CASE b # bucket
    BY <1>1, <2>2
  <2>. QED  BY <2>1, <2>2
<1>5. ASSUME NEW b \in Buckets, NEW k \in 1..Len(buckets'[b])
      PROVE  /\ Owns(buckets[b][k])'
             /\ \A j \in 1..Len(trace) : trace[j].flow = buckets'[b][k].flow =>
                   Before(trace[j].packets, buckets'[b][k].packets)
  <2>1. PICK m \in 1..Len(buckets[b]) :
          buckets'[b][k] = buckets[b][m] /\ (b # bucket \/ m # it)
    BY <1>4
  <2>2. Owns(buckets[b][m])
    BY DEF OrderInv, TableOrder
  <2>3. Owns(buckets[b][k])'
    BY <1>2, <2>1, <2>2 DEF Owns
  <2>. QED  BY <2>1, <2>3 DEF OrderInv, TableOrder, Copied
<1>6. TableOrder'
  BY <1>2, <1>5 DEF TableOrder
<1>. QED  BY <1>3, <1>6 DEF OrderInv

\* The steps that touch neither the table nor the trace, and what they do to the copy.
LEMMA StillOrder ==
    ASSUME OrderInv, UNCHANGED <<buckets, captured, trace>>,
           Exports => Exports' /\ UNCHANGED <<bucket, it>>
    PROVE  OrderInv'
<1>1. TraceOrder'
  BY DEF OrderInv, TraceOrder, Owns
<1>2. TableOrder'
  BY DEF OrderInv, TableOrder, Owns, Copied
<1>. QED  BY <1>1, <1>2 DEF OrderInv

\* The order holds with TableInv.
THEOREM OrderInvCorrect == Spec => []OrderInv
<1>1. Init => OrderInv
  BY DEF Init, OrderInv, TraceOrder, TableOrder
<1>2. TableInv /\ TableInv' /\ OrderInv /\ [Next]_vars => OrderInv'
  <2> SUFFICES ASSUME TableInv, TableInv', OrderInv, [Next]_vars PROVE OrderInv'
    OBVIOUS
  <2>1. ASSUME NEW t \in Tuples, addPacket(t) PROVE OrderInv'
    BY <2>1, AddPacketOrder
  <2>2. ASSUME NEW b \in Buckets, NEW k \in 1..Len(buckets[b]), TimeOut(b, k) PROVE OrderInv'
    BY <2>2, TimeOutOrder
  <2>3. CASE writeCount
    BY <2>3, WriteCountOrder
  <2>4. CASE writePacket
    BY <2>4, WritePacketOrder
  <2>5. CASE deleteItem
    BY <2>5, DeleteItemOrder
  <2>6. CASE EndOfCapture
    BY <2>6, StillOrder DEF EndOfCapture, scanVars, traceVars, Exports
  <2>7. CASE skipItem
    BY <2>7, StillOrder DEF skipItem, traceVars, Exports
  <2>8. CASE needToExport
    BY <2>8, StillOrder DEF needToExport, Goto, traceVars, Exports
  <2>9. CASE endOfItem
    BY <2>9, StillOrder DEF endOfItem, Goto, Exports
  <2>10. CASE nextBucket
    BY <2>10, StillOrder DEF nextBucket, traceVars, Exports
  <2>11. CASE dumpTrace
    BY <2>11, StillOrder DEF dumpTrace, Goto, Exports
  <2>12. CASE UNCHANGED vars
    BY <2>12, StillOrder DEF vars, scanVars, traceVars, Exports
  <2>. QED
    BY <2>1, <2>2, <2>3, <2>4, <2>5, <2>6, <2>7, <2>8, <2>9, <2>10, <2>11, <2>12
    DEF Next, Capture, Clock, Scan
<1>. QED  BY <1>1, <1>2, TableCorrect, PTL DEF Spec

\* PacketsInOrder, the order in which main.cpp's captureThread got the packets of a flow,
\* holds in the table and in the trace.
THEOREM OrderCorrect == Spec => []PacketsInOrder
<1>1. TableInv /\ OrderInv => PacketsInOrder
  <2> SUFFICES ASSUME TableInv, OrderInv PROVE PacketsInOrder
    OBVIOUS
  <2>1. ASSUME NEW j \in 1..Len(trace), NEW k \in 1..Len(trace), trace[j].flow = trace[k].flow,
               NEW x \in 1..Len(trace[j].packets), NEW y \in 1..Len(trace[k].packets),
               j < k \/ (j = k /\ x < y)
        PROVE  trace[j].packets[x] < trace[k].packets[y]
    <3>1. CASE j < k
      BY <2>1, <3>1 DEF OrderInv, TraceOrder, Before
    <3>2. CASE j = k /\ x < y
      BY <2>1, <3>2 DEF OrderInv, TraceOrder, Owns, Ascends
    <3>. QED  BY <2>1, <3>1, <3>2
  <2>2. ASSUME NEW b \in Buckets, NEW k \in 1..Len(buckets[b]),
               NEW x \in 1..Len(buckets[b][k].packets), NEW y \in 1..Len(buckets[b][k].packets),
               x < y
        PROVE  buckets[b][k].packets[x] < buckets[b][k].packets[y]
    BY <2>2 DEF OrderInv, TableOrder, Owns, Ascends
  <2>3. ASSUME NEW b \in Buckets, NEW k \in 1..Len(buckets[b]), ~Exporting(b, k),
               NEW j \in 1..Len(trace), trace[j].flow = buckets[b][k].flow,
               NEW x \in 1..Len(trace[j].packets), NEW y \in 1..Len(buckets[b][k].packets)
        PROVE  trace[j].packets[x] < buckets[b][k].packets[y]
    <3>1. ~Copied(b, k, j)
      BY <2>3 DEF Copied, Exports, Exporting
    <3>. QED  BY <2>3, <3>1 DEF OrderInv, TableOrder, Before
  <2>. QED  BY <2>1, <2>2, <2>3 DEF PacketsInOrder
<1>. QED  BY <1>1, TableCorrect, OrderInvCorrect, PTL

-----------------------------------------------------------------------------
(* The places of a packet. *)

LEMMA TraceItemOf ==
    ASSUME TableInv, OrderInv, NEW n, NEW p \in TracePlaces(n)
    PROVE  /\ p[1] \in 1..Len(trace) /\ p[2] \in 1..Len(trace[p[1]].packets)
           /\ p = <<p[1], p[2]>> /\ trace[p[1]].packets[p[2]] = n
           /\ n \in Nat /\ trace[p[1]].flow = captured[n]
<1>1. /\ p[1] \in 1..Len(trace) /\ p[2] \in 1..NumPackets /\ p = <<p[1], p[2]>>
      /\ p[2] <= Len(trace[p[1]].packets) /\ trace[p[1]].packets[p[2]] = n
  BY DEF TracePlaces
<1>2. p[2] \in 1..Len(trace[p[1]].packets) /\ n \in Nat
  BY <1>1, FlowTableAssumption, PacketsType DEF TableInv
<1>. QED  BY <1>1, <1>2 DEF OrderInv, TraceOrder, Owns

LEMMA TableItemOf ==
    ASSUME TableInv, OrderInv, NEW n, NEW p \in TablePlaces(n)
    PROVE  /\ p[1] \in Buckets /\ p[2] \in 1..Len(buckets[p[1]])
           /\ p[3] \in 1..Len(buckets[p[1]][p[2]].packets)
           /\ p = <<p[1], p[2], p[3]>> /\ buckets[p[1]][p[2]].packets[p[3]] = n
           /\ n \in Nat /\ buckets[p[1]][p[2]].flow = captured[n]
<1>1. /\ p[1] \in Buckets /\ p[2] \in 1..NumPackets /\ p[3] \in 1..NumPackets
      /\ p = <<p[1], p[2], p[3]>> /\ p[2] <= Len(buckets[p[1]])
      /\ p[3] <= Len(buckets[p[1]][p[2]].packets) /\ buckets[p[1]][p[2]].packets[p[3]] = n
  BY DEF TablePlaces
<1>2. p[2] \in 1..Len(buckets[p[1]])
  BY <1>1, FlowTableAssumption, PacketsType DEF TableInv
<1>3. p[3] \in 1..Len(buckets[p[1]][p[2]].packets) /\ n \in Nat
  BY <1>1, <1>2, FlowTableAssumption, PacketsType DEF TableInv
<1>. QED  BY <1>1, <1>2, <1>3 DEF OrderInv, TableOrder, Owns

LEMMA AtMostOne ==
    ASSUME NEW S, \A p, q \in S : p = q
    PROVE  Cardinality(S) <= 1
<1>1. CASE S = {}
  BY <1>1, FS_EmptySet
<1>2. CASE S # {}
  <2>1. PICK p \in S : TRUE
    BY <1>2
  <2>2. S = {p}
    BY <2>1
  <2>3. Cardinality({p}) = 1
    BY FS_Singleton
  <2>. QED  BY <2>2, <2>3
<1>. QED  BY <1>1, <1>2

\* A packet that scanHashTable has written is not written again, and is in the table only
\* until deleteItem: whatever captureThread adds to the item meanwhile.
THEOREM OnceCorrect == Spec => []ExportedOnce
<1>1. TableInv /\ OrderInv => ExportedOnce
  <2> SUFFICES ASSUME TableInv, OrderInv, NEW n \in 1..Len(captured)
               PROVE  /\ Cardinality(TracePlaces(n)) <= 1
                      /\ Cardinality(TablePlaces(n)) <= 1
                      /\ \A q \in TracePlaces(n) : \A p \in TablePlaces(n) : Exporting(p[1], p[2])
    BY DEF ExportedOnce
  <2>1. ASSUME NEW p \in TracePlaces(n), NEW q \in TracePlaces(n) PROVE p = q
    <3>1. /\ p[1] \in 1..Len(trace) /\ p[2] \in 1..Len(trace[p[1]].packets)
          /\ p = <<p[1], p[2]>> /\ trace[p[1]].packets[p[2]] = n
          /\ n \in Nat /\ trace[p[1]].flow = captured[n]
      BY TraceItemOf
    <3>2. /\ q[1] \in 1..Len(trace) /\ q[2] \in 1..Len(trace[q[1]].packets)
          /\ q = <<q[1], q[2]>> /\ trace[q[1]].packets[q[2]] = n
          /\ trace[q[1]].flow = captured[n]
      BY TraceItemOf
    <3>3. ~(p[1] < q[1])
      <4>1. ASSUME p[1] < q[1] PROVE n < n
        BY <3>1, <3>2, <4>1 DEF OrderInv, TraceOrder, Before
      <4>. QED  BY <3>1, <4>1
    <3>4. ~(q[1] < p[1])
      <4>1. ASSUME q[1] < p[1] PROVE n < n
        BY <3>1, <3>2, <4>1 DEF OrderInv, TraceOrder, Before
      <4>. QED  BY <3>1, <4>1
    <3>5. p[1] = q[1]
      BY <3>1, <3>2, <3>3, <3>4 DEF TableInv, TypeOK
    <3>6. Ascends(trace[p[1]].packets) /\ Len(trace[p[1]].packets) \in Nat
      BY <3>1, PacketsType DEF OrderInv, TraceOrder, Owns, TableInv
    <3>7. p[2] = q[2]
      BY <3>1, <3>2, <3>5, <3>6 DEF Ascends
    <3>. QED  BY <3>1, <3>2, <3>5, <3>7
  <2>2. ASSUME NEW p \in TablePlaces(n), NEW q \in TablePlaces(n) PROVE p = q
    <3>1. /\ p[1] \in Buckets /\ p[2] \in 1..Len(buckets[p[1]])
          /\ p[3] \in 1..Len(buckets[p[1]][p[2]].packets)
          /\ p = <<p[1], p[2], p[3]>> /\ buckets[p[1]][p[2]].packets[p[3]] = n
          /\ n \in Nat /\ buckets[p[1]][p[2]].flow = captured[n]
      BY TableItemOf
    <3>2. /\ q[1] \in Buckets /\ q[2] \in 1..Len(buckets[q[1]])
          /\ q[3] \in 1..Len(buckets[q[1]][q[2]].packets)
          /\ q = <<q[1], q[2], q[3]>> /\ buckets[q[1]][q[2]].packets[q[3]] = n
          /\ buckets[q[1]][q[2]].flow = captured[n]
      BY TableItemOf
    <3>3. p[1] = q[1]
      <4>1. BucketOf[captured[n]] = p[1]
        BY <3>1 DEF TableInv, OneItemPerFlow
      <4>2. BucketOf[captured[n]] = q[1]
        BY <3>2 DEF TableInv, OneItemPerFlow
      <4>. QED  BY <4>1, <4>2
    <3>4. p[2] = q[2]
      BY <3>1, <3>2, <3>3 DEF TableInv, OneItemPerFlow
    <3>5. Ascends(buckets[p[1]][p[2]].packets) /\ Len(buckets[p[1]][p[2]].packets) \in Nat
      BY <3>1, PacketsType DEF OrderInv, TableOrder, Owns, TableInv
    <3>6. p[3] = q[3]
      BY <3>1, <3>2, <3>3, <3>4, <3>5 DEF Ascends
    <3>. QED  BY <3>1, <3>2, <3>3, <3>4, <3>6
  <2>3. ASSUME NEW q \in TracePlaces(n), NEW p \in TablePlaces(n) PROVE Exporting(p[1], p[2])
    <3>1. /\ p[1] \in Buckets /\ p[2] \in 1..Len(buckets[p[1]])
          /\ p[3] \in 1..Len(buckets[p[1]][p[2]].packets)
          /\ buckets[p[1]][p[2]].packets[p[3]] = n
          /\ n \in Nat /\ buckets[p[1]][p[2]].flow = captured[n]
      BY TableItemOf
    <3>2. /\ q[1] \in 1..Len(trace) /\ q[2] \in 1..Len(trace[q[1]].packets)
          /\ trace[q[1]].packets[q[2]] = n /\ trace[q[1]].flow = captured[n]
      BY TraceItemOf
    <3>3. ASSUME ~Copied(p[1], p[2], q[1]) PROVE n < n
      BY <3>1, <3>2, <3>3 DEF OrderInv, TableOrder, Before
    <3>4. Copied(p[1], p[2], q[1])
      BY <3>1, <3>3
    <3>. QED  BY <3>4 DEF Copied, Exports, Exporting
  <2>. QED  BY <2>1, <2>2, <2>3, AtMostOne
<1>. QED  BY <1>1, TableCorrect, OrderInvCorrect, PTL

-----------------------------------------------------------------------------
(* What a step leaves in the table and in the trace. *)

Somewhere(n) == TablePlaces(n) \cup TracePlaces(n) # {}

\* The packets that deleteItem may lose.
LateIn(n) ==
    /\ sPc = "delete"
    /\ \E m \in trace[Len(trace)].count + 1..Len(Item.packets) : Item.packets[m] = n

\* The packets of r are where they are in s too.
Extends(s, r) == \A m \in 1..Len(r) : m \in 1..Len(s) /\ s[m] = r[m]

LEMMA TraceGrows ==
    ASSUME TableInv, [Next]_vars
    PROVE  \A k \in 1..Len(trace) :
               k \in 1..Len(trace') /\ Extends(trace'[k].packets, trace[k].packets)
<1> USE DEF TableInv
<1>0. Len(trace) \in Nat
  BY DEF TypeOK
<1>1. CASE writeCount
  BY <1>0, <1>1, WriteCountEffect DEF Extends
<1>2. CASE writePacket
  <2>1. /\ Len(trace') = Len(trace) /\ Len(trace) \in 1..Len(trace)
        /\ \A k \in 1..Len(trace) : k # Len(trace) => trace'[k] = trace[k]
        /\ Written' = Append(Written, Item.packets[Len(Written) + 1])
        /\ Len(Written) + 1 \in 1..Len(Item.packets)
    BY <1>2, WritePacketEffect
  <2>2. Written \in Seq(PacketNumbers) /\ Item.packets[Len(Written) + 1] \in PacketNumbers
    <3>1. Item.packets \in Seq(PacketNumbers)
      BY <1>2, ItemUnderIterator, PacketsType DEF Item, writePacket
    <3>2. Exports
      BY <1>2 DEF Exports, writePacket
    <3>. QED  BY <2>1, <3>1, <3>2, CurrentType
  <2>3. Extends(Written', Written)
    <3> DEFINE w == Written
    <3> DEFINE q == Item.packets[Len(Written) + 1]
    <3>1. /\ w \in Seq(PacketNumbers) /\ q \in PacketNumbers /\ Written' = Append(w, q)
      BY <2>1, <2>2
    <3> HIDE DEF w, q
    <3>2. Extends(Append(w, q), w)
      BY <3>1, AppendProperties DEF Extends
    <3>. QED  BY <3>1, <3>2 DEF w
  <2>4. Extends(trace'[Len(trace)].packets, trace[Len(trace)].packets)
    BY <2>1, <2>3 DEF Written, Current
  <2>. QED  BY <2>1, <2>4 DEF Extends
<1>3. CASE UNCHANGED trace
  BY <1>3 DEF Extends
<1>. QED
  BY <1>1, <1>2, <1>3 DEF Next, Capture, EndOfCapture, addPacket, Clock, TimeOut, Scan, skipItem,
     needToExport, endOfItem, deleteItem, nextBucket, dumpTrace, vars, scanVars, traceVars

LEMMA TableGrows ==
    ASSUME TableInv, [Next]_vars, ~deleteItem
    PROVE  \A b \in Buckets : \A k \in 1..Len(buckets[b]) :
               k \in 1..Len(buckets'[b]) /\ Extends(buckets'[b][k].packets, buckets[b][k].packets)
<1> USE DEF TableInv
<1>1. ASSUME NEW t \in Tuples, addPacket(t), NEW b \in Buckets, NEW k \in 1..Len(buckets[b])
      PROVE  k \in 1..Len(buckets'[b]) /\ Extends(buckets'[b][k].packets, buckets[b][k].packets)
  <2>1. /\ Len(captured) + 1 \in PacketNumbers /\ Len(buckets[b]) <= Len(buckets'[b])
        /\ \A i \in 1..Len(buckets'[b]) :
              \/ Kept(b, i, i)
              \/ Grown(b, i, t, Len(captured) + 1)
              \/ Fresh(b, i, t, Len(captured) + 1)
        /\ buckets' \in [Buckets -> Seq(FlowItem)]
    BY <1>1, AddPacketEffect
  <2>2. k \in 1..Len(buckets'[b]) /\ k # Len(buckets[b]) + 1
    BY <2>1 DEF TypeOK
  <2>3. Kept(b, k, k) \/ Grown(b, k, t, Len(captured) + 1)
    BY <2>1, <2>2 DEF Fresh
  <2>4. CASE Kept(b, k, k)
    BY <2>2, <2>4 DEF Kept, Extends
  <2>5. CASE Grown(b, k, t, Len(captured) + 1)
    <3> DEFINE w == buckets[b][k].packets
    <3> DEFINE q == Len(captured) + 1
    <3>1. w \in Seq(PacketNumbers) /\ q \in PacketNumbers /\ buckets'[b][k].packets = Append(w, q)
      BY <2>1, <2>5, PacketsType DEF Grown
    <3> HIDE DEF w, q
    <3>2. Extends(Append(w, q), w)
      BY <3>1, AppendProperties DEF Extends
    <3>. QED  BY <2>2, <3>1, <3>2 DEF w
  <2>. QED  BY <2>3, <2>4, <2>5
<1>2. ASSUME NEW d \in Buckets, NEW i \in 1..Len(buckets[d]), TimeOut(d, i),
             NEW b \in Buckets, NEW k \in 1..Len(buckets[b])
      PROVE  k \in 1..Len(buckets'[b]) /\ Extends(buckets'[b][k].packets, buckets[b][k].packets)
  BY <1>2, TimeOutEffect DEF Extends
<1>3. CASE UNCHANGED buckets
  BY <1>3 DEF Extends
<1>. QED
  BY <1>1, <1>2, <1>3 DEF Next, Capture, EndOfCapture, Clock, Scan, skipItem,
     needToExport, writeCount, writePacket, endOfItem, nextBucket, dumpTrace, vars

LEMMA StaysInTable ==
    ASSUME NEW n, NEW b \in Buckets, NEW k \in 1..NumPackets, NEW m \in 1..NumPackets,
           k \in 1..Len(buckets'[b]), m \in 1..Len(buckets'[b][k].packets),
           buckets'[b][k].packets[m] = n
    PROVE  Somewhere(n)'
<1>0. NumPackets \in Nat
  BY FlowTableAssumption
<1>1. k <= Len(buckets'[b]) /\ m <= Len(buckets'[b][k].packets)
  BY <1>0
<1>2. <<b, k, m>> \in TablePlaces(n)'
  BY <1>1 DEF TablePlaces
<1>. QED  BY <1>2 DEF Somewhere

LEMMA DeletedKept ==
    ASSUME TableInv, OrderInv, deleteItem, NEW n, NEW p \in TablePlaces(n)
    PROVE  Somewhere(n)' \/ LateIn(n)
<1> USE DEF TableInv
<1>1. /\ p[1] \in Buckets /\ p[2] \in 1..Len(buckets[p[1]])
      /\ p[3] \in 1..Len(buckets[p[1]][p[2]].packets) /\ buckets[p[1]][p[2]].packets[p[3]] = n
  BY TableItemOf
<1>2. p[2] \in 1..NumPackets /\ p[3] \in 1..NumPackets /\ NumPackets \in Nat
  BY FlowTableAssumption DEF TablePlaces
<1>3. /\ it \in 1..Len(buckets[bucket]) /\ bucket \in Buckets
      /\ Len(buckets'[bucket]) = Len(buckets[bucket]) - 1 /\ Len(buckets[bucket]) \in Nat
      /\ \A k \in 1..Len(buckets'[bucket]) : Kept(bucket, k, IF k < it THEN k ELSE k + 1)
      /\ \A b \in Buckets \ {bucket} : buckets'[b] = buckets[b]
  BY DeleteItemEffect DEF TypeOK
<1>4. CASE p[1] # bucket
  <2>1. p[2] \in 1..Len(buckets'[p[1]]) /\ buckets'[p[1]][p[2]] = buckets[p[1]][p[2]]
    BY <1>1, <1>3, <1>4
  <2>. QED  BY <1>1, <1>2, <2>1, StaysInTable
<1>5. CASE p[1] = bucket /\ p[2] # it
  <2> DEFINE k == IF p[2] < it THEN p[2] ELSE p[2] - 1
  <2>1. /\ k \in 1..Len(buckets'[bucket]) /\ k \in 1..NumPackets
        /\ (IF k < it THEN k ELSE k + 1) = p[2]
    BY <1>1, <1>2, <1>3, <1>5
  <2> HIDE DEF k
  <2>2. Kept(bucket, k, p[2])
    <3>1. Kept(bucket, k, IF k < it THEN k ELSE k + 1)
      BY <1>3, <2>1
    <3>. QED  BY <2>1, <3>1
  <2>3. buckets'[bucket][k] = buckets[bucket][p[2]]
    BY <2>2 DEF Kept
  <2>4. p[3] \in 1..Len(buckets'[bucket][k].packets) /\ buckets'[bucket][k].packets[p[3]] = n
    BY <1>1, <1>5, <2>3
  <2>. QED  BY <1>2, <1>3, <2>1, <2>4, StaysInTable
<1>6. CASE p[1] = bucket /\ p[2] = it
  <2>1. /\ sPc = "delete" /\ Exports /\ UNCHANGED trace
        /\ p[3] \in 1..Len(Item.packets) /\ Item.packets[p[3]] = n
    BY <1>1, <1>6 DEF deleteItem, Exports, Item, traceVars
  <2>2. /\ Current.count <= Len(Written)
        /\ \A m \in 1..Len(Written) : Written[m] = Item.packets[m]
    BY <2>1 DEF ExportHolds
  <2>3. Len(trace) \in 1..Len(trace) /\ Current.count \in Nat /\ Len(Written) \in Nat
    BY <2>1, CurrentType
  <2>4. CASE p[3] <= Current.count
    <3>1. p[3] \in 1..Len(Written) /\ Written[p[3]] = n
      BY <1>2, <2>1, <2>2, <2>3, <2>4
    <3>2. /\ p[3] <= Len(trace[Len(trace)].packets) /\ trace[Len(trace)].packets[p[3]] = n
      BY <2>3, <3>1 DEF Written, Current
    <3>3. <<Len(trace), p[3]>> \in TracePlaces(n)
      BY <1>2, <2>3, <3>2 DEF TracePlaces
    <3>4. TracePlaces(n)' = TracePlaces(n)
      BY <2>1 DEF TracePlaces
    <3>. QED  BY <3>3, <3>4 DEF Somewhere
  <2>5. CASE ~(p[3] <= Current.count)
    <3>1. p[3] \in Current.count + 1..Len(Item.packets)
      BY <1>2, <2>1, <2>3, <2>5
    <3>. QED  BY <2>1, <3>1 DEF LateIn, Current
  <2>. QED  BY <2>4, <2>5
<1>. QED  BY <1>4, <1>5, <1>6

\* Whatever captureThread adds in between, only deleteItem loses packets, and only those
\* that reached the item after PacketsItem::write2file had counted its packets.
THEOREM LossCorrect == Spec => LossOnlyAfterExport
<1>1. TableInv /\ OrderInv /\ [Next]_vars =>
        [\A n \in 1..Len(captured) : Somewhere(n) /\ ~Somewhere(n)' => LateIn(n)]_vars
  <2> SUFFICES ASSUME TableInv, OrderInv, [Next]_vars, NEW n \in 1..Len(captured), Somewhere(n)
               PROVE  Somewhere(n)' \/ LateIn(n)
    OBVIOUS
  <2>1. ASSUME NEW p \in TracePlaces(n) PROVE Somewhere(n)'
    <3>1. /\ p[1] \in 1..Len(trace) /\ p[2] \in 1..Len(trace[p[1]].packets)
          /\ p[2] \in 1..NumPackets /\ p = <<p[1], p[2]>> /\ trace[p[1]].packets[p[2]] = n
      BY TraceItemOf DEF TracePlaces
    <3>2. /\ p[1] \in 1..Len(trace') /\ p[2] \in 1..Len(trace'[p[1]].packets)
          /\ trace'[p[1]].packets[p[2]] = n
      BY <3>1, TraceGrows DEF Extends
    <3>3. p[2] <= Len(trace'[p[1]].packets)
      BY <3>1, <3>2, FlowTableAssumption
    <3>4. p \in TracePlaces(n)'
      BY <3>1, <3>2, <3>3 DEF TracePlaces
    <3>. QED  BY <3>4 DEF Somewhere
  <2>2. ASSUME NEW p \in TablePlaces(n), ~deleteItem PROVE Somewhere(n)'
    <3>1. /\ p[1] \in Buckets /\ p[2] \in 1..Len(buckets[p[1]])
          /\ p[3] \in 1..Len(buckets[p[1]][p[2]].packets)
          /\ buckets[p[1]][p[2]].packets[p[3]] = n
      BY TableItemOf
    <3>2. p[2] \in 1..NumPackets /\ p[3] \in 1..NumPackets
      BY DEF TablePlaces
    <3>3. /\ p[2] \in 1..Len(buckets'[p[1]]) /\ p[3] \in 1..Len(buckets'[p[1]][p[2]].packets)
          /\ buckets'[p[1]][p[2]].packets[p[3]] = n
      BY <2>2, <3>1, TableGrows DEF Extends
    <3>. QED  BY <3>1, <3>2, <3>3, StaysInTable
  <2>3. ASSUME NEW p \in TablePlaces(n), deleteItem PROVE Somewhere(n)' \/ LateIn(n)
    BY <2>3, DeletedKept
  <2>. QED  BY <2>1, <2>2, <2>3 DEF Somewhere
<1>2. [\A n \in 1..Len(captured) : Somewhere(n) /\ ~Somewhere(n)' => LateIn(n)]_vars =>
        [\A n \in 1..Len(captured) :
            TablePlaces(n) \cup TracePlaces(n) # {} /\ (TablePlaces(n) \cup TracePlaces(n))' = {}
                => /\ sPc = "delete"
                   /\ \E m \in trace[Len(trace)].count + 1..Len(Item.packets) :
                         Item.packets[m] = n]_vars
  BY DEF Somewhere, LateIn
<1>. QED  BY <1>1, <1>2, TableCorrect, OrderInvCorrect, PTL DEF Spec, LossOnlyAfterExport

=============================================================================
