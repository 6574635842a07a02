# traceDB in TLA+

traceDB ("Indexing") stores flow records, or the packets of flows, in numbered
trace files, indexes six of their fields (source and destination address and
port, protocol, time) in tries, writes each trie to an index file when its trace
file is full, and answers queries from a MySQL table that names the files. This
directory models the parts where threads, files and restarts meet, the index down to
its containers and file formats, and the query commands with their generated parser and
scanner; checks them with TLC and proves the most important results with TLAPS.

## 1. The system

| Part | State | Operations | Talks to |
|---|---|---|---|
| Receiver thread (`main.cpp`, `receiveFlowRecords`) | `capture_done` | read a flow, store it, test whether to dump, dump, delete the storage | calls `Storage` |
| `Storage`, `FileManager`, `TraceFile` (`storage/storage.*`, `trace_file.*`) | `fileID_`, `total_flows_`, `total_bytes_`, the open file | constructor, `storeFlowRecords`, `storePacketsItem`, `dumpTraceAndIndex`, `newFile` | MySQL, the file system, `Index` |
| `Index`, `IndexBase` and six index threads (`storage/index.*`) | `write_index_flag`, `exit_signal`; per field the pointer, the buffer `records_`, the trie, the file name | `addRecord`, `insertRecords`, `writeIndexToFile`, `set`/`resetWriteIndexFlag`, `setExitSignal`, `queryFromFile`, `queryFromMem` | the receiver (buffer under a mutex, flags under rwlocks, pointers and `fileID_` under nothing) |
| `MysqlDriver` | the table of trace files | `createTable`, `insertRow`, `getTotalRows`, `getMatchedRows` | outlives the process |
| `HashTable`, capture and scan threads (`hash_table.*`, `hash_bucket.*`, `main.cpp`) | buckets of flows with their packets | `addPacket`, `needToExport`, `deleteItem`, the scan | packet mode; compiled, but not in `threads_list` at this commit |
| `OffsetsResult` (`storage/index.h`) | a vector of positions | `intersection`, `merge` | built by queries, one per filter |
| `Trie`, `TrieNode` (`Util/trie*`) | nodes with children, a bitmap and cached bit positions; the index file | `addItem`, `write2file`, `queryFromMem`, `queryFromFile` | owned by `IndexBase`; walked by the index thread and the command thread |
| `LinkList`, its pool, `Bitmap` (`Util/`) | positions of a key in chunks; bits in words | add, intersect, merge, dump, load | used by the trie's nodes |
| `Query` (`query/query.*`) | the request, the result of the last filter | `processCommand`: help, count, save, show | parses each command several times; reads rows, index files, the tries in memory, trace files |
| Parser and scanner (`query/command_parser.*`, `command_scanner.*`) | stack of states and values; buffer, position, last accepting state | `yyparse` with the grammar's actions, `commandlex` | the actions query the indexes |
| `BTree`, `BloomFilter`, `linklist2.h` | nodes and splits; bits and bound hash functions; nodes with `head`, `tail`, skip pointers | insert, query, files | alternatives outside the default build |
| logs, configuration, measurement, `PcapEngine` | | | input and output only |

The commit is in the middle of a change of the indexed value from an offset to a
record with an offset and a packet count; several call sites do not compile as
they stand. The models follow the code as written and take of such a value only
what both forms share, the position.

What is hard here, and what must hold in spite of it:

* **Interleaving.** Index threads delete and replace the objects the receiver
  pushes flows to. Flows must not be duplicated or reordered, must never appear
  under an earlier trace file, and may be lost only at the one known place.
* **A flag that is both a request and an acknowledgement**, reset with `^=`. Two
  dumps may meet one reset.
* **Names computed from a shared counter** that another thread increases.
* **Shutdown.** Raising the exit signal must end every thread, and exactly then.
* **Restarts.** All a new process knows of the files on disk is the number of
  rows of a table, whose inserts may have failed unnoticed.
* **Export.** The scan writes an item and deletes it in two critical sections
  while packets arrive.
* **Operand order.** Results of queries are combined by loops that assume
  ascending positions.
* **Unlocked readers.** The command thread walks the trie that the index thread is
  changing, writing or deleting. It meets list nodes that are linked but not yet written and
  nodes without children, and both threads compute the bit positions that a node keeps.
* **Layout computed twice.** Writer and reader of an index file each add up the sizes
  of headers and lists; they meet only if both count the same bytes.
* **State that outlives a command**: the request, the parser's `result`, the scanner's
  last accepting state.

`PROJECT.json` lists every such hazard at its line, with the property that covers
it or the reason why none does.

## 2. Modules

| Module | What it is |
|---|---|
| `IndexPipeline` | receiver and index threads in flow mode |
| `FlowIndex` | what the index of a field promises about each flow, without threads |
| `IndexPipelineRefinement` | the refinement mapping from the former to the latter |
| `TraceCatalog` | trace files and the table over restarts and crashes |
| `FlowTable` | hash table, capture and scan in packet mode |
| `OffsetsResult` | `intersection` and `merge` |
| `TrieIndex` | the trie in memory and on disk, beside a query |
| `CommandParser`, `QueryCommand` | the parser with the grammar's actions; `processCommand`, which drives it |
| `CommandScanner` | the scanner, for a command in memory |
| `LinkList`, `Bitmap`, `LinkList2`, `BTree` | the containers |
| `*_proofs` | theorems about the module of that name; `Structures_proofs` about `LinkList` and `Bitmap`, `IndexPipeline_proofs` also about `IndexPipelineRefinement` |
| `InductionLemmas` | facts about sums, functions by recursion and sets in order that the proofs of the trie and the containers share |
| `MC*` | instances for TLC; `MCStructures` runs one of the four containers at a time, `MCQueryCommand` commands of tokens or texts of characters |

### IndexPipeline

A step is one access to state that another thread can see: a critical section of
`IndexBase::mutex_` or of the rwlocks, or one unprotected read or write. Each
action carries the name of the function it models.

| Variable | Code |
|---|---|
| `rPc`, `fld`, `rPtr` | where the receiver is, the field `addRecord` serves, the index pointer it has loaded |
| `fileID`, `totalFlows`, `totalBytes` | `FileManager::fileID_`, `TraceFile::total_flows_`, `total_bytes_` |
| `rows` | the MySQL table, by the file ids of its rows |
| `iPc`, `newName` | where each index thread is, the name it has computed |
| `live`, `gen`, `name`, `records`, `trie` | the `IndexBase` of each field: alive or deleted, which object, `index_file_`, `records_`, the flows in its trie |
| `idxFiles` | the index files on disk |
| `flag`, `exitSignal` | `write_index_flag` as the set of its bits, `exit_signal` |
| `position` | history: the file and flow id each flow was given |

`addItem` on an object that was deleted after its pointer was loaded is undefined.
The model lets it have either effect the build can produce: the flow is lost in
freed memory or reaches the object that now has the address. (Heap corruption
beyond that is not modelled.) `write2file` may fail to open its file and
`insertRow` may be rejected, with the results ignored as in the code.

### FlowIndex and the refinement

`FlowIndex` gives every flow of a field a stage: unseen, buffered, indexed,
persisted, lost. Flows are offered in order; buffer and trie move as a whole; a
lost flow never comes back. `ImplementsFlowIndex` says that the threads implement
it under the mapping `StageOf`.

### TraceCatalog

Several lives of the process over the same disk and table: `Start` computes the
file id from the number of rows (0 if the query fails) and truncates that file,
`storeFlowRecords` and `Flush` separate what `fwrite` has buffered from what is on
disk, `insertRow` and `newFile` are separate because a crash may come between
them, `Exit` closes the file without a dump (why is shown by the run
`CapturedFlowsDumped`), `Crash` loses the buffer. `dbError` records whether a query
has ever failed; the code never looks at it, and the properties that depend on the
table hold only as long as it is false.

### FlowTable

`addPacket` and `deleteItem` are the critical sections of `HashBucket`; between
them the scan uses an iterator without the lock, and each of its reads of the item
(the count, each packet) is a step. Time is an action that makes an item due until
its next packet. Sizes of trace files are counted in items.

### OffsetsResult

The two loops with their cursors, one iteration per step. The call ends in the
step `swap`, after which nothing happens (`CHECK_DEADLOCK FALSE`).

### TrieIndex

A node is named by its level and the digits above it. Both threads are taken apart where
the other can look or write in between:

| Actions | Code |
|---|---|
| `addItem`, `newChild`, `setBit` | `Trie::addItem` down to the leaf: a child or list is linked and counted (`++elemCount`), then its bit is set |
| `newNode`, `writeData`, `countElement` | `LinkList::addElement`: the node is linked (`head`, `tail->next`); `data` and `elem_num` are written after that, in either order, because nothing orders the two writes of `data[elem_num++] = elem` |
| `newBitPosition`, `readWord`, `storePosition` | `getBitPosition` of either thread: the new array is published, then filled from one word of the bitmap after the other. `cache` holds what is filled; `fill` is where each thread is |
| `computePositions`, `recountLeaf` | the index thread finds `bitPosition` NULL, or a leaf replaces it when it is written (`trie_node.cpp:149`) |
| `seek`, `endOfNode`, `visitInterNode`, `visitLeafNode` | one turn each of the loops of `queryFromMem`, which read `elemCount`, the position and the child anew |
| `mergeTurn`, `readElemNum`, `nextNode` | one turn of the loop that merges a list into what was found: a cell is read to compare and to take it, then `elem_num`, then `next` |
| `fopen` .. `fclose`, `destroy` | `write2file`, breadth first, one node a step, and `~Trie` |

When one thread publishes a new array while the other is filling the old one for the same node, the
rest of that filling is invisible and left out. Entries that `elemCount` asks for beyond
those that are filled are uninitialised memory: the model lets them be any digit of
`JunkPositions`, and cells not yet written any of `JunkValues`. Three groupings remain, each of
which the finer steps add no outcome to. The index thread reads the positions of the nodes
it writes at one moment, with anything in the entries that are not filled: while it
writes no bit is set any more, so an entry it reads is either the one entry all arrays
agree on or uninitialised. A turn of the query's loops reads `elemCount`, position and child together, where
each of them only grows. The cell that is compared and the cell that is taken are two values (`v`, `w`), both drawn
from what the cell may hold. A list node is taken to be constructed (`elem_num` 0,
`next` NULL) before it is linked, as the code is written.

What a query went through is kept in flags: `stale` (it read a position while `bitPosition` had fewer entries
than the node children), `torn` (it read a cell that was not yet written), `empty` (it looked for the beginning of
the range in a node without children) and `late` (it ran beside the write). A query may meet a `NULL`
child, where the loop does not advance (`spin`), the assertion of `getResult` (`abort`) or freed nodes (`dangling`).
`MemQueryExact` shows what each costs. A query that was neither stale nor late misses no flow that was there when it
began. One that was torn may return a value that was in memory by chance, and in the wrong place; one
that met an empty node returns flows below its range, because the loop for the beginning
ends at once and the loop for the end then takes the child that was added meanwhile
(`trie.cpp:204`, `248`). Without the condition on `torn`, or on `empty`, TLC refutes it.

`queryFromFile` is an operator on a complete file. It reads the headers of all leaves of
the range first and then seeks each list from where it is; the lists are found only if
the range meets one leaf, and `FileQueryExact` says of such a range that every flow of it
comes once, in the order of the keys and for a key in the order of the flows. An `fwrite` is
`Put`: what is written covers what was at its place. `NULL` is no number, so that it is no
place of a file.

### CommandParser, QueryCommand

The tables are those of `command_parser.cpp`; shift, reduce, error and accept are the
steps of `yyparse`, and each reduction runs the action of its rule. A token is its kind
with a value. `processCommand` parses a command once for the request
(`parse_req_parameters`, no storage), then once for the trace in memory and once for each
matching row (`parse_command`, where filters query an index and put what they find in
`result`). What the model shows and the properties state: text after a complete command
does not stop it; a command with a syntax error runs with the type of the command before
it (nobody looks at the number of errors); a command refused after its filter still
returns the filter's result; an empty filter never returns one; a saved record is the one
behind the match, because ids count from 1 and records from 0. `ResultMatches` compares
the number a flow has with the number that was asked for. The line of a flow holds its ports in
host order (`packet.h:223`), `get_sport` swaps their bytes when they are indexed (`packet.h:236`), and
a port in a command is not swapped (`command_parser.yy:340`): a query for a port finds the flows of
the port with its bytes swapped. The property is therefore stated for the filters in
which this makes no difference (`Exact`): addresses, protocols of one byte, and ports that are the same in
both byte orders; for any other port the code does not satisfy it.

### CommandScanner

The tables of flex over character classes (`yy_ec` maps the characters to them). `Move`
follows the compressed rows, `yy_match` reads one character, `Match` backs up to the last
accepting state, `lastMatch` is the case in which the text ends inside a token.
The patterns of `command_scanner.ll` are stated separately (`IsLexeme`), by what they
match and not as an automaton. They show that an identifier has at least two characters, so that a file
name of one letter is refused. NUL in a command is not modelled.

### The containers

`LinkList` keeps chunks and the number of free nodes of the pool; `intersection` takes a
step per turn of its inner loop, so that nodes freed together and one by one both occur.
`readFromFile` does not advance its index: the model loads the first element until the
pool is empty, where the assertion fails. `copyAndMerge` is a loop of turns, each of which
takes the next element of the list or of the vector. `Owned` counts the places of the
nodes in the lists and in a walk. `Bitmap` keeps a word as the set of its bits and has the width of bytes and words as
parameters, because `clear` counts words as bytes and `getOnePosition` works byte by byte;
a `BloomFilter` is a bitmap with hash functions that a file does not restore. Its `merge` and
copying functions do not compile and are left out. `LinkList2` keeps pointers in a heap that
never reuses a place, because `merge` and `intersection` leave `tail` where it was.
`BTree` inserts in steps (descend, insert, split, split the parent, new root) and has
`write2file` as an operator. When an inner node is split, the middle key is passed up before the new child
has been added (`btree.h:171`), so that the child is filed under the wrong key: no value is lost
(`EveryValueKept`), but the order that every search relies on holds only while no inner node
was split (`KeysAscend`; without that condition TLC refutes it). The readers of the tree are left out because they do not work: a leaf
reads its lists with `LinkList::readFromFile`, which never returns from a list that is not empty
(`loadElement` in `LinkList`), and `queryFromFile` calls `LinkList::merge`, which is under `#if 0`.
`FileHoldsTree` says of the file itself that its offsets lead to the same keys and values in the same order as the
pointers in memory.

## 3. Runs

| Run | Bounds | What it shows |
|---|---|---|
| `Pipeline` | 2 fields, 2 flows, 1 flow per file, 1 row before, `FairSpec` | `PipelineInv` is an invariant with every part; no thread on a deleted index; `^=` never raises a bit; shutdown ends, write requests are served, buffers drain |
| `PipelineRefinement` | 1 field, 6 flows, 2 per file, 1 row before, failing inserts and opens | `FlowIndex` is implemented; order, names and losses when up to three dumps pass during one write |
| `TraceCatalog` | 7 flows, 2 per file, 4 lives, refused queries | rows number the files, files of one life, what a crash can lose, catalogued files are kept |
| `FlowTable` | 4 packets, 2 five-tuples in one bucket, an empty bucket, `FairSpec` | one item per flow, at most one export of each packet, capture order, counts covered, loss only after export; packets leave the table, exports are catalogued |
| `OffsetsResult` | all pairs of vectors of up to 3 offsets below 5 | exact and ascending results on ascending operands |
| `TrieIndex` | 2 levels of 4 digits, words of 2 bits, list nodes of 2 values, 3 keys in 2 leaves, 3 flows, a query of a range that cuts both leaves | what a query in memory returns at every interleaving with insertion, filling of positions and write; queries of the file are exact if the index thread read complete positions; only incomplete positions make either thread fail |
| `QueryCommand` | 2 commands of 60, sentences with up to 3 tests, 2 catalogued traces and 1 in memory; 2 texts of up to 7 characters | request, result, counts and saved records of commands; longest match of the scanner |
| `Structures` | lists of 2 cells per node, pool of 5, 6 operations; words of 4 bytes of 2 bits, 6 operations; 6 nodes, 6 operations; nodes of 4 keys, 14 keys | the containers hold what was put in, over merges, files and splits |

Why the bounds are enough. Index threads of different fields share only the
flag, the exit signal and `fileID`; two of them show every interaction of a bit with
other bits, and a third would only repeat the second. One flow per file makes every
flow a dump, so dumps overtake threads as early as possible; `PipelineRefinement` adds
files of several flows and several dumps in one write. In `TraceCatalog` the state
that survives a life is the table and the files, and four lives let a failed insert
be followed by two restarts. In `FlowTable` the interleavings that matter are those of
one bucket whose items move up when one is deleted; the theorems hold for any number of
buckets and five-tuples. In `TrieIndex` one leaf gets a second key
and the root a second child while their positions are computed by either thread or read, a bitmap has two words, and three flows
of one key link a second node to its list. The positions that one query leaves in the nodes are as stale for
its own next turn as for the next query, so one query is enough; the theorems hold for any number. In
`QueryCommand` the commands are the verbs with every kind of filter, two more with one token
left out or put in at every place; two commands show what stays from one to the next. The
texts are all sequences of up to 7 digits, stars and points, of up to 6 digits, dashes, colons
and points, of up to 4 of nine classes, all pairs of classes and what differs a little from a
keyword: a pattern looks at most at the kinds of characters and the number of
separators, and an address needs 7. In `Structures` five nodes hold two lists and the result of
their intersection, the bitmaps have one and two words, and 14 insertions into nodes of
four keys split leaves, inner nodes and the root.

`CHECK_DEADLOCK FALSE` stands where a bounded history ends: the call returned, the lives
are used up, the index was freed, no command or operation is left.

Four runs expect a violation. Each checks a sentence of the code's comments, or an assertion:

* `CapturedFlowsDumped`, `DumpedIndexesWritten`: "after finishing capture, trace file
  and index files need to be dumped" (`main.cpp:210`). The last trace file gets no row,
  because `total_bytes_` is never increased in flow mode; and even a dumped trace file
  may lack its index files, because an index thread that has just tested the flag then
  sees the exit signal.
* `NoPacketLost`: the iterator is to be used under the lock (`hash_bucket.h:24`);
  `scanHashTable` does not, and a packet that arrives between export and deletion is
  freed unwritten.
* `ResultsExist`: `assert( resultArray[idx] != NULL )` (`trie_node.cpp:123`). A query
  computes the positions of a node, a flow with a new key is added, and the query, or the next
  one, reads one position more than were computed.

### Fairness

`IndexPipeline!FairSpec`: every index thread loops without waiting and no lock is held
across a step, so each is weakly fair; the receiver is weakly fair whenever it has a
flow in its hands, but it may wait for input forever (`rPc = "read"`), because nothing
in the code makes flows arrive. `Termination` therefore starts from the end of the
capture. `FlowTable!FairSpec`: the scan loops forever, time passes, and the capture ends;
arrivals are not fair.

## 4. Proofs

The proof modules hold for every value of the constants that satisfies the named
assumptions (`PipelineAssumption`, `CatalogAssumption`, `OffsetsAssumption`,
`TrieAssumption`, `LinkListAssumption`, `BitmapAssumption`, `BTreeAssumption`, which TLC
evaluates on each instance). They ask for natural numbers, at least one field, at least one flow per file;
a trie of at least two digits and one level whose keys and ranges have that many digits, with words of at least one bit and list nodes of at least one value;
a B-tree whose nodes have an even number of keys, at least two, and a `NULL` that is no place of a
node; nodes of at least one element, finitely many lists, and that what is uninitialised (`JUNK`) is told
from a position; bytes and words of at least one bit and hash functions that return numbers.

* **IndexPipeline.** `PipelineInv` is proved part by part, each part inductive
  relative to the earlier ones: types; control (`LiveInv`: an index is dead exactly
  between `delete` and `new`; `FlagInv`: a thread that writes still has its bit, which is
  why `^=` acts as a reset); rows and flow ids; names (`NameInv`: successive indexes are
  named after ascending files); order. Order needs `StoredInv`: nothing is stored for a
  field beyond the flow `addRecord` has offered it, so a flow that is pushed late, even
  onto a new object, is still the youngest. From these follow `ThreadUsesLiveIndex`,
  `OnlyDumpRaisesFlag`, `LossOnlyWhileWriting`, `FlowsInOrder`, `NoFlowOfEarlierTrace`,
  `RowsNumbered`, `FlowIdsConsecutive`.
* **Refinement.** `Spec => ImplementsFlowIndex`: initial states map to the initial state,
  `addItem` to `Offer`, `insertRecords` to `Insert`, `write2file` to `Persist`,
  `deleteIndex` to `Drop`, `deleteIndexes` to `Close`, all others to stutters.
* **TraceCatalog.** `RowsNumbered` is inductive by itself. `OneLifePerFile` needs
  `PlaceInv`: each flow of the current file is as far from the end as its id says.
  `LostOnlyInLastFile` needs `LastFileInv`: no flow is in a file beyond the one after the
  table, so the file a life truncates is the last one of any life that wrote to it.
  `DumpedTraceKept` follows from `RowsNumbered`.
* **OffsetsResult.** `LoopInv` for vectors of any length: passed elements are below
  unpassed ones (`FrontierInv`), what is built comes from passed elements (`OriginInv`),
  contains all it should (`CollectedInv`), ascends and stays below both cursors
  (`OrderInv`). `MergeExact` is proved in the form the code satisfies: a merge drops what
  lies beyond the smaller of the two last elements (`ReachedInv`).
* **FlowTable.** For any number of packets, five-tuples and buckets, first `TableInv`:
  types, `OneItemPerFlow`, and `ExportHolds`, which ties the two threads together: while an
  item is exported, the last item of the trace is a copy of its first packets and counts
  no more than it has, whatever `captureThread` appends. `CountCovered` follows with it.
  `PacketsInOrder` is not inductive; `OrderInv` adds that packets were captured, from the
  flow of their item, and excludes the one pair that overlaps, the item under the
  iterator and its copy (`Copied`). From both follow `ExportedOnce` and
  `LossOnlyAfterExport`: every step but `deleteItem` leaves each packet where it is, and
  what `deleteItem` frees was copied up to the count. Each of the steps has an `...Effect`
  lemma that says what it does to lists, so that the invariants need no reasoning about
  `Append` and `SubSeq`.

* **TrieIndex.** For keys of any number of digits, any base, any size of words and list
  nodes, any ranges, any uninitialised memory and any number of flows and queries. `IInv` has three
  parts. `Core` is about the trie and both threads: a child is
  linked before its bit is set (`Linked`); the filled entries of a `bitPosition` are bits of
  the node in ascending order, whichever thread filled them and whatever was set meanwhile (`Positions`,
  and `Fills`: what is stored is below what a thread still has of the word it read), so that an array with
  as many entries as the node has children lists exactly its bits; each list holds the flows of its key
  in order, but for the one that is being added, of which `slot` says what is done, and every
  digit of their keys has its bit (`Added`). From it follows
  `FailsOnlyIncomplete`. `Idle` says when a query has nothing in its queues. `WalkExact` says of a query under way
  that what was there when it began is returned, is in the part of the list that is still to be merged,
  or lies below what is left of its queues, that the queues go from left to right
  over two levels behind everything returned, and that what is returned belongs to the
  range, in order and once. In the middle of a list, `merge.temp` and the rest of the old
  result are apart at the value the loop has come to, and all values of the list before it have been
  taken, also when the list has grown since the loop looked at `elem_num`. `MemQueryExact` is what
  `WalkExact` says when the queues are empty. Each action has a lemma for `Core` (`...Core`) and one for the walk (`...Walk`).
  `FileQueryExact` is about what the writer and the reader agree on. The invariant of the
  writer (`FileLaidOut`, with `Core` it is `FileInv`) says that there are places `P` of nodes, a set
  `D` of nodes that are written and bounds `e` such that the nodes of the queue have the
  places `e`, one after the other from the end of the file to the end of what is reserved
  (`Queued`: the sizes computed before a node is written are those it then takes);
  that what is written or queued is the root and the children of what is written (`Closed`);
  that an inner node in the file has the places of its children and a leaf the distances of its lists,
  each of which holds the flows of its key and ends where the next begins (`Written`); and that
  leaves not yet written still have their lists (`Unwritten`). It needs that the index
  thread read complete positions (`intact`): a leaf with fewer counts other lists than it writes. When the queue is
  empty the file is `Readable`. The reader then goes down: the entries of a level stand for written
  nodes at their places (`Sound`) and every flow of the range is below one of them
  (`Reaches`), by the recursion of `Frontier` over the levels (`FrontierStep`); in the leaf the
  lists from the first digit of the range on are read one after the other, and each read
  ends at the place of the next list (`ReadSoFar`, `ReadStep`).
* **Bitmap.** `BitmapInv`: the words of a bitmap fill it; it has the bits set since the last
  `clear` and besides only bits that `clear` left beyond its first byte (`Faithful`); a filter
  has the bits of each element inserted under each of its hash functions (`Sieve`); the same
  holds of the file, as it will be read. `BloomNoFalseNegative` follows. For `BitmapExact`
  the nested loops of `getOnePosition` are shown to list the bits that are set in ascending order:
  `Num2Pos` finds the lowest bit of a word byte by byte, `OfWord` takes all bits of a word,
  `GetOnePosition` goes over the words.
* **LinkList.** `ListInv`: types, and that the free nodes and `Owned` add up to the pool
  unless `readFromFile` has forgotten nodes; a failed assertion (`abort`) and the loop of
  `readFromFile` that does not advance (`load`) end the account. `NodesAccounted` follows. `HoldInv`
  says between operations that the nodes of a list, one after the other, ascend over `held`
  (`Holds`), and during an intersection (`WalkHolds`) that the result has so far `Found`, that what it is still to get
  (`Left`) is common to what lies ahead of the two cursors (`Ahead`), and
  that all of `Found` is below all of `Left`. A vector of query results does not descend
  (`NotDescending`) unless `unsorted`; the invariant of the loop of `copyAndMerge` is `Merging`.
* **BTree.** `BTreeInv` says of every state, also in the middle of an insertion, that there
  are a parent of each node, a home of each value and a level of each node such that the heap is
  a `Tree`: the children of a node are those whose parent it is, each once, the lists of
  a leaf hold the values at home there, each once and under its key, a parent is one level above its
  children, and the leaves are at level 0. While a leaf or an inner node has been split and the new half
  has no place in the parent yet, that half is the one node besides the root that has no
  parent, and the stack is the way from the root to the other half (`BTreeInv` has a part for each value of `pc`).
  The steps that matter are the two splits (`TreeSplit`: half of the children or values go to the new
  node, whichever half gets the item) and the new root (`TreeRaised`). `EveryValueKept`
  follows by going up the levels (`TreeContents`: the contents of the nodes of a level hold the
  values below them). `FileHoldsTree` needs the order in which the queue of `writeTree` takes the nodes:
  `OrderExists` gives it as a list `q` of all nodes, with `c[j]` nodes in the queue or out of it
  before turn `j`, so that the children of `q[j]` come after the first `c[j]`. The queue does not
  run empty before all nodes have been in it (`QueueNotEmpty`: every node is reached from the root).
  Then the state of each turn of the writer is known in closed form (`WriteState`,
  with places as sums of sizes), and the contents of the file are those of the tree, level by level.
  `KeysAscend` needs that keys are in order while no inner node has been split (`OrderInv`). The root
  is then a leaf, or has leaves below it (`BranchOrder`): the last key of each leaf is its key in the
  root and the keys of the next leaf are above it. This is broken at one place while an insertion is under way:
  `Pending` says how the key on its way relates to the leaf it goes to, `Parted` what the two halves of a leaf
  have of its place; the binary search of `findPosition` ends at the first key not below the one
  sought (`PositionIsFirst`), so a key comes to the leaf that has its place.

What a function defined by recursion over 0 .. n computes is proved with the lemmas of
`InductionLemmas`: `RecursionExists` gives a function that satisfies the recursion, `Climb`
carries a fact from one index to the next up to n; both rest on the least element of a set of
numbers, as the induction theorems of the library take operators that no prover here can
instantiate. `Enumeration` and `Ascends` say that a finite set of numbers is listed in order
in one way only. `RankedRecursion` gives a function that satisfies a recursion over nodes with ranks, such as
the levels of a tree; `SumsExist` and `SumByIs` say what a sum over the first elements of a sequence is. `Flattenings`, `FlattenBy` and `FlattenElements` do the same for the fold of
`FlattenSeq`.

Only model-checked: all liveness and the four violations; `CommandParser`,
`QueryCommand` and `CommandScanner`, whose properties compare tables with a grammar and are
about these tables, not about every value of a constant; `LinkList2`, whose functions
recurse along pointers.

## 5. Not modelled, and what is left

* A trace file that cannot be opened (the program aborts) and a thread that cannot be
  created; `fclose(NULL)` and `fflush(NULL)` where a save file could not be opened; missing
  data files; octets beyond 255, a `*` elsewhere than in the last octet.
* Time stamps in packet mode: the start of a row is when its file was opened, items hold
  earlier packets. The receiver deletes the storage at the end of the capture while a
  query may be in it: the two are in different modules, and after the delete everything is
  undefined.
* `HashTableInstance::getInstance` and the creation of the logs on first use without a
  lock, `Trie::readFromFile` and the file-descriptor variants of trie and B-tree, which no part of
  the program calls, the readers of the B-tree (`readFromFile`, `queryFromFile`: section 2, the containers), `LinkList2`'s pool, the hash functions of strings.
* `record.h`, `PcapEngine`, configuration, logs, measurement, build files: input, output
  and plain data.
* The growth of the parser's stack and the scanner's reading of files: commands are
  strings and shallow.

What would come next: the composition of `TrieIndex` with the threads of
`IndexPipeline` (a query beside several generations of an index), and a proof for `LinkList2`.
