--------------------------- MODULE OffsetsResult ---------------------------
(***************************************************************************)
(* OffsetsResult::intersection and OffsetsResult::merge (storage/index.h), *)
(* by which a query combines the positions its AND and OR filters found in *)
(* the index files: two cursors walk the vectors and build a third. Of a   *)
(* VALUE only its offset is compared and kept here. The cursors start at 1 *)
(* where the code's start at 0.                                            *)
(***************************************************************************)
EXTENDS Naturals, Sequences

CONSTANT Results   \* what an index query may return: ascending for one key, else any

ASSUME OffsetsAssumption == Results \subseteq Seq(Nat)

VARIABLES
    op,        \* the call: "intersection" or "merge"
    input,     \* the vector offsets as the call found it
    offsets,   \* the vector offsets
    other,     \* result->offsets
    i, j,      \* the cursors in offsets and in result->offsets
    temp,      \* the vector that is built
    pc

vars == <<op, input, offsets, other, i, j, temp, pc>>

Init ==
    /\ op \in {"intersection", "merge"}
    /\ input \in Results /\ offsets = input
    /\ other \in Results
    /\ i = 1 /\ j = 1
    /\ temp = <<>>
    /\ pc = "loop"

\* Mutant: the loop stops one short of the end of result->offsets.
InRangeShort == i <= Len(offsets) /\ j < Len(other)

InRange == i <= Len(offsets) /\ j <= Len(other)

\* Mutant: the cursor of result->offsets stays on an equal element.
OnlyLeft == j

\* The cursor of result->offsets after an equal element: past it.
PastEqual == j + 1

\* Equal offsets are in both results.
takeEqual ==
    /\ pc = "loop" /\ InRange
    /\ offsets[i] = other[j]
    /\ temp' = Append(temp, offsets[i])
    /\ i' = i + 1 /\ j' = PastEqual
    /\ UNCHANGED <<op, input, offsets, other, pc>>

\* A merge keeps the smaller of two elements, an intersection drops it.
Kept(v) == IF op = "merge" THEN Append(temp, v) ELSE temp

takeOther ==
    /\ pc = "loop" /\ InRange
    /\ offsets[i] > other[j]
    /\ temp' = Kept(other[j])
    /\ j' = j + 1
    /\ UNCHANGED <<op, input, offsets, other, i, pc>>

takeOffset ==
    /\ pc = "loop" /\ InRange
    /\ offsets[i] < other[j]
    /\ temp' = Kept(offsets[i])
    /\ i' = i + 1
    /\ UNCHANGED <<op, input, offsets, other, j, pc>>

\* One cursor is at its end: the vectors are swapped and the old one deleted. What is
\* left of the other vector is not added, not even by a merge.
swap ==
    /\ pc = "loop" /\ ~InRange
    /\ offsets' = temp /\ temp' = <<>>
    /\ pc' = "done"
    /\ UNCHANGED <<op, input, other, i, j>>

Next == takeEqual \/ takeOther \/ takeOffset \/ swap

Spec == Init /\ [][Next]_vars

-----------------------------------------------------------------------------
(* Properties. *)

Elements(s) == {s[k] : k \in 1..Len(s)}

Ascending(s) == \A k, m \in 1..Len(s) : k < m => s[k] < s[m]

\* Every variable has its type; no cursor is more than one past its vector.
TypeOK ==
    /\ op \in {"intersection", "merge"} /\ pc \in {"loop", "done"}
    /\ input \in Seq(Nat) /\ offsets \in Seq(Nat) /\ other \in Seq(Nat) /\ temp \in Seq(Nat)
    /\ i \in 1..Len(input) + 1 /\ j \in 1..Len(other) + 1

\* Whatever the order of the operands, no position is invented: an intersection returns
\* only common positions, a merge only positions of an operand.
NothingInvented ==
    pc = "done" =>
        Elements(offsets) \subseteq
            (IF op = "merge" THEN Elements(input) \cup Elements(other)
                             ELSE Elements(input) \cap Elements(other))

\* With ascending operands the result ascends, so it may be an operand again.
ResultAscends ==
    pc = "done" /\ Ascending(input) /\ Ascending(other) => Ascending(offsets)

\* With ascending operands an intersection returns every common position.
IntersectionExact ==
    pc = "done" /\ op = "intersection" /\ Ascending(input) /\ Ascending(other)
        => Elements(offsets) = Elements(input) \cap Elements(other)

\* With ascending operands a merge returns exactly the positions that some position of
\* each operand reaches: the tail of the operand that goes further is dropped, and with
\* an empty operand everything.
MergeExact ==
    pc = "done" /\ op = "merge" /\ Ascending(input) /\ Ascending(other)
        => Elements(offsets) =
               {x \in Elements(input) \cup Elements(other) :
                   \E y \in Elements(input), z \in Elements(other) : x <= y /\ x <= z}

-----------------------------------------------------------------------------
(* The inductive invariant. *)

\* The vectors keep their values until the swap.
OperandInv == pc = "loop" => offsets = input

\* Elements a cursor has passed are below those the other cursor has still to see.
FrontierInv ==
    Ascending(input) /\ Ascending(other) =>
        /\ \A k \in 1..i - 1, m \in j..Len(other) : input[k] < other[m]
        /\ \A m \in 1..j - 1, k \in i..Len(input) : other[m] < input[k]

\* Value v is among the first a - 1 elements of input and the first b - 1 of other: among
\* both or, in a merge, among one of them.
From(v, a, b) ==
    IF op = "merge"
    THEN \/ \E k \in 1..a - 1 : v = input[k]
         \/ \E m \in 1..b - 1 : v = other[m]
    ELSE \E k \in 1..a - 1, m \in 1..b - 1 : v = input[k] /\ v = other[m]

\* What is built comes from passed elements.
OriginInv ==
    pc = "loop" => \A n \in 1..Len(temp) : From(temp[n], i, j)

\* Every passed element that is to be kept has been kept.
CollectedInv ==
    pc = "loop" /\ Ascending(input) /\ Ascending(other) =>
        IF op = "merge"
        THEN /\ \A k \in 1..i - 1 : input[k] \in Elements(temp)
             /\ \A m \in 1..j - 1 : other[m] \in Elements(temp)
        ELSE \A k \in 1..i - 1, m \in 1..j - 1 :
                 input[k] = other[m] => input[k] \in Elements(temp)

\* A cursor passes only elements that the other vector reaches.
ReachedInv ==
    /\ \A k \in 1..i - 1 : \E z \in Elements(other) : input[k] <= z
    /\ \A m \in 1..j - 1 : \E y \in Elements(input) : other[m] <= y

\* Every element of s is below what cursors a and b have still to see.
Below(s, a, b) ==
    \A n \in 1..Len(s) :
        /\ \A k \in a..Len(input) : s[n] < input[k]
        /\ \A m \in b..Len(other) : s[n] < other[m]

\* What is built ascends and is below everything the cursors have still to see.
OrderInv ==
    pc = "loop" /\ Ascending(input) /\ Ascending(other)
        => Ascending(temp) /\ Below(temp, i, j)

\* Together: what every iteration of the loops keeps.
LoopInv ==
    /\ TypeOK /\ OperandInv /\ FrontierInv
    /\ OriginInv /\ CollectedInv /\ ReachedInv /\ OrderInv

=============================================================================
