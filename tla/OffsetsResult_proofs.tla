----------------------- MODULE OffsetsResult_proofs ------------------------
(***************************************************************************)
(* Proofs about OffsetsResult, for vectors of every length and content.    *)
(***************************************************************************)
EXTENDS OffsetsResult, TLAPS

\* The two ways an iteration treats temp: an element is appended, or nothing is.
LEMMA AppendedElement ==
    ASSUME NEW s \in Seq(Nat), NEW v \in Nat
    PROVE  /\ Append(s, v) \in Seq(Nat)
           /\ Len(s) \in Nat
           /\ Len(Append(s, v)) = Len(s) + 1
           /\ Append(s, v)[Len(s) + 1] = v
           /\ \A k \in 1..Len(s) : Append(s, v)[k] = s[k]
OBVIOUS

\* Every variable has its type.
THEOREM TypeCorrect == Spec => [](TypeOK /\ OperandInv)
<1> USE OffsetsAssumption
<1>1. Init => TypeOK /\ OperandInv
  BY DEF Init, TypeOK, OperandInv
<1>2. TypeOK /\ OperandInv /\ [Next]_vars => (TypeOK /\ OperandInv)'
  <2> SUFFICES ASSUME TypeOK, OperandInv, [Next]_vars PROVE (TypeOK /\ OperandInv)'
    OBVIOUS
  <2> USE DEF TypeOK, OperandInv
  <2>1. CASE takeEqual
    BY <2>1, AppendedElement DEF takeEqual, InRange, PastEqual
  <2>2. CASE takeOther
    BY <2>2, AppendedElement DEF takeOther, InRange, Kept
  <2>3. CASE takeOffset
    BY <2>3, AppendedElement DEF takeOffset, InRange, Kept
  <2>4. CASE swap
    BY <2>4 DEF swap
  <2>5. CASE UNCHANGED vars
    BY <2>5 DEF vars
  <2>. QED  BY <2>1, <2>2, <2>3, <2>4, <2>5 DEF Next
<1>. QED  BY <1>1, <1>2, PTL DEF Spec

\* The three outcomes of an iteration, one name each.
Equal == /\ input[i] = other[j] /\ i' = i + 1 /\ j' = j + 1
         /\ temp' = Append(temp, input[i])
Greater == /\ input[i] > other[j] /\ i' = i /\ j' = j + 1
           /\ temp' = IF op = "merge" THEN Append(temp, other[j]) ELSE temp
Less == /\ input[i] < other[j] /\ i' = i + 1 /\ j' = j
        /\ temp' = IF op = "merge" THEN Append(temp, input[i]) ELSE temp

\* What an iteration that takes an element of one or both vectors does to the cursors.
LEMMA Iteration ==
    ASSUME TypeOK, OperandInv, takeEqual \/ takeOther \/ takeOffset
    PROVE  /\ pc = "loop" /\ pc' = "loop"
           /\ i \in 1..Len(input) + 1 /\ j \in 1..Len(other) + 1
           /\ Len(input) \in Nat /\ Len(other) \in Nat
           /\ \A k \in 1..Len(input) : input[k] \in Nat
           /\ \A k \in 1..Len(other) : other[k] \in Nat
           /\ i \in 1..Len(input) /\ j \in 1..Len(other)
           /\ input' = input /\ other' = other /\ op' = op
           /\ Equal \/ Greater \/ Less
<1>1. /\ input \in Seq(Nat) /\ other \in Seq(Nat)
      /\ i \in 1..Len(input) + 1 /\ j \in 1..Len(other) + 1
  BY DEF TypeOK
<1>2. /\ Len(input) \in Nat /\ Len(other) \in Nat
      /\ \A k \in 1..Len(input) : input[k] \in Nat
      /\ \A k \in 1..Len(other) : other[k] \in Nat
  BY <1>1
<1>3. pc = "loop" /\ InRange /\ offsets = input
  BY DEF takeEqual, takeOther, takeOffset, OperandInv
<1>4. i \in 1..Len(input) /\ j \in 1..Len(other)
  BY <1>1, <1>2, <1>3 DEF InRange
<1>5. pc' = pc /\ input' = input /\ other' = other /\ op' = op
  BY DEF takeEqual, takeOther, takeOffset
<1>6. Equal \/ Greater \/ Less
  <2>1. CASE takeEqual
    BY <1>3, <2>1 DEF takeEqual, PastEqual, Equal
  <2>2. CASE takeOther
    BY <1>3, <2>2 DEF takeOther, Kept, Greater
  <2>3. CASE takeOffset
    BY <1>3, <2>3 DEF takeOffset, Kept, Less
  <2>. QED  BY <2>1, <2>2, <2>3
<1>. QED  BY <1>1, <1>2, <1>3, <1>4, <1>5, <1>6

\* With ascending operands, the passed elements are below those still to be seen.
THEOREM FrontierCorrect == Spec => []FrontierInv
<1> USE OffsetsAssumption
<1>1. Init => FrontierInv
  BY DEF Init, FrontierInv
<1>2. TypeOK /\ OperandInv /\ FrontierInv /\ [Next]_vars => FrontierInv'
  <2> SUFFICES ASSUME TypeOK, OperandInv, FrontierInv, [Next]_vars PROVE FrontierInv'
    OBVIOUS
  <2>1. CASE takeEqual \/ takeOther \/ takeOffset
    <3>1. /\ i \in 1..Len(input) /\ j \in 1..Len(other)
          /\ Len(input) \in Nat /\ Len(other) \in Nat
          /\ \A k \in 1..Len(input) : input[k] \in Nat
          /\ \A k \in 1..Len(other) : other[k] \in Nat
          /\ input' = input /\ other' = other
          /\ Equal \/ Greater \/ Less
      BY <2>1, Iteration
    <3> SUFFICES ASSUME Ascending(input), Ascending(other)
                 PROVE  /\ \A k \in 1..i' - 1, m \in j'..Len(other) : input[k] < other[m]
                        /\ \A m \in 1..j' - 1, k \in i'..Len(input) : other[m] < input[k]
      BY <3>1 DEF FrontierInv, Ascending
    <3>2. /\ \A k \in 1..i - 1, m \in j..Len(other) : input[k] < other[m]
          /\ \A m \in 1..j - 1, k \in i..Len(input) : other[m] < input[k]
      BY DEF FrontierInv
    <3>3. /\ \A k \in i + 1..Len(input) : input[i] < input[k]
          /\ \A k \in j + 1..Len(other) : other[j] < other[k]
      BY <3>1 DEF Ascending
    <3>4. CASE Equal
      <4>1. i' - 1 = i /\ j' - 1 = j /\ i' = i + 1 /\ j' = j + 1 /\ input[i] = other[j]
        BY <3>1, <3>4 DEF Equal
      <4>2. \A k \in 1..i, m \in j + 1..Len(other) : input[k] < other[m]
        BY <3>1, <3>2, <3>3, <4>1
      <4>3. \A m \in 1..j, k \in i + 1..Len(input) : other[m] < input[k]
        BY <3>1, <3>2, <3>3, <4>1
      <4>. QED  BY <4>1, <4>2, <4>3
    <3>5. CASE Greater
      BY <3>1, <3>2, <3>3, <3>5 DEF Greater
    <3>6. CASE Less
      BY <3>1, <3>2, <3>3, <3>6 DEF Less
    <3>. QED  BY <3>1, <3>4, <3>5, <3>6
  <2>2. CASE swap \/ UNCHANGED vars
    BY <2>2 DEF swap, vars, FrontierInv, Ascending
  <2>. QED  BY <2>1, <2>2 DEF Next
<1>. QED  BY <1>1, <1>2, TypeCorrect, PTL DEF Spec

\* What comes from a part of the vectors comes from a larger part.
LEMMA FromGrows ==
    ASSUME NEW v, NEW a \in Nat \ {0}, NEW b \in Nat \ {0},
           NEW c \in Nat, NEW d \in Nat, a <= c, b <= d, From(v, a, b)
    PROVE  From(v, c, d)
<1>1. (\A k \in 1..a - 1 : k \in 1..c - 1) /\ (\A k \in 1..b - 1 : k \in 1..d - 1)
  OBVIOUS
<1>. QED  BY <1>1 DEF From

\* What is built comes from the operands, whatever their order.
THEOREM OriginCorrect == Spec => []OriginInv
<1> USE OffsetsAssumption
<1>1. Init => OriginInv
  BY DEF Init, OriginInv
<1>2. TypeOK /\ OperandInv /\ OriginInv /\ [Next]_vars => OriginInv'
  <2> SUFFICES ASSUME TypeOK, OperandInv, OriginInv, [Next]_vars PROVE OriginInv'
    OBVIOUS
  <2>1. CASE takeEqual \/ takeOther \/ takeOffset
    <3>1. /\ i \in 1..Len(input) /\ j \in 1..Len(other)
          /\ Len(input) \in Nat /\ Len(other) \in Nat
          /\ input[i] \in Nat /\ other[j] \in Nat
          /\ input' = input /\ other' = other /\ op' = op /\ pc = "loop"
          /\ Equal \/ Greater \/ Less
      BY <2>1, Iteration
    <3>2. temp \in Seq(Nat) /\ Len(temp) \in Nat
      BY DEF TypeOK
    <3>3. \A n \in 1..Len(temp) : From(temp[n], i, j)
      BY <3>1 DEF OriginInv
    <3>4. i \in Nat /\ j \in Nat /\ i' \in Nat /\ j' \in Nat /\ i <= i' /\ j <= j'
      BY <3>1 DEF Equal, Greater, Less
    <3>5. \A v : From(v, i, j) => From(v, i', j')
      BY <3>1, <3>4, FromGrows
    <3>6. \/ temp' = temp
          \/ \E v \in Nat : temp' = Append(temp, v) /\ From(v, i', j')
      <4>1. CASE Equal
        <5>1. i \in 1..i' - 1 /\ j \in 1..j' - 1
          BY <3>1, <4>1 DEF Equal
        <5>2. From(input[i], i', j')
          <6>1. input[i] = other[j]
            BY <4>1 DEF Equal
          <6>. QED  BY <5>1, <6>1 DEF From
        <5>. QED  BY <3>1, <4>1, <5>2 DEF Equal
      <4>2. CASE Greater
        <5>1. j \in 1..j' - 1
          BY <3>1, <4>2 DEF Greater
        <5>. QED  BY <3>1, <4>2, <5>1 DEF Greater, From
      <4>3. CASE Less
        <5>1. i \in 1..i' - 1
          BY <3>1, <4>3 DEF Less
        <5>. QED  BY <3>1, <4>3, <5>1 DEF Less, From
      <4>. QED  BY <3>1, <4>1, <4>2, <4>3
    <3>7. \A n \in 1..Len(temp') : From(temp'[n], i', j')
      <4>1. CASE temp' = temp
        BY <3>3, <3>5, <4>1
      <4>2. CASE \E v \in Nat : temp' = Append(temp, v) /\ From(v, i', j')
        <5>1. PICK v \in Nat : temp' = Append(temp, v) /\ From(v, i', j')
          BY <4>2
        <5>2. /\ Len(temp') = Len(temp) + 1 /\ temp'[Len(temp) + 1] = v
              /\ \A n \in 1..Len(temp) : temp'[n] = temp[n]
          BY <3>2, <5>1, AppendedElement
        <5>. QED  BY <3>2, <3>3, <3>5, <5>1, <5>2
      <4>. QED  BY <3>6, <4>1, <4>2
    <3>. QED  BY <3>1, <3>7 DEF OriginInv, From
  <2>2. CASE swap \/ UNCHANGED vars
    BY <2>2 DEF swap, vars, OriginInv, From
  <2>. QED  BY <2>1, <2>2 DEF Next
<1>. QED  BY <1>1, <1>2, TypeCorrect, PTL DEF Spec

\* With ascending operands, what is built ascends and is below all that is still to be seen.
THEOREM OrderCorrect == Spec => []OrderInv
<1> USE OffsetsAssumption
<1>1. Init => OrderInv
  BY DEF Init, OrderInv, Ascending, Below
<1>2. TypeOK /\ OperandInv /\ FrontierInv /\ OrderInv /\ [Next]_vars => OrderInv'
  <2> SUFFICES ASSUME TypeOK, OperandInv, FrontierInv, OrderInv, [Next]_vars PROVE OrderInv'
    OBVIOUS
  <2>1. CASE takeEqual \/ takeOther \/ takeOffset
    <3>1. /\ i \in 1..Len(input) /\ j \in 1..Len(other)
          /\ Len(input) \in Nat /\ Len(other) \in Nat
          /\ \A k \in 1..Len(input) : input[k] \in Nat
          /\ \A k \in 1..Len(other) : other[k] \in Nat
          /\ input' = input /\ other' = other /\ op' = op /\ pc = "loop"
          /\ Equal \/ Greater \/ Less
      BY <2>1, Iteration
    <3>2. /\ temp \in Seq(Nat) /\ Len(temp) \in Nat
          /\ \A n \in 1..Len(temp) : temp[n] \in Nat
      BY DEF TypeOK
    <3> SUFFICES ASSUME Ascending(input), Ascending(other)
                 PROVE  Ascending(temp') /\ Below(temp', i', j')
      BY <3>1 DEF OrderInv, Ascending, Below
    <3>3. Ascending(temp) /\ Below(temp, i, j)
      BY <3>1 DEF OrderInv, Below
    <3>4. /\ i \in Nat /\ j \in Nat /\ i' \in Nat /\ j' \in Nat /\ i <= i' /\ j <= j'
      BY <3>1 DEF Equal, Greater, Less
    <3>5. Below(temp, i', j')
      <4>1. i'..Len(input) \subseteq i..Len(input) /\ j'..Len(other) \subseteq j..Len(other)
        BY <3>1, <3>4
      <4>. QED  BY <3>3, <4>1 DEF Below
    <3>6. /\ \A k \in i + 1..Len(input) : input[i] < input[k]
          /\ \A m \in j + 1..Len(other) : other[j] < other[m]
      BY <3>1 DEF Ascending
    <3>7. CASE temp' = temp
      BY <3>3, <3>5, <3>7
    <3>8. ASSUME NEW v \in Nat, temp' = Append(temp, v),
                 \A n \in 1..Len(temp) : temp[n] < v,
                 \A k \in i'..Len(input) : v < input[k],
                 \A m \in j'..Len(other) : v < other[m]
          PROVE  Ascending(temp') /\ Below(temp', i', j')
      <4>1. /\ Len(temp') = Len(temp) + 1 /\ temp'[Len(temp) + 1] = v
            /\ \A n \in 1..Len(temp) : temp'[n] = temp[n]
        BY <3>2, <3>8, AppendedElement
      <4>2. Ascending(temp')
        <5> SUFFICES ASSUME NEW k \in 1..Len(temp) + 1, NEW m \in 1..Len(temp) + 1, k < m
                     PROVE  temp'[k] < temp'[m]
          BY <4>1 DEF Ascending
        <5>1. k \in 1..Len(temp)
          BY <3>2
        <5>2. CASE m \in 1..Len(temp)
          BY <3>3, <4>1, <5>1, <5>2 DEF Ascending
        <5>3. CASE m = Len(temp) + 1
          BY <3>8, <4>1, <5>1, <5>3
        <5>. QED  BY <3>2, <5>2, <5>3
      <4>3. Below(temp', i', j')
        BY <3>2, <3>5, <3>8, <4>1 DEF Below
      <4>. QED  BY <4>2, <4>3
    <3>9. CASE Equal
      <4>1. \A n \in 1..Len(temp) : temp[n] < input[i]
        BY <3>1, <3>3 DEF Below
      <4>2. \A k \in i'..Len(input) : input[i] < input[k]
        BY <3>6, <3>9 DEF Equal
      <4>3. \A m \in j'..Len(other) : input[i] < other[m]
        BY <3>6, <3>9 DEF Equal
      <4>. QED  BY <3>1, <3>8, <3>9, <4>1, <4>2, <4>3 DEF Equal
    <3>10. CASE Greater /\ op = "merge"
      <4>1. \A n \in 1..Len(temp) : temp[n] < other[j]
        BY <3>1, <3>3 DEF Below
      <4>2. \A k \in i..Len(input) : other[j] < input[k]
        <5>1. other[j] < input[i]
          BY <3>1, <3>10 DEF Greater
        <5>. QED  BY <3>1, <3>6, <5>1
      <4>3. \A m \in j'..Len(other) : other[j] < other[m]
        BY <3>6, <3>10 DEF Greater
      <4>. QED  BY <3>1, <3>8, <3>10, <4>1, <4>2, <4>3 DEF Greater
    <3>11. CASE Less /\ op = "merge"
      <4>1. \A n \in 1..Len(temp) : temp[n] < input[i]
        BY <3>1, <3>3 DEF Below
      <4>2. \A k \in i'..Len(input) : input[i] < input[k]
        BY <3>6, <3>11 DEF Less
      <4>3. \A m \in j..Len(other) : input[i] < other[m]
        <5>1. input[i] < other[j]
          BY <3>11 DEF Less
        <5>. QED  BY <3>1, <3>6, <5>1
      <4>. QED  BY <3>1, <3>8, <3>11, <4>1, <4>2, <4>3 DEF Less
    <3>. QED  BY <3>1, <3>7, <3>9, <3>10, <3>11 DEF Greater, Less
  <2>2. CASE swap \/ UNCHANGED vars
    BY <2>2 DEF swap, vars, OrderInv, Ascending, Below
  <2>. QED  BY <2>1, <2>2 DEF Next
<1>. QED  BY <1>1, <1>2, TypeCorrect, FrontierCorrect, PTL DEF Spec

\* Appending to a vector adds the element and keeps the others.
LEMMA ElementsAppended ==
    ASSUME NEW s \in Seq(Nat), NEW v \in Nat
    PROVE  Elements(Append(s, v)) = Elements(s) \cup {v}
<1>1. /\ Len(s) \in Nat /\ Len(Append(s, v)) = Len(s) + 1
      /\ Append(s, v)[Len(s) + 1] = v
      /\ \A k \in 1..Len(s) : Append(s, v)[k] = s[k]
  BY AppendedElement
<1>2. 1..Len(s) + 1 = 1..Len(s) \cup {Len(s) + 1}
  BY <1>1
<1>. QED  BY <1>1, <1>2 DEF Elements

\* With ascending operands, every passed element that is to be kept is kept.
THEOREM CollectedCorrect == Spec => []CollectedInv
<1> USE OffsetsAssumption
<1>1. Init => CollectedInv
  BY DEF Init, CollectedInv
<1>2. TypeOK /\ OperandInv /\ FrontierInv /\ CollectedInv /\ [Next]_vars => CollectedInv'
  <2> SUFFICES ASSUME TypeOK, OperandInv, FrontierInv, CollectedInv, [Next]_vars
               PROVE  CollectedInv'
    OBVIOUS
  <2>1. CASE takeEqual \/ takeOther \/ takeOffset
    <3>1. /\ i \in 1..Len(input) /\ j \in 1..Len(other)
          /\ Len(input) \in Nat /\ Len(other) \in Nat
          /\ \A k \in 1..Len(input) : input[k] \in Nat
          /\ \A k \in 1..Len(other) : other[k] \in Nat
          /\ input' = input /\ other' = other /\ op' = op /\ pc = "loop"
          /\ Equal \/ Greater \/ Less
      BY <2>1, Iteration
    <3>2. temp \in Seq(Nat)
      BY DEF TypeOK
    <3> SUFFICES ASSUME Ascending(input), Ascending(other) PROVE CollectedInv'
      BY <3>1 DEF CollectedInv, Ascending
    <3>3. /\ \A k \in 1..i - 1 : input[k] < other[j]
          /\ \A m \in 1..j - 1 : other[m] < input[i]
      BY <3>1 DEF FrontierInv
    <3>4. CASE Equal
      <4>1. Elements(temp') = Elements(temp) \cup {input[i]}
        BY <3>1, <3>2, <3>4, ElementsAppended DEF Equal
      <4>2. i' - 1 = i /\ j' - 1 = j /\ input[i] = other[j]
        BY <3>1, <3>4 DEF Equal
      <4>3. \A k \in 1..i : k = i \/ k \in 1..i - 1
        BY <3>1
      <4>4. \A m \in 1..j : m = j \/ m \in 1..j - 1
        BY <3>1
      <4>5. CASE op = "merge"
        BY <3>1, <4>1, <4>2, <4>3, <4>4, <4>5 DEF CollectedInv
      <4>6. CASE op # "merge"
        BY <3>1, <3>3, <4>1, <4>2, <4>3, <4>4, <4>6 DEF CollectedInv
      <4>. QED  BY <4>5, <4>6
    <3>5. CASE Greater
      <4>1. i' - 1 = i - 1 /\ j' - 1 = j
        BY <3>1, <3>5 DEF Greater
      <4>2. \A m \in 1..j : m = j \/ m \in 1..j - 1
        BY <3>1
      <4>3. CASE op = "merge"
        <5>1. Elements(temp') = Elements(temp) \cup {other[j]}
          BY <3>1, <3>2, <3>5, <4>3, ElementsAppended DEF Greater
        <5>. QED  BY <3>1, <4>1, <4>2, <4>3, <5>1 DEF CollectedInv
      <4>4. CASE op # "merge"
        <5>1. temp' = temp
          BY <3>5, <4>4 DEF Greater
        <5>2. \A k \in 1..i - 1 : input[k] # other[j]
          BY <3>1, <3>3
        <5>. QED  BY <3>1, <4>1, <4>2, <4>4, <5>1, <5>2 DEF CollectedInv
      <4>. QED  BY <4>3, <4>4
    <3>6. CASE Less
      <4>1. i' - 1 = i /\ j' - 1 = j - 1
        BY <3>1, <3>6 DEF Less
      <4>2. \A k \in 1..i : k = i \/ k \in 1..i - 1
        BY <3>1
      <4>3. CASE op = "merge"
        <5>1. Elements(temp') = Elements(temp) \cup {input[i]}
          BY <3>1, <3>2, <3>6, <4>3, ElementsAppended DEF Less
        <5>. QED  BY <3>1, <4>1, <4>2, <4>3, <5>1 DEF CollectedInv
      <4>4. CASE op # "merge"
        <5>1. temp' = temp
          BY <3>6, <4>4 DEF Less
        <5>2. \A m \in 1..j - 1 : input[i] # other[m]
          BY <3>1, <3>3
        <5>. QED  BY <3>1, <4>1, <4>2, <4>4, <5>1, <5>2 DEF CollectedInv
      <4>. QED  BY <4>3, <4>4
    <3>. QED  BY <3>1, <3>4, <3>5, <3>6
  <2>2. CASE swap \/ UNCHANGED vars
    BY <2>2 DEF swap, vars, CollectedInv, Ascending, Elements
  <2>. QED  BY <2>1, <2>2 DEF Next
<1>. QED  BY <1>1, <1>2, TypeCorrect, FrontierCorrect, PTL DEF Spec

\* A cursor passes only elements that the other vector reaches.
THEOREM ReachedCorrect == Spec => []ReachedInv
<1> USE OffsetsAssumption
<1>1. Init => ReachedInv
  BY DEF Init, ReachedInv
<1>2. TypeOK /\ OperandInv /\ ReachedInv /\ [Next]_vars => ReachedInv'
  <2> SUFFICES ASSUME TypeOK, OperandInv, ReachedInv, [Next]_vars PROVE ReachedInv'
    OBVIOUS
  <2>1. CASE takeEqual \/ takeOther \/ takeOffset
    <3>1. /\ i \in 1..Len(input) /\ j \in 1..Len(other)
          /\ Len(input) \in Nat /\ Len(other) \in Nat
          /\ \A k \in 1..Len(input) : input[k] \in Nat
          /\ \A k \in 1..Len(other) : other[k] \in Nat
          /\ input' = input /\ other' = other
          /\ Equal \/ Greater \/ Less
      BY <2>1, Iteration
    <3>2. input[i] \in Elements(input) /\ other[j] \in Elements(other)
      BY <3>1 DEF Elements
    <3>3. /\ i' - 1 = i - 1 \/ (i' - 1 = i /\ input[i] <= other[j])
          /\ j' - 1 = j - 1 \/ (j' - 1 = j /\ other[j] <= input[i])
      BY <3>1 DEF Equal, Greater, Less
    <3>4. /\ \A k \in 1..i : k = i \/ k \in 1..i - 1
          /\ \A m \in 1..j : m = j \/ m \in 1..j - 1
      BY <3>1
    <3>5. \A k \in 1..i' - 1 : \E z \in Elements(other) : input[k] <= z
      BY <3>2, <3>3, <3>4 DEF ReachedInv
    <3>6. \A m \in 1..j' - 1 : \E y \in Elements(input) : other[m] <= y
      BY <3>2, <3>3, <3>4 DEF ReachedInv
    <3>. QED  BY <3>1, <3>5, <3>6 DEF ReachedInv
  <2>2. CASE swap \/ UNCHANGED vars
    BY <2>2 DEF swap, vars, ReachedInv, Elements
  <2>. QED  BY <2>1, <2>2 DEF Next
<1>. QED  BY <1>1, <1>2, TypeCorrect, PTL DEF Spec

\* The invariant of the loops.
THEOREM LoopCorrect == Spec => []LoopInv
BY TypeCorrect, FrontierCorrect, OriginCorrect, CollectedCorrect, ReachedCorrect,
   OrderCorrect, PTL DEF LoopInv

\* After the return nothing changes any more.
LEMMA DoneIsFinal ==
    ASSUME pc = "done", [Next]_vars
    PROVE  UNCHANGED vars
BY DEF Next, takeEqual, takeOther, takeOffset, swap, vars

\* What the two cursors know when one of them is at its end.
LEMMA AtTheSwap ==
    ASSUME LoopInv, swap
    PROVE  /\ pc = "loop" /\ pc' = "done" /\ offsets' = temp
           /\ input' = input /\ other' = other /\ op' = op
           /\ Len(input) \in Nat /\ Len(other) \in Nat
           /\ i \in 1..Len(input) + 1 /\ j \in 1..Len(other) + 1
           /\ i = Len(input) + 1 \/ j = Len(other) + 1
           /\ \A k \in 1..Len(input) : input[k] \in Nat
           /\ \A k \in 1..Len(other) : other[k] \in Nat
<1>1. /\ pc = "loop" /\ pc' = "done" /\ offsets' = temp
      /\ input' = input /\ other' = other /\ op' = op /\ ~InRange
  BY DEF swap
<1>2. /\ input \in Seq(Nat) /\ other \in Seq(Nat) /\ offsets = input
      /\ i \in 1..Len(input) + 1 /\ j \in 1..Len(other) + 1
  BY <1>1 DEF LoopInv, TypeOK, OperandInv
<1>3. /\ Len(input) \in Nat /\ Len(other) \in Nat
      /\ \A k \in 1..Len(input) : input[k] \in Nat
      /\ \A k \in 1..Len(other) : other[k] \in Nat
  BY <1>2
<1>4. i = Len(input) + 1 \/ j = Len(other) + 1
  BY <1>1, <1>2, <1>3 DEF InRange
<1>. QED  BY <1>1, <1>2, <1>3, <1>4

\* The definitions about vectors keep their values with the vectors.
LEMMA VectorsKept ==
    ASSUME UNCHANGED <<input, other>>
    PROVE  /\ Elements(input)' = Elements(input) /\ Elements(other)' = Elements(other)
           /\ Ascending(input)' <=> Ascending(input)
           /\ Ascending(other)' <=> Ascending(other)
BY DEF Elements, Ascending

\* Neither call invents a position, whatever the order of its operands.
THEOREM NothingInventedCorrect == Spec => []NothingInvented
<1>1. Init => NothingInvented
  BY DEF Init, NothingInvented
<1>2. LoopInv /\ NothingInvented /\ [Next]_vars => NothingInvented'
  <2> SUFFICES ASSUME LoopInv, NothingInvented, [Next]_vars PROVE NothingInvented'
    OBVIOUS
  <2>1. CASE swap
    <3>. /\ Elements(offsets)' = Elements(temp) /\ op' = op
         /\ Elements(input)' = Elements(input) /\ Elements(other)' = Elements(other)
      BY <2>1, AtTheSwap, VectorsKept DEF Elements
    <3> SUFFICES ASSUME NEW x \in Elements(temp)
                 PROVE  x \in (IF op = "merge" THEN Elements(input) \cup Elements(other)
                                               ELSE Elements(input) \cap Elements(other))
      BY DEF NothingInvented
    <3>1. From(x, i, j)
      BY <2>1, AtTheSwap DEF LoopInv, OriginInv, Elements
    <3>2. /\ \A k \in 1..i - 1 : k \in 1..Len(input)
          /\ \A m \in 1..j - 1 : m \in 1..Len(other)
      BY <2>1, AtTheSwap
    <3>. QED  BY <3>1, <3>2 DEF From, Elements
  <2>2. CASE takeEqual \/ takeOther \/ takeOffset
    BY <2>2 DEF takeEqual, takeOther, takeOffset, NothingInvented
  <2>3. CASE UNCHANGED vars
    BY <2>3 DEF vars, NothingInvented, Elements
  <2>. QED  BY <2>1, <2>2, <2>3 DEF Next
<1>. QED  BY <1>1, <1>2, LoopCorrect, PTL DEF Spec

\* With ascending operands the result ascends.
THEOREM ResultAscendsCorrect == Spec => []ResultAscends
<1>1. Init => ResultAscends
  BY DEF Init, ResultAscends
<1>2. LoopInv /\ ResultAscends /\ [Next]_vars => ResultAscends'
  <2> SUFFICES ASSUME LoopInv, ResultAscends, [Next]_vars PROVE ResultAscends'
    OBVIOUS
  <2>1. CASE swap
    BY <2>1, AtTheSwap DEF LoopInv, OrderInv, ResultAscends, Ascending
  <2>2. CASE takeEqual \/ takeOther \/ takeOffset
    BY <2>2 DEF takeEqual, takeOther, takeOffset, ResultAscends
  <2>3. CASE UNCHANGED vars
    BY <2>3 DEF vars, ResultAscends, Ascending
  <2>. QED  BY <2>1, <2>2, <2>3 DEF Next
<1>. QED  BY <1>1, <1>2, LoopCorrect, PTL DEF Spec

\* With ascending operands, at the swap every element that some element of the other
\* vector reaches has been passed.
LEMMA PassedAtTheSwap ==
    ASSUME LoopInv, swap, Ascending(input), Ascending(other)
    PROVE  /\ \A k \in 1..Len(input) :
                 (\E z \in Elements(other) : input[k] <= z) => k \in 1..i - 1
           /\ \A m \in 1..Len(other) :
                 (\E y \in Elements(input) : other[m] <= y) => m \in 1..j - 1
<1>1. /\ \A k \in 1..i - 1, m \in j..Len(other) : input[k] < other[m]
      /\ \A m \in 1..j - 1, k \in i..Len(input) : other[m] < input[k]
  BY DEF LoopInv, FrontierInv
<1>2. ASSUME NEW k \in 1..Len(input), NEW n \in 1..Len(other), input[k] <= other[n]
      PROVE  k \in 1..i - 1
  <2>1. CASE i = Len(input) + 1
    BY <2>1, AtTheSwap
  <2>2. CASE j = Len(other) + 1
    <3>1. n \in 1..j - 1
      BY <2>2, AtTheSwap
    <3>2. k \in i..Len(input) => other[n] < input[k]
      BY <1>1, <3>1
    <3>. QED  BY <1>2, <3>2, AtTheSwap
  <2>. QED  BY <2>1, <2>2, AtTheSwap
<1>3. ASSUME NEW m \in 1..Len(other), NEW n \in 1..Len(input), other[m] <= input[n]
      PROVE  m \in 1..j - 1
  <2>1. CASE j = Len(other) + 1
    BY <2>1, AtTheSwap
  <2>2. CASE i = Len(input) + 1
    <3>1. n \in 1..i - 1
      BY <2>2, AtTheSwap
    <3>2. m \in j..Len(other) => input[n] < other[m]
      BY <1>1, <3>1
    <3>. QED  BY <1>3, <3>2, AtTheSwap
  <2>. QED  BY <2>1, <2>2, AtTheSwap
<1>. QED  BY <1>2, <1>3 DEF Elements

\* With ascending operands an intersection is the set of the common positions.
THEOREM IntersectionCorrect == Spec => []IntersectionExact
<1>1. Init => IntersectionExact
  BY DEF Init, IntersectionExact
<1>2. LoopInv /\ NothingInvented' /\ IntersectionExact /\ [Next]_vars => IntersectionExact'
  <2> SUFFICES ASSUME LoopInv, NothingInvented', IntersectionExact, [Next]_vars
               PROVE  IntersectionExact'
    OBVIOUS
  <2>1. CASE swap
    <3> SUFFICES ASSUME op = "intersection", Ascending(input), Ascending(other)
                 PROVE  Elements(temp) = Elements(input) \cap Elements(other)
      BY <2>1, AtTheSwap DEF IntersectionExact, Elements, Ascending
    <3>1. Elements(temp) \subseteq Elements(input) \cap Elements(other)
      BY <2>1, AtTheSwap DEF NothingInvented, Elements
    <3>2. ASSUME NEW k \in 1..Len(input), NEW m \in 1..Len(other), input[k] = other[m]
          PROVE  input[k] \in Elements(temp)
      <4>1. input[k] \in Nat /\ input[k] <= other[m] /\ other[m] <= input[k]
        BY <2>1, <3>2, AtTheSwap
      <4>2. input[k] \in Elements(input) /\ other[m] \in Elements(other)
        BY DEF Elements
      <4>3. k \in 1..i - 1 /\ m \in 1..j - 1
        BY <2>1, <4>1, <4>2, PassedAtTheSwap
      <4>. QED  BY <2>1, <3>2, <4>3, AtTheSwap DEF LoopInv, CollectedInv
    <3>. QED  BY <3>1, <3>2 DEF Elements
  <2>2. CASE takeEqual \/ takeOther \/ takeOffset
    BY <2>2 DEF takeEqual, takeOther, takeOffset, IntersectionExact
  <2>3. CASE UNCHANGED vars
    BY <2>3 DEF vars, IntersectionExact, Elements, Ascending
  <2>. QED  BY <2>1, <2>2, <2>3 DEF Next
<1>. QED  BY <1>1, <1>2, LoopCorrect, NothingInventedCorrect, PTL DEF Spec

\* With ascending operands a merge returns the positions that both operands reach.
THEOREM MergeCorrect == Spec => []MergeExact
<1>1. Init => MergeExact
  BY DEF Init, MergeExact
<1>2. LoopInv /\ MergeExact /\ [Next]_vars => MergeExact'
  <2> SUFFICES ASSUME LoopInv, MergeExact, [Next]_vars PROVE MergeExact'
    OBVIOUS
  <2>1. CASE swap
    <3> DEFINE Reached == {x \in Elements(input) \cup Elements(other) :
                   \E y \in Elements(input), z \in Elements(other) : x <= y /\ x <= z}
    <3>. /\ Elements(offsets)' = Elements(temp) /\ op' = op
         /\ Elements(input)' = Elements(input) /\ Elements(other)' = Elements(other)
         /\ Ascending(input)' <=> Ascending(input)
         /\ Ascending(other)' <=> Ascending(other)
      BY <2>1, AtTheSwap, VectorsKept DEF Elements
    <3> SUFFICES ASSUME op = "merge", Ascending(input), Ascending(other)
                 PROVE  Elements(temp) = Reached
      BY DEF MergeExact
    <3>1. /\ \A k \in 1..i - 1 : k \in 1..Len(input) /\ input[k] \in Nat
          /\ \A m \in 1..j - 1 : m \in 1..Len(other) /\ other[m] \in Nat
      BY <2>1, AtTheSwap
    <3>2. ASSUME NEW x \in Elements(temp) PROVE x \in Reached
      <4>1. From(x, i, j)
        BY <2>1, AtTheSwap DEF LoopInv, OriginInv, Elements
      <4>2. CASE \E k \in 1..i - 1 : x = input[k]
        <5>1. x \in Elements(input) /\ x <= x
          BY <3>1, <4>2 DEF Elements
        <5>2. \E z \in Elements(other) : x <= z
          BY <4>2 DEF LoopInv, ReachedInv
        <5>. QED  BY <5>1, <5>2
      <4>3. CASE \E m \in 1..j - 1 : x = other[m]
        <5>1. x \in Elements(other) /\ x <= x
          BY <3>1, <4>3 DEF Elements
        <5>2. \E y \in Elements(input) : x <= y
          BY <4>3 DEF LoopInv, ReachedInv
        <5>. QED  BY <5>1, <5>2
      <4>. QED  BY <4>1, <4>2, <4>3 DEF From
    <3>3. ASSUME NEW x \in Reached PROVE x \in Elements(temp)
      <4>1. CASE x \in Elements(input)
        <5>1. PICK k \in 1..Len(input) : x = input[k]
          BY <4>1 DEF Elements
        <5>2. k \in 1..i - 1
          BY <2>1, <5>1, PassedAtTheSwap
        <5>. QED  BY <2>1, <5>1, <5>2, AtTheSwap DEF LoopInv, CollectedInv
      <4>2. CASE x \in Elements(other)
        <5>1. PICK m \in 1..Len(other) : x = other[m]
          BY <4>2 DEF Elements
        <5>2. m \in 1..j - 1
          BY <2>1, <5>1, PassedAtTheSwap
        <5>. QED  BY <2>1, <5>1, <5>2, AtTheSwap DEF LoopInv, CollectedInv
      <4>. QED  BY <4>1, <4>2
    <3>. QED  BY <3>2, <3>3
  <2>2. CASE takeEqual \/ takeOther \/ takeOffset
    BY <2>2 DEF takeEqual, takeOther, takeOffset, MergeExact
  <2>3. CASE UNCHANGED vars
    <3>1. Elements(offsets)' = Elements(offsets) /\ op' = op /\ pc' = pc
      BY <2>3 DEF vars, Elements
    <3>. QED  BY <2>3, <3>1, VectorsKept DEF vars, MergeExact
  <2>. QED  BY <2>1, <2>2, <2>3 DEF Next
<1>. QED  BY <1>1, <1>2, LoopCorrect, PTL DEF Spec

=============================================================================
