-------------------------- MODULE PluginExportsProofs --------------------------
(***************************************************************************)
(* Proofs about PluginExports, for whatever the functions return: the four *)
(* tables agree on each function, and a packed struct laid over the        *)
(* concatenation of any values gives the values back.                      *)
(***************************************************************************)
EXTENDS PluginExports, WellFoundedInduction, TLAPS

-----------------------------------------------------------------------------
(* Induction *)

\* What holds of 0 and goes from each number below n to the next holds up to n: else there
\* were a least number it misses.
LEMMA InductionUpTo ==
  ASSUME NEW n \in Nat, NEW S, 0 \in S,
         \A m \in 0 .. n - 1 : m \in S => m + 1 \in S
  PROVE  \A m \in 0 .. n : m \in S
  <1> DEFINE Before == OpToRel(<, Nat)
             Missed == {m \in 0 .. n : m \notin S}
  <1>1. IsWellFoundedOn(Before, Nat)
    BY NatLessThanWellFounded
  <1>2. CASE Missed # {}
    <2>1. Missed \subseteq Nat
      OBVIOUS
    <2> HIDE DEF Before, Missed
    <2>2. PICK m \in Missed : \A k \in Missed : ~ (<<k, m>> \in Before)
      BY <1>1, <1>2, <2>1, WFMin
    <2>3. m \in 0 .. n /\ m \notin S
      BY <2>2 DEF Missed
    <2>4. m - 1 \in 0 .. n - 1
      BY <2>3
    <2>5. <<m - 1, m>> \in Before
      BY <2>3, <2>4 DEF Before, OpToRel
    <2>6. m - 1 \in S
      BY <2>2, <2>4, <2>5 DEF Missed
    <2> QED
      BY <2>3, <2>4, <2>6
  <1> QED
    BY <1>2

ValueWidths == {4, 8}

\* Where a field of some width ends when the one before it ends at end.
Padded(end, width) == width + (IF Packed THEN end ELSE RoundUp(end, width))

LEMMA PaddedType == \A end \in Nat, width \in ValueWidths : Padded(end, width) \in Nat
  BY PackedAssumption DEF Padded, RoundUp, ValueWidths

\* end gives where each of the first m fields ends.
Follows(end, widths, m) ==
  /\ end \in [0 .. m -> Nat]
  /\ end[0] = 0
  /\ \A i \in 1 .. m : end[i] = Padded(end[i - 1], widths[i])

LEMMA EndsExtend ==
  ASSUME NEW widths \in Seq(ValueWidths), NEW m \in 0 .. Len(widths) - 1,
         NEW end, Follows(end, widths, m)
  PROVE  \E longer : Follows(longer, widths, m + 1)
  <1> DEFINE next == Padded(end[m], widths[m + 1])
             longer == [i \in 0 .. m + 1 |-> IF i = m + 1 THEN next ELSE end[i]]
  <1>1. m \in Nat /\ m + 1 \in 1 .. Len(widths)
    OBVIOUS
  <1>2. widths[m + 1] \in ValueWidths /\ end[m] \in Nat
    BY <1>1 DEF Follows
  <1>3. next \in Nat
    BY <1>2, PaddedType
  <1> HIDE DEF next
  <1>4. longer \in [0 .. m + 1 -> Nat]
    BY <1>1, <1>3 DEF Follows
  <1>5. longer[0] = 0
    BY <1>1 DEF Follows
  <1>6. ASSUME NEW i \in 1 .. m + 1 PROVE longer[i] = Padded(longer[i - 1], widths[i])
    <2>1. i - 1 \in 0 .. m /\ longer[i - 1] = end[i - 1]
      BY <1>1
    <2>2. CASE i = m + 1
      BY <2>1, <2>2, <1>1 DEF next
    <2>3. CASE i # m + 1
      BY <2>1, <2>3, <1>1 DEF Follows
    <2> QED BY <2>2, <2>3
  <1> HIDE DEF longer
  <1> QED BY <1>4, <1>5, <1>6 DEF Follows

\* The ends of the fields exist ...
LEMMA EndsExist ==
  ASSUME NEW widths \in Seq(ValueWidths)
  PROVE  \E end : Follows(end, widths, Len(widths))
  <1> DEFINE S == {m \in Nat : \E end : Follows(end, widths, m)}
  <1>1. 0 \in S
    <2>1. Follows([i \in 0 .. 0 |-> 0], widths, 0)
      BY DEF Follows
    <2> QED BY <2>1
  <1>2. \A m \in 0 .. Len(widths) - 1 : m \in S => m + 1 \in S
    BY EndsExtend
  <1>3. Len(widths) \in Nat
    OBVIOUS
  <1> HIDE DEF S
  <1>4. \A m \in 0 .. Len(widths) : m \in S
    BY <1>1, <1>2, <1>3, InductionUpTo
  <1>5. Len(widths) \in S
    BY <1>3, <1>4
  <1> QED BY <1>5 DEF S

\* ... and Ends computes them.
LEMMA EndsFacts ==
  ASSUME NEW widths \in Seq(ValueWidths)
  PROVE  Follows(Ends(widths), widths, Len(widths))
  <1> DEFINE n == Len(widths)
             Rule(end) == end = [i \in 0 .. n |->
                IF i = 0 THEN 0
                ELSE widths[i] + (IF Packed THEN end[i - 1]
                                  ELSE RoundUp(end[i - 1], widths[i]))]
  <1>1. PICK end : Follows(end, widths, n)
    BY EndsExist
  <1>2. n \in Nat
    OBVIOUS
  <1>3. Rule(end)
    BY <1>1 DEF Padded, Follows
  <1>4. Rule(Ends(widths))
    <2>1. Ends(widths) = CHOOSE e : Rule(e)
      BY DEF Ends
    <2> HIDE DEF Rule
    <2> QED BY <1>3, <2>1
  <1>5. PICK found : found = Ends(widths)
    OBVIOUS
  <1>6. Rule(found)
    BY <1>4, <1>5
  <1>7. DOMAIN found = 0 .. n /\ found[0] = 0
    BY <1>2, <1>6
  <1>8. \A i \in 1 .. n : found[i] = Padded(found[i - 1], widths[i])
    <2> SUFFICES ASSUME NEW i \in 1 .. n PROVE found[i] = Padded(found[i - 1], widths[i])
      OBVIOUS
    <2>1. i \in 0 .. n /\ i # 0
      BY <1>2
    <2>2. found[i] = widths[i] + (IF Packed THEN found[i - 1]
                                  ELSE RoundUp(found[i - 1], widths[i]))
      BY <1>6, <2>1
    <2> QED BY <2>2 DEF Padded
  <1> DEFINE S == {m \in Nat : found[m] = end[m]}
  <1>9. 0 \in S
    BY <1>1, <1>7 DEF Follows
  <1>10. \A m \in 0 .. n - 1 : m \in S => m + 1 \in S
    <2> SUFFICES ASSUME NEW m \in 0 .. n - 1, found[m] = end[m] PROVE found[m + 1] = end[m + 1]
      BY <1>2
    <2>1. m + 1 \in 1 .. n /\ m + 1 - 1 = m
      BY <1>2
    <2> QED BY <1>1, <1>8, <2>1 DEF Follows
  <1> HIDE DEF S
  <1>11. \A m \in 0 .. n : m \in S
    BY <1>2, <1>9, <1>10, InductionUpTo
  <1>12. \A m \in 0 .. n : found[m] = end[m]
    BY <1>11 DEF S
  <1>13. found = end
    BY <1>1, <1>6, <1>12 DEF Follows
  <1> QED BY <1>1, <1>5, <1>13

-----------------------------------------------------------------------------
(* Concatenation *)

\* flat gives the concatenation of the first i sequences, for each i up to m.
Concatenates(flat, seqs, m) ==
  /\ flat = [i \in 1 .. m |-> flat[i]]
  /\ m > 0 => flat[1] = seqs[1]
  /\ \A i \in 2 .. m : flat[i] = flat[i - 1] \o seqs[i]

LEMMA ConcatenationExtends ==
  ASSUME NEW seqs, NEW m \in Nat, NEW flat, Concatenates(flat, seqs, m)
  PROVE  \E longer : Concatenates(longer, seqs, m + 1)
  <1> DEFINE next == IF m = 0 THEN seqs[1] ELSE flat[m] \o seqs[m + 1]
             longer == [i \in 1 .. m + 1 |-> IF i = m + 1 THEN next ELSE flat[i]]
  <1>1. longer[1] = seqs[1]
    BY DEF Concatenates
  <1>2. ASSUME NEW i \in 2 .. m + 1 PROVE longer[i] = longer[i - 1] \o seqs[i]
    <2>1. i - 1 \in 1 .. m /\ longer[i - 1] = flat[i - 1]
      OBVIOUS
    <2>2. CASE i = m + 1
      <3>1. i - 1 = m /\ m # 0
        BY <2>2
      <3>2. longer[i] = flat[m] \o seqs[m + 1]
        <4>1. next = flat[m] \o seqs[m + 1]
          BY <3>1
        <4> HIDE DEF next
        <4>2. longer[i] = next
          BY <2>2
        <4> QED BY <4>1, <4>2
      <3> HIDE DEF longer
      <3>3. longer[i - 1] = flat[m]
        BY <2>1, <3>1
      <3> QED BY <2>2, <3>2, <3>3
    <2>3. CASE i # m + 1
      <3>1. i \in 2 .. m /\ longer[i] = flat[i]
        BY <2>3
      <3> QED BY <2>1, <3>1 DEF Concatenates
    <2> QED BY <2>2, <2>3
  <1>3. longer = [i \in 1 .. m + 1 |-> longer[i]]
    OBVIOUS
  <1> HIDE DEF longer
  <1> QED BY <1>1, <1>2, <1>3 DEF Concatenates

LEMMA ConcatenationExists ==
  ASSUME NEW seqs, NEW n \in Nat
  PROVE  \E flat : Concatenates(flat, seqs, n)
  <1> DEFINE S == {m \in Nat : \E flat : Concatenates(flat, seqs, m)}
  <1>1. 0 \in S
    <2>1. Concatenates(<<>>, seqs, 0)
      BY DEF Concatenates
    <2> QED BY <2>1
  <1>2. \A m \in 0 .. n - 1 : m \in S => m + 1 \in S
    BY ConcatenationExtends
  <1> HIDE DEF S
  <1>3. n \in S
    BY <1>1, <1>2, InductionUpTo
  <1> QED BY <1>3 DEF S

\* FlattenSeq is the last of them.
LEMMA FlattenFacts ==
  ASSUME NEW seqs, Len(seqs) \in Nat \ {0}
  PROVE  \E flat : /\ Concatenates(flat, seqs, Len(seqs))
                   /\ FlattenSeq(seqs) = flat[Len(seqs)]
  <1> DEFINE n == Len(seqs)
             Rule(flat) == flat = [i \in 1 .. n |->
                                    IF i = 1 THEN seqs[i] ELSE flat[i - 1] \o seqs[i]]
             found == CHOOSE flat : Rule(flat)
  <1>1. PICK flat : Concatenates(flat, seqs, n)
    BY ConcatenationExists
  <1>2. Rule(flat)
    <2>1. \A i \in 1 .. n : flat[i] = IF i = 1 THEN seqs[i] ELSE flat[i - 1] \o seqs[i]
      <3> SUFFICES ASSUME NEW i \in 1 .. n
                   PROVE  flat[i] = IF i = 1 THEN seqs[i] ELSE flat[i - 1] \o seqs[i]
        OBVIOUS
      <3>1. CASE i = 1
        BY <1>1, <3>1 DEF Concatenates
      <3>2. CASE i # 1
        <4>1. i \in 2 .. n
          BY <3>2
        <4> QED BY <1>1, <3>2, <4>1 DEF Concatenates
      <3> QED BY <3>1, <3>2
    <2>2. flat = [i \in 1 .. n |-> flat[i]]
      BY <1>1 DEF Concatenates
    <2> QED BY <2>1, <2>2
  <1>3. Rule(found)
    <2> HIDE DEF Rule
    <2> QED BY <1>2
  <1>4. FlattenSeq(seqs) = found[n]
    BY DEF FlattenSeq
  <1>5. PICK flattened : flattened = found
    OBVIOUS
  <1> HIDE DEF found
  <1>6. Rule(flattened)
    BY <1>3, <1>5
  <1>7. flattened = [i \in 1 .. n |-> flattened[i]] /\ flattened[1] = seqs[1]
    BY <1>6
  <1>8. ASSUME NEW i \in 2 .. n PROVE flattened[i] = flattened[i - 1] \o seqs[i]
    <2>1. i \in 1 .. n /\ i # 1
      OBVIOUS
    <2> QED BY <1>6, <2>1
  <1>9. Concatenates(flattened, seqs, n)
    <2> HIDE DEF Rule
    <2> QED BY <1>7, <1>8 DEF Concatenates
  <1> QED BY <1>4, <1>5, <1>9

-----------------------------------------------------------------------------
(* The layout of packed structs *)

\* In a packed struct a field ends where the ones up to it end.
LEMMA PackedEnds ==
  ASSUME Packed, NEW widths \in Seq(ValueWidths), NEW i \in 1 .. Len(widths)
  PROVE  /\ Ends(widths)[i] = Ends(widths)[i - 1] + widths[i]
         /\ Ends(widths)[i] \in Nat /\ Ends(widths)[i - 1] \in Nat
         /\ widths[i] \in ValueWidths
         /\ Ends(widths)[i] - widths[i] = Ends(widths)[i - 1]
  <1>1. Follows(Ends(widths), widths, Len(widths))
    BY EndsFacts
  <1>2. i \in 0 .. Len(widths) /\ i - 1 \in 0 .. Len(widths) /\ widths[i] \in ValueWidths
    OBVIOUS
  <1>3. Ends(widths)[i] \in Nat /\ Ends(widths)[i - 1] \in Nat
    BY <1>1, <1>2 DEF Follows
  <1>4. Ends(widths)[i] = widths[i] + Ends(widths)[i - 1]
    BY <1>1 DEF Follows, Padded
  <1>5. widths[i] \in Nat
    BY <1>2 DEF ValueWidths
  <1> QED BY <1>2, <1>3, <1>4, <1>5

\* values are sequences over S, as many and as long as widths says.
Valued(values, widths, S) ==
  /\ Len(values) = Len(widths)
  /\ \A i \in 1 .. Len(widths) : values[i] \in [1 .. widths[i] -> S]

\* The first m of them lie one after the other in prefix.
Lies(prefix, values, widths, m, S) ==
  /\ prefix \in Seq(S) /\ Len(prefix) = Ends(widths)[m]
  /\ \A i \in 1 .. m : \A j \in 1 .. widths[i] :
       /\ Ends(widths)[i - 1] + j \in 1 .. Len(prefix)
       /\ prefix[Ends(widths)[i - 1] + j] = values[i][j]

\* The first of them is a prefix of that kind, and each next one extends it.
LEMMA FirstLies ==
  ASSUME Packed, NEW S, NEW widths \in Seq(ValueWidths), Len(widths) > 0,
         NEW values, Valued(values, widths, S)
  PROVE  Lies(values[1], values, widths, 1, S)
  <1>1. Ends(widths)[0] = 0
    BY EndsFacts DEF Follows
  <1>2. 1 \in 1 .. Len(widths)
    OBVIOUS
  <1>3. PICK w \in ValueWidths : w = widths[1]
    BY <1>2
  <1>4. Ends(widths)[1] = w
    <2>1. Ends(widths)[1] = Ends(widths)[0] + w
      BY <1>2, <1>3, PackedEnds
    <2> QED BY <1>1, <2>1 DEF ValueWidths
  <1>5. values[1] \in Seq(S) /\ Len(values[1]) = w
    BY <1>2, <1>3 DEF Valued, ValueWidths
  <1>6. ASSUME NEW j \in 1 .. w
        PROVE  Ends(widths)[0] + j \in 1 .. w /\ Ends(widths)[0] + j = j
    BY <1>1 DEF ValueWidths
  <1> QED BY <1>3, <1>4, <1>5, <1>6 DEF Lies

LEMMA AppendFacts ==
  ASSUME NEW S, NEW s \in Seq(S), NEW t \in Seq(S)
  PROVE  s \o t \in Seq(S) /\ Len(s \o t) = Len(s) + Len(t)
  OBVIOUS

LEMMA AppendedLies ==
  ASSUME Packed, NEW S, NEW widths \in Seq(ValueWidths), NEW m \in 1 .. Len(widths) - 1,
         NEW values, Valued(values, widths, S),
         NEW prefix, Lies(prefix, values, widths, m, S)
  PROVE  Lies(prefix \o values[m + 1], values, widths, m + 1, S)
  <1> DEFINE value == values[m + 1]
             longer == prefix \o value
  <1>1. m + 1 \in 1 .. Len(widths) /\ m + 1 - 1 = m
    OBVIOUS
  <1>2. PICK w \in ValueWidths : w = widths[m + 1]
    BY <1>1
  <1>3. w \in Nat
    BY DEF ValueWidths
  <1>4. value \in Seq(S) /\ Len(value) = w
    BY <1>1, <1>2, <1>3 DEF Valued
  <1>5. Ends(widths)[m + 1] = Ends(widths)[m] + w
    BY <1>1, <1>2, PackedEnds
  <1>6. prefix \in Seq(S) /\ Len(prefix) = Ends(widths)[m]
    BY DEF Lies
  <1> HIDE DEF value
  <1>7. longer \in Seq(S) /\ Len(longer) = Ends(widths)[m + 1] /\ Len(longer) = Len(prefix) + w
    <2>1. longer \in Seq(S) /\ Len(longer) = Len(prefix) + Len(value)
      BY <1>4, <1>6, AppendFacts
    <2> HIDE DEF longer
    <2> QED BY <2>1, <1>4, <1>5, <1>6
  <1>8. ASSUME NEW i \in 1 .. m + 1, NEW j \in 1 .. widths[i]
        PROVE  /\ Ends(widths)[i - 1] + j \in 1 .. Len(longer)
               /\ longer[Ends(widths)[i - 1] + j] = values[i][j]
    <2>1. CASE i = m + 1
      <3>1. j \in 1 .. w /\ Ends(widths)[i - 1] = Len(prefix)
        BY <1>1, <1>2, <1>6, <2>1
      <3>2. Len(prefix) + j \in 1 .. Len(longer)
        BY <1>3, <1>6, <1>7, <3>1
      <3>3. longer[Len(prefix) + j] = value[j]
        BY <1>3, <1>4, <1>6, <3>1
      <3> QED BY <2>1, <3>1, <3>2, <3>3 DEF value
    <2>2. CASE i # m + 1
      <3>1. i \in 1 .. m
        BY <2>2
      <3>2. PICK k : k = Ends(widths)[i - 1] + j
        OBVIOUS
      <3>3. k \in 1 .. Len(prefix) /\ prefix[k] = values[i][j]
        BY <3>1, <3>2 DEF Lies
      <3>4. k \in 1 .. Len(longer)
        BY <1>3, <1>6, <1>7, <3>3
      <3>5. longer[k] = prefix[k]
        BY <1>4, <1>6, <3>3
      <3> HIDE DEF longer
      <3> QED BY <3>2, <3>3, <3>4, <3>5
    <2> QED BY <2>1, <2>2
  <1> HIDE DEF longer
  <1>9. Lies(longer, values, widths, m + 1, S)
    BY <1>7, <1>8 DEF Lies
  <1> QED BY <1>9 DEF longer, value

\* The concatenation of all the values is their packed struct.
LEMMA ConcatenationIsPacked ==
  ASSUME Packed, NEW S, NEW widths \in Seq(ValueWidths), Len(widths) > 0,
         NEW values, Valued(values, widths, S)
  PROVE  Lies(FlattenSeq(values), values, widths, Len(widths), S)
  <1> DEFINE n == Len(widths)
  <1>1. n \in Nat \ {0} /\ Len(values) = n
    BY DEF Valued
  <1>2. PICK flat : Concatenates(flat, values, n) /\ FlattenSeq(values) = flat[n]
    BY <1>1, FlattenFacts
  <1>3. \A i \in 2 .. n : flat[i] = flat[i - 1] \o values[i]
    BY <1>2 DEF Concatenates
  <1> DEFINE T == {m \in Nat : m > 0 => Lies(flat[m], values, widths, m, S)}
  <1>4. 0 \in T
    OBVIOUS
  <1>5. ASSUME NEW m \in 0 .. n - 1, m \in T PROVE m + 1 \in T
    <2>1. CASE m = 0
      <3>1. flat[1] = values[1]
        BY <1>1, <1>2 DEF Concatenates
      <3>2. Lies(flat[1], values, widths, 1, S)
        BY <3>1, <1>1, FirstLies
      <3> QED BY <2>1, <3>2
    <2>2. CASE m # 0
      <3>1. m \in 1 .. Len(widths) - 1 /\ m + 1 \in 2 .. n /\ m + 1 - 1 = m
        BY <1>1, <2>2
      <3>2. Lies(flat[m], values, widths, m, S)
        BY <1>5, <3>1
      <3>3. flat[m + 1] = flat[m] \o values[m + 1]
        <4>1. PICK i \in 2 .. n : i = m + 1 /\ i - 1 = m
          BY <3>1
        <4>2. flat[i] = flat[i - 1] \o values[i]
          BY <1>3
        <4> QED BY <4>1, <4>2
      <3>4. Lies(flat[m + 1], values, widths, m + 1, S)
        BY <3>1, <3>2, <3>3, AppendedLies
      <3> QED BY <3>1, <3>4
    <2> QED BY <2>1, <2>2
  <1> HIDE DEF T, n
  <1>6. n \in T
    BY <1>1, <1>4, <1>5, InductionUpTo
  <1> QED BY <1>1, <1>2, <1>6 DEF T, n

\* Laid over that block, the struct gives the values back.
LEMMA LoadFacts ==
  ASSUME Packed, NEW S, NEW widths \in Seq(ValueWidths), Len(widths) > 0,
         NEW values, Valued(values, widths, S)
  PROVE  /\ Len(FlattenSeq(values)) = SizeOf(widths) /\ SizeOf(widths) \in Nat
         /\ \A i \in 1 .. Len(widths) :
              LoadParameter(FlattenSeq(values), widths)[i] = values[i]
  <1>1. PICK whole : whole = FlattenSeq(values)
    OBVIOUS
  <1>2. Lies(whole, values, widths, Len(widths), S)
    BY <1>1, ConcatenationIsPacked
  <1>3. Len(whole) = SizeOf(widths) /\ SizeOf(widths) \in Nat
    BY <1>2 DEF Lies, SizeOf
  <1>4. ASSUME NEW i \in 1 .. Len(widths) PROVE LoadParameter(whole, widths)[i] = values[i]
    <2>1. \A j \in 1 .. widths[i] :
             LET k == Ends(widths)[i] - widths[i] + j
             IN (IF whole = <<>> THEN Zero ELSE IF k =< Len(whole) THEN whole[k] ELSE Beyond)
                  = values[i][j]
      <3> SUFFICES ASSUME NEW j \in 1 .. widths[i], NEW k, k = Ends(widths)[i] - widths[i] + j
                   PROVE  whole # <<>> /\ k =< Len(whole) /\ whole[k] = values[i][j]
        OBVIOUS
      <3>1. k = Ends(widths)[i - 1] + j
        BY PackedEnds
      <3>2. k \in 1 .. Len(whole) /\ whole[k] = values[i][j]
        BY <1>2, <3>1 DEF Lies
      <3>3. whole \in Seq(S)
        BY <1>2 DEF Lies
      <3> QED BY <3>2, <3>3
    <2>2. values[i] = [j \in 1 .. widths[i] |-> values[i][j]]
      BY DEF Valued
    <2>3. LoadParameter(whole, widths)[i] =
            [j \in 1 .. widths[i] |->
               LET k == Ends(widths)[i] - widths[i] + j
               IN IF whole = <<>> THEN Zero ELSE IF k =< Len(whole) THEN whole[k] ELSE Beyond]
      BY DEF LoadParameter
    <2> QED BY <2>1, <2>2, <2>3
  <1> QED BY <1>1, <1>3, <1>4
-----------------------------------------------------------------------------
(* The tables *)

WidthsOf(params) == [i \in 1 .. Len(params) |-> params[i].width]
NamesOf(params) == [i \in 1 .. Len(params) |-> params[i].name]

\* What a parameter list of widths and names amounts to.
Shaped(params, widths, names) ==
  /\ WidthsOf(params) = widths /\ NamesOf(params) = names
  /\ widths \in Seq(ValueWidths) /\ Len(params) \in Nat

\* The parameter lists that occur, by their widths.
LEMMA ShapeEmpty ==
  Shaped(<<>>, <<>>, <<>>)
  BY DEF Shaped, WidthsOf, NamesOf, W, N, ValueWidths

LEMMA ShapeW == \A a :
  Shaped(<<W(a)>>, <<8>>, <<a>>)
  BY DEF Shaped, WidthsOf, NamesOf, W, N, ValueWidths

LEMMA ShapeWW == \A a, b :
  Shaped(<<W(a), W(b)>>, <<8, 8>>, <<a, b>>)
  BY DEF Shaped, WidthsOf, NamesOf, W, N, ValueWidths

LEMMA ShapeWWW == \A a, b, c :
  Shaped(<<W(a), W(b), W(c)>>, <<8, 8, 8>>, <<a, b, c>>)
  BY DEF Shaped, WidthsOf, NamesOf, W, N, ValueWidths

LEMMA ShapeWWWW == \A a, b, c, d :
  Shaped(<<W(a), W(b), W(c), W(d)>>, <<8, 8, 8, 8>>, <<a, b, c, d>>)
  BY DEF Shaped, WidthsOf, NamesOf, W, N, ValueWidths

LEMMA ShapeWWN == \A a, b, c :
  Shaped(<<W(a), W(b), N(c)>>, <<8, 8, 4>>, <<a, b, c>>)
  BY DEF Shaped, WidthsOf, NamesOf, W, N, ValueWidths

LEMMA ShapeWWNW == \A a, b, c, d :
  Shaped(<<W(a), W(b), N(c), W(d)>>, <<8, 8, 4, 8>>, <<a, b, c, d>>)
  BY DEF Shaped, WidthsOf, NamesOf, W, N, ValueWidths

LEMMA ShapeWNW == \A a, b, c :
  Shaped(<<W(a), N(b), W(c)>>, <<8, 4, 8>>, <<a, b, c>>)
  BY DEF Shaped, WidthsOf, NamesOf, W, N, ValueWidths

LEMMA ShapeWWWNW == \A a, b, c, d, e :
  Shaped(<<W(a), W(b), W(c), N(d), W(e)>>, <<8, 8, 8, 4, 8>>, <<a, b, c, d, e>>)
  BY DEF Shaped, WidthsOf, NamesOf, W, N, ValueWidths

LEMMA ShapeWNNW == \A a, b, c, d :
  Shaped(<<W(a), N(b), N(c), W(d)>>, <<8, 4, 4, 8>>, <<a, b, c, d>>)
  BY DEF Shaped, WidthsOf, NamesOf, W, N, ValueWidths

LEMMA ShapeWWNNW == \A a, b, c, d, e :
  Shaped(<<W(a), W(b), N(c), N(d), W(e)>>, <<8, 8, 4, 4, 8>>, <<a, b, c, d, e>>)
  BY DEF Shaped, WidthsOf, NamesOf, W, N, ValueWidths

LEMMA ShapeWWWN == \A a, b, c, d :
  Shaped(<<W(a), W(b), W(c), N(d)>>, <<8, 8, 8, 4>>, <<a, b, c, d>>)
  BY DEF Shaped, WidthsOf, NamesOf, W, N, ValueWidths

\* What the runtime is told is what the guest passes ...
TypesAgree(f, imports, exports) ==
  /\ WidthsOf(imports[f]) = exports[f]
  /\ exports[f] \in Seq(ValueWidths) /\ Len(imports[f]) \in Nat

\* ... what the entry takes it for ...
StructsAgree(f, exports, entries) == Structs[entries[f][2]] = exports[f]

\* ... and what the API is given.
NamesAgree(f, imports, entries, params) ==
  /\ entries[f][1] \in DOMAIN params
  /\ NamesOf(imports[f]) = params[entries[f][1]]

LEMMA InstanceTypesAgree ==
  \A f \in DOMAIN InstanceImports : TypesAgree(f, InstanceImports, InstanceExports)
  <1> DEFINE A(f) == TypesAgree(f, InstanceImports, InstanceExports)
  <1> USE DEF TypesAgree, Shaped, InstanceImports, InstanceExports, I64, I32
  <1>1. A("loader_available") BY ShapeEmpty
  <1>2. A("enumerate_instance_version") BY ShapeW
  <1>3. A("enumerate_instance_extension_properties") BY ShapeWWNW
  <1>4. A("enumerate_instance_layer_properties") BY ShapeWNW
  <1>5. A("create_instance") BY ShapeWW
  <1>6. A("destroy_instance") BY ShapeW
  <1>7. A("enumerate_physical_devices") BY ShapeWWNW
  <1>8. A("enumerate_device_extension_properties") BY ShapeWWWNW
  <1>9. A("get_physical_device_properties") BY ShapeWW
  <1>10. A("get_physical_device_features") BY ShapeWW
  <1>11. A("get_physical_device_memory_properties") BY ShapeWW
  <1>12. A("get_physical_device_queue_family_properties") BY ShapeWWNW
  <1>13. A("create_device") BY ShapeWWW
  <1>14. A("destroy_device") BY ShapeW
  <1>15. A("device_wait_idle") BY ShapeW
  <1>16. A("get_device_queue") BY ShapeWNNW
  <1>17. A("queue_wait_idle") BY ShapeW
  <1> HIDE DEF TypesAgree, Shaped, InstanceImports, InstanceExports, I64, I32, A
  <1>18. \A f \in DOMAIN InstanceImports : A(f)
    BY <1>1, <1>2, <1>3, <1>4, <1>5, <1>6, <1>7, <1>8, <1>9, <1>10, <1>11, <1>12, <1>13,
       <1>14, <1>15, <1>16, <1>17
       DEF InstanceImports
  <1> QED BY <1>18 DEF A

LEMMA InstanceStructsAgree ==
  \A f \in DOMAIN InstanceImports : StructsAgree(f, InstanceExports, InstanceEntries)
  <1> DEFINE A(f) == StructsAgree(f, InstanceExports, InstanceEntries)
  <1> USE DEF StructsAgree, Structs, InstanceExports, InstanceEntries, I64, I32
  <1>1. A("loader_available") OBVIOUS
  <1>2. A("enumerate_instance_version") OBVIOUS
  <1>3. A("enumerate_instance_extension_properties") OBVIOUS
  <1>4. A("enumerate_instance_layer_properties") OBVIOUS
  <1>5. A("create_instance") OBVIOUS
  <1>6. A("destroy_instance") OBVIOUS
  <1>7. A("enumerate_physical_devices") OBVIOUS
  <1>8. A("enumerate_device_extension_properties") OBVIOUS
  <1>9. A("get_physical_device_properties") OBVIOUS
  <1>10. A("get_physical_device_features") OBVIOUS
  <1>11. A("get_physical_device_memory_properties") OBVIOUS
  <1>12. A("get_physical_device_queue_family_properties") OBVIOUS
  <1>13. A("create_device") OBVIOUS
  <1>14. A("destroy_device") OBVIOUS
  <1>15. A("device_wait_idle") OBVIOUS
  <1>16. A("get_device_queue") OBVIOUS
  <1>17. A("queue_wait_idle") OBVIOUS
  <1> HIDE DEF StructsAgree, Structs, InstanceExports, InstanceEntries, I64, I32, A
  <1>18. \A f \in DOMAIN InstanceImports : A(f)
    BY <1>1, <1>2, <1>3, <1>4, <1>5, <1>6, <1>7, <1>8, <1>9, <1>10, <1>11, <1>12, <1>13,
       <1>14, <1>15, <1>16, <1>17
       DEF InstanceImports
  <1> QED BY <1>18 DEF A

LEMMA InstanceNamesAgree ==
  \A f \in DOMAIN InstanceImports :
    NamesAgree(f, InstanceImports, InstanceEntries, InstanceParameters)
  <1> DEFINE A(f) == NamesAgree(f, InstanceImports, InstanceEntries, InstanceParameters)
  <1> USE DEF NamesAgree, Shaped, InstanceImports, InstanceEntries, InstanceParameters
  <1>1. A("loader_available") BY ShapeEmpty
  <1>2. A("enumerate_instance_version") BY ShapeW
  <1>3. A("enumerate_instance_extension_properties") BY ShapeWWNW
  <1>4. A("enumerate_instance_layer_properties") BY ShapeWNW
  <1>5. A("create_instance") BY ShapeWW
  <1>6. A("destroy_instance") BY ShapeW
  <1>7. A("enumerate_physical_devices") BY ShapeWWNW
  <1>8. A("enumerate_device_extension_properties") BY ShapeWWWNW
  <1>9. A("get_physical_device_properties") BY ShapeWW
  <1>10. A("get_physical_device_features") BY ShapeWW
  <1>11. A("get_physical_device_memory_properties") BY ShapeWW
  <1>12. A("get_physical_device_queue_family_properties") BY ShapeWWNW
  <1>13. A("create_device") BY ShapeWWW
  <1>14. A("destroy_device") BY ShapeW
  <1>15. A("device_wait_idle") BY ShapeW
  <1>16. A("get_device_queue") BY ShapeWNNW
  <1>17. A("queue_wait_idle") BY ShapeW
  <1> HIDE DEF NamesAgree, Shaped, InstanceImports, InstanceEntries, InstanceParameters, A
  <1>18. \A f \in DOMAIN InstanceImports : A(f)
    BY <1>1, <1>2, <1>3, <1>4, <1>5, <1>6, <1>7, <1>8, <1>9, <1>10, <1>11, <1>12, <1>13,
       <1>14, <1>15, <1>16, <1>17
       DEF InstanceImports
  <1> QED BY <1>18 DEF A

LEMMA CommandTypesAgree ==
  \A f \in DOMAIN CommandImports : TypesAgree(f, CommandImports, CommandExports)
  <1> DEFINE A(f) == TypesAgree(f, CommandImports, CommandExports)
  <1> USE DEF TypesAgree, Shaped, CommandImports, CommandExports, I64, I32
  <1>1. A("create_command_pool") BY ShapeWWW
  <1>2. A("destroy_command_pool") BY ShapeWW
  <1>3. A("reset_command_pool") BY ShapeWWN
  <1>4. A("allocate_command_buffers") BY ShapeWWW
  <1>5. A("free_command_buffers") BY ShapeWWWN
  <1>6. A("begin_command_buffer") BY ShapeWWW
  <1>7. A("end_command_buffer") BY ShapeWW
  <1>8. A("reset_command_buffer") BY ShapeWWN
  <1>9. A("create_shader_module") BY ShapeWWW
  <1>10. A("destroy_shader_module") BY ShapeWW
  <1>11. A("create_semaphore") BY ShapeWWW
  <1>12. A("destroy_semaphore") BY ShapeWW
  <1>13. A("create_fence") BY ShapeWWW
  <1>14. A("destroy_fence") BY ShapeWW
  <1>15. A("get_fence_status") BY ShapeWW
  <1>16. A("wait_for_fences") BY ShapeWWNNW
  <1>17. A("reset_fences") BY ShapeWWN
  <1> HIDE DEF TypesAgree, Shaped, CommandImports, CommandExports, I64, I32, A
  <1>18. \A f \in DOMAIN CommandImports : A(f)
    BY <1>1, <1>2, <1>3, <1>4, <1>5, <1>6, <1>7, <1>8, <1>9, <1>10, <1>11, <1>12, <1>13,
       <1>14, <1>15, <1>16, <1>17
       DEF CommandImports
  <1> QED BY <1>18 DEF A

LEMMA CommandStructsAgree ==
  \A f \in DOMAIN CommandImports : StructsAgree(f, CommandExports, CommandEntries)
  <1> DEFINE A(f) == StructsAgree(f, CommandExports, CommandEntries)
  <1> USE DEF StructsAgree, Structs, CommandExports, CommandEntries, I64, I32
  <1>1. A("create_command_pool") OBVIOUS
  <1>2. A("destroy_command_pool") OBVIOUS
  <1>3. A("reset_command_pool") OBVIOUS
  <1>4. A("allocate_command_buffers") OBVIOUS
  <1>5. A("free_command_buffers") OBVIOUS
  <1>6. A("begin_command_buffer") OBVIOUS
  <1>7. A("end_command_buffer") OBVIOUS
  <1>8. A("reset_command_buffer") OBVIOUS
  <1>9. A("create_shader_module") OBVIOUS
  <1>10. A("destroy_shader_module") OBVIOUS
  <1>11. A("create_semaphore") OBVIOUS
  <1>12. A("destroy_semaphore") OBVIOUS
  <1>13. A("create_fence") OBVIOUS
  <1>14. A("destroy_fence") OBVIOUS
  <1>15. A("get_fence_status") OBVIOUS
  <1>16. A("wait_for_fences") OBVIOUS
  <1>17. A("reset_fences") OBVIOUS
  <1> HIDE DEF StructsAgree, Structs, CommandExports, CommandEntries, I64, I32, A
  <1>18. \A f \in DOMAIN CommandImports : A(f)
    BY <1>1, <1>2, <1>3, <1>4, <1>5, <1>6, <1>7, <1>8, <1>9, <1>10, <1>11, <1>12, <1>13,
       <1>14, <1>15, <1>16, <1>17
       DEF CommandImports
  <1> QED BY <1>18 DEF A

LEMMA CommandNamesAgree ==
  \A f \in DOMAIN CommandImports :
    NamesAgree(f, CommandImports, CommandEntries, CommandParameters)
  <1> DEFINE A(f) == NamesAgree(f, CommandImports, CommandEntries, CommandParameters)
  <1> USE DEF NamesAgree, Shaped, CommandImports, CommandEntries, CommandParameters
  <1>1. A("create_command_pool") BY ShapeWWW
  <1>2. A("destroy_command_pool") BY ShapeWW
  <1>3. A("reset_command_pool") BY ShapeWWN
  <1>4. A("allocate_command_buffers") BY ShapeWWW
  <1>5. A("free_command_buffers") BY ShapeWWWN
  <1>6. A("begin_command_buffer") BY ShapeWWW
  <1>7. A("end_command_buffer") BY ShapeWW
  <1>8. A("reset_command_buffer") BY ShapeWWN
  <1>9. A("create_shader_module") BY ShapeWWW
  <1>10. A("destroy_shader_module") BY ShapeWW
  <1>11. A("create_semaphore") BY ShapeWWW
  <1>12. A("destroy_semaphore") BY ShapeWW
  <1>13. A("create_fence") BY ShapeWWW
  <1>14. A("destroy_fence") BY ShapeWW
  <1>15. A("get_fence_status") BY ShapeWW
  <1>16. A("wait_for_fences") BY ShapeWWNNW
  <1>17. A("reset_fences") BY ShapeWWN
  <1> HIDE DEF NamesAgree, Shaped, CommandImports, CommandEntries, CommandParameters, A
  <1>18. \A f \in DOMAIN CommandImports : A(f)
    BY <1>1, <1>2, <1>3, <1>4, <1>5, <1>6, <1>7, <1>8, <1>9, <1>10, <1>11, <1>12, <1>13,
       <1>14, <1>15, <1>16, <1>17
       DEF CommandImports
  <1> QED BY <1>18 DEF A

LEMMA ResourceTypesAgree ==
  \A f \in DOMAIN ResourceImports : TypesAgree(f, ResourceImports, ResourceExports)
  <1> DEFINE A(f) == TypesAgree(f, ResourceImports, ResourceExports)
  <1> USE DEF TypesAgree, Shaped, ResourceImports, ResourceExports, I64, I32
  <1>1. A("create_buffer") BY ShapeWWW
  <1>2. A("destroy_buffer") BY ShapeWW
  <1>3. A("get_buffer_memory_requirements") BY ShapeWWW
  <1>4. A("create_image") BY ShapeWWW
  <1>5. A("destroy_image") BY ShapeWW
  <1>6. A("get_image_memory_requirements") BY ShapeWWW
  <1>7. A("allocate_memory") BY ShapeWWW
  <1>8. A("free_memory") BY ShapeWW
  <1>9. A("bind_buffer_memory") BY ShapeWWWW
  <1>10. A("bind_image_memory") BY ShapeWWWW
  <1>11. A("copy_guest_to_device_memory") BY ShapeWWW
  <1>12. A("copy_device_memory_to_guest") BY ShapeWWW
  <1> HIDE DEF TypesAgree, Shaped, ResourceImports, ResourceExports, I64, I32, A
  <1>13. \A f \in DOMAIN ResourceImports : A(f)
    BY <1>1, <1>2, <1>3, <1>4, <1>5, <1>6, <1>7, <1>8, <1>9, <1>10, <1>11, <1>12
       DEF ResourceImports
  <1> QED BY <1>13 DEF A

LEMMA ResourceStructsAgree ==
  \A f \in DOMAIN ResourceImports : StructsAgree(f, ResourceExports, ResourceEntries)
  <1> DEFINE A(f) == StructsAgree(f, ResourceExports, ResourceEntries)
  <1> USE DEF StructsAgree, Structs, ResourceExports, ResourceEntries, I64, I32
  <1>1. A("create_buffer") OBVIOUS
  <1>2. A("destroy_buffer") OBVIOUS
  <1>3. A("get_buffer_memory_requirements") OBVIOUS
  <1>4. A("create_image") OBVIOUS
  <1>5. A("destroy_image") OBVIOUS
  <1>6. A("get_image_memory_requirements") OBVIOUS
  <1>7. A("allocate_memory") OBVIOUS
  <1>8. A("free_memory") OBVIOUS
  <1>9. A("bind_buffer_memory") OBVIOUS
  <1>10. A("bind_image_memory") OBVIOUS
  <1>11. A("copy_guest_to_device_memory") OBVIOUS
  <1>12. A("copy_device_memory_to_guest") OBVIOUS
  <1> HIDE DEF StructsAgree, Structs, ResourceExports, ResourceEntries, I64, I32, A
  <1>13. \A f \in DOMAIN ResourceImports : A(f)
    BY <1>1, <1>2, <1>3, <1>4, <1>5, <1>6, <1>7, <1>8, <1>9, <1>10, <1>11, <1>12
       DEF ResourceImports
  <1> QED BY <1>13 DEF A

LEMMA ResourceNamesAgree ==
  \A f \in DOMAIN ResourceImports :
    NamesAgree(f, ResourceImports, ResourceEntries, ResourceParameters)
  <1> DEFINE A(f) == NamesAgree(f, ResourceImports, ResourceEntries, ResourceParameters)
  <1> USE DEF NamesAgree, Shaped, ResourceImports, ResourceEntries, ResourceParameters
  <1>1. A("create_buffer") BY ShapeWWW
  <1>2. A("destroy_buffer") BY ShapeWW
  <1>3. A("get_buffer_memory_requirements") BY ShapeWWW
  <1>4. A("create_image") BY ShapeWWW
  <1>5. A("destroy_image") BY ShapeWW
  <1>6. A("get_image_memory_requirements") BY ShapeWWW
  <1>7. A("allocate_memory") BY ShapeWWW
  <1>8. A("free_memory") BY ShapeWW
  <1>9. A("bind_buffer_memory") BY ShapeWWWW
  <1>10. A("bind_image_memory") BY ShapeWWWW
  <1>11. A("copy_guest_to_device_memory") BY ShapeWWW
  <1>12. A("copy_device_memory_to_guest") BY ShapeWWW
  <1> HIDE DEF NamesAgree, Shaped, ResourceImports, ResourceEntries, ResourceParameters, A
  <1>13. \A f \in DOMAIN ResourceImports : A(f)
    BY <1>1, <1>2, <1>3, <1>4, <1>5, <1>6, <1>7, <1>8, <1>9, <1>10, <1>11, <1>12
       DEF ResourceImports
  <1> QED BY <1>13 DEF A
\* Every function has its row in one of the three groups of each table.
LEMMA Domains ==
  /\ DOMAIN InstanceExports = DOMAIN InstanceImports
  /\ DOMAIN InstanceEntries = DOMAIN InstanceImports
  /\ DOMAIN CommandExports = DOMAIN CommandImports
  /\ DOMAIN CommandEntries = DOMAIN CommandImports
  /\ DOMAIN ResourceExports = DOMAIN ResourceImports
  /\ DOMAIN ResourceEntries = DOMAIN ResourceImports
  <1>1. DOMAIN InstanceExports = DOMAIN InstanceImports
    BY DEF InstanceExports, InstanceImports
  <1>2. DOMAIN InstanceEntries = DOMAIN InstanceImports
    BY DEF InstanceEntries, InstanceImports
  <1>3. DOMAIN CommandExports = DOMAIN CommandImports
    BY DEF CommandExports, CommandImports
  <1>4. DOMAIN CommandEntries = DOMAIN CommandImports
    BY DEF CommandEntries, CommandImports
  <1>5. DOMAIN ResourceExports = DOMAIN ResourceImports
    BY DEF ResourceExports, ResourceImports
  <1>6. DOMAIN ResourceEntries = DOMAIN ResourceImports
    BY DEF ResourceEntries, ResourceImports
  <1> QED BY <1>1, <1>2, <1>3, <1>4, <1>5, <1>6

\* No function is in two of the groups.
Apart(first, second, third) ==
  /\ \A f \in DOMAIN second : f \notin DOMAIN first
  /\ \A f \in DOMAIN third : f \notin DOMAIN first /\ f \notin DOMAIN second

LEMMA FunctionsApart == Apart(InstanceImports, CommandImports, ResourceImports)
  <1>1. \A f \in DOMAIN CommandImports : f \notin DOMAIN InstanceImports
    BY DEF CommandImports, InstanceImports
  <1>2. \A f \in DOMAIN ResourceImports : f \notin DOMAIN InstanceImports
    BY DEF ResourceImports, InstanceImports
  <1>3. \A f \in DOMAIN ResourceImports : f \notin DOMAIN CommandImports
    BY DEF CommandImports, ResourceImports
  <1> QED BY <1>1, <1>2, <1>3 DEF Apart

LEMMA ParametersApart == Apart(InstanceParameters, CommandParameters, ResourceParameters)
  <1>1. \A f \in DOMAIN CommandParameters : f \notin DOMAIN InstanceParameters
    BY DEF CommandParameters, InstanceParameters
  <1>2. \A f \in DOMAIN ResourceParameters : f \notin DOMAIN InstanceParameters
    BY DEF ResourceParameters, InstanceParameters
  <1>3. \A f \in DOMAIN ResourceParameters : f \notin DOMAIN CommandParameters
    BY DEF CommandParameters, ResourceParameters
  <1> QED BY <1>1, <1>2, <1>3 DEF Apart

\* Each row of a table is the row of its group.
LEMMA ImportRows ==
  /\ Names = DOMAIN InstanceImports \cup DOMAIN CommandImports \cup DOMAIN ResourceImports
  /\ \A f \in DOMAIN InstanceImports : Imports[f] = InstanceImports[f]
  /\ \A f \in DOMAIN CommandImports : Imports[f] = CommandImports[f]
  /\ \A f \in DOMAIN ResourceImports : Imports[f] = ResourceImports[f]
  BY FunctionsApart DEF Names, Imports, Apart, Joined

LEMMA ExportRows ==
  /\ \A f \in DOMAIN InstanceImports : Exports[f] = InstanceExports[f]
  /\ \A f \in DOMAIN CommandImports : Exports[f] = CommandExports[f]
  /\ \A f \in DOMAIN ResourceImports : Exports[f] = ResourceExports[f]
  <1>1. Apart(InstanceExports, CommandExports, ResourceExports)
    BY FunctionsApart, Domains DEF Apart
  <1> QED BY <1>1, Domains DEF Exports, Apart, Joined

LEMMA EntryRows ==
  /\ \A f \in DOMAIN InstanceImports : Entries[f] = InstanceEntries[f]
  /\ \A f \in DOMAIN CommandImports : Entries[f] = CommandEntries[f]
  /\ \A f \in DOMAIN ResourceImports : Entries[f] = ResourceEntries[f]
  <1>1. Apart(InstanceEntries, CommandEntries, ResourceEntries)
    BY FunctionsApart, Domains DEF Apart
  <1> QED BY <1>1, Domains DEF Entries, Apart, Joined

LEMMA ParameterRows ==
  /\ \A p \in DOMAIN InstanceParameters : Parameters[p] = InstanceParameters[p]
  /\ \A p \in DOMAIN CommandParameters : Parameters[p] = CommandParameters[p]
  /\ \A p \in DOMAIN ResourceParameters : Parameters[p] = ResourceParameters[p]
  BY ParametersApart DEF Parameters, Apart, Joined

\* The four tables say the same of f.
Agree(f) ==
  /\ Exports[f] = WidthsOf(Imports[f])
  /\ Exports[f] \in Seq(ValueWidths) /\ Len(Imports[f]) \in Nat
  /\ Widths(f) = Exports[f]
  /\ Parameters[Entries[f][1]] = NamesOf(Imports[f])

LEMMA RowsAgree ==
  ASSUME NEW f, NEW imports, NEW exports, NEW entries, NEW params,
         Imports[f] = imports[f], Exports[f] = exports[f], Entries[f] = entries[f],
         \A p \in DOMAIN params : Parameters[p] = params[p],
         TypesAgree(f, imports, exports), StructsAgree(f, exports, entries),
         NamesAgree(f, imports, entries, params)
  PROVE  Agree(f)
  <1>1. /\ Exports[f] = WidthsOf(Imports[f])
        /\ Exports[f] \in Seq(ValueWidths) /\ Len(Imports[f]) \in Nat
    BY DEF TypesAgree
  <1>2. Widths(f) = Exports[f]
    BY DEF StructsAgree, Widths
  <1>3. Parameters[Entries[f][1]] = NamesOf(Imports[f])
    BY DEF NamesAgree
  <1> QED BY <1>1, <1>2, <1>3 DEF Agree

LEMMA TablesAgree == \A f \in Names : Agree(f)
  <1>1. ASSUME NEW f \in DOMAIN InstanceImports PROVE Agree(f)
    BY ImportRows, ExportRows, EntryRows, ParameterRows, InstanceTypesAgree,
       InstanceStructsAgree, InstanceNamesAgree, RowsAgree
  <1>2. ASSUME NEW f \in DOMAIN CommandImports PROVE Agree(f)
    BY ImportRows, ExportRows, EntryRows, ParameterRows, CommandTypesAgree,
       CommandStructsAgree, CommandNamesAgree, RowsAgree
  <1>3. ASSUME NEW f \in DOMAIN ResourceImports PROVE Agree(f)
    BY ImportRows, ExportRows, EntryRows, ParameterRows, ResourceTypesAgree,
       ResourceStructsAgree, ResourceNamesAgree, RowsAgree
  <1> QED BY <1>1, <1>2, <1>3, ImportRows

-----------------------------------------------------------------------------
(* What a call passes *)

Argument(f, i) == Bytes(Imports[f][i].name, Exports[f][i])

\* The block of a function that has parameters, read as its entry reads it.
LEMMA BlockFacts ==
  ASSUME Packed, NEW f \in Names, Len(Exports[f]) > 0
  PROVE  /\ Len(ParameterBlock(f)) = SizeOf(Widths(f)) /\ SizeOf(Widths(f)) \in Nat
         /\ \A i \in 1 .. Len(Exports[f]) :
              LoadParameter(ParameterBlock(f), Widths(f))[i] = Argument(f, i)
  <1> DEFINE widths == Exports[f]
             values == [i \in 1 .. Len(widths) |-> Argument(f, i)]
             S == {<<Imports[f][i].name, j>> : i \in 1 .. Len(widths), j \in Nat}
  <1>1. widths \in Seq(ValueWidths) /\ Widths(f) = widths
    BY TablesAgree DEF Agree
  <1>2. ASSUME NEW i \in 1 .. Len(widths) PROVE values[i] \in [1 .. widths[i] -> S]
    <2>1. values[i] = [j \in 1 .. widths[i] |-> <<Imports[f][i].name, j>>]
      BY DEF Argument, Bytes
    <2>2. \A j \in 1 .. widths[i] : <<Imports[f][i].name, j>> \in S
      OBVIOUS
    <2> HIDE DEF S, values
    <2> QED BY <2>1, <2>2
  <1>3. Len(values) = Len(widths)
    BY <1>1
  <1>4. FlattenSeq(values) = ParameterBlock(f)
    BY DEF ParameterBlock, Argument
  <1>5. \A i \in 1 .. Len(widths) : values[i] = Argument(f, i)
    OBVIOUS
  <1> HIDE DEF values, S
  <1>6. Valued(values, widths, S)
    BY <1>2, <1>3 DEF Valued
  <1> HIDE DEF widths
  <1>7. Len(widths) > 0
    BY DEF widths
  <1>8. /\ Len(FlattenSeq(values)) = SizeOf(widths) /\ SizeOf(widths) \in Nat
        /\ \A i \in 1 .. Len(widths) : LoadParameter(FlattenSeq(values), widths)[i] = values[i]
    BY <1>1, <1>6, <1>7, LoadFacts
  <1> QED BY <1>1, <1>4, <1>5, <1>8 DEF widths

LEMMA EmptyBlock ==
  ASSUME NEW f \in Names, ~ (Len(Exports[f]) > 0)
  PROVE  ParameterBlock(f) = <<>>
  <1>1. Exports[f] \in Seq(ValueWidths)
    BY TablesAgree DEF Agree
  <1>2. Len(Exports[f]) = 0
    BY <1>1
  <1>3. [i \in 1 .. Len(Exports[f]) |-> Bytes(Imports[f][i].name, Exports[f][i])] = <<>>
    BY <1>2
  <1> QED BY <1>3 DEF ParameterBlock, FlattenSeq

\* The guest's arguments by their names.
Passed(f) ==
  [name \in {Imports[f][i].name : i \in 1 .. Len(Imports[f])} |->
    LET i == CHOOSE i \in 1 .. Len(Imports[f]) : Imports[f][i].name = name
    IN Bytes(name, Imports[f][i].width)]

\* What Enter gives to the function of the API.
Given(b, f) ==
  LET fields == LoadParameter(b, Widths(f))
      names == Parameters[Entries[f][1]]
  IN [name \in Range(names) |-> fields[CHOOSE i \in 1 .. Len(names) : names[i] = name]]

LEMMA GivenIsPassed ==
  ASSUME Packed, NEW f \in Names, Len(Exports[f]) > 0
  PROVE  Given(ParameterBlock(f), f) = Passed(f)
  <1> DEFINE names == Parameters[Entries[f][1]]
             fields == LoadParameter(ParameterBlock(f), Widths(f))
             n == Len(Imports[f])
  <1>1. names = [i \in 1 .. n |-> Imports[f][i].name] /\ n \in Nat
    BY TablesAgree DEF Agree, NamesOf
  <1>2. Exports[f] = [i \in 1 .. n |-> Imports[f][i].width]
    BY TablesAgree DEF Agree, WidthsOf
  <1>3. Len(names) = n /\ Len(Exports[f]) = n
    BY <1>1, <1>2
  <1>4. \A i \in 1 .. n : fields[i] = Bytes(Imports[f][i].name, Imports[f][i].width)
    BY <1>2, <1>3, BlockFacts DEF Argument
  <1>5. Range(names) = {Imports[f][i].name : i \in 1 .. n}
    BY <1>1 DEF Range
  <1>6. Given(ParameterBlock(f), f) =
          [name \in Range(names) |-> fields[CHOOSE i \in 1 .. Len(names) : names[i] = name]]
    BY DEF Given
  <1> HIDE DEF names, fields
  <1>7. ASSUME NEW name \in Range(names)
        PROVE  fields[CHOOSE i \in 1 .. Len(names) : names[i] = name] =
                 LET i == CHOOSE i \in 1 .. n : Imports[f][i].name = name
                 IN Bytes(name, Imports[f][i].width)
    <2> DEFINE Is(i) == i \in 1 .. n /\ Imports[f][i].name = name
    <2>1. \E i : Is(i)
      BY <1>5
    <2>2. (CHOOSE i \in 1 .. Len(names) : names[i] = name) = CHOOSE i : Is(i)
      BY <1>1, <1>3
    <2>3. (CHOOSE i \in 1 .. n : Imports[f][i].name = name) = CHOOSE i : Is(i)
      OBVIOUS
    <2>4. PICK k : k = CHOOSE i : Is(i)
      OBVIOUS
    <2>5. Is(k)
      <3> HIDE DEF Is
      <3> QED BY <2>1, <2>4
    <2>6. fields[k] = Bytes(name, Imports[f][k].width)
      BY <1>4, <2>5
    <2> QED BY <2>2, <2>3, <2>4, <2>6
  <1>8. Passed(f) = [name \in Range(names) |->
                      LET i == CHOOSE i \in 1 .. n : Imports[f][i].name = name
                      IN Bytes(name, Imports[f][i].width)]
    BY <1>5 DEF Passed
  <1> DEFINE given(name) == fields[CHOOSE i \in 1 .. Len(names) : names[i] = name]
             passed(name) == LET i == CHOOSE i \in 1 .. n : Imports[f][i].name = name
                             IN Bytes(name, Imports[f][i].width)
  <1>9. /\ Given(ParameterBlock(f), f) = [name \in Range(names) |-> given(name)]
        /\ Passed(f) = [name \in Range(names) |-> passed(name)]
        /\ \A name \in Range(names) : given(name) = passed(name)
    BY <1>6, <1>7, <1>8
  <1> HIDE DEF given, passed
  <1> QED BY <1>9
-----------------------------------------------------------------------------
(* The invariant *)

TypeOK ==
  /\ at \in {"guest", "called", "entered", "stored"}
  /\ calls \in Names /\ wants \in BOOLEAN
  /\ block \in {ParameterBlock(calls), <<>>}
  /\ answer \in Results \cup {Unset} /\ result \in Results \cup {Unset}

\* Once the entry has read a block, the function was given what the guest passed.
ReadRight == Packed /\ at \in {"entered", "stored"} /\ block # <<>> => args = Passed(calls)

Inv == TypeOK /\ ReadRight

LEMMA LinkedFacts == \A f \in Names : Linked(f)
  BY TablesAgree DEF Agree, Linked, WidthsOf

LEMMA InitInv == Init => Inv
  <1>1. "loader_available" \in Names
    BY ImportRows DEF InstanceImports
  <1> QED BY <1>1 DEF Init, Inv, TypeOK, ReadRight, Unset

LEMMA NextInv == Inv /\ [Next]_vars => Inv'
  <1> SUFFICES ASSUME Inv, [Next]_vars PROVE Inv'
    OBVIOUS
  <1> USE DEF Inv, TypeOK, ReadRight
  <1>1. ASSUME NEW f \in Names, Call(f) PROVE Inv'
    <2>1. at' = "called" /\ block' \in {ParameterBlock(f), <<>>}
      BY <1>1, LinkedFacts DEF Call
    <2> QED BY <1>1, <2>1 DEF Call
  <1>2. CASE Enter
    <2>1. TypeOK'
      BY <1>2 DEF Enter
    <2>2. args' = Given(block, calls) /\ UNCHANGED <<calls, block>>
      BY <1>2 DEF Enter, Given
    <2>3. ASSUME Packed, block' # <<>> PROVE args' = Passed(calls)
      <3>1. block = ParameterBlock(calls) /\ block # <<>>
        BY <2>2, <2>3
      <3>2. Len(Exports[calls]) > 0
        BY <3>1, EmptyBlock
      <3> QED BY <2>2, <2>3, <3>1, <3>2, GivenIsPassed
    <2>4. Passed(calls)' = Passed(calls')
      BY DEF Passed
    <2> QED BY <2>1, <2>2, <2>3, <2>4
  <1>3. CASE StoreI32Result
    BY <1>3 DEF StoreI32Result
  <1>4. CASE Return
    BY <1>4 DEF Return
  <1>5. CASE UNCHANGED vars
    BY <1>5 DEF vars
  <1> QED BY <1>1, <1>2, <1>3, <1>4, <1>5 DEF Next

\* Every state is well typed: the call is of one of the 46 functions and its block is the
\* one the runtime makes for that function, or the null pointer.
THEOREM TypeCorrectness == Spec => []TypeOK
  <1>1. Inv => TypeOK
    BY DEF Inv
  <1> QED BY <1>1, InitInv, NextInv, PTL DEF Spec

\* No import of the guest's header is refused, whether or not the structs are packed: the
\* types of kFunctions are those of vulkan.h for every function.
THEOREM ImportsLink == Spec => []EveryImportLinks
  <1>1. Inv => EveryImportLinks
    BY DEF Inv, TypeOK, EveryImportLinks
  <1> QED BY <1>1, InitInv, NextInv, PTL DEF Spec

\* With packed structs LoadParameter hands each function of the API exactly the bytes the
\* guest passed under the names of its parameters.
THEOREM ArgumentsComeThrough == Spec => [](Packed => ArgumentsArrive)
  <1>1. Inv => (Packed => ArgumentsArrive)
    BY DEF Inv, ReadRight, Passed, ArgumentsArrive
  <1> QED BY <1>1, InitInv, NextInv, PTL DEF Spec

\* With packed structs no entry reads past the block it is given: the struct is as long as
\* the arguments together.
THEOREM ReadsAreInside == Spec => [](Packed => ReadsStayInBlock)
  <1>1. Inv => (Packed => ReadsStayInBlock)
    <2> SUFFICES ASSUME Inv, Packed, at = "called", block # <<>>
                 PROVE  SizeOf(Widths(calls)) =< Len(block)
      BY DEF ReadsStayInBlock
    <2>1. block = ParameterBlock(calls) /\ calls \in Names
      BY DEF Inv, TypeOK
    <2>2. Len(Exports[calls]) > 0
      BY <2>1, EmptyBlock
    <2> QED BY <2>1, <2>2, BlockFacts
  <1> QED BY <1>1, InitInv, NextInv, PTL DEF Spec
=============================================================================
