------------------------------ MODULE WireProofs ------------------------------
(***************************************************************************)
(* Theorems about Wire, for all senders and messages, and any number of    *)
(* digits that is enough for their lengths.                                *)
(***************************************************************************)
EXTENDS Wire, SequenceTheorems, WellFoundedInduction, TLAPS

-----------------------------------------------------------------------------
\* What the recursive functions compute.  There is no induction over their arguments
\* to cite; a set of arguments for which something fails has a least element instead.

LEMMA LeastElement ==
  ASSUME NEW T \in SUBSET Nat, T # {}
  PROVE  \E m \in T : /\ m \in Nat /\ (m # 0 => m - 1 \in Nat /\ m - 1 \notin T)
                       /\ \A k \in T : ~(k < m)
<1>1. PICK m \in T : \A k \in T : ~(<<k, m>> \in OpToRel(<, Nat))
  BY WFMin, NatLessThanWellFounded
<1>2. \A k \in T : ~(k < m)
  BY <1>1 DEF OpToRel
<1>3. m \in Nat /\ (m # 0 => m - 1 \in Nat /\ m - 1 < m)
  OBVIOUS
<1> QED
  BY <1>2, <1>3

LEMMA LeadingNumbers ==
  ASSUME NEW n \in Nat
  PROVE  /\ Leading(n) \in [0 .. DIGITS -> Nat]
         /\ Leading(n)[0] = n
         /\ \A k \in 1 .. DIGITS : Leading(n)[k] = Leading(n)[k - 1] \div 10
<1> DEFINE Is(g, d) == g = [k \in 0 .. d |-> IF k = 0 THEN n ELSE g[k - 1] \div 10]
           T == {d \in Nat : ~\E g : Is(g, d)}
<1>1. DIGITS \in Nat
  BY WireAssumption
<1>2. T = {}
  <2> SUFFICES ASSUME T # {} PROVE FALSE
    OBVIOUS
  <2>1. PICK d \in T : d \in Nat /\ (d # 0 => d - 1 \in Nat /\ d - 1 \notin T)
    <3> HIDE DEF T
    <3>1. T \in SUBSET Nat
      BY DEF T
    <3> QED
      BY <3>1, LeastElement
  <2>2. d \in Nat /\ ~\E g : Is(g, d)
    BY <2>1
  <2>3. CASE d = 0
    <3>1. Is([k \in 0 .. d |-> n], d)
      BY <2>3
    <3> QED
      BY <2>2, <3>1
  <2>4. CASE d # 0
    <3>1. d - 1 \in Nat /\ d - 1 \notin T
      BY <2>1, <2>4
    <3>2. PICK g : Is(g, d - 1)
      BY <3>1
    <3> DEFINE h == [k \in 0 .. d |-> IF k = d THEN g[d - 1] \div 10 ELSE g[k]]
    <3>3. Is(h, d)
      <4>1. \A k \in 0 .. d - 1 : h[k] = g[k]
        BY <2>2
      <4>2. \A k \in 0 .. d - 1 : g[k] = IF k = 0 THEN n ELSE g[k - 1] \div 10
        BY <3>2
      <4>3. \A k \in 0 .. d : h[k] = IF k = 0 THEN n ELSE h[k - 1] \div 10
        BY <2>2, <2>4, <4>1, <4>2
      <4> QED
        BY <4>3
    <3> QED
      BY <2>2, <3>3
  <2> QED
    BY <2>3, <2>4
<1>3. Is(Leading(n), DIGITS)
  <2>1. \E g : Is(g, DIGITS)
    BY <1>1, <1>2
  <2> QED
    BY <2>1 DEF Leading
<1>4. /\ DOMAIN Leading(n) = 0 .. DIGITS
      /\ \A k \in 0 .. DIGITS : Leading(n)[k] = IF k = 0 THEN n ELSE Leading(n)[k - 1] \div 10
      /\ Leading(n) = [k \in 0 .. DIGITS |-> Leading(n)[k]]
  BY <1>3
<1> DEFINE U == {k \in 0 .. DIGITS : Leading(n)[k] \notin Nat}
<1>5. U = {}
  <2> SUFFICES ASSUME U # {} PROVE FALSE
    OBVIOUS
  <2>1. PICK k \in U : k \in Nat /\ (k # 0 => k - 1 \in Nat /\ k - 1 \notin U)
    <3>1. U \in SUBSET Nat
      BY <1>1
    <3> HIDE DEF U
    <3> QED
      BY <3>1, LeastElement
  <2>2. k \in 0 .. DIGITS /\ Leading(n)[k] \notin Nat
    BY <2>1
  <2>3. k # 0
    BY <1>1, <1>4, <2>2
  <2>4. k - 1 \in 0 .. DIGITS
    BY <1>1, <2>1, <2>2, <2>3
  <2>5. Leading(n)[k - 1] \in Nat
    BY <2>1, <2>3, <2>4
  <2>6. Leading(n)[k] = Leading(n)[k - 1] \div 10
    BY <1>4, <2>2, <2>3
  <2>7. \A q \in Nat : q \div 10 \in Nat
    OBVIOUS
  <2> QED
    BY <2>2, <2>5, <2>6, <2>7
<1>6. \A k \in 0 .. DIGITS : Leading(n)[k] \in Nat
  BY <1>5
<1>7. 0 \in 0 .. DIGITS /\ \A k \in 1 .. DIGITS : k \in 0 .. DIGITS /\ k # 0
  BY <1>1
<1> QED
  BY <1>4, <1>6, <1>7

\* The value of the first digits, one more at a time, as in Decimal.
Values(digits) == LET value[k \in 0 .. Len(digits)] ==
                        IF k = 0 THEN 0 ELSE 10 * value[k - 1] + digits[k]
                  IN  value

LEMMA ValuesOfDigits ==
  ASSUME NEW digits \in Seq(Nat)
  PROVE  /\ Values(digits)[0] = 0
         /\ \A k \in 1 .. Len(digits) : Values(digits)[k] = 10 * Values(digits)[k - 1] + digits[k]
         /\ Decimal(digits) = Values(digits)[Len(digits)]
<1> DEFINE Is(g, d) == g = [k \in 0 .. d |-> IF k = 0 THEN 0 ELSE 10 * g[k - 1] + digits[k]]
           T == {d \in Nat : ~\E g : Is(g, d)}
<1>1. Len(digits) \in Nat
  OBVIOUS
<1>2. T = {}
  <2> SUFFICES ASSUME T # {} PROVE FALSE
    OBVIOUS
  <2>1. PICK d \in T : d \in Nat /\ (d # 0 => d - 1 \in Nat /\ d - 1 \notin T)
    <3> HIDE DEF T
    <3>1. T \in SUBSET Nat
      BY DEF T
    <3> QED
      BY <3>1, LeastElement
  <2>2. d \in Nat /\ ~\E g : Is(g, d)
    BY <2>1
  <2>3. CASE d = 0
    <3>1. Is([k \in 0 .. d |-> 0], d)
      BY <2>3
    <3> QED
      BY <2>2, <3>1
  <2>4. CASE d # 0
    <3>1. d - 1 \in Nat /\ d - 1 \notin T
      BY <2>1, <2>4
    <3>2. PICK g : Is(g, d - 1)
      BY <3>1
    <3> DEFINE h == [k \in 0 .. d |-> IF k = d THEN 10 * g[d - 1] + digits[d] ELSE g[k]]
    <3>3. Is(h, d)
      <4>1. \A k \in 0 .. d - 1 : h[k] = g[k]
        BY <2>2
      <4>2. \A k \in 0 .. d - 1 : g[k] = IF k = 0 THEN 0 ELSE 10 * g[k - 1] + digits[k]
        BY <3>2
      <4>3. \A k \in 0 .. d : h[k] = IF k = 0 THEN 0 ELSE 10 * h[k - 1] + digits[k]
        BY <2>2, <2>4, <4>1, <4>2
      <4> QED
        BY <4>3
    <3> QED
      BY <2>2, <3>3
  <2> QED
    BY <2>3, <2>4
<1>3. Is(Values(digits), Len(digits))
  <2>1. \E g : Is(g, Len(digits))
    BY <1>1, <1>2
  <2> QED
    BY <2>1 DEF Values
<1>4. Decimal(digits) = Values(digits)[Len(digits)]
  BY DEF Decimal, Values
<1>5. 0 \in 0 .. Len(digits) /\ \A k \in 1 .. Len(digits) : k \in 0 .. Len(digits) /\ k # 0
  BY <1>1
<1> HIDE DEF T
<1>6. \A k \in 0 .. Len(digits) :
         Values(digits)[k] = IF k = 0 THEN 0 ELSE 10 * Values(digits)[k - 1] + digits[k]
  BY <1>3
<1> QED
  BY <1>4, <1>5, <1>6

LEMMA DecimalIsNat ==
  ASSUME NEW digits \in Seq(Nat)
  PROVE  Decimal(digits) \in Nat
<1> DEFINE V(k) == Values(digits)[k]
           T == {k \in 0 .. Len(digits) : V(k) \notin Nat}
<1>1. /\ V(0) = 0
      /\ \A k \in 1 .. Len(digits) : V(k) = 10 * V(k - 1) + digits[k] /\ digits[k] \in Nat
      /\ Decimal(digits) = V(Len(digits))
      /\ Len(digits) \in Nat
  BY ValuesOfDigits
<1> HIDE DEF V
<1>2. T = {}
  <2> SUFFICES ASSUME T # {} PROVE FALSE
    OBVIOUS
  <2>1. PICK k \in T : k \in Nat /\ (k # 0 => k - 1 \in Nat /\ k - 1 \notin T)
    <3>1. T \in SUBSET Nat
      BY <1>1
    <3> HIDE DEF T
    <3> QED
      BY <3>1, LeastElement
  <2>2. k \in 0 .. Len(digits) /\ V(k) \notin Nat
    BY <2>1
  <2>3. k # 0
    BY <1>1, <2>2
  <2>4. k \in 1 .. Len(digits) /\ k - 1 \in 0 .. Len(digits)
    BY <1>1, <2>1, <2>2, <2>3
  <2>5. V(k - 1) \in Nat
    BY <2>1, <2>3, <2>4
  <2>6. V(k) = 10 * V(k - 1) + digits[k] /\ digits[k] \in Nat
    BY <1>1, <2>4
  <2>7. \A a, b \in Nat : 10 * a + b \in Nat
    OBVIOUS
  <2>8. V(k) \in Nat
    BY <2>5, <2>6, <2>7
  <2> QED
    BY <2>2, <2>8
<1> QED
  BY <1>1, <1>2

LEMMA RunEnds ==
  ASSUME NEW cells \in Seq(Nat), NEW S, NEW n \in 0 .. Len(cells)
  PROVE  /\ Run(cells, S, n) \in n .. Len(cells)
         /\ \A j \in n + 1 .. Run(cells, S, n) : cells[j] \in S
         /\ Run(cells, S, n) < Len(cells) => cells[Run(cells, S, n) + 1] \notin S
<1> DEFINE Ends(k) == /\ \A j \in n + 1 .. k : cells[j] \in S
                      /\ k < Len(cells) => cells[k + 1] \notin S
           T == {k \in n .. Len(cells) : k < Len(cells) => cells[k + 1] \notin S}
<1>1. PICK l \in Nat : l = Len(cells) /\ n \in Nat /\ n <= l
  OBVIOUS
<1>2. T \in SUBSET Nat /\ T # {}
  <2>1. l \in T
    BY <1>1
  <2> QED
    BY <1>1, <2>1
<1>3. PICK m \in T : m \in Nat /\ \A k \in T : ~(k < m)
  <2> HIDE DEF T
  <2> QED
    BY <1>2, LeastElement
<1>4. m \in n .. Len(cells) /\ (m < Len(cells) => cells[m + 1] \notin S)
  BY <1>3
<1>5. ASSUME NEW j \in n + 1 .. m PROVE cells[j] \in S
  <2>1. j - 1 \in n .. Len(cells) /\ j - 1 < m /\ (j - 1) + 1 = j /\ j - 1 < Len(cells)
    BY <1>1, <1>4
  <2>2. j - 1 \notin T
    BY <1>3, <2>1
  <2> QED
    BY <2>1, <2>2
<1>6. \E k \in n .. Len(cells) : Ends(k)
  BY <1>4, <1>5
<1>7. Run(cells, S, n) = CHOOSE k \in n .. Len(cells) : Ends(k)
  BY DEF Run
<1>8. Run(cells, S, n) \in n .. Len(cells) /\ Ends(Run(cells, S, n))
  <2> HIDE DEF Ends
  <2> QED
    BY <1>6, <1>7, Zenon
<1> QED
  BY <1>8

LEMMA AtoiIsInt ==
  ASSUME NEW cells \in Seq(Nat)
  PROVE  atoi(cells) \in Int
<1> DEFINE blanks == Run(cells, {Blank}, 0)
           signed == blanks < Len(cells) /\ cells[blanks + 1] \in {Minus, Plus}
           start == IF signed THEN blanks + 1 ELSE blanks
           end == Run(cells, Digits, start)
           value == Decimal(SubSeq(cells, start + 1, end))
<1>1. atoi(cells) = IF signed /\ cells[start] = Minus THEN -value ELSE value
  BY DEF atoi
<1>2. PICK l \in Nat : l = Len(cells)
  OBVIOUS
<1>3. blanks \in 0 .. l
  <2>1. 0 \in 0 .. Len(cells)
    BY <1>2
  <2> QED
    BY <1>2, <2>1, RunEnds
<1>4. start \in 0 .. l
  <2> HIDE DEF blanks
  <2> QED
    BY <1>2, <1>3
<1> HIDE DEF start
<1>5. end \in start .. l
  BY <1>2, <1>4, RunEnds
<1> HIDE DEF end
<1>6. SubSeq(cells, start + 1, end) \in Seq(Nat)
  <2>1. start + 1 \in Int /\ end \in Int /\ \A j \in start + 1 .. end : j \in 1 .. l
    BY <1>4, <1>5
  <2>2. \A j \in start + 1 .. end : cells[j] \in Nat
    BY <1>2, <2>1
  <2> QED
    BY <2>1, <2>2, SubSeqProperties
<1>7. value \in Nat
  BY <1>6, DecimalIsNat
<1> HIDE DEF value, signed
<1>8. -value \in Int /\ value \in Int
  BY <1>7
<1> QED
  BY <1>1, <1>8

LEMMA AtoiOfDigits ==
  ASSUME NEW cells \in Seq(Nat), \A j \in 1 .. Len(cells) : cells[j] \in Digits
  PROVE  atoi(cells) = Decimal(cells)
<1> DEFINE blanks == Run(cells, {Blank}, 0)
           signed == blanks < Len(cells) /\ cells[blanks + 1] \in {Minus, Plus}
           start == IF signed THEN blanks + 1 ELSE blanks
           end == Run(cells, Digits, start)
           value == Decimal(SubSeq(cells, start + 1, end))
<1>1. atoi(cells) = IF signed /\ cells[start] = Minus THEN -value ELSE value
  BY DEF atoi
<1>2. PICK l \in Nat : l = Len(cells) /\ 0 \in 0 .. l
  OBVIOUS
<1>3. \A j \in 1 .. l : cells[j] \notin {Blank} /\ cells[j] \notin {Minus, Plus}
  <2>1. \A x \in Digits : x \notin {Blank} /\ x \notin {Minus, Plus}
    BY DEF Digits, Blank, Minus, Plus
  <2>2. \A j \in 1 .. l : cells[j] \in Digits
    BY <1>2
  <2> QED
    BY ONLY <2>1, <2>2
<1>4. blanks = 0
  <2>1. blanks \in 0 .. l /\ \A j \in 0 + 1 .. blanks : cells[j] \in {Blank}
    BY <1>2, RunEnds
  <2> HIDE DEF blanks
  <2>2. blanks # 0 => 1 \in 0 + 1 .. blanks /\ 1 \in 1 .. l
    BY <2>1
  <2> QED
    BY <1>3, <2>1, <2>2
<1> HIDE DEF blanks
<1>5. ~signed
  <2>1. 0 < l => 1 \in 1 .. l
    OBVIOUS
  <2>2. 0 + 1 = 1
    OBVIOUS
  <2> QED
    BY <1>2, <1>3, <1>4, <2>1, <2>2
<1> HIDE DEF signed
<1>6. start = 0
  BY <1>4, <1>5
<1>7. end = l
  <2>1. PICK e : e = Run(cells, Digits, 0)
    OBVIOUS
  <2>2. e \in 0 .. l /\ (e < l => cells[e + 1] \notin Digits)
    BY <1>2, <2>1, RunEnds
  <2>3. e < l => e + 1 \in 1 .. l
    BY <2>2
  <2>4. e = l
    BY <1>2, <2>2, <2>3
  <2> QED
    BY <1>6, <2>1, <2>4
<1>8. SubSeq(cells, 1, l) = cells
  <2>1. PICK whole : whole = SubSeq(cells, 1, l)
    OBVIOUS
  <2>2. \A j \in 1 .. l : cells[j] \in Nat
    BY <1>2
  <2>3. l - 1 + 1 = l /\ (IF 1 <= l THEN l - 1 + 1 ELSE 0) = l /\ \A j \in 1 .. l : 1 + j - 1 = j
    BY <1>2
  <2>4. whole \in Seq(Nat) /\ Len(whole) = l /\ \A j \in 1 .. l : whole[j] = cells[j]
    BY <2>1, <2>2, <2>3, SubSeqProperties
  <2>5. Len(whole) = Len(cells) /\ \A j \in 1 .. Len(whole) : whole[j] = cells[j]
    BY <1>2, <2>4
  <2>6. whole = cells
    BY ONLY <2>4, <2>5, cells \in Seq(Nat), SeqEqual
  <2> QED
    BY <2>1, <2>6
<1>9. start + 1 = 1
  BY <1>6
<1>10. value = Decimal(cells)
  BY <1>7, <1>8, <1>9
<1> QED
  BY <1>1, <1>5, <1>10

Fits(n) == Leading(n)[DIGITS] = 0

LEMMA LengthIsSeq ==
  ASSUME NEW n \in Nat
  PROVE  /\ lengthStr(n) \in Seq(Nat) /\ Len(lengthStr(n)) = DIGITS /\ DIGITS \in Nat \ {0}
         /\ \A k \in 1 .. DIGITS : /\ lengthStr(n)[k] = Leading(n)[DIGITS - k] % 10
                                   /\ lengthStr(n)[k] \in Digits
<1>1. DIGITS \in Nat \ {0}
  BY WireAssumption
<1>2. ASSUME NEW k \in 1 .. DIGITS
      PROVE  Leading(n)[DIGITS - k] % 10 \in Nat /\ Leading(n)[DIGITS - k] % 10 \in Digits
  <2>1. DIGITS - k \in 0 .. DIGITS
    BY <1>1
  <2>2. Leading(n)[DIGITS - k] \in Nat
    BY <2>1, LeadingNumbers
  <2> QED
    BY <2>2 DEF Digits
<1>3. lengthStr(n) = [k \in 1 .. DIGITS |-> Leading(n)[DIGITS - k] % 10]
  BY DEF lengthStr
<1> HIDE DEF lengthStr
<1>4. lengthStr(n) \in [1 .. DIGITS -> Nat]
  BY <1>2, <1>3
<1>5. lengthStr(n) \in Seq(Nat) /\ Len(lengthStr(n)) = DIGITS
  BY <1>1, <1>4
<1>6. \A k \in 1 .. DIGITS : lengthStr(n)[k] = Leading(n)[DIGITS - k] % 10
  BY <1>3
<1> QED
  BY <1>1, <1>2, <1>5, <1>6

\* A length with digits enough is read as it was written: what std::atoi makes of the
\* digits of std::to_string, with zeros before them, is the number itself.
THEOREM RoundTrip ==
  ASSUME NEW n \in Nat, Fits(n)
  PROVE  atoi(lengthStr(n)) = n
<1> DEFINE digits == lengthStr(n)
           T == {k \in 0 .. DIGITS : Values(digits)[k] # Leading(n)[DIGITS - k]}
<1>1. /\ digits \in Seq(Nat) /\ Len(digits) = DIGITS /\ DIGITS \in Nat \ {0}
      /\ \A k \in 1 .. DIGITS : digits[k] = Leading(n)[DIGITS - k] % 10 /\ digits[k] \in Digits
  BY LengthIsSeq
<1> HIDE DEF digits
<1>2. /\ Values(digits)[0] = 0
      /\ \A k \in 1 .. DIGITS : Values(digits)[k] = 10 * Values(digits)[k - 1] + digits[k]
      /\ atoi(digits) = Values(digits)[DIGITS]
  BY <1>1, ValuesOfDigits, AtoiOfDigits
<1>3. /\ Leading(n) \in [0 .. DIGITS -> Nat]
      /\ Leading(n)[0] = n
      /\ \A k \in 1 .. DIGITS : Leading(n)[k] = Leading(n)[k - 1] \div 10
  BY LeadingNumbers
<1>4. T = {}
  <2> SUFFICES ASSUME T # {} PROVE FALSE
    OBVIOUS
  <2>1. PICK k \in T : k \in Nat /\ (k # 0 => k - 1 \in Nat /\ k - 1 \notin T)
    <3>1. T \in SUBSET Nat
      BY <1>1
    <3> HIDE DEF T
    <3> QED
      BY <3>1, LeastElement
  <2>2. k \in 0 .. DIGITS /\ Values(digits)[k] # Leading(n)[DIGITS - k]
    BY <2>1
  <2>3. k # 0
    BY <1>1, <1>2, <2>2 DEF Fits
  <2>4. k - 1 \in 0 .. DIGITS /\ k \in 1 .. DIGITS
    BY <1>1, <2>1, <2>2, <2>3
  <2>5. Values(digits)[k - 1] = Leading(n)[DIGITS - (k - 1)]
    BY <2>1, <2>3, <2>4
  <2> DEFINE j == DIGITS - k
  <2>6. j \in 0 .. DIGITS /\ j + 1 \in 1 .. DIGITS /\ DIGITS - (k - 1) = j + 1 /\ (j + 1) - 1 = j
    BY <1>1, <2>4
  <2>7. digits[k] = Leading(n)[j] % 10 /\ Values(digits)[k] = 10 * Values(digits)[k - 1] + digits[k]
    BY <1>1, <1>2, <2>4
  <2> HIDE DEF j
  <2>8. Leading(n)[j + 1] = Leading(n)[j] \div 10 /\ Leading(n)[j] \in Nat
    BY <1>3, <2>6
  <2>9. \A q \in Nat : q = 10 * (q \div 10) + (q % 10)
    OBVIOUS
  <2>10. Values(digits)[k] = Leading(n)[j]
    BY <2>5, <2>6, <2>7, <2>8, <2>9
  <2> QED
    BY <2>2, <2>10 DEF j
<1>5. DIGITS \in 0 .. DIGITS /\ DIGITS - DIGITS = 0
  BY <1>1
<1>6. Values(digits)[DIGITS] = Leading(n)[0]
  BY <1>4, <1>5
<1> QED
  BY <1>2, <1>3, <1>6 DEF digits

\* The first parts of a message, one more at a time.
Joined(parts) == LET flatten[i \in 1 .. Len(parts)] ==
                       IF i = 1 THEN parts[i] ELSE flatten[i - 1] \o parts[i]
                 IN  flatten

LEMMA JoinedParts ==
  ASSUME NEW parts \in Seq(Seq(Nat))
  PROVE  /\ \A i \in 1 .. Len(parts) :
              /\ Joined(parts)[i] \in Seq(Nat)
              /\ Joined(parts)[i] = IF i = 1 THEN parts[i] ELSE Joined(parts)[i - 1] \o parts[i]
         /\ FlattenSeq(parts) = IF Len(parts) = 0 THEN <<>> ELSE Joined(parts)[Len(parts)]
<1> DEFINE Is(g, d) == g = [i \in 1 .. d |-> IF i = 1 THEN parts[i] ELSE g[i - 1] \o parts[i]]
           T == {d \in Nat : ~\E g : Is(g, d)}
<1>1. Len(parts) \in Nat /\ \A i \in 1 .. Len(parts) : parts[i] \in Seq(Nat)
  OBVIOUS
<1>2. T = {}
  <2> SUFFICES ASSUME T # {} PROVE FALSE
    OBVIOUS
  <2>1. PICK d \in T : d \in Nat /\ (d # 0 => d - 1 \in Nat /\ d - 1 \notin T)
    <3> HIDE DEF T
    <3>1. T \in SUBSET Nat
      BY DEF T
    <3> QED
      BY <3>1, LeastElement
  <2>2. d \in Nat /\ ~\E g : Is(g, d)
    BY <2>1
  <2>3. CASE d = 0
    <3>1. Is([i \in 1 .. d |-> 0], d)
      BY <2>3
    <3> QED
      BY <2>2, <3>1
  <2>4. CASE d # 0
    <3>1. d - 1 \in Nat /\ d - 1 \notin T
      BY <2>1, <2>4
    <3>2. PICK g : Is(g, d - 1)
      BY <3>1
    <3> DEFINE h == [i \in 1 .. d |-> IF i # d THEN g[i] ELSE
                                      IF i = 1 THEN parts[i] ELSE g[d - 1] \o parts[d]]
    <3>3. Is(h, d)
      <4>1. \A i \in 1 .. d - 1 : h[i] = g[i]
        BY <2>2
      <4>2. \A i \in 1 .. d - 1 : g[i] = IF i = 1 THEN parts[i] ELSE g[i - 1] \o parts[i]
        BY <3>2
      <4>3. \A i \in 1 .. d : h[i] = IF i = 1 THEN parts[i] ELSE h[i - 1] \o parts[i]
        BY <2>2, <2>4, <4>1, <4>2
      <4> QED
        BY <4>3
    <3> QED
      BY <2>2, <3>3
  <2> QED
    BY <2>3, <2>4
<1>3. Is(Joined(parts), Len(parts))
  <2>1. \E g : Is(g, Len(parts))
    BY <1>1, <1>2
  <2> QED
    BY <2>1 DEF Joined
<1>4. FlattenSeq(parts) = IF Len(parts) = 0 THEN <<>> ELSE Joined(parts)[Len(parts)]
  <2>1. Len(parts) = 0 => parts = <<>>
    OBVIOUS
  <2> QED
    BY <2>1 DEF FlattenSeq, Joined
<1> HIDE DEF T
<1>5. \A i \in 1 .. Len(parts) :
        Joined(parts)[i] = IF i = 1 THEN parts[i] ELSE Joined(parts)[i - 1] \o parts[i]
  BY <1>3
<1> DEFINE U == {i \in 1 .. Len(parts) : Joined(parts)[i] \notin Seq(Nat)}
<1>6. U = {}
  <2> SUFFICES ASSUME U # {} PROVE FALSE
    OBVIOUS
  <2>1. PICK i \in U : i \in Nat /\ (i # 0 => i - 1 \in Nat /\ i - 1 \notin U)
    <3>1. U \in SUBSET Nat
      BY <1>1
    <3> HIDE DEF U
    <3> QED
      BY <3>1, LeastElement
  <2>2. i \in 1 .. Len(parts) /\ Joined(parts)[i] \notin Seq(Nat)
    BY <2>1
  <2>3. i # 1
    BY <1>1, <1>5, <2>2
  <2>4. i - 1 \in 1 .. Len(parts) /\ i # 0
    BY <1>1, <2>1, <2>2, <2>3
  <2>5. Joined(parts)[i - 1] \in Seq(Nat)
    BY <2>1, <2>4
  <2>6. Joined(parts)[i] = Joined(parts)[i - 1] \o parts[i] /\ parts[i] \in Seq(Nat)
    BY <1>1, <1>5, <2>2, <2>3
  <2> QED
    BY <2>2, <2>5, <2>6, ConcatProperties
<1> QED
  BY <1>4, <1>5, <1>6

\* What is joined first stays in front.
LEMMA JoinedPrefix ==
  ASSUME NEW parts \in Seq(Seq(Nat)), NEW i \in 1 .. Len(parts)
  PROVE  /\ Len(Joined(parts)[i]) <= Len(FlattenSeq(parts))
         /\ \A j \in 1 .. Len(Joined(parts)[i]) : FlattenSeq(parts)[j] = Joined(parts)[i][j]
<1> DEFINE N == Len(parts)
           J(k) == Joined(parts)[k]
           Starts(k) == /\ Len(J(i)) <= Len(J(k))
                        /\ \A j \in 1 .. Len(J(i)) : J(k)[j] = J(i)[j]
           T == {k \in i .. N : ~Starts(k)}
<1>1. N \in Nat /\ i \in Nat /\ 1 <= i /\ i <= N
  OBVIOUS
<1>2. /\ \A k \in 1 .. N : J(k) \in Seq(Nat) /\ parts[k] \in Seq(Nat)
      /\ \A k \in 1 .. N : k # 1 => J(k) = J(k - 1) \o parts[k]
      /\ FlattenSeq(parts) = J(N)
  <2>1. \A k \in 1 .. N : parts[k] \in Seq(Nat)
    OBVIOUS
  <2>2. \A k \in 1 .. N : J(k) \in Seq(Nat) /\ (k # 1 => J(k) = J(k - 1) \o parts[k])
    BY JoinedParts
  <2>3. FlattenSeq(parts) = IF N = 0 THEN <<>> ELSE J(N)
    BY JoinedParts
  <2>4. N # 0
    BY <1>1
  <2> QED
    BY <2>1, <2>2, <2>3, <2>4
<1> HIDE DEF J
<1>3. T = {}
  <2> SUFFICES ASSUME T # {} PROVE FALSE
    OBVIOUS
  <2>1. PICK k \in T : k \in Nat /\ (k # 0 => k - 1 \in Nat /\ k - 1 \notin T)
    <3>1. T \in SUBSET Nat
      BY <1>1
    <3> HIDE DEF T
    <3> QED
      BY <3>1, LeastElement
  <2>2. k \in i .. N /\ ~Starts(k)
    BY <2>1
  <2>3. k # i
    <3>1. Len(J(i)) \in Nat
      BY <1>1, <1>2
    <3> QED
      BY <2>2, <3>1
  <2>4. k - 1 \in i .. N /\ k # 0 /\ k \in 1 .. N /\ k # 1 /\ k - 1 \in 1 .. N
    BY <1>1, <2>1, <2>2, <2>3
  <2>5. Starts(k - 1)
    BY <2>1, <2>4
  <2>6. PICK a : a = J(k - 1)
    OBVIOUS
  <2>7. PICK b : b = parts[k]
    OBVIOUS
  <2>8. a \in Seq(Nat) /\ b \in Seq(Nat) /\ J(k) = a \o b /\ Len(J(i)) \in Nat
    <3>1. i \in 1 .. N
      BY <1>1
    <3>2. J(i) \in Seq(Nat)
      BY <1>2, <3>1
    <3>3. Len(J(i)) \in Nat
      BY <3>2, LenProperties
    <3> QED
      BY <1>2, <2>4, <2>6, <2>7, <3>3
  <2>9. /\ Len(J(k)) = Len(a) + Len(b) /\ Len(a) \in Nat /\ Len(b) \in Nat
        /\ \A j \in 1 .. Len(a) + Len(b) : J(k)[j] = IF j <= Len(a) THEN a[j] ELSE b[j - Len(a)]
    BY <2>8, ConcatProperties, LenProperties
  <2>10. Starts(k)
    <3>1. PICK l \in Nat : l = Len(J(i))
      BY <2>8
    <3>2. l <= Len(a) /\ \A j \in 1 .. l : a[j] = J(i)[j]
      BY <2>5, <2>6, <3>1
    <3>3. l <= Len(a) + Len(b) /\ \A j \in 1 .. l : j \in 1 .. Len(a) + Len(b) /\ j <= Len(a)
      <4>1. PICK p \in Nat, q \in Nat : p = Len(a) /\ q = Len(b)
        BY <2>9
      <4>2. l <= p
        BY <3>2, <4>1
      <4>3. l <= p + q /\ \A j \in 1 .. l : j \in 1 .. p + q /\ j <= p
        BY <4>2
      <4> QED
        BY <4>1, <4>3
    <3>4. \A j \in 1 .. l : J(k)[j] = J(i)[j]
      BY <2>9, <3>2, <3>3
    <3> QED
      BY <2>9, <3>1, <3>3, <3>4
  <2> QED
    BY <2>2, <2>10
<1>4. N \in i .. N
  BY <1>1
<1>5. Starts(N)
  BY <1>3, <1>4
<1> QED
  BY <1>2, <1>5 DEF J

-----------------------------------------------------------------------------
\* What is on the wire of a message.

\* Cell j of a message with body b, and how many cells the writes before write i have.
Cell(b, j) == IF j <= DIGITS THEN lengthStr(Len(b))[j] ELSE b[j - DIGITS]
Cells(b) == DIGITS + Len(b)
Written(m, i) == IF i = 1 THEN 0
                 ELSE IF i = 2 THEN DIGITS
                 ELSE IF i = 3 THEN DIGITS + 1
                 ELSE DIGITS + 1 + Len(Joined(m.parts)[i - 3])

LEMMA MessageBody ==
  ASSUME NEW m \in Message
  PROVE  /\ m.flag \in Nat /\ m.parts \in Seq(Seq(Nat)) /\ Len(m.parts) \in Nat
         /\ FlattenSeq(m.parts) \in Seq(Nat) /\ Len(FlattenSeq(m.parts)) \in Nat
         /\ Body(m) \in Seq(Nat) /\ Len(Body(m)) = 1 + Len(FlattenSeq(m.parts))
         /\ Body(m)[1] = m.flag
         /\ \A j \in 1 .. Len(FlattenSeq(m.parts)) : Body(m)[j + 1] = FlattenSeq(m.parts)[j]
         /\ Len(m.parts) = 0 => Len(FlattenSeq(m.parts)) = 0
<1>1. m.flag \in Nat /\ m.parts \in Seq(Seq(Nat)) /\ Len(m.parts) \in Nat
  BY DEF Message
<1>2. FlattenSeq(m.parts) \in Seq(Nat) /\ (Len(m.parts) = 0 => FlattenSeq(m.parts) = <<>>)
  <2>1. CASE Len(m.parts) = 0
    BY <1>1, <2>1, JoinedParts
  <2>2. CASE Len(m.parts) # 0
    <3>1. Len(m.parts) \in 1 .. Len(m.parts)
      BY <1>1, <2>2
    <3> QED
      BY <1>1, <2>2, <3>1, JoinedParts
  <2> QED
    BY <2>1, <2>2
<1>3. PICK flat : flat = FlattenSeq(m.parts)
  OBVIOUS
<1>4. flat \in Seq(Nat) /\ Len(flat) \in Nat /\ <<m.flag>> \in Seq(Nat) /\ Len(<<m.flag>>) = 1
  BY <1>1, <1>2, <1>3
<1>5. /\ <<m.flag>> \o flat \in Seq(Nat) /\ Len(<<m.flag>> \o flat) = 1 + Len(flat)
      /\ \A j \in 1 .. 1 + Len(flat) : (<<m.flag>> \o flat)[j] = IF j <= 1 THEN m.flag ELSE flat[j - 1]
  BY <1>4, ConcatProperties
<1>6. /\ (<<m.flag>> \o flat)[1] = m.flag
      /\ \A j \in 1 .. Len(flat) : (<<m.flag>> \o flat)[j + 1] = flat[j]
  BY <1>4, <1>5
<1>7. Body(m) = <<m.flag>> \o flat
  BY <1>3 DEF Body
<1> QED
  BY <1>1, <1>2, <1>3, <1>4, <1>5, <1>6, <1>7

LEMMA MessageWrites ==
  ASSUME NEW m \in Message
  PROVE  /\ Len(Writes(m)) = 2 + Len(m.parts)
         /\ Writes(m)[1] = lengthStr(Len(Body(m))) /\ Writes(m)[2] = <<m.flag>>
         /\ \A i \in 1 .. Len(m.parts) : Writes(m)[i + 2] = m.parts[i]
<1>1. m.parts \in Seq(Seq(Nat)) /\ Len(m.parts) \in Nat
  BY MessageBody
<1>2. PICK head, digits : head = <<digits, <<m.flag>>>> /\ digits = lengthStr(Len(Body(m)))
  OBVIOUS
<1>3. digits \in Seq(Nat) /\ <<m.flag>> \in Seq(Nat)
  BY <1>2, MessageBody, LengthIsSeq
<1>4. head \in Seq(Seq(Nat)) /\ Len(head) = 2 /\ head[1] = digits /\ head[2] = <<m.flag>>
  BY <1>2, <1>3
<1>5. /\ Len(head \o m.parts) = 2 + Len(m.parts)
      /\ \A i \in 1 .. 2 + Len(m.parts) : (head \o m.parts)[i] = IF i <= 2 THEN head[i] ELSE m.parts[i - 2]
  <2>1. PICK parts : parts = m.parts
    OBVIOUS
  <2>2. /\ Len(head \o parts) = Len(head) + Len(parts)
        /\ \A i \in 1 .. Len(head) + Len(parts) :
             (head \o parts)[i] = IF i <= Len(head) THEN head[i] ELSE parts[i - Len(head)]
    <3>1. parts \in Seq(Seq(Nat)) /\ head \in Seq(Seq(Nat))
      BY <1>1, <1>4, <2>1
    <3> QED
      BY <3>1, ConcatProperties
  <2> QED
    BY <1>4, <2>1, <2>2
<1>6. Writes(m) = head \o m.parts
  BY <1>2 DEF Writes
<1> HIDE DEF Writes
<1>7. 1 \in 1 .. 2 + Len(m.parts) /\ 2 \in 1 .. 2 + Len(m.parts)
  BY <1>1
<1>8. \A i \in 1 .. Len(m.parts) : i + 2 \in 1 .. 2 + Len(m.parts) /\ ~(i + 2 <= 2) /\ (i + 2) - 2 = i
  BY <1>1
<1> QED
  BY <1>2, <1>4, <1>5, <1>6, <1>7, <1>8

\* The writes of a message are its cells, in their order.
LEMMA WritesAreCells ==
  ASSUME NEW m \in Message
  PROVE  /\ Written(m, 1) = 0
         /\ Written(m, Len(Writes(m)) + 1) = Cells(Body(m))
         /\ \A i \in 1 .. Len(Writes(m)) :
              /\ Writes(m)[i] \in Seq(Nat)
              /\ Written(m, i) \in Nat
              /\ Written(m, i + 1) = Written(m, i) + Len(Writes(m)[i])
              /\ Written(m, i + 1) <= Cells(Body(m))
              /\ \A j \in 1 .. Len(Writes(m)[i]) : Cell(Body(m), Written(m, i) + j) = Writes(m)[i][j]
<1> DEFINE W == Writes(m)
           B == Body(m)
           flat == FlattenSeq(m.parts)
           P == Len(m.parts)
           J(k) == Joined(m.parts)[k]
<1>1. /\ m.flag \in Nat /\ m.parts \in Seq(Seq(Nat)) /\ P \in Nat
      /\ flat \in Seq(Nat) /\ Len(flat) \in Nat /\ (P = 0 => Len(flat) = 0)
      /\ B \in Seq(Nat) /\ Len(B) = 1 + Len(flat) /\ B[1] = m.flag
      /\ \A j \in 1 .. Len(flat) : B[j + 1] = flat[j]
  BY MessageBody
<1>2. /\ Len(W) = 2 + P /\ W[1] = lengthStr(Len(B)) /\ W[2] = <<m.flag>>
      /\ \A i \in 1 .. P : W[i + 2] = m.parts[i]
  BY MessageWrites
<1>3. DIGITS \in Nat \ {0} /\ W[1] \in Seq(Nat) /\ Len(W[1]) = DIGITS
  <2>1. Len(B) \in Nat
    BY <1>1
  <2> QED
    BY <1>2, <2>1, LengthIsSeq
<1>4. \A k \in 1 .. P : /\ m.parts[k] \in Seq(Nat) /\ Len(m.parts[k]) \in Nat
                        /\ J(k) \in Seq(Nat) /\ Len(J(k)) \in Nat /\ Len(J(k)) <= Len(flat)
                        /\ \A j \in 1 .. Len(J(k)) : flat[j] = J(k)[j]
                        /\ J(k) = IF k = 1 THEN m.parts[k] ELSE J(k - 1) \o m.parts[k]
  <2>1. \A k \in 1 .. P : m.parts[k] \in Seq(Nat) /\ J(k) \in Seq(Nat)
    BY <1>1, JoinedParts
  <2>2. \A k \in 1 .. P : Len(m.parts[k]) \in Nat /\ Len(J(k)) \in Nat
    BY <2>1, LenProperties
  <2>3. \A k \in 1 .. P : Len(J(k)) <= Len(flat) /\ \A j \in 1 .. Len(J(k)) : flat[j] = J(k)[j]
    BY <1>1, JoinedPrefix
  <2>4. \A k \in 1 .. P : J(k) = IF k = 1 THEN m.parts[k] ELSE J(k - 1) \o m.parts[k]
    BY <1>1, JoinedParts
  <2> QED
    BY <2>1, <2>2, <2>3, <2>4
<1>5. P # 0 => flat = J(P)
  BY <1>1, JoinedParts
<1>6. /\ Written(m, 1) = 0 /\ Written(m, 2) = DIGITS /\ Written(m, 3) = DIGITS + 1
      /\ \A k \in 1 .. P : Written(m, k + 3) = DIGITS + 1 + Len(J(k))
  <2>1. ASSUME NEW k \in 1 .. P PROVE k + 3 # 1 /\ k + 3 # 2 /\ k + 3 # 3 /\ (k + 3) - 3 = k
    <3>1. k \in Nat /\ k # 0
      OBVIOUS
    <3> QED
      BY <3>1
  <2> QED
    BY <2>1 DEF Written
<1>7. Cells(B) = DIGITS + 1 + Len(flat)
  BY <1>1, <1>3 DEF Cells
<1>8. /\ \A j \in 1 .. DIGITS : Cell(B, j) = W[1][j]
      /\ Cell(B, DIGITS + 1) = m.flag
      /\ \A j \in 1 .. Len(flat) : Cell(B, DIGITS + 1 + j) = flat[j]
  <2>1. \A j \in 1 .. DIGITS : Cell(B, j) = W[1][j]
    BY <1>2, <1>3 DEF Cell
  <2>2. ~(DIGITS + 1 <= DIGITS) /\ (DIGITS + 1) - DIGITS = 1
    BY <1>3
  <2>3. \A j \in 1 .. Len(flat) : ~(DIGITS + 1 + j <= DIGITS) /\ (DIGITS + 1 + j) - DIGITS = j + 1
    BY <1>1, <1>3
  <2> QED
    BY <1>1, <2>1, <2>2, <2>3 DEF Cell
<1> HIDE DEF W, B, flat, P, J
<1>9. Written(m, Len(W) + 1) = Cells(B)
  <2>1. CASE P = 0
    <3>1. Len(W) + 1 = 3
      BY <1>2, <2>1
    <3> QED
      BY <1>1, <1>3, <1>6, <1>7, <2>1, <3>1
  <2>2. CASE P # 0
    <3>1. Len(W) + 1 = P + 3 /\ P \in 1 .. P
      BY <1>1, <1>2, <2>2
    <3> QED
      BY <1>5, <1>6, <1>7, <2>2, <3>1
  <2> QED
    BY <2>1, <2>2
<1> DEFINE Right(i) == /\ W[i] \in Seq(Nat)
                       /\ Written(m, i) \in Nat
                       /\ Written(m, i + 1) = Written(m, i) + Len(W[i])
                       /\ Written(m, i + 1) <= Cells(B)
                       /\ \A j \in 1 .. Len(W[i]) : Cell(B, Written(m, i) + j) = W[i][j]
<1>10. Right(1)
  <2>1. Written(m, 1 + 1) = DIGITS
    <3>1. 1 + 1 = 2
      OBVIOUS
    <3> QED
      BY <1>6, <3>1
  <2>2. Written(m, 1) \in Nat /\ Written(m, 1 + 1) = Written(m, 1) + Len(W[1])
    BY <1>3, <1>6, <2>1
  <2>3. Written(m, 1 + 1) <= Cells(B)
    BY <1>1, <1>3, <1>7, <2>1
  <2>4. \A j \in 1 .. Len(W[1]) : Cell(B, Written(m, 1) + j) = W[1][j]
    <3>1. \A j \in 1 .. DIGITS : 0 + j = j
      BY <1>3
    <3> QED
      BY <1>3, <1>6, <1>8, <3>1
  <2> QED
    BY <1>3, <2>2, <2>3, <2>4
<1>11. Right(2)
  <2>1. /\ <<m.flag>> \in Seq(Nat) /\ Len(<<m.flag>>) = 1
        /\ \A j \in 1 .. 1 : j = 1 /\ <<m.flag>>[j] = m.flag
    BY <1>1
  <2>2. 2 + 1 = 3 /\ DIGITS \in Nat /\ DIGITS + 1 <= DIGITS + 1 + Len(flat)
    BY <1>1, <1>3
  <2> QED
    BY <1>2, <1>6, <1>7, <1>8, <2>1, <2>2
<1>12. ASSUME NEW k \in 1 .. P PROVE Right(k + 2)
  <2>1. (k + 2) + 1 = k + 3 /\ k \in Nat
    BY <1>1
  <2>2. PICK part : part = m.parts[k] /\ W[k + 2] = part /\ part \in Seq(Nat) /\ Len(part) \in Nat
    BY <1>2, <1>4
  <2>3. PICK before \in Nat :
          /\ Written(m, k + 2) = DIGITS + 1 + before
          /\ Len(J(k)) = before + Len(part)
          /\ \A j \in 1 .. Len(part) : J(k)[before + j] = part[j]
    <3>1. CASE k = 1
      <4>1. Written(m, k + 2) = DIGITS + 1 + 0
        BY <1>3, <1>6, <3>1
      <4>2. J(k) = part
        BY <1>4, <2>2, <3>1
      <4>3. Len(J(k)) = 0 + Len(part) /\ \A j \in 1 .. Len(part) : 0 + j = j
        BY <2>2, <4>2
      <4> QED
        BY <4>1, <4>2, <4>3
    <3>2. CASE k # 1
      <4>1. k - 1 \in 1 .. P /\ k + 2 = (k - 1) + 3
        BY <1>1, <3>2
      <4>2. PICK a : a = J(k - 1) /\ a \in Seq(Nat) /\ Len(a) \in Nat /\ J(k) = a \o part
        <5>1. J(k - 1) \in Seq(Nat) /\ Len(J(k - 1)) \in Nat
          BY <1>4, <4>1
        <5>2. J(k) = J(k - 1) \o part
          BY <1>4, <2>2, <3>2
        <5> QED
          BY <5>1, <5>2
      <4>3. Written(m, k + 2) = DIGITS + 1 + Len(a)
        BY <1>6, <4>1, <4>2
      <4>4. /\ Len(J(k)) = Len(a) + Len(part)
            /\ \A j \in 1 .. Len(a) + Len(part) : J(k)[j] = IF j <= Len(a) THEN a[j] ELSE part[j - Len(a)]
        <5>1. a \in Seq(Nat) /\ part \in Seq(Nat) /\ J(k) = a \o part
          BY <2>2, <4>2
        <5>2. /\ Len(a \o part) = Len(a) + Len(part)
              /\ \A j \in 1 .. Len(a) + Len(part) :
                   (a \o part)[j] = IF j <= Len(a) THEN a[j] ELSE part[j - Len(a)]
          BY ONLY <5>1, ConcatProperties
        <5> QED
          BY <5>1, <5>2
      <4>5. \A j \in 1 .. Len(part) : /\ Len(a) + j \in 1 .. Len(a) + Len(part)
                                      /\ ~(Len(a) + j <= Len(a)) /\ (Len(a) + j) - Len(a) = j
        BY <2>2, <4>2
      <4>6. \A j \in 1 .. Len(part) : J(k)[Len(a) + j] = part[j]
        BY <4>4, <4>5
      <4> QED
        BY <4>2, <4>3, <4>4, <4>6
    <3> QED
      BY <3>1, <3>2
  <2>4. Written(m, k + 3) = DIGITS + 1 + Len(J(k)) /\ Len(J(k)) \in Nat /\ Len(J(k)) <= Len(flat)
    BY <1>4, <1>6
  <2>5. \A j \in 1 .. Len(part) : /\ before + j \in 1 .. Len(J(k)) /\ before + j \in 1 .. Len(flat)
                                  /\ DIGITS + 1 + before + j = DIGITS + 1 + (before + j)
    <3>1. PICK p, l, f, d : p = Len(part) /\ l = Len(J(k)) /\ f = Len(flat) /\ d = DIGITS
      OBVIOUS
    <3>2. p \in Nat /\ before \in Nat /\ l = before + p /\ l <= f /\ f \in Nat /\ d \in Nat
      BY <1>1, <1>3, <2>2, <2>3, <2>4, <3>1
    <3>3. \A j \in 1 .. p : /\ before + j \in 1 .. l /\ before + j \in 1 .. f
                            /\ d + 1 + before + j = d + 1 + (before + j)
      BY <3>2
    <3> QED
      BY <3>1, <3>3
  <2>6. \A j \in 1 .. Len(part) : Cell(B, Written(m, k + 2) + j) = part[j]
    <3> SUFFICES ASSUME NEW j \in 1 .. Len(part) PROVE Cell(B, Written(m, k + 2) + j) = part[j]
      OBVIOUS
    <3>1. Cell(B, Written(m, k + 2) + j) = flat[before + j]
      BY <1>8, <2>3, <2>5
    <3>2. flat[before + j] = J(k)[before + j]
      BY <1>4, <2>5
    <3> QED
      BY <2>3, <3>1, <3>2
  <2>7. Written(m, k + 3) = Written(m, k + 2) + Len(part) /\ Written(m, k + 2) \in Nat
    <3>1. PICK p, l, d : p = Len(part) /\ l = Len(J(k)) /\ d = DIGITS
      OBVIOUS
    <3>2. p \in Nat /\ l = before + p /\ d \in Nat
      BY <1>3, <2>2, <2>3, <3>1
    <3>3. d + 1 + l = (d + 1 + before) + p /\ d + 1 + before \in Nat
      BY <3>2
    <3> QED
      BY <2>3, <2>4, <3>1, <3>3
  <2>8. Written(m, k + 3) <= Cells(B)
    BY <1>1, <1>3, <1>7, <2>4
  <2> QED
    BY <2>1, <2>2, <2>6, <2>7, <2>8
<1>13. \A i \in 1 .. Len(W) : Right(i)
  <2> SUFFICES ASSUME NEW i \in 1 .. Len(W) PROVE Right(i)
    OBVIOUS
  <2>1. i = 1 \/ i = 2 \/ (i - 2 \in 1 .. P /\ i = (i - 2) + 2)
    BY <1>1, <1>2
  <2> HIDE DEF Right
  <2> QED
    BY <1>10, <1>11, <1>12, <2>1
<1> QED
  BY <1>6, <1>9, <1>13 DEF W, B

-----------------------------------------------------------------------------
\* The invariant

Types ==
  /\ todo \in [Senders -> Seq(Message)]
  /\ next \in [Senders -> Nat \ {0}]
  /\ writeMutex \in Senders \cup {NoOne}
  /\ open \in BOOLEAN
  /\ stream \in Seq(Nat)
  /\ rPc \in {"length", "body", "badLength", "spin"}
  /\ cut \in BOOLEAN
  /\ length \in Int
  /\ dst \in Seq(Nat)
  /\ rPc = "body" => length \in Nat /\ Len(dst) < length
  /\ sent \in Seq(Seq(Nat))
  /\ received \in Seq(Seq(Nat))

\* What a sender has left is the end of what it had.
TodoIsLast ==
  \A s \in Senders :
    /\ Len(todo[s]) <= Len(ToSend[s])
    /\ \A k \in 1 .. Len(todo[s]) : todo[s][k] = ToSend[s][Len(ToSend[s]) - Len(todo[s]) + k]

\* Who is in the middle of a message holds the mutex, and that message is the last.
HolderWrites ==
  \A s \in Senders :
    /\ next[s] # 1 <=> writeMutex = s
    /\ writeMutex = s => /\ todo[s] # <<>>
                         /\ next[s] \in 2 .. Len(Writes(Current(s)))
                         /\ sent # <<>> /\ sent[Len(sent)] = Body(Current(s))

\* What Recv has returned, and what it holds of the message after that.
Returned ==
  /\ \A k \in 1 .. Len(sent) : sent[k] \in AllMessages
  /\ Len(received) <= Len(sent)
  /\ \A k \in 1 .. Len(received) : received[k] = sent[k]
  /\ rPc \in {"body", "spin"} => Len(received) < Len(sent)
  /\ rPc = "spin" => writeMutex # NoOne /\ ~open
  /\ rPc = "body" => /\ length = Len(sent[Len(received) + 1])
                     /\ Len(dst) < length
                     /\ \A j \in 1 .. Len(dst) : dst[j] = sent[Len(received) + 1][j]

\* The messages lie one after the other: P[k] cells of the stream come before message
\* k of them, less those already read.  Message r + 1, which is being read, is at "at", and
\* "missing" cells of the last are still to be written.
Laid(P, cells, messages, r, at, missing) ==
  /\ P \in [1 .. Len(messages) + 1 -> Int]
  /\ \A k \in 1 .. Len(messages) : P[k + 1] = P[k] + Cells(messages[k])
  /\ \A k, l \in 1 .. Len(messages) + 1 : k <= l => P[k] <= P[l]
  /\ \A k \in 1 .. Len(messages) : \A j \in 1 .. Cells(messages[k]) :
       P[k] + j \in 1 .. Len(cells) => cells[P[k] + j] = Cell(messages[k], j)
  /\ P[r + 1] = at
  /\ Len(cells) = P[Len(messages) + 1] - missing

ReadAt == IF rPc = "length" THEN 0 ELSE -(DIGITS + Len(dst))
Missing == IF writeMutex = NoOne THEN 0
           ELSE Cells(Body(Current(writeMutex))) - Written(Current(writeMutex), next[writeMutex])

Layout == rPc \in {"length", "body"} =>
            \E P : Laid(P, stream, sent, Len(received), ReadAt, Missing)

\* No length was cut; the invariant asks no more than types and the mutex after one was.
Whole == Types /\ TodoIsLast /\ HolderWrites /\ Returned /\ Layout
IInv == Types /\ TodoIsLast /\ HolderWrites /\ (~cut => Returned /\ Layout)

-----------------------------------------------------------------------------
\* How the layout changes

LEMMA CellsAreNat ==
  ASSUME NEW messages \in Seq(Seq(Nat)), NEW k \in 1 .. Len(messages)
  PROVE  /\ messages[k] \in Seq(Nat) /\ Len(messages[k]) \in Nat
         /\ Cells(messages[k]) \in Nat /\ Cells(messages[k]) = DIGITS + Len(messages[k])
<1>1. messages[k] \in Seq(Nat)
  OBVIOUS
<1>2. Len(messages[k]) \in Nat
  BY <1>1, LenProperties
<1>3. DIGITS \in Nat
  BY WireAssumption
<1> QED
  BY <1>1, <1>2, <1>3 DEF Cells

\* Recv takes cells.
LEMMA LaidTake ==
  ASSUME NEW cells \in Seq(Nat), NEW messages \in Seq(Seq(Nat)), NEW r \in 0 .. Len(messages),
         NEW at \in Int, NEW missing \in Int, NEW P, Laid(P, cells, messages, r, at, missing),
         NEW c \in 1 .. Len(cells)
  PROVE  \E Q : Laid(Q, SubSeq(cells, c + 1, Len(cells)), messages, r, at - c, missing)
<1> DEFINE n == Len(messages)
           rest == SubSeq(cells, c + 1, Len(cells))
           Q == [k \in 1 .. n + 1 |-> P[k] - c]
<1>1. n \in Nat /\ Len(cells) \in Nat /\ c \in Nat /\ c <= Len(cells) /\ r \in Nat /\ r <= n
  OBVIOUS
<1>2. Len(rest) = Len(cells) - c /\ \A j \in 1 .. Len(rest) : rest[j] = cells[c + j]
  <2>1. \A j \in c + 1 .. Len(cells) : cells[j] \in Nat
    BY <1>1
  <2>2. /\ Len(rest) = IF c + 1 <= Len(cells) THEN Len(cells) - (c + 1) + 1 ELSE 0
        /\ \A j \in 1 .. Len(cells) - (c + 1) + 1 : rest[j] = cells[c + 1 + j - 1]
    BY <1>1, <2>1, SubSeqProperties
  <2> HIDE DEF rest
  <2>3. Len(rest) = Len(cells) - c /\ Len(cells) - (c + 1) + 1 = Len(cells) - c
    BY <1>1, <2>2
  <2>4. \A j \in 1 .. Len(rest) : c + 1 + j - 1 = c + j
    BY <1>1, <2>3
  <2> QED
    BY <2>2, <2>3, <2>4
<1>3. /\ P \in [1 .. n + 1 -> Int]
      /\ \A k \in 1 .. n : P[k + 1] = P[k] + Cells(messages[k])
      /\ \A k, l \in 1 .. n + 1 : k <= l => P[k] <= P[l]
      /\ \A k \in 1 .. n : \A j \in 1 .. Cells(messages[k]) :
           P[k] + j \in 1 .. Len(cells) => cells[P[k] + j] = Cell(messages[k], j)
      /\ P[r + 1] = at
      /\ Len(cells) = P[n + 1] - missing
  BY DEF Laid
<1>4. \A k \in 1 .. n : Cells(messages[k]) \in Nat
  BY CellsAreNat
<1> HIDE DEF n, rest
<1>5. Q \in [1 .. n + 1 -> Int] /\ \A k \in 1 .. n + 1 : Q[k] = P[k] - c /\ P[k] \in Int
  <2>1. \A k \in 1 .. n + 1 : P[k] \in Int
    BY <1>3
  <2>2. \A p \in Int : p - c \in Int
    BY <1>1
  <2> QED
    BY <2>1, <2>2
<1> HIDE DEF Q
<1>6. \A k \in 1 .. n : k \in 1 .. n + 1 /\ k + 1 \in 1 .. n + 1
  BY <1>1
<1>7. ASSUME NEW k \in 1 .. n PROVE Q[k + 1] = Q[k] + Cells(messages[k])
  <2>1. P[k + 1] = P[k] + Cells(messages[k]) /\ P[k] \in Int /\ Cells(messages[k]) \in Nat
    BY <1>3, <1>4, <1>5, <1>6
  <2>2. Q[k + 1] = P[k + 1] - c /\ Q[k] = P[k] - c
    BY <1>5, <1>6
  <2> QED
    BY <1>1, <2>1, <2>2
<1>8. ASSUME NEW k \in 1 .. n + 1, NEW l \in 1 .. n + 1, k <= l PROVE Q[k] <= Q[l]
  <2>1. P[k] <= P[l] /\ P[k] \in Int /\ P[l] \in Int
    BY <1>3, <1>5, <1>8
  <2>2. Q[k] = P[k] - c /\ Q[l] = P[l] - c
    BY <1>5
  <2> QED
    BY <1>1, <2>1, <2>2
<1>9. ASSUME NEW k \in 1 .. n, NEW j \in 1 .. Cells(messages[k]), Q[k] + j \in 1 .. Len(rest)
      PROVE  rest[Q[k] + j] = Cell(messages[k], j)
  <2>1. k \in 1 .. n + 1 /\ j \in Int
    BY <1>4, <1>6
  <2>2. c + (Q[k] + j) = P[k] + j /\ P[k] + j \in 1 .. Len(cells)
    <3>1. PICK q, p, l, m : q = Q[k] /\ p = P[k] /\ l = Len(cells) /\ m = Len(rest)
      OBVIOUS
    <3>2. p \in Int /\ q = p - c /\ q + j \in 1 .. m /\ m = l - c /\ l \in Nat /\ j \in Int
      BY <1>1, <1>2, <1>5, <1>9, <2>1, <3>1
    <3>3. c + (q + j) = p + j /\ p + j \in 1 .. l
      BY <1>1, <3>2
    <3> QED
      BY <3>1, <3>3
  <2> QED
    BY <1>2, <1>3, <1>9, <2>2
<1>10. Q[r + 1] = at - c
  BY <1>1, <1>3, <1>5
<1>11. Len(rest) = Q[n + 1] - missing
  <2>1. n + 1 \in 1 .. n + 1
    BY <1>1
  <2>2. Q[n + 1] = P[n + 1] - c /\ P[n + 1] \in Int
    BY <1>5, <2>1
  <2>3. PICK p \in Int, l \in Int : p = P[n + 1] /\ l = Len(cells) /\ l = p - missing
    BY <1>1, <1>3, <2>2
  <2>4. l - c = (p - c) - missing
    BY <1>1, <2>3
  <2> QED
    BY <1>2, <2>2, <2>3, <2>4
<1>12. Laid(Q, rest, messages, r, at - c, missing)
  BY <1>5, <1>7, <1>8, <1>9, <1>10, <1>11 DEF Laid, n
<1> QED
  BY <1>12 DEF rest

\* Recv has read a whole message.
LEMMA LaidAdvance ==
  ASSUME NEW cells, NEW messages \in Seq(Seq(Nat)), NEW r \in Nat, r < Len(messages),
         NEW at \in Int, NEW missing \in Int, NEW P, Laid(P, cells, messages, r, at, missing)
  PROVE  Laid(P, cells, messages, r + 1, at + Cells(messages[r + 1]), missing)
<1>1. Len(messages) \in Nat /\ r + 1 \in 1 .. Len(messages)
  OBVIOUS
<1>2. P[(r + 1) + 1] = P[r + 1] + Cells(messages[r + 1]) /\ P[r + 1] = at
  BY <1>1 DEF Laid
<1> QED
  BY <1>2 DEF Laid

\* What Recv reads belongs to the message it is at, if it is not further.
LEMMA LaidReads ==
  ASSUME NEW cells \in Seq(Nat), NEW messages \in Seq(Seq(Nat)), NEW r \in 0 .. Len(messages),
         NEW at \in Int, NEW missing \in Nat, NEW P, Laid(P, cells, messages, r, at, missing)
  PROVE  /\ r = Len(messages) => Len(cells) = at - missing
         /\ r < Len(messages) =>
              /\ at + Cells(messages[r + 1]) <= Len(cells) + missing
              /\ \A j \in 1 .. Cells(messages[r + 1]) :
                   at + j \in 1 .. Len(cells) => cells[at + j] = Cell(messages[r + 1], j)
<1>1. Len(messages) \in Nat /\ r \in Nat /\ Len(cells) \in Nat
  OBVIOUS
<1>2. P[r + 1] = at /\ Len(cells) = P[Len(messages) + 1] - missing
  BY DEF Laid
<1>3. ASSUME r < Len(messages)
      PROVE  /\ at + Cells(messages[r + 1]) <= Len(cells) + missing
             /\ \A j \in 1 .. Cells(messages[r + 1]) :
                  at + j \in 1 .. Len(cells) => cells[at + j] = Cell(messages[r + 1], j)
  <2>1. /\ r + 1 \in 1 .. Len(messages) /\ (r + 1) + 1 <= Len(messages) + 1
        /\ (r + 1) + 1 \in 1 .. Len(messages) + 1 /\ Len(messages) + 1 \in 1 .. Len(messages) + 1
    BY <1>1, <1>3
  <2>2. P[(r + 1) + 1] = at + Cells(messages[r + 1])
    BY <1>2, <2>1 DEF Laid
  <2>3. P[(r + 1) + 1] <= P[Len(messages) + 1] /\ P[Len(messages) + 1] \in Int
    BY <2>1 DEF Laid
  <2>4. Len(cells) + missing = P[Len(messages) + 1]
    BY <1>1, <1>2, <2>3
  <2>5. \A j \in 1 .. Cells(messages[r + 1]) :
           at + j \in 1 .. Len(cells) => cells[at + j] = Cell(messages[r + 1], j)
    BY <1>2, <2>1 DEF Laid
  <2> QED
    BY <2>2, <2>3, <2>4, <2>5
<1> QED
  BY <1>2, <1>3

\* A sender begins a message.
LEMMA LaidBegin ==
  ASSUME NEW cells \in Seq(Nat), NEW messages \in Seq(Seq(Nat)), NEW r \in 0 .. Len(messages),
         NEW at \in Int, NEW P, Laid(P, cells, messages, r, at, 0), NEW b \in Seq(Nat)
  PROVE  \E Q : Laid(Q, cells, Append(messages, b), r, at, Cells(b))
<1> DEFINE n == Len(messages)
           more == Append(messages, b)
           Q == [k \in 1 .. n + 2 |-> IF k = n + 2 THEN P[n + 1] + Cells(b) ELSE P[k]]
<1>1. n \in Nat /\ Len(cells) \in Nat /\ r \in Nat /\ r <= n /\ Cells(b) \in Nat
  <2>1. Len(b) \in Nat /\ DIGITS \in Nat
    BY WireAssumption
  <2> QED
    BY <2>1 DEF Cells
<1>2. Len(more) = n + 1 /\ more[n + 1] = b /\ \A k \in 1 .. n : more[k] = messages[k]
  BY AppendProperties
<1>3. /\ P \in [1 .. n + 1 -> Int]
      /\ \A k \in 1 .. n : P[k + 1] = P[k] + Cells(messages[k])
      /\ \A k, l \in 1 .. n + 1 : k <= l => P[k] <= P[l]
      /\ \A k \in 1 .. n : \A j \in 1 .. Cells(messages[k]) :
           P[k] + j \in 1 .. Len(cells) => cells[P[k] + j] = Cell(messages[k], j)
      /\ P[r + 1] = at
      /\ Len(cells) = P[n + 1] - 0
  BY DEF Laid
<1> HIDE DEF n, more
<1>4. PICK last \in Int : last = P[n + 1] /\ Len(cells) = last
  <2>1. P[n + 1] \in Int
    BY <1>1, <1>3
  <2> QED
    BY <1>3, <2>1
<1>5. /\ \A k \in 1 .. n + 1 : Q[k] = P[k] /\ P[k] \in Int /\ P[k] <= last
      /\ Q[n + 2] = last + Cells(b)
      /\ Q \in [1 .. n + 2 -> Int]
  <2>1. \A k \in 1 .. n + 1 : k \in 1 .. n + 2 /\ k # n + 2 /\ n + 1 \in 1 .. n + 1 /\ k <= n + 1
    BY <1>1
  <2>2. \A k \in 1 .. n + 1 : P[k] \in Int /\ P[k] <= last
    BY <1>3, <1>4, <2>1
  <2>3. \A k \in 1 .. n + 2 : k = n + 2 \/ k \in 1 .. n + 1
    BY <1>1
  <2>4. n + 2 \in 1 .. n + 2 /\ last + Cells(b) \in Int
    BY <1>1
  <2> QED
    BY <1>4, <2>1, <2>2, <2>3, <2>4
<1> HIDE DEF Q
<1>6. ASSUME NEW k \in 1 .. n + 1 PROVE Q[k + 1] = Q[k] + Cells(more[k])
  <2>1. CASE k = n + 1
    <3>1. k + 1 = n + 2 /\ k \in 1 .. n + 1
      BY <1>1, <2>1
    <3> QED
      BY <1>2, <1>4, <1>5, <2>1, <3>1
  <2>2. CASE k # n + 1
    <3>1. k \in 1 .. n /\ k \in 1 .. n + 1 /\ k + 1 \in 1 .. n + 1
      BY <1>1, <2>2
    <3> QED
      BY <1>2, <1>3, <1>5, <3>1
  <2> QED
    BY <2>1, <2>2
<1>7. ASSUME NEW k \in 1 .. n + 2, NEW l \in 1 .. n + 2, k <= l PROVE Q[k] <= Q[l]
  <2>1. last <= last + Cells(b)
    BY <1>1
  <2>2. CASE l = n + 2
    <3>1. CASE k = n + 2
      BY <1>5, <2>1, <2>2, <3>1
    <3>2. CASE k # n + 2
      <4>1. k \in 1 .. n + 1
        BY <1>1, <3>2
      <4>2. Q[k] \in Int /\ Q[k] <= last
        BY <1>5, <4>1
      <4> QED
        BY <1>1, <1>5, <2>1, <2>2, <4>2
    <3> QED
      BY <3>1, <3>2
  <2>3. CASE l # n + 2
    <3>1. k \in 1 .. n + 1 /\ l \in 1 .. n + 1
      BY <1>1, <1>7, <2>3
    <3> QED
      BY <1>3, <1>5, <1>7, <3>1
  <2> QED
    BY <2>2, <2>3
<1>8. ASSUME NEW k \in 1 .. n + 1, NEW j \in 1 .. Cells(more[k]), Q[k] + j \in 1 .. Len(cells)
      PROVE  cells[Q[k] + j] = Cell(more[k], j)
  <2>1. CASE k = n + 1
    <3>1. Q[k] = last /\ j \in 1 .. Cells(b)
      BY <1>2, <1>4, <1>5, <2>1
    <3>2. last + j \in 1 .. last /\ j \in 1 .. Cells(b)
      BY <1>4, <1>8, <3>1
    <3>3. FALSE
      BY <1>1, <3>2
    <3> QED
      BY <3>3
  <2>2. CASE k # n + 1
    <3>1. k \in 1 .. n
      BY <1>1, <2>2
    <3> QED
      BY <1>2, <1>3, <1>5, <1>8, <3>1
  <2> QED
    BY <2>1, <2>2
<1>9. Q[r + 1] = at /\ Len(cells) = Q[n + 2] - Cells(b)
  <2>1. r + 1 \in 1 .. n + 1
    BY <1>1
  <2>2. Q[n + 2] - Cells(b) = last
    BY <1>1, <1>5
  <2> QED
    BY <1>3, <1>4, <1>5, <2>1, <2>2
<1>10. Len(more) = n + 1 /\ Len(more) + 1 = n + 2
  BY <1>1, <1>2
<1>11. Laid(Q, cells, more, r, at, Cells(b))
  <2>1. /\ Q \in [1 .. Len(more) + 1 -> Int]
        /\ \A k \in 1 .. Len(more) : Q[k + 1] = Q[k] + Cells(more[k])
        /\ \A k, l \in 1 .. Len(more) + 1 : k <= l => Q[k] <= Q[l]
    BY <1>5, <1>6, <1>7, <1>10
  <2>2. \A k \in 1 .. Len(more) : \A j \in 1 .. Cells(more[k]) :
           Q[k] + j \in 1 .. Len(cells) => cells[Q[k] + j] = Cell(more[k], j)
    BY <1>8, <1>10
  <2>3. Q[r + 1] = at /\ Len(cells) = Q[Len(more) + 1] - Cells(b)
    BY <1>9, <1>10
  <2> QED
    BY <2>1, <2>2, <2>3 DEF Laid
<1> QED
  BY <1>11 DEF more

\* A sender writes more of its message, the last.
LEMMA LaidWrite ==
  ASSUME NEW cells \in Seq(Nat), NEW messages \in Seq(Seq(Nat)), NEW r \in 0 .. Len(messages),
         NEW at \in Int, NEW m \in Message, NEW i \in 1 .. Len(Writes(m)),
         messages # <<>>, messages[Len(messages)] = Body(m),
         NEW P, Laid(P, cells, messages, r, at, Cells(Body(m)) - Written(m, i))
  PROVE  Laid(P, cells \o Writes(m)[i], messages, r, at, Cells(Body(m)) - Written(m, i + 1))
<1>1. PICK n, w, more, total, written, after :
        /\ n = Len(messages) /\ w = Writes(m)[i] /\ more = cells \o w
        /\ total = Cells(Body(m)) /\ written = Written(m, i) /\ after = Written(m, i + 1)
  OBVIOUS
<1>2. n \in Nat /\ n # 0 /\ r \in 0 .. n /\ n \in 1 .. n
  BY <1>1
<1>3. total = Cells(messages[n]) /\ total \in Nat
  BY <1>1, <1>2, CellsAreNat
<1>4. w \in Seq(Nat) /\ written \in Nat /\ after = written + Len(w) /\ after <= total
  BY <1>1, WritesAreCells
<1>5. \A j \in 1 .. Len(w) : Cell(messages[n], written + j) = w[j]
  BY <1>1, WritesAreCells
<1>6. Len(cells) \in Nat /\ Len(w) \in Nat
  BY <1>4
<1>7. /\ Len(more) = Len(cells) + Len(w)
      /\ \A j \in 1 .. Len(cells) + Len(w) : more[j] = IF j <= Len(cells) THEN cells[j] ELSE w[j - Len(cells)]
  <2>1. /\ Len(cells \o w) = Len(cells) + Len(w)
        /\ \A j \in 1 .. Len(cells) + Len(w) :
             (cells \o w)[j] = IF j <= Len(cells) THEN cells[j] ELSE w[j - Len(cells)]
    BY ONLY cells \in Seq(Nat), <1>4, ConcatProperties
  <2> QED
    BY <1>1, <2>1
<1>8. /\ P \in [1 .. n + 1 -> Int]
      /\ \A k \in 1 .. n : P[k + 1] = P[k] + Cells(messages[k])
      /\ \A k, l \in 1 .. n + 1 : k <= l => P[k] <= P[l]
      /\ \A k \in 1 .. n : \A j \in 1 .. Cells(messages[k]) :
           P[k] + j \in 1 .. Len(cells) => cells[P[k] + j] = Cell(messages[k], j)
      /\ P[r + 1] = at
      /\ Len(cells) = P[n + 1] - (total - written)
  BY <1>1 DEF Laid
<1>9. \A k \in 1 .. n : k \in 1 .. n + 1 /\ k + 1 \in 1 .. n + 1 /\ P[k] \in Int
  BY <1>2, <1>8
<1>10. PICK first \in Int : first = P[n] /\ P[n + 1] = first + total /\ Len(cells) = first + written
  <2>1. P[n] \in Int /\ P[n + 1] = P[n] + total
    BY <1>2, <1>3, <1>8, <1>9
  <2>2. PICK p \in Int : p = P[n]
    BY <2>1
  <2>3. Len(cells) = (p + total) - (total - written)
    BY <1>8, <2>1, <2>2
  <2>4. (p + total) - (total - written) = p + written
    <3>1. total \in Nat /\ written \in Nat
      BY <1>3, <1>4
    <3> QED
      BY <3>1
  <2> QED
    BY <2>1, <2>2, <2>3, <2>4
<1>11. Len(more) = P[n + 1] - (total - after)
  <2>1. PICK l \in Nat : l = Len(w) /\ after = written + l /\ Len(more) = (first + written) + l
    BY <1>4, <1>6, <1>7, <1>10
  <2>2. (first + written) + l = (first + total) - (total - (written + l))
    <3>1. total \in Nat /\ written \in Nat
      BY <1>3, <1>4
    <3> QED
      BY <3>1
  <2> QED
    BY <1>10, <2>1, <2>2
<1>12. ASSUME NEW k \in 1 .. n, NEW j \in 1 .. Cells(messages[k]), P[k] + j \in 1 .. Len(more)
       PROVE  more[P[k] + j] = Cell(messages[k], j)
  <2>1. PICK p, c, l, s : p = P[k] /\ c = Cells(messages[k]) /\ l = Len(cells) /\ s = Len(w)
    OBVIOUS
  <2>2. c \in Nat
    BY <1>1, <2>1, CellsAreNat
  <2>3. /\ p \in Int /\ j \in 1 .. c /\ j \in Int /\ p + j \in 1 .. l + s
        /\ l \in Nat /\ s \in Nat /\ l = first + written
    BY <1>6, <1>7, <1>9, <1>10, <1>12, <2>1, <2>2
  <2>4. CASE p + j <= l
    <3>1. p + j \in 1 .. l
      BY <2>3, <2>4
    <3>2. cells[p + j] = Cell(messages[k], j)
      BY <1>8, <2>1, <3>1
    <3> QED
      BY <1>7, <2>1, <2>3, <2>4, <3>2
  <2>5. CASE ~(p + j <= l)
    <3>1. k = n
      <4> SUFFICES ASSUME k # n PROVE FALSE
        OBVIOUS
      <4>1. k + 1 \in 1 .. n + 1 /\ n \in 1 .. n + 1 /\ k + 1 <= n
        BY <1>2
      <4>2. P[k + 1] <= first
        BY <1>8, <1>10, <4>1
      <4>3. p + c <= first
        BY <1>8, <2>1, <4>2
      <4> QED
        BY <1>4, <2>2, <2>3, <2>5, <4>3
    <3>2. p = first
      BY <1>10, <2>1, <3>1
    <3>3. PICK o \in 1 .. s : j = written + o /\ (p + j) - l = o
      <4>1. (p + j) - l \in 1 .. s /\ j = written + ((p + j) - l)
        BY <1>4, <2>3, <2>5, <3>2
      <4> QED
        BY <4>1
    <3>4. more[p + j] = w[o]
      BY <1>7, <2>1, <2>3, <2>5, <3>3
    <3>5. Cell(messages[k], j) = w[o]
      BY <1>5, <2>1, <3>1, <3>3
    <3> QED
      BY <2>1, <3>4, <3>5
  <2> QED
    BY <2>4, <2>5
<1>13. Laid(P, more, messages, r, at, total - after)
  <2>1. /\ P \in [1 .. Len(messages) + 1 -> Int]
        /\ \A k \in 1 .. Len(messages) : P[k + 1] = P[k] + Cells(messages[k])
        /\ \A k, l \in 1 .. Len(messages) + 1 : k <= l => P[k] <= P[l]
    BY <1>1, <1>8
  <2>2. \A k \in 1 .. Len(messages) : \A j \in 1 .. Cells(messages[k]) :
           P[k] + j \in 1 .. Len(more) => more[P[k] + j] = Cell(messages[k], j)
    BY <1>1, <1>12
  <2>3. P[r + 1] = at /\ Len(more) = P[Len(messages) + 1] - (total - after)
    BY <1>1, <1>8, <1>11
  <2> QED
    BY <2>1, <2>2, <2>3 DEF Laid
<1> QED
  BY <1>1, <1>13

-----------------------------------------------------------------------------
\* What the invariant says of a sender and of the next read

LEMMA MessagesFit ==
  ASSUME NEW b \in AllMessages
  PROVE  b \in Seq(Nat) /\ Len(b) \in Nat /\ Len(b) > 0 /\ Fits(Len(b))
<1>1. PICK s \in Senders : \E k \in DOMAIN ToSend[s] : b = Body(ToSend[s][k])
  BY DEF AllMessages
<1>2. PICK k \in DOMAIN ToSend[s] : b = Body(ToSend[s][k])
  BY <1>1
<1>3. ToSend[s] \in Seq(Message) /\ Fits(Len(b))
  BY <1>2, WireAssumption DEF Fits
<1>4. ToSend[s][k] \in Message
  BY <1>3
<1>5. PICK m \in Message : b = Body(m)
  BY <1>2, <1>4
<1>6. b \in Seq(Nat) /\ Len(FlattenSeq(m.parts)) \in Nat /\ Len(b) = 1 + Len(FlattenSeq(m.parts))
  BY <1>5, MessageBody
<1> QED
  BY <1>3, <1>6

LEMMA SenderFacts ==
  ASSUME Types, TodoIsLast, NEW s \in Senders, todo[s] # <<>>
  PROVE  /\ Current(s) \in Message /\ Body(Current(s)) \in AllMessages /\ Body(Current(s)) \in Seq(Nat)
         /\ todo[s] \in Seq(Message) /\ Len(todo[s]) \in Nat
         /\ Tail(todo[s]) \in Seq(Message) /\ Len(Tail(todo[s])) = Len(todo[s]) - 1
         /\ \A k \in 1 .. Len(todo[s]) - 1 : Tail(todo[s])[k] = todo[s][k + 1]
<1>1. todo[s] \in Seq(Message) /\ Len(todo[s]) \in Nat /\ Len(todo[s]) # 0
  <2>1. todo[s] \in Seq(Message)
    BY DEF Types
  <2> QED
    BY <2>1
<1>2. Current(s) \in Message /\ Current(s) = todo[s][1]
  BY <1>1 DEF Current
<1>3. ToSend[s] \in Seq(Message) /\ Len(ToSend[s]) \in Nat /\ DOMAIN ToSend[s] = 1 .. Len(ToSend[s])
  BY WireAssumption
<1>4. Len(todo[s]) <= Len(ToSend[s]) /\ todo[s][1] = ToSend[s][Len(ToSend[s]) - Len(todo[s]) + 1]
  <2>1. 1 \in 1 .. Len(todo[s])
    BY <1>1
  <2> QED
    BY <2>1 DEF TodoIsLast
<1>5. PICK first \in DOMAIN ToSend[s] : Current(s) = ToSend[s][first]
  <2>1. PICK l, t : l = Len(ToSend[s]) /\ t = Len(todo[s])
    OBVIOUS
  <2>2. l - t + 1 \in 1 .. l
    <3>1. l \in Nat /\ t \in Nat /\ t # 0 /\ t <= l
      BY <1>1, <1>3, <1>4, <2>1
    <3> QED
      BY <3>1
  <2> QED
    BY <1>2, <1>3, <1>4, <2>1, <2>2
<1>6. Body(Current(s)) \in AllMessages
  <2>1. Body(Current(s)) \in {Body(ToSend[s][i]) : i \in DOMAIN ToSend[s]}
    BY <1>5
  <2> QED
    BY <2>1 DEF AllMessages
<1>7. /\ Tail(todo[s]) \in Seq(Message) /\ Len(Tail(todo[s])) = Len(todo[s]) - 1
      /\ \A k \in 1 .. Len(Tail(todo[s])) : Tail(todo[s])[k] = todo[s][k + 1]
  BY <1>1, HeadTailProperties
<1> QED
  BY <1>1, <1>2, <1>6, <1>7, MessageBody

LEMMA MissingIsNat ==
  ASSUME Types, TodoIsLast, HolderWrites
  PROVE  /\ Missing \in Nat
         /\ writeMutex = NoOne => Missing = 0
<1>1. CASE writeMutex = NoOne
  BY <1>1 DEF Missing
<1>2. CASE writeMutex # NoOne
  <2>1. PICK s \in Senders : writeMutex = s
    BY <1>2 DEF Types
  <2>2. todo[s] # <<>> /\ next[s] \in 2 .. Len(Writes(Current(s)))
    BY <2>1 DEF HolderWrites
  <2>3. PICK m \in Message : m = Current(s)
    BY <2>2, SenderFacts
  <2>4. PICK i \in 1 .. Len(Writes(m)) : i = next[s]
    <3>1. Len(Writes(m)) \in Nat
      BY MessageWrites, MessageBody
    <3> QED
      BY <2>2, <2>3, <3>1
  <2>5. /\ Writes(m)[i] \in Seq(Nat) /\ Written(m, i) \in Nat
        /\ Written(m, i + 1) = Written(m, i) + Len(Writes(m)[i])
        /\ Written(m, i + 1) <= Cells(Body(m))
    BY WritesAreCells
  <2>6. Len(Writes(m)[i]) \in Nat
    BY <2>5, LenProperties
  <2>7. Cells(Body(m)) \in Nat
    <3>1. Len(Body(m)) \in Nat /\ DIGITS \in Nat
      BY MessageBody, LenProperties, WireAssumption
    <3> QED
      BY <3>1 DEF Cells
  <2>8. PICK c, v, u, l : c = Cells(Body(m)) /\ v = Written(m, i) /\ u = Written(m, i + 1) /\ l = Len(Writes(m)[i])
    OBVIOUS
  <2>9. c - v \in Nat
    BY <2>5, <2>6, <2>7, <2>8
  <2>10. Missing = c - v
    BY <1>2, <2>1, <2>3, <2>4, <2>8 DEF Missing
  <2> QED
    BY <1>2, <2>9, <2>10
<1> QED
  BY <1>1, <1>2

LEMMA Taken ==
  ASSUME NEW cells \in Seq(Nat), NEW c \in 0 .. Len(cells)
  PROVE  /\ SubSeq(cells, 1, c) \in Seq(Nat) /\ Len(SubSeq(cells, 1, c)) = c
         /\ \A j \in 1 .. c : SubSeq(cells, 1, c)[j] = cells[j]
         /\ SubSeq(cells, c + 1, Len(cells)) \in Seq(Nat)
<1>1. Len(cells) \in Nat /\ c \in Nat /\ c <= Len(cells)
  OBVIOUS
<1>2. (\A j \in 1 .. c : cells[j] \in Nat) /\ (\A j \in c + 1 .. Len(cells) : cells[j] \in Nat)
  BY <1>1
<1>3. /\ SubSeq(cells, 1, c) \in Seq(Nat) /\ Len(SubSeq(cells, 1, c)) = IF 1 <= c THEN c - 1 + 1 ELSE 0
      /\ \A j \in 1 .. c - 1 + 1 : SubSeq(cells, 1, c)[j] = cells[1 + j - 1]
  BY <1>1, <1>2, SubSeqProperties
<1>4. SubSeq(cells, c + 1, Len(cells)) \in Seq(Nat)
  BY <1>1, <1>2, SubSeqProperties
<1>5. c - 1 + 1 = c /\ (IF 1 <= c THEN c - 1 + 1 ELSE 0) = c /\ \A j \in 1 .. c : 1 + j - 1 = j
  BY <1>1
<1> QED
  BY <1>1, <1>3, <1>4, <1>5

\* What a read of at most n cells may bring.
LEMMA ReadBrings ==
  ASSUME Types, NEW n \in Int, NEW c \in AtMost(n)
  PROVE  c \in Nat /\ 1 <= c /\ c <= n /\ c <= Len(stream) /\ c \in 1 .. Len(stream)
<1>1. Len(stream) \in Nat
  BY DEF Types
<1> QED
  BY <1>1 DEF AtMost

-----------------------------------------------------------------------------
\* The invariant holds initially and is kept, one part at a time.

LEMMA InitIsGood == Init => IInv
<1> SUFFICES ASSUME Init PROVE IInv
  OBVIOUS
<1>1. /\ todo = ToSend /\ next = [s \in Senders |-> 1] /\ writeMutex = NoOne /\ stream = <<>>
      /\ open = TRUE /\ rPc = "length" /\ cut = FALSE /\ length = 0 /\ dst = <<>> /\ sent = <<>> /\ received = <<>>
  BY DEF Init
<1>2. NoOne \notin Senders /\ ToSend \in [Senders -> Seq(Message)]
  BY WireAssumption
<1>3. Types
  <2>1. stream \in Seq(Nat) /\ dst \in Seq(Nat) /\ sent \in Seq(Seq(Nat)) /\ received \in Seq(Seq(Nat))
    BY <1>1
  <2>2. open \in BOOLEAN /\ cut \in BOOLEAN
    BY <1>1, Zenon
  <2>5. length \in Int
    BY <1>1
  <2>3. next \in [Senders -> Nat \ {0}]
    BY <1>1
  <2>4. rPc # "body" /\ writeMutex \in Senders \cup {NoOne} /\ todo \in [Senders -> Seq(Message)]
    BY <1>1, <1>2
  <2> QED
    BY <1>1, <2>1, <2>2, <2>3, <2>4, <2>5 DEF Types
<1>4. TodoIsLast
  <2> SUFFICES ASSUME NEW s \in Senders
               PROVE  /\ Len(ToSend[s]) <= Len(ToSend[s])
                      /\ \A k \in 1 .. Len(ToSend[s]) :
                           ToSend[s][k] = ToSend[s][Len(ToSend[s]) - Len(ToSend[s]) + k]
    BY <1>1 DEF TodoIsLast
  <2>1. PICK l \in Nat : l = Len(ToSend[s])
    <3>1. ToSend[s] \in Seq(Message)
      BY <1>2
    <3> QED
      BY <3>1
  <2>2. l <= l /\ \A k \in 1 .. l : l - l + k = k
    OBVIOUS
  <2> QED
    BY <2>1, <2>2
<1>5. HolderWrites
  BY <1>1, <1>2 DEF HolderWrites
<1>6. Returned
  BY <1>1 DEF Returned
<1>7. Layout
  <2> DEFINE P == [k \in 1 .. 1 |-> 0]
  <2>1. Laid(P, <<>>, <<>>, 0, 0, 0)
    BY DEF Laid
  <2>2. ReadAt = 0 /\ Missing = 0 /\ Len(received) = 0
    BY <1>1 DEF ReadAt, Missing
  <2> QED
    BY <1>1, <2>1, <2>2 DEF Layout
<1> QED
  BY <1>3, <1>4, <1>5, <1>6, <1>7 DEF IInv

LEMMA WriteIsSeq ==
  ASSUME Types, TodoIsLast, NEW s \in Senders, todo[s] # <<>>, NEW i \in 1 .. Len(Writes(Current(s)))
  PROVE  /\ Writes(Current(s))[i] \in Seq(Nat)
         /\ stream \o Writes(Current(s))[i] \in Seq(Nat)
<1>1. PICK m \in Message : m = Current(s)
  BY SenderFacts
<1>2. Writes(m)[i] \in Seq(Nat)
  BY <1>1, WritesAreCells
<1>3. stream \in Seq(Nat)
  BY DEF Types
<1> QED
  BY <1>1, <1>2, <1>3, ConcatProperties

\* Which write a sender makes.
LEMMA WriteIndex ==
  ASSUME Types, TodoIsLast, NEW s \in Senders, Sending(s)
  PROVE  /\ todo[s] # <<>> /\ open
         /\ Len(Writes(Current(s))) \in Nat /\ Len(Writes(Current(s))) >= 2
         /\ 1 \in 1 .. Len(Writes(Current(s)))
         /\ \A i \in 2 .. Len(Writes(Current(s))) - 1 :
              i \in 1 .. Len(Writes(Current(s))) /\ i + 1 \in 2 .. Len(Writes(Current(s)))
<1>1. todo[s] # <<>> /\ open
  BY DEF Sending
<1>2. PICK m \in Message : m = Current(s)
  BY <1>1, SenderFacts
<1>3. Len(Writes(m)) = 2 + Len(m.parts) /\ Len(m.parts) \in Nat
  BY MessageWrites, MessageBody
<1>4. PICK l \in Nat : l = Len(Writes(m)) /\ l >= 2
  BY <1>3
<1>5. 1 \in 1 .. l /\ \A i \in 2 .. l - 1 : i \in 1 .. l /\ i + 1 \in 2 .. l
  BY <1>4
<1> QED
  BY <1>1, <1>2, <1>4, <1>5

LEMMA NextKeepsTypes == Types /\ TodoIsLast /\ [Next]_vars => Types'
<1> SUFFICES ASSUME Types, TodoIsLast, [Next]_vars PROVE Types'
  OBVIOUS
<1>1. ASSUME NEW s \in Senders, WriteLength(s) PROVE Types'
  <2>1. /\ Sending(s) /\ writeMutex' = s /\ stream' = stream \o Writes(Current(s))[next[s]]
        /\ next[s] = 1 /\ next' = [next EXCEPT ![s] = 2] /\ sent' = Append(sent, Body(Current(s)))
        /\ UNCHANGED <<todo, open, cut, rPc, length, dst, received>>
    BY <1>1 DEF WriteLength, Write, recvVars
  <2>2. stream' \in Seq(Nat)
    BY <2>1, WriteIndex, WriteIsSeq
  <2>3. sent' \in Seq(Seq(Nat))
    <3>1. PICK b \in Seq(Nat) : b = Body(Current(s))
      BY <2>1, WriteIndex, SenderFacts
    <3>2. sent \in Seq(Seq(Nat))
      BY DEF Types
    <3>3. Append(sent, b) \in Seq(Seq(Nat))
      BY ONLY <3>2, b \in Seq(Nat), AppendProperties
    <3> QED
      BY <2>1, <3>1, <3>3
  <2>4. next' \in [Senders -> Nat \ {0}]
    BY <2>1 DEF Types
  <2> QED
    BY <2>1, <2>2, <2>3, <2>4 DEF Types
<1>2. ASSUME NEW s \in Senders, WriteMore(s) PROVE Types'
  <2>1. /\ Sending(s) /\ stream' = stream \o Writes(Current(s))[next[s]]
        /\ next[s] \in 2 .. Len(Writes(Current(s))) - 1 /\ next' = [next EXCEPT ![s] = @ + 1]
        /\ UNCHANGED <<todo, writeMutex, sent, open, cut, rPc, length, dst, received>>
    BY <1>2 DEF WriteMore, Write, recvVars
  <2>2. stream' \in Seq(Nat)
    BY <2>1, WriteIndex, WriteIsSeq
  <2>3. next' \in [Senders -> Nat \ {0}]
    <3>1. next[s] + 1 \in Nat \ {0}
      BY DEF Types
    <3> QED
      BY <2>1, <3>1 DEF Types
  <2> QED
    BY <2>1, <2>2, <2>3 DEF Types
<1>3. ASSUME NEW s \in Senders, WriteLast(s) PROVE Types'
  <2>1. /\ Sending(s) /\ stream' = stream \o Writes(Current(s))[next[s]]
        /\ next[s] = Len(Writes(Current(s))) /\ writeMutex' = NoOne
        /\ todo' = [todo EXCEPT ![s] = Tail(@)] /\ next' = [next EXCEPT ![s] = 1]
        /\ UNCHANGED <<sent, open, cut, rPc, length, dst, received>>
    BY <1>3 DEF WriteLast, Write, recvVars
  <2>2. stream' \in Seq(Nat)
    <3>1. next[s] \in 1 .. Len(Writes(Current(s)))
      BY <2>1, WriteIndex
    <3> QED
      BY <2>1, <3>1, WriteIndex, WriteIsSeq
  <2>3. todo' \in [Senders -> Seq(Message)]
    <3>1. Tail(todo[s]) \in Seq(Message)
      BY <2>1, WriteIndex, SenderFacts
    <3> QED
      BY <2>1, <3>1 DEF Types
  <2>4. next' \in [Senders -> Nat \ {0}]
    BY <2>1 DEF Types
  <2> QED
    BY <2>1, <2>2, <2>3, <2>4 DEF Types
<1>4. CASE Exit
  BY <1>4 DEF Exit, sendVars, recvVars, Types
<1>5. CASE ReadLength
  <2>1. PICK c, rest :
          /\ c \in AtMost(DIGITS) \cup {0}
          /\ rest \in [1 .. DIGITS - c -> Junk]
          /\ stream' = SubSeq(stream, c + 1, Len(stream))
          /\ length' = atoi(SubSeq(stream, 1, c) \o rest)
          /\ cut' = (cut \/ c < DIGITS)
    BY <1>5 DEF ReadLength, Take
  <2>2. /\ dst' = <<>> /\ UNCHANGED <<todo, next, writeMutex, sent, open>>
        /\ \/ rPc' = "badLength" /\ UNCHANGED received
           \/ rPc' = "length" /\ received' = Append(received, <<>>)
           \/ length' > 0 /\ rPc' = "body" /\ UNCHANGED received
    BY <1>5 DEF ReadLength, Return, sendVars
  <2>3. stream \in Seq(Nat) /\ DIGITS \in Nat \ {0} /\ c \in 0 .. Len(stream) /\ c <= DIGITS
    <3>1. stream \in Seq(Nat) /\ DIGITS \in Nat \ {0} /\ Len(stream) \in Nat
      BY WireAssumption DEF Types
    <3>2. CASE c = 0
      BY <3>1, <3>2
    <3>3. CASE c \in AtMost(DIGITS)
      BY <3>1, <3>3, ReadBrings
    <3> QED
      BY <2>1, <3>1, <3>2, <3>3
  <2>4. stream' \in Seq(Nat) /\ SubSeq(stream, 1, c) \in Seq(Nat)
    BY <2>1, <2>3, Taken
  <2>5. rest \in Seq(Nat)
    <3>1. PICK m : m = DIGITS - c
      OBVIOUS
    <3>2. m \in Nat /\ Junk \subseteq Nat
      BY <2>3, <3>1, WireAssumption
    <3>3. rest \in [1 .. m -> Nat]
      BY <2>1, <3>1, <3>2
    <3> QED
      BY ONLY <3>2, <3>3, IsASeq
  <2>6. length' \in Int
    <3>1. PICK cells : cells = SubSeq(stream, 1, c) \o rest
      OBVIOUS
    <3>2. cells \in Seq(Nat)
      BY <2>4, <2>5, <3>1, ConcatProperties
    <3> QED
      BY <2>1, <3>1, <3>2, AtoiIsInt
  <2>7. cut' \in BOOLEAN
    BY <2>1
  <2>8. received' \in Seq(Seq(Nat))
    <3>1. received \in Seq(Seq(Nat)) /\ <<>> \in Seq(Nat)
      BY DEF Types
    <3>2. Append(received, <<>>) \in Seq(Seq(Nat))
      BY ONLY <3>1, AppendProperties
    <3> QED
      BY <2>2, <3>1, <3>2
  <2>9. rPc' = "body" => length' \in Nat /\ Len(dst') < length'
    <3>1. Len(dst') = 0
      BY <2>2
    <3> QED
      BY <2>2, <2>6, <3>1
  <2>10. /\ todo' \in [Senders -> Seq(Message)] /\ next' \in [Senders -> Nat \ {0}]
         /\ writeMutex' \in Senders \cup {NoOne} /\ sent' \in Seq(Seq(Nat)) /\ open' \in BOOLEAN
    BY <2>2 DEF Types
  <2>11. dst' \in Seq(Nat) /\ rPc' \in {"length", "body", "badLength", "spin"}
    BY <2>2
  <2> QED
    BY <2>4, <2>6, <2>7, <2>8, <2>9, <2>10, <2>11 DEF Types
<1>6. CASE ReadBody
  <2>1. PICK c \in AtMost(length - Len(dst)) :
          /\ stream' = SubSeq(stream, c + 1, Len(stream))
          /\ dst' = dst \o SubSeq(stream, 1, c)
    BY <1>6 DEF ReadBody, Take
  <2>2. /\ IF Len(dst') < length THEN UNCHANGED <<rPc, received>>
           ELSE rPc' = "length" /\ received' = Append(received, dst')
        /\ UNCHANGED <<length, cut, todo, next, writeMutex, sent, open>>
    BY <1>6 DEF ReadBody, Return, sendVars
  <2>3. stream \in Seq(Nat) /\ dst \in Seq(Nat) /\ c \in 1 .. Len(stream)
    <3>1. length - Len(dst) \in Int
      BY DEF Types
    <3> QED
      BY <3>1, ReadBrings DEF Types
  <2>4. stream' \in Seq(Nat) /\ SubSeq(stream, 1, c) \in Seq(Nat)
    BY <2>1, <2>3, Taken
  <2>5. PICK d : d = dst'
    OBVIOUS
  <2>6. d \in Seq(Nat)
    BY <2>1, <2>3, <2>4, <2>5, ConcatProperties
  <2>7. received' \in Seq(Seq(Nat))
    <3>1. received \in Seq(Seq(Nat))
      BY DEF Types
    <3>2. Append(received, d) \in Seq(Seq(Nat))
      BY ONLY <2>6, <3>1, AppendProperties
    <3> QED
      BY <2>2, <2>5, <3>1, <3>2
  <2>8. rPc' = "body" => length' \in Nat /\ Len(dst') < length'
    <3>1. rPc = "body"
      BY <1>6 DEF ReadBody
    <3> QED
      BY <2>2, <3>1 DEF Types
  <2> QED
    BY <2>2, <2>4, <2>5, <2>6, <2>7, <2>8 DEF Types
<1>7. CASE Spin
  BY <1>7 DEF Spin, sendVars, Types
<1>8. CASE UNCHANGED vars
  BY <1>8 DEF vars, sendVars, recvVars, Types
<1> QED
  BY <1>1, <1>2, <1>3, <1>4, <1>5, <1>6, <1>7, <1>8 DEF Next, Recv, Send

LEMMA NextKeepsTodo == Types /\ TodoIsLast /\ [Next]_vars => TodoIsLast'
<1> SUFFICES ASSUME Types, TodoIsLast, [Next]_vars PROVE TodoIsLast'
  OBVIOUS
<1>1. ASSUME UNCHANGED todo PROVE TodoIsLast'
  BY <1>1 DEF TodoIsLast
<1>2. ASSUME NEW s \in Senders, WriteLast(s) PROVE TodoIsLast'
  <2>1. todo[s] # <<>> /\ todo' = [todo EXCEPT ![s] = Tail(@)]
    BY <1>2 DEF WriteLast, Sending
  <2>2. PICK new : new = todo'
    OBVIOUS
  <2>3. new[s] = Tail(todo[s]) /\ \A t \in Senders : t # s => new[t] = todo[t]
    BY <2>1, <2>2 DEF Types
  <2> SUFFICES ASSUME NEW t \in Senders
               PROVE  /\ Len(new[t]) <= Len(ToSend[t])
                      /\ \A k \in 1 .. Len(new[t]) :
                           new[t][k] = ToSend[t][Len(ToSend[t]) - Len(new[t]) + k]
    BY <2>2 DEF TodoIsLast
  <2>4. CASE t # s
    BY <2>3, <2>4 DEF TodoIsLast
  <2>5. CASE t = s
    <3>1. PICK n, l : n = Len(todo[s]) /\ l = Len(ToSend[s])
      OBVIOUS
    <3>2. /\ Len(new[s]) = n - 1 /\ \A k \in 1 .. n - 1 : new[s][k] = todo[s][k + 1]
      BY <2>1, <2>3, <3>1, SenderFacts
    <3>3. n \in Nat /\ l \in Nat
      <4>1. ToSend[s] \in Seq(Message)
        BY WireAssumption
      <4> QED
        BY <2>1, <3>1, <4>1, SenderFacts
    <3>4. n <= l /\ \A k \in 1 .. n : todo[s][k] = ToSend[s][l - n + k]
      BY <3>1 DEF TodoIsLast
    <3>5. n - 1 <= l /\ \A k \in 1 .. n - 1 : k + 1 \in 1 .. n /\ l - n + (k + 1) = l - (n - 1) + k
      BY <3>3, <3>4
    <3>6. ASSUME NEW k \in 1 .. n - 1 PROVE new[s][k] = ToSend[s][l - (n - 1) + k]
      <4>1. new[s][k] = todo[s][k + 1] /\ k + 1 \in 1 .. n
        BY <3>2, <3>5
      <4>2. todo[s][k + 1] = ToSend[s][l - n + (k + 1)] /\ l - n + (k + 1) = l - (n - 1) + k
        BY <3>4, <3>5, <4>1
      <4> QED
        BY <4>1, <4>2
    <3>7. n - 1 <= l /\ Len(new[t]) = n - 1 /\ Len(ToSend[t]) = l
      BY <2>5, <3>1, <3>2, <3>5
    <3> QED
      BY <2>5, <3>6, <3>7
  <2> QED
    BY <2>4, <2>5
<1>3. ASSUME NEW s \in Senders, WriteLength(s) \/ WriteMore(s) PROVE UNCHANGED todo
  BY <1>3 DEF WriteLength, WriteMore
<1>4. Exit \/ Recv \/ UNCHANGED vars => UNCHANGED todo
  BY DEF Exit, Recv, ReadLength, ReadBody, Spin, vars, sendVars
<1> QED
  BY <1>1, <1>2, <1>3, <1>4 DEF Next, Send

\* Who writes anything but a length holds the mutex.
LEMMA WriterHolds ==
  ASSUME Types, TodoIsLast, HolderWrites, NEW s \in Senders, WriteMore(s) \/ WriteLast(s)
  PROVE  writeMutex = s /\ next[s] \in 2 .. Len(Writes(Current(s)))
<1>1. Sending(s)
  BY DEF WriteMore, WriteLast
<1>2. Len(Writes(Current(s))) \in Nat /\ Len(Writes(Current(s))) >= 2
  BY <1>1, WriteIndex
<1>3. next[s] # 1
  BY <1>2 DEF WriteMore, WriteLast
<1> QED
  BY <1>3 DEF HolderWrites

LEMMA NextKeepsHolder == Types /\ TodoIsLast /\ HolderWrites /\ [Next]_vars => HolderWrites'
<1> SUFFICES ASSUME Types, TodoIsLast, HolderWrites, [Next]_vars PROVE HolderWrites'
  OBVIOUS
<1>1. ASSUME UNCHANGED <<todo, next, writeMutex, sent>> PROVE HolderWrites'
  BY <1>1 DEF HolderWrites, Current
<1>2. NoOne \notin Senders
  BY WireAssumption
<1>3. ASSUME NEW s \in Senders, WriteLength(s) PROVE HolderWrites'
  <2>1. /\ Sending(s) /\ writeMutex = NoOne /\ writeMutex' = s
        /\ next' = [next EXCEPT ![s] = 2] /\ sent' = Append(sent, Body(Current(s))) /\ todo' = todo
    BY <1>3 DEF WriteLength
  <2>2. next'[s] = 2 /\ \A t \in Senders : t # s => next'[t] = next[t]
    BY <2>1 DEF Types
  <2>3. \A t \in Senders : next[t] = 1
    BY <1>2, <2>1 DEF HolderWrites
  <2>4. todo[s] # <<>> /\ 2 \in 2 .. Len(Writes(Current(s)))
    BY <2>1, WriteIndex
  <2>5. sent' # <<>> /\ sent'[Len(sent')] = Body(Current(s))
    <3>1. PICK b, new : b = Body(Current(s)) /\ new = sent'
      OBVIOUS
    <3>2. b \in Seq(Nat) /\ sent \in Seq(Seq(Nat)) /\ new = Append(sent, b)
      BY <2>1, <2>4, <3>1, SenderFacts DEF Types
    <3>3. new # <<>> /\ Len(new) = Len(sent) + 1 /\ new[Len(sent) + 1] = b
      BY ONLY <3>2, AppendProperties
    <3> QED
      BY <3>1, <3>3
  <2>6. Current(s)' = Current(s)
    BY <2>1 DEF Current
  <2> SUFFICES ASSUME NEW t \in Senders
               PROVE  /\ next'[t] # 1 <=> writeMutex' = t
                      /\ writeMutex' = t => /\ todo'[t] # <<>>
                                            /\ next'[t] \in 2 .. Len(Writes(Current(t)'))
                                            /\ sent' # <<>> /\ sent'[Len(sent')] = Body(Current(t)')
    BY DEF HolderWrites, Current
  <2>7. CASE t = s
    BY <2>1, <2>2, <2>4, <2>5, <2>6, <2>7
  <2>8. CASE t # s
    BY <2>1, <2>2, <2>3, <2>8
  <2> QED
    BY <2>7, <2>8
<1>4. ASSUME NEW s \in Senders, WriteMore(s) PROVE HolderWrites'
  <2>1. /\ Sending(s) /\ next[s] \in 2 .. Len(Writes(Current(s))) - 1
        /\ next' = [next EXCEPT ![s] = @ + 1] /\ UNCHANGED <<todo, writeMutex, sent>>
    BY <1>4 DEF WriteMore
  <2>2. writeMutex = s
    BY <1>4, WriterHolds
  <2>3. next[s] + 1 \in 2 .. Len(Writes(Current(s))) /\ next[s] + 1 # 1
    BY <2>1, WriteIndex
  <2>4. next'[s] = next[s] + 1 /\ \A t \in Senders : t # s => next'[t] = next[t]
    BY <2>1 DEF Types
  <2>5. \A t \in Senders : Current(t)' = Current(t)
    BY <2>1 DEF Current
  <2> SUFFICES ASSUME NEW t \in Senders
               PROVE  /\ next'[t] # 1 <=> writeMutex' = t
                      /\ writeMutex' = t => /\ todo'[t] # <<>>
                                            /\ next'[t] \in 2 .. Len(Writes(Current(t)'))
                                            /\ sent' # <<>> /\ sent'[Len(sent')] = Body(Current(t)')
    BY DEF HolderWrites, Current
  <2>6. CASE t = s
    BY <2>1, <2>2, <2>3, <2>4, <2>5, <2>6 DEF HolderWrites
  <2>7. CASE t # s
    BY <2>1, <2>2, <2>4, <2>7 DEF HolderWrites
  <2> QED
    BY <2>6, <2>7
<1>5. ASSUME NEW s \in Senders, WriteLast(s) PROVE HolderWrites'
  <2>1. /\ writeMutex' = NoOne /\ next' = [next EXCEPT ![s] = 1]
    BY <1>5 DEF WriteLast
  <2>2. writeMutex = s
    BY <1>5, WriterHolds
  <2>3. \A t \in Senders : next'[t] = 1
    BY <2>1, <2>2 DEF HolderWrites, Types
  <2>4. \A t \in Senders : writeMutex' # t
    BY <1>2, <2>1
  <2> QED
    BY <2>3, <2>4 DEF HolderWrites
<1>6. Exit \/ Recv \/ UNCHANGED vars => UNCHANGED <<todo, next, writeMutex, sent>>
  BY DEF Exit, Recv, ReadLength, ReadBody, Spin, vars, sendVars
<1> QED
  BY <1>1, <1>3, <1>4, <1>5, <1>6 DEF Next, Send

\* What Recv makes of what it reads.
LEMMA LengthIsRead ==
  ASSUME Whole, rPc = "length", NEW c \in AtMost(DIGITS)
  PROVE  /\ Len(received) < Len(sent)
         /\ c = DIGITS => atoi(SubSeq(stream, 1, c)) = Len(sent[Len(received) + 1])
<1>1. Types /\ TodoIsLast /\ HolderWrites /\ Returned /\ Layout
  BY DEF Whole
<1>2. PICK cells, messages, r, missing :
        cells = stream /\ messages = sent /\ r = Len(received) /\ missing = Missing
  OBVIOUS
<1>3. /\ cells \in Seq(Nat) /\ messages \in Seq(Seq(Nat)) /\ Len(messages) \in Nat
      /\ r \in Nat /\ r <= Len(messages) /\ r \in 0 .. Len(messages) /\ missing \in Nat
  <2>1. cells \in Seq(Nat) /\ messages \in Seq(Seq(Nat)) /\ received \in Seq(Seq(Nat))
    BY <1>1, <1>2 DEF Types
  <2>2. r <= Len(messages) /\ missing \in Nat
    BY <1>1, <1>2, MissingIsNat DEF Returned
  <2>3. r \in Nat /\ Len(messages) \in Nat
    BY <1>2, <2>1
  <2> QED
    BY <2>1, <2>2, <2>3
<1>4. DIGITS \in Nat \ {0} /\ c \in Nat /\ 1 <= c /\ c <= Len(cells) /\ c \in 1 .. Len(cells)
  BY <1>1, <1>2, WireAssumption, ReadBrings
<1>5. PICK P : Laid(P, cells, messages, r, 0, missing)
  BY <1>1, <1>2 DEF Layout, ReadAt
<1>6. /\ r = Len(messages) => Len(cells) = 0 - missing
      /\ r < Len(messages) =>
           \A j \in 1 .. Cells(messages[r + 1]) :
             0 + j \in 1 .. Len(cells) => cells[0 + j] = Cell(messages[r + 1], j)
  BY <1>3, <1>5, LaidReads
<1>7. r < Len(messages)
  <2>1. Len(cells) \in Nat /\ Len(cells) > 0
    BY <1>3, <1>4
  <2> QED
    BY <1>3, <1>6, <2>1
<1>8. ASSUME c = DIGITS PROVE atoi(SubSeq(cells, 1, c)) = Len(messages[r + 1])
  <2>1. r + 1 \in 1 .. Len(messages)
    BY <1>3, <1>7
  <2>2. messages[r + 1] \in AllMessages
    BY <1>1, <1>2, <2>1 DEF Returned
  <2>3. PICK n \in Nat : n = Len(messages[r + 1]) /\ Fits(n)
    BY <2>2, MessagesFit
  <2>4. PICK digits, read : digits = lengthStr(n) /\ read = SubSeq(cells, 1, c)
    OBVIOUS
  <2>5. digits \in Seq(Nat) /\ Len(digits) = DIGITS
    BY <2>4, LengthIsSeq
  <2>6. read \in Seq(Nat) /\ Len(read) = DIGITS /\ \A j \in 1 .. DIGITS : read[j] = cells[j]
    BY <1>3, <1>4, <1>8, <2>4, Taken
  <2>7. ASSUME NEW j \in 1 .. DIGITS PROVE cells[j] = digits[j]
    <3>1. Cells(messages[r + 1]) = DIGITS + n
      BY <2>3 DEF Cells
    <3>2. 0 + j = j /\ j \in 1 .. DIGITS + n /\ j <= DIGITS
      BY <1>4
    <3>3. j \in 1 .. Len(cells)
      BY <1>3, <1>4, <1>8
    <3>4. cells[j] = Cell(messages[r + 1], j)
      BY <1>6, <1>7, <3>1, <3>2, <3>3
    <3> QED
      BY <2>3, <2>4, <3>2, <3>4 DEF Cell
  <2>8. read = digits
    <3>1. Len(read) = Len(digits) /\ \A j \in 1 .. Len(read) : read[j] = digits[j]
      BY <2>5, <2>6, <2>7
    <3> QED
      BY ONLY <2>5, <2>6, <3>1, SeqEqual
  <2> QED
    BY <2>3, <2>4, <2>8, RoundTrip
<1> QED
  BY <1>2, <1>7, <1>8

LEMMA BodyIsRead ==
  ASSUME Whole, rPc = "body", NEW c \in AtMost(length - Len(dst)),
         NEW new, new = dst \o SubSeq(stream, 1, c)
  PROVE  /\ Len(received) < Len(sent) /\ length = Len(sent[Len(received) + 1])
         /\ new \in Seq(Nat) /\ Len(new) = Len(dst) + c /\ Len(new) <= length
         /\ \A j \in 1 .. Len(new) : new[j] = sent[Len(received) + 1][j]
         /\ Len(new) = length => new = sent[Len(received) + 1]
<1>1. Types /\ TodoIsLast /\ HolderWrites /\ Returned /\ Layout
  BY DEF Whole
<1>2. PICK cells, messages, r, missing, old, n :
        /\ cells = stream /\ messages = sent /\ r = Len(received) /\ missing = Missing
        /\ old = dst /\ n = length
  OBVIOUS
<1>3. /\ cells \in Seq(Nat) /\ messages \in Seq(Seq(Nat)) /\ Len(messages) \in Nat
      /\ r \in Nat /\ missing \in Nat /\ old \in Seq(Nat) /\ Len(old) \in Nat /\ n \in Nat
  <2>1. /\ cells \in Seq(Nat) /\ messages \in Seq(Seq(Nat)) /\ received \in Seq(Seq(Nat))
        /\ old \in Seq(Nat) /\ n \in Nat
    BY <1>1, <1>2 DEF Types
  <2>2. missing \in Nat
    BY <1>1, <1>2, MissingIsNat
  <2>3. r \in Nat /\ Len(messages) \in Nat /\ Len(old) \in Nat
    BY <1>2, <2>1
  <2> QED
    BY <2>1, <2>2, <2>3
<1>4. /\ r < Len(messages) /\ n = Len(messages[r + 1]) /\ Len(old) < n
      /\ \A j \in 1 .. Len(old) : old[j] = messages[r + 1][j]
  BY <1>1, <1>2 DEF Returned
<1>5. c \in Nat /\ 1 <= c /\ c <= n - Len(old) /\ c <= Len(cells) /\ c \in 1 .. Len(cells)
  <2>1. n - Len(old) \in Int
    BY <1>3
  <2> QED
    BY <1>1, <1>2, <2>1, ReadBrings
<1>6. PICK D, o : D = DIGITS /\ o = Len(old) /\ D \in Nat /\ o \in Nat
  BY <1>3, WireAssumption
<1>7. PICK P : Laid(P, cells, messages, r, -(D + o), missing)
  BY <1>1, <1>2, <1>6 DEF Layout, ReadAt
<1>8. \A j \in 1 .. Cells(messages[r + 1]) :
         -(D + o) + j \in 1 .. Len(cells) => cells[-(D + o) + j] = Cell(messages[r + 1], j)
  <2>1. r \in 0 .. Len(messages) /\ -(D + o) \in Int
    BY <1>3, <1>4, <1>6
  <2> QED
    BY <1>3, <1>4, <1>7, <2>1, LaidReads
<1>9. PICK read : read = SubSeq(cells, 1, c)
  OBVIOUS
<1>10. read \in Seq(Nat) /\ Len(read) = c /\ \A j \in 1 .. c : read[j] = cells[j]
  BY <1>3, <1>5, <1>9, Taken
<1>11. new = old \o read
  BY <1>2, <1>9
<1>12. /\ new \in Seq(Nat) /\ Len(new) = o + c
       /\ \A j \in 1 .. o + c : new[j] = IF j <= o THEN old[j] ELSE read[j - o]
  <2>1. /\ old \o read \in Seq(Nat) /\ Len(old \o read) = Len(old) + Len(read)
        /\ \A j \in 1 .. Len(old) + Len(read) :
             (old \o read)[j] = IF j <= Len(old) THEN old[j] ELSE read[j - Len(old)]
    BY <1>3, <1>10, ConcatProperties
  <2> QED
    BY <1>6, <1>10, <1>11, <2>1
<1>13. o + c <= n
  BY <1>3, <1>5, <1>6
<1>14. ASSUME NEW j \in 1 .. o + c PROVE new[j] = messages[r + 1][j]
  <2>1. CASE j <= o
    <3>1. j \in 1 .. o
      BY <1>6, <2>1
    <3> QED
      BY <1>4, <1>6, <1>12, <2>1, <3>1
  <2>2. CASE ~(j <= o)
    <3>1. j - o \in 1 .. c /\ j - o \in 1 .. Len(cells) /\ -(D + o) + (D + j) = j - o
      <4>1. PICK l \in Nat : l = Len(cells)
        BY <1>3
      <4>2. j - o \in 1 .. c /\ j - o \in 1 .. l /\ -(D + o) + (D + j) = j - o
        BY <1>5, <1>6, <2>2, <4>1
      <4> QED
        BY <4>1, <4>2
    <3>2. D + j \in 1 .. D + n /\ ~(D + j <= D) /\ (D + j) - D = j
      BY <1>3, <1>5, <1>6, <1>13
    <3>3. Cells(messages[r + 1]) = D + n
      BY <1>4, <1>6 DEF Cells
    <3>4. cells[j - o] = Cell(messages[r + 1], D + j)
      BY <1>8, <3>1, <3>2, <3>3
    <3>5. Cell(messages[r + 1], D + j) = messages[r + 1][j]
      BY <1>6, <3>2 DEF Cell
    <3>6. new[j] = read[j - o]
      BY <1>12, <2>2
    <3> QED
      BY <1>10, <3>1, <3>4, <3>5, <3>6
  <2> QED
    BY <2>1, <2>2
<1>15. ASSUME Len(new) = n PROVE new = messages[r + 1]
  <2>1. messages[r + 1] \in Seq(Nat)
    BY <1>3, <1>4
  <2>2. Len(new) = Len(messages[r + 1]) /\ \A j \in 1 .. Len(new) : new[j] = messages[r + 1][j]
    BY <1>4, <1>12, <1>14, <1>15
  <2> QED
    BY ONLY <1>12, <2>1, <2>2, SeqEqual
<1> QED
  BY <1>2, <1>4, <1>6, <1>12, <1>13, <1>14, <1>15

\* At the end of the stream, in the middle of a message, some of it is missing.
LEMMA EndInBody ==
  ASSUME Whole, rPc = "body", stream = <<>>
  PROVE  writeMutex # NoOne
<1> SUFFICES ASSUME writeMutex = NoOne PROVE FALSE
  OBVIOUS
<1>1. Types /\ TodoIsLast /\ HolderWrites /\ Returned /\ Layout
  BY DEF Whole
<1>2. Missing = 0
  BY <1>1, MissingIsNat
<1>3. PICK messages, r, D, o, n :
        messages = sent /\ r = Len(received) /\ D = DIGITS /\ o = Len(dst) /\ n = length
  OBVIOUS
<1>4. /\ messages \in Seq(Seq(Nat)) /\ Len(messages) \in Nat /\ r \in Nat /\ r < Len(messages)
      /\ D \in Nat /\ o \in Nat /\ n \in Nat /\ o < n /\ n = Len(messages[r + 1])
  <2>1. messages \in Seq(Seq(Nat)) /\ received \in Seq(Seq(Nat)) /\ dst \in Seq(Nat) /\ n \in Nat
    BY <1>1, <1>3 DEF Types
  <2>2. r < Len(messages) /\ o < n /\ n = Len(messages[r + 1])
    BY <1>1, <1>3 DEF Returned
  <2>3. Len(messages) \in Nat /\ r \in Nat /\ o \in Nat /\ D \in Nat
    BY <1>3, <2>1, WireAssumption
  <2> QED
    BY <2>1, <2>2, <2>3
<1>5. PICK P : Laid(P, <<>>, messages, r, -(D + o), 0)
  BY <1>1, <1>2, <1>3 DEF Layout, ReadAt
<1>6. -(D + o) + Cells(messages[r + 1]) <= Len(<<>>) + 0
  <2>1. r \in 0 .. Len(messages) /\ -(D + o) \in Int /\ <<>> \in Seq(Nat)
    BY <1>4
  <2> QED
    BY <1>4, <1>5, <2>1, LaidReads
<1>7. Cells(messages[r + 1]) = D + n
  BY <1>3, <1>4 DEF Cells
<1>8. -(D + o) + (D + n) <= 0
  <2>1. Len(<<>>) + 0 = 0
    OBVIOUS
  <2> QED
    BY <1>6, <1>7, <2>1
<1>9. D \in Nat /\ o \in Nat /\ n \in Nat /\ o < n
  BY <1>4
<1> QED
  BY <1>8, <1>9

\* A length that is read whole.
LEMMA WholeLength ==
  ASSUME Whole, ReadLength, ~cut'
  PROVE  /\ rPc = "length" /\ Len(received) < Len(sent)
         /\ DIGITS \in AtMost(DIGITS) /\ stream' = SubSeq(stream, DIGITS + 1, Len(stream))
         /\ length' = Len(sent[Len(received) + 1]) /\ length' > 0
         /\ rPc' = "body" /\ dst' = <<>>
         /\ UNCHANGED <<received, todo, next, writeMutex, sent, open>>
<1>1. PICK c, rest :
        /\ c \in AtMost(DIGITS) \cup {0}
        /\ rest \in [1 .. DIGITS - c -> Junk]
        /\ stream' = SubSeq(stream, c + 1, Len(stream))
        /\ length' = atoi(SubSeq(stream, 1, c) \o rest)
        /\ cut' = (cut \/ c < DIGITS)
  BY DEF ReadLength, Take
<1>2. /\ rPc = "length" /\ dst' = <<>> /\ UNCHANGED <<todo, next, writeMutex, sent, open>>
      /\ \/ length' < 0 /\ rPc' = "badLength" /\ UNCHANGED received
         \/ length' = 0 /\ rPc' = "length" /\ received' = Append(received, <<>>)
         \/ length' > 0 /\ rPc' = "body" /\ UNCHANGED received
  BY DEF ReadLength, Return, sendVars
<1>3. Types /\ Returned /\ stream \in Seq(Nat) /\ DIGITS \in Nat \ {0}
  BY WireAssumption DEF Whole, Types
<1>4. c = DIGITS /\ c \in AtMost(DIGITS)
  <2>1. ~(c < DIGITS)
    BY <1>1
  <2>2. c # 0
    BY <1>3, <2>1
  <2>3. c \in AtMost(DIGITS)
    BY <1>1, <2>2
  <2>4. c \in Nat /\ c <= DIGITS
    BY <1>3, <2>3, ReadBrings
  <2> QED
    BY <1>3, <2>1, <2>3, <2>4
<1>5. SubSeq(stream, 1, c) \o rest = SubSeq(stream, 1, c)
  <2>1. c \in 0 .. Len(stream)
    <3>1. c \in 1 .. Len(stream)
      BY <1>3, <1>4, ReadBrings
    <3> QED
      BY <3>1
  <2>2. SubSeq(stream, 1, c) \in Seq(Nat)
    BY <1>3, <2>1, Taken
  <2>3. DIGITS - c = 0
    BY <1>3, <1>4
  <2>4. rest = <<>>
    BY <1>1, <2>3
  <2> QED
    BY <2>2, <2>4
<1>6. Len(received) < Len(sent) /\ atoi(SubSeq(stream, 1, c)) = Len(sent[Len(received) + 1])
  BY <1>2, <1>4, LengthIsRead
<1>7. PICK s, r : s = sent /\ r = Len(received)
  OBVIOUS
<1>8. Len(s[r + 1]) > 0
  <2>1. s \in Seq(Seq(Nat)) /\ received \in Seq(Seq(Nat))
    BY <1>3, <1>7 DEF Types
  <2>2. r \in Nat /\ Len(s) \in Nat
    BY <1>7, <2>1
  <2>3. r + 1 \in 1 .. Len(s)
    BY <1>6, <1>7, <2>2
  <2>4. s[r + 1] \in AllMessages
    BY <1>3, <1>7, <2>3 DEF Returned
  <2> QED
    BY <2>4, MessagesFit
<1>9. length' = Len(s[r + 1])
  BY <1>1, <1>5, <1>6, <1>7
<1>10. length' > 0 /\ ~(length' < 0) /\ length' # 0
  <2>1. s[r + 1] \in Seq(Nat) \/ Len(s[r + 1]) \in Int \/ TRUE
    OBVIOUS
  <2> QED
    BY <1>8, <1>9
<1> QED
  BY <1>1, <1>2, <1>4, <1>6, <1>7, <1>9, <1>10

LEMMA NextKeepsReturned == Whole /\ [Next]_vars /\ ~cut' => Returned'
<1> SUFFICES ASSUME Whole, [Next]_vars, ~cut' PROVE Returned'
  OBVIOUS
<1>1. Types /\ TodoIsLast /\ HolderWrites /\ Returned
  BY DEF Whole
<1>2. PICK s, r : s = sent /\ r = received
  OBVIOUS
<1>3. /\ s \in Seq(Seq(Nat)) /\ r \in Seq(Seq(Nat)) /\ Len(s) \in Nat /\ Len(r) \in Nat /\ Len(r) <= Len(s)
  <2>1. s \in Seq(Seq(Nat)) /\ r \in Seq(Seq(Nat)) /\ Len(r) <= Len(s)
    BY <1>1, <1>2 DEF Types, Returned
  <2> QED
    BY <2>1
<1>4. ASSUME NEW t \in Senders, WriteLength(t) PROVE Returned'
  <2>1. /\ Sending(t) /\ writeMutex' = t /\ sent' = Append(sent, Body(Current(t)))
        /\ UNCHANGED <<open, rPc, length, dst, received>>
    BY <1>4 DEF WriteLength, recvVars
  <2>2. PICK b, new : b = Body(Current(t)) /\ new = sent'
    OBVIOUS
  <2>3. open /\ b \in AllMessages /\ b \in Seq(Nat) /\ new = Append(s, b)
    BY <1>1, <1>2, <2>1, <2>2, WriteIndex, SenderFacts
  <2>4. Len(new) = Len(s) + 1 /\ new[Len(s) + 1] = b /\ \A k \in 1 .. Len(s) : new[k] = s[k]
    BY <1>3, <2>3, AppendProperties
  <2>5. \A k \in 1 .. Len(new) : new[k] \in AllMessages
    <3> SUFFICES ASSUME NEW k \in 1 .. Len(new) PROVE new[k] \in AllMessages
      OBVIOUS
    <3>1. k = Len(s) + 1 \/ k \in 1 .. Len(s)
      BY <1>3, <2>4
    <3> QED
      BY <1>1, <1>2, <2>3, <2>4, <3>1 DEF Returned
  <2>6. Len(r) <= Len(new) /\ \A k \in 1 .. Len(r) : k \in 1 .. Len(s) /\ r[k] = new[k]
    <3>1. \A k \in 1 .. Len(r) : k \in 1 .. Len(s)
      BY <1>3
    <3>2. \A k \in 1 .. Len(r) : r[k] = s[k]
      BY <1>1, <1>2 DEF Returned
    <3>3. Len(r) <= Len(new)
      BY <1>3, <2>4
    <3> QED
      BY <2>4, <3>1, <3>2, <3>3
  <2>7. Len(r) < Len(s) => Len(r) < Len(new) /\ new[Len(r) + 1] = s[Len(r) + 1]
    <3> SUFFICES ASSUME Len(r) < Len(s) PROVE Len(r) < Len(new) /\ new[Len(r) + 1] = s[Len(r) + 1]
      OBVIOUS
    <3>1. Len(r) + 1 \in 1 .. Len(s) /\ Len(r) < Len(s) + 1
      BY <1>3
    <3> QED
      BY <2>4, <3>1
  <2> QED
    BY <1>1, <1>2, <2>1, <2>2, <2>3, <2>5, <2>6, <2>7 DEF Returned
<1>5. ASSUME NEW t \in Senders, WriteMore(t) PROVE Returned'
  BY <1>1, <1>5 DEF WriteMore, recvVars, Returned
<1>6. ASSUME NEW t \in Senders, WriteLast(t) PROVE Returned'
  <2>1. open /\ UNCHANGED <<sent, open, cut, rPc, length, dst, received>>
    BY <1>6 DEF WriteLast, Sending, recvVars
  <2> QED
    BY <1>1, <2>1 DEF Returned
<1>7. CASE Exit
  BY <1>1, <1>7 DEF Exit, sendVars, recvVars, Returned
<1>8. CASE ReadLength
  <2>1. /\ Len(r) < Len(s) /\ length' = Len(s[Len(r) + 1]) /\ length' > 0 /\ rPc' = "body"
        /\ dst' = <<>> /\ UNCHANGED <<received, sent, writeMutex, open>>
    BY <1>2, <1>8, WholeLength
  <2>2. Len(dst') = 0 /\ \A j \in 1 .. Len(dst') : FALSE
    BY <2>1
  <2> QED
    BY <1>1, <1>2, <2>1, <2>2 DEF Returned
<1>9. CASE ReadBody
  <2>1. PICK c \in AtMost(length - Len(dst)) : dst' = dst \o SubSeq(stream, 1, c)
    BY <1>9 DEF ReadBody
  <2>2. /\ rPc = "body"
        /\ IF Len(dst') < length THEN UNCHANGED <<rPc, received>>
           ELSE rPc' = "length" /\ received' = Append(received, dst')
        /\ UNCHANGED <<length, sent, writeMutex, open>>
    BY <1>9 DEF ReadBody, Return, sendVars
  <2>3. PICK d : d = dst'
    OBVIOUS
  <2>4. /\ Len(r) < Len(s) /\ length = Len(s[Len(r) + 1])
        /\ d \in Seq(Nat) /\ Len(d) <= length
        /\ \A j \in 1 .. Len(d) : d[j] = s[Len(r) + 1][j]
        /\ Len(d) = length => d = s[Len(r) + 1]
    <3>1. rPc = "body" /\ d = dst \o SubSeq(stream, 1, c)
      BY <2>1, <2>2, <2>3
    <3>2. /\ Len(received) < Len(sent) /\ length = Len(sent[Len(received) + 1])
          /\ d \in Seq(Nat) /\ Len(d) <= length
      BY <3>1, BodyIsRead
    <3>3. \A j \in 1 .. Len(d) : d[j] = sent[Len(received) + 1][j]
      BY <3>1, BodyIsRead
    <3>4. Len(d) = length => d = sent[Len(received) + 1]
      BY <3>1, BodyIsRead
    <3> QED
      BY <1>2, <3>2, <3>3, <3>4
  <2>5. CASE Len(d) < length
    BY <1>1, <1>2, <2>2, <2>3, <2>4, <2>5 DEF Returned
  <2>6. CASE ~(Len(d) < length)
    <3>1. d = s[Len(r) + 1]
      <4>1. Len(d) \in Nat /\ length \in Nat
        BY <1>1, <2>2, <2>4 DEF Types
      <4> QED
        BY <2>4, <2>6, <4>1
    <3>2. PICK new : new = received'
      OBVIOUS
    <3>3. new = Append(r, d) /\ rPc' = "length"
      BY <1>2, <2>2, <2>3, <2>6, <3>2
    <3>4. Len(new) = Len(r) + 1 /\ new[Len(r) + 1] = d /\ \A k \in 1 .. Len(r) : new[k] = r[k]
      BY <1>3, <2>4, <3>3, AppendProperties
    <3>5. Len(new) <= Len(s)
      BY <1>3, <2>4, <3>4
    <3>6. \A k \in 1 .. Len(new) : new[k] = s[k]
      <4> SUFFICES ASSUME NEW k \in 1 .. Len(new) PROVE new[k] = s[k]
        OBVIOUS
      <4>1. k = Len(r) + 1 \/ k \in 1 .. Len(r)
        BY <1>3, <3>4
      <4>2. k \in 1 .. Len(r) => r[k] = s[k]
        BY <1>1, <1>2 DEF Returned
      <4> QED
        BY <3>1, <3>4, <4>1, <4>2
    <3> QED
      BY <1>1, <1>2, <2>2, <3>2, <3>3, <3>5, <3>6 DEF Returned
  <2> QED
    BY <2>5, <2>6
<1>10. CASE Spin
  <2>1. /\ ~open /\ stream = <<>> /\ rPc = "body" /\ rPc' = "spin"
        /\ UNCHANGED <<length, dst, received, sent, writeMutex, open>>
    BY <1>10 DEF Spin, EndOfFile, sendVars
  <2>2. writeMutex # NoOne
    BY <2>1, EndInBody
  <2> QED
    BY <1>1, <2>1, <2>2 DEF Returned
<1>11. CASE UNCHANGED vars
  BY <1>1, <1>11 DEF vars, sendVars, recvVars, Returned
<1> QED
  BY <1>4, <1>5, <1>6, <1>7, <1>8, <1>9, <1>10, <1>11 DEF Next, Recv, Send

LEMMA NextKeepsLayout == Whole /\ [Next]_vars /\ ~cut' => Layout'
<1> SUFFICES ASSUME Whole, [Next]_vars, ~cut', rPc' \in {"length", "body"}
             PROVE  \E P : Laid(P, stream', sent', Len(received'), ReadAt', Missing')
  BY DEF Layout
<1>1. Types /\ TodoIsLast /\ HolderWrites /\ Returned /\ Layout
  BY DEF Whole
<1>2. PICK cells, messages, r, at, missing :
        /\ cells = stream /\ messages = sent /\ r = Len(received) /\ at = ReadAt /\ missing = Missing
  OBVIOUS
<1>3. /\ cells \in Seq(Nat) /\ messages \in Seq(Seq(Nat)) /\ Len(messages) \in Nat
      /\ r \in Nat /\ r \in 0 .. Len(messages) /\ at \in Int /\ missing \in Nat
  <2>1. /\ cells \in Seq(Nat) /\ messages \in Seq(Seq(Nat)) /\ received \in Seq(Seq(Nat))
        /\ dst \in Seq(Nat) /\ r <= Len(messages)
    BY <1>1, <1>2 DEF Types, Returned
  <2>2. missing \in Nat
    BY <1>1, <1>2, MissingIsNat
  <2>3. r \in Nat /\ Len(messages) \in Nat /\ Len(dst) \in Nat
    BY <1>2, <2>1
  <2>4. at \in Int
    BY <1>2, <2>3, WireAssumption DEF ReadAt
  <2> QED
    BY <2>1, <2>2, <2>3, <2>4
<1>4. rPc \in {"length", "body"} => \E P : Laid(P, cells, messages, r, at, missing)
  BY <1>1, <1>2 DEF Layout
<1>5. NoOne \notin Senders
  BY WireAssumption
<1>6. ASSUME NEW s \in Senders, WriteLength(s)
      PROVE  \E P : Laid(P, stream', sent', Len(received'), ReadAt', Missing')
  <2>1. /\ Sending(s) /\ next[s] = 1 /\ writeMutex = NoOne /\ writeMutex' = s
        /\ stream' = stream \o Writes(Current(s))[next[s]]
        /\ next' = [next EXCEPT ![s] = 2] /\ sent' = Append(sent, Body(Current(s)))
        /\ UNCHANGED <<todo, rPc, dst, received>>
    BY <1>6 DEF WriteLength, Write, recvVars
  <2>2. PICK m \in Message : m = Current(s) /\ 1 \in 1 .. Len(Writes(m))
    BY <1>1, <2>1, WriteIndex, SenderFacts
  <2>3. PICK b \in Seq(Nat) : b = Body(m)
    BY MessageBody
  <2>4. PICK P : Laid(P, cells, messages, r, at, 0)
    <3>1. missing = 0
      BY <1>1, <1>2, <2>1, MissingIsNat
    <3> QED
      BY <1>4, <2>1, <3>1
  <2>5. PICK Q : Laid(Q, cells, Append(messages, b), r, at, Cells(b))
    BY <1>3, <2>4, LaidBegin
  <2>6. PICK new : new = Append(messages, b)
    OBVIOUS
  <2>7. new \in Seq(Seq(Nat)) /\ new # <<>> /\ Len(new) = Len(messages) + 1 /\ new[Len(messages) + 1] = b
    <3>1. messages \in Seq(Seq(Nat))
      BY <1>3
    <3>2. Append(messages, b) \in Seq(Seq(Nat)) /\ Append(messages, b) # <<>>
      BY ONLY <3>1, b \in Seq(Nat), AppendProperties
    <3>3. Len(Append(messages, b)) = Len(messages) + 1 /\ Append(messages, b)[Len(messages) + 1] = b
      BY ONLY <3>1, b \in Seq(Nat), AppendProperties
    <3> QED
      BY <2>6, <3>2, <3>3
  <2>8. r \in 0 .. Len(new) /\ new[Len(new)] = Body(m)
    BY <1>3, <2>3, <2>7
  <2>9. Laid(Q, cells, new, r, at, Cells(Body(m)) - Written(m, 1))
    <3>1. Len(b) \in Nat /\ DIGITS \in Nat
      BY WireAssumption
    <3>2. Cells(b) \in Nat
      BY <3>1 DEF Cells
    <3>3. Cells(b) - 0 = Cells(b)
      BY <3>2
    <3>4. Written(m, 1) = 0
      BY DEF Written
    <3> QED
      BY <2>3, <2>5, <2>6, <3>3, <3>4
  <2>10. Laid(Q, cells \o Writes(m)[1], new, r, at, Cells(Body(m)) - Written(m, 1 + 1))
    BY <1>3, <2>2, <2>7, <2>8, <2>9, LaidWrite
  <2>11. stream' = cells \o Writes(m)[1] /\ sent' = new /\ Len(received') = r
    BY <1>2, <2>1, <2>2, <2>3, <2>6
  <2>12. ReadAt' = at
    BY <1>2, <2>1 DEF ReadAt
  <2>13. Missing' = Cells(Body(m)) - Written(m, 1 + 1)
    <3>1. writeMutex' # NoOne /\ next'[s] = 1 + 1 /\ todo'[s] = todo[s]
      BY <1>1, <1>5, <2>1 DEF Types
    <3> QED
      BY <2>1, <2>2, <3>1 DEF Missing, Current
  <2> QED
    BY <2>10, <2>11, <2>12, <2>13
<1>7. ASSUME NEW s \in Senders, WriteMore(s) \/ WriteLast(s)
      PROVE  \E P : Laid(P, stream', sent', Len(received'), ReadAt', Missing')
  <2>1. /\ Sending(s) /\ stream' = stream \o Writes(Current(s))[next[s]]
        /\ UNCHANGED <<sent, rPc, dst, received>>
    BY <1>7 DEF WriteMore, WriteLast, Write, recvVars
  <2>2. writeMutex = s /\ next[s] \in 2 .. Len(Writes(Current(s)))
    BY <1>1, <1>7, WriterHolds
  <2>3. todo[s] # <<>> /\ sent # <<>> /\ sent[Len(sent)] = Body(Current(s))
    BY <1>1, <2>2 DEF HolderWrites
  <2>4. PICK m \in Message : m = Current(s)
    BY <1>1, <2>3, SenderFacts
  <2>5. PICK i \in 1 .. Len(Writes(m)) : i = next[s]
    <3>1. Len(Writes(m)) \in Nat
      BY MessageWrites, MessageBody
    <3> QED
      BY <2>2, <2>4, <3>1
  <2>6. PICK P : Laid(P, cells, messages, r, at, Cells(Body(m)) - Written(m, i))
    <3>1. missing = Cells(Body(m)) - Written(m, i)
      BY <1>2, <1>5, <2>2, <2>4, <2>5 DEF Missing
    <3> QED
      BY <1>4, <2>1, <3>1
  <2>7. Laid(P, cells \o Writes(m)[i], messages, r, at, Cells(Body(m)) - Written(m, i + 1))
    BY <1>2, <1>3, <2>3, <2>4, <2>6, LaidWrite
  <2>8. stream' = cells \o Writes(m)[i] /\ sent' = messages /\ Len(received') = r
    BY <1>2, <2>1, <2>4, <2>5
  <2>9. ReadAt' = at
    BY <1>2, <2>1 DEF ReadAt
  <2>10. Missing' = Cells(Body(m)) - Written(m, i + 1)
    <3>1. CASE WriteMore(s)
      <4>1. writeMutex' = s /\ todo' = todo /\ next' = [next EXCEPT ![s] = @ + 1]
        BY <2>2, <3>1 DEF WriteMore
      <4>2. next'[s] = i + 1 /\ writeMutex' # NoOne
        BY <1>1, <1>5, <2>5, <4>1 DEF Types
      <4> QED
        BY <2>4, <4>1, <4>2 DEF Missing, Current
    <3>2. CASE WriteLast(s)
      <4>1. writeMutex' = NoOne /\ i = Len(Writes(m))
        BY <2>4, <2>5, <3>2 DEF WriteLast
      <4>2. Written(m, i + 1) = Cells(Body(m))
        BY <4>1, WritesAreCells
      <4>3. Cells(Body(m)) \in Nat
        <5>1. Len(Body(m)) \in Nat /\ DIGITS \in Nat
          BY MessageBody, LenProperties, WireAssumption
        <5> QED
          BY <5>1 DEF Cells
      <4>4. Cells(Body(m)) - Cells(Body(m)) = 0
        BY <4>3
      <4> QED
        BY <4>1, <4>2, <4>4 DEF Missing
    <3> QED
      BY <1>7, <3>1, <3>2
  <2> QED
    BY <2>7, <2>8, <2>9, <2>10
<1>8. CASE Exit \/ UNCHANGED vars
  <2>1. UNCHANGED <<todo, next, writeMutex, sent, stream, rPc, dst, received>>
    BY <1>8 DEF Exit, vars, sendVars, recvVars
  <2>2. ReadAt' = at /\ Missing' = missing
    BY <1>2, <2>1 DEF ReadAt, Missing, Current
  <2> QED
    BY <1>2, <1>4, <2>1, <2>2
<1>9. ASSUME UNCHANGED <<todo, next, writeMutex>> PROVE Missing' = missing
  BY <1>2, <1>9 DEF Missing, Current
<1>10. CASE ReadLength
  <2>1. PICK c : c = DIGITS
    OBVIOUS
  <2>2. /\ rPc = "length" /\ c \in AtMost(DIGITS) /\ stream' = SubSeq(stream, c + 1, Len(stream))
        /\ rPc' = "body" /\ dst' = <<>> /\ UNCHANGED <<received, todo, next, writeMutex, sent>>
    BY <1>10, <2>1, WholeLength
  <2>3. c \in Nat /\ c \in 1 .. Len(cells)
    BY <1>1, <1>2, <2>2, WireAssumption, ReadBrings
  <2>4. at = 0
    BY <1>2, <2>2 DEF ReadAt
  <2>5. PICK P : Laid(P, cells, messages, r, at, missing)
    BY <1>4, <2>2
  <2>6. \E Q : Laid(Q, SubSeq(cells, c + 1, Len(cells)), messages, r, at - c, missing)
    BY <1>3, <2>3, <2>5, LaidTake
  <2>7. ReadAt' = at - c
    <3>1. Len(dst') = 0
      BY <2>2
    <3>2. -(c + 0) = 0 - c
      BY <2>3
    <3> QED
      BY <2>1, <2>2, <2>4, <3>1, <3>2 DEF ReadAt
  <2>8. Missing' = missing
    BY <1>9, <2>2
  <2> QED
    BY <1>2, <2>2, <2>6, <2>7, <2>8
<1>11. CASE ReadBody
  <2>1. PICK c \in AtMost(length - Len(dst)) :
          /\ stream' = SubSeq(stream, c + 1, Len(stream))
          /\ dst' = dst \o SubSeq(stream, 1, c)
    BY <1>11 DEF ReadBody, Take
  <2>2. /\ rPc = "body"
        /\ IF Len(dst') < length THEN UNCHANGED <<rPc, received>>
           ELSE rPc' = "length" /\ received' = Append(received, dst')
        /\ UNCHANGED <<todo, next, writeMutex, sent>>
    BY <1>11 DEF ReadBody, Return, sendVars
  <2>3. PICK d, D, o, n : d = dst' /\ D = DIGITS /\ o = Len(dst) /\ n = length
    OBVIOUS
  <2>4. D \in Nat /\ o \in Nat /\ n \in Nat /\ at = -(D + o)
    BY <1>1, <1>2, <2>2, <2>3, WireAssumption DEF Types, ReadAt
  <2>5. c \in Nat /\ c \in 1 .. Len(cells)
    <3>1. length - Len(dst) \in Int
      BY <2>3, <2>4
    <3> QED
      BY <1>1, <1>2, <3>1, ReadBrings
  <2>6. /\ r < Len(messages) /\ n = Len(messages[r + 1])
        /\ d \in Seq(Nat) /\ Len(d) = o + c /\ Len(d) <= n
    BY <1>2, <2>1, <2>2, <2>3, BodyIsRead
  <2>7. PICK P : Laid(P, cells, messages, r, at, missing)
    BY <1>4, <2>2
  <2>8. PICK Q : Laid(Q, SubSeq(cells, c + 1, Len(cells)), messages, r, at - c, missing)
    BY <1>3, <2>5, <2>7, LaidTake
  <2>9. Missing' = missing
    BY <1>9, <2>2
  <2>10. CASE Len(d) < n
    <3>1. ReadAt' = at - c
      <4>1. -(D + (o + c)) = -(D + o) - c
        BY <2>4, <2>5
      <4>2. rPc' = "body" /\ Len(d) = o + c
        BY <2>2, <2>3, <2>6, <2>10
      <4> QED
        BY <2>3, <2>4, <4>1, <4>2 DEF ReadAt
    <3> QED
      BY <1>2, <2>1, <2>2, <2>3, <2>8, <2>9, <2>10, <3>1
  <2>11. CASE ~(Len(d) < n)
    <3>1. rPc' = "length" /\ received' = Append(received, d)
      BY <2>2, <2>3, <2>11
    <3>2. Len(received') = r + 1
      <4>1. PICK old : old = received
        OBVIOUS
      <4>2. old \in Seq(Seq(Nat))
        BY <1>1, <4>1 DEF Types
      <4>3. Len(Append(old, d)) = Len(old) + 1
        BY <2>6, <4>2, AppendProperties
      <4> QED
        BY <1>2, <3>1, <4>1, <4>3
    <3>3. o + c = n
      <4>1. o + c <= n /\ ~(o + c < n)
        BY <2>6, <2>11
      <4> QED
        BY <2>4, <2>5, <4>1
    <3>4. (at - c) + Cells(messages[r + 1]) = 0
      <4>1. Cells(messages[r + 1]) = D + n
        BY <2>3, <2>6 DEF Cells
      <4>2. (-(D + o) - c) + (D + n) = 0
        BY <2>4, <2>5, <3>3
      <4> QED
        BY <2>4, <4>1, <4>2
    <3>5. PICK rest : rest = SubSeq(cells, c + 1, Len(cells))
      OBVIOUS
    <3>6. Laid(Q, rest, messages, r, at - c, missing) /\ at - c \in Int
      BY <1>3, <2>5, <2>8, <3>5
    <3>7. Laid(Q, rest, messages, r + 1, (at - c) + Cells(messages[r + 1]), missing)
      BY <1>3, <2>6, <3>6, LaidAdvance
    <3>8. ReadAt' = 0
      BY <3>1 DEF ReadAt
    <3> QED
      BY <1>2, <2>1, <2>2, <2>9, <3>2, <3>4, <3>5, <3>7, <3>8
  <2> QED
    BY <2>10, <2>11
<1>12. ~Spin
  <2>1. ~(rPc' = "spin")
    OBVIOUS
  <2> QED
    BY <2>1 DEF Spin
<1> QED
  BY <1>6, <1>7, <1>8, <1>10, <1>11, <1>12 DEF Next, Recv, Send

LEMMA CutStays == [Next]_vars /\ cut => cut'
<1> SUFFICES ASSUME [Next]_vars, cut PROVE cut'
  OBVIOUS
<1>1. ReadLength => cut'
  BY DEF ReadLength
<1>2. ASSUME NEW s \in Senders, WriteLength(s) \/ WriteMore(s) \/ WriteLast(s)
      PROVE  cut' = cut
  BY <1>2 DEF WriteLength, WriteMore, WriteLast, recvVars
<1>3. Exit \/ ReadBody \/ Spin \/ UNCHANGED vars => cut' = cut
  BY DEF Exit, ReadBody, Spin, vars, recvVars
<1> QED
  BY <1>1, <1>2, <1>3 DEF Next, Recv, Send

LEMMA Invariance == Spec => []IInv
<1>1. Init => IInv
  BY InitIsGood
<1>2. IInv /\ [Next]_vars => IInv'
  <2> SUFFICES ASSUME IInv, [Next]_vars PROVE IInv'
    OBVIOUS
  <2>1. Types /\ TodoIsLast /\ HolderWrites
    BY DEF IInv
  <2>2. Types' /\ TodoIsLast'
    BY <2>1, NextKeepsTypes, NextKeepsTodo
  <2>3. HolderWrites'
    BY <2>1, NextKeepsHolder
  <2>4. ASSUME ~cut' PROVE Returned' /\ Layout'
    <3>1. ~cut
      BY <2>4, CutStays
    <3>2. Whole
      BY <3>1 DEF IInv, Whole
    <3> QED
      BY <2>4, <3>2, NextKeepsReturned, NextKeepsLayout
  <2> QED
    BY <2>2, <2>3, <2>4 DEF IInv
<1> QED
  BY <1>1, <1>2, PTL DEF Spec

-----------------------------------------------------------------------------
\* The theorems

LEMMA LastOnesAreSuffix ==
  ASSUME NEW s \in Seq(Message), NEW t \in Seq(Message), Len(s) <= Len(t),
         \A k \in 1 .. Len(s) : s[k] = t[Len(t) - Len(s) + k]
  PROVE  IsSuffix(s, t)
<1>1. PICK l \in Nat, n \in Nat : l = Len(s) /\ n = Len(t) /\ l <= n
  OBVIOUS
<1>2. PICK p, q : p = Reverse(s) /\ q = Reverse(t)
  OBVIOUS
<1>3. p = [i \in 1 .. l |-> s[(l - i) + 1]] /\ q = [i \in 1 .. n |-> t[(n - i) + 1]]
  BY <1>1, <1>2 DEF Reverse
<1>4. \A i \in 1 .. l : (l - i) + 1 \in 1 .. l
  BY <1>1
<1>5. \A i \in 1 .. n : (n - i) + 1 \in 1 .. n
  BY <1>1
<1>6. (\A i \in 1 .. l : s[(l - i) + 1] \in Message) /\ (\A i \in 1 .. n : t[(n - i) + 1] \in Message)
  BY <1>1, <1>4, <1>5
<1>7. p \in Seq(Message) /\ Len(p) = l /\ q \in Seq(Message) /\ Len(q) = n
  BY <1>1, <1>3, <1>6
<1>8. ASSUME NEW i \in 1 .. l PROVE p[i] = q[i]
  <2>1. (l - i) + 1 \in 1 .. l /\ n - l + ((l - i) + 1) = (n - i) + 1 /\ i \in 1 .. n
    BY <1>1
  <2>2. s[(l - i) + 1] = t[n - l + ((l - i) + 1)]
    BY <1>1, <2>1
  <2> QED
    BY <1>3, <2>1, <2>2
<1>9. SubSeq(p, 1, l) = SubSeq(q, 1, l)
  <2>1. (\A i \in 1 .. l : p[i] \in Message) /\ (\A i \in 1 .. l : q[i] \in Message)
    BY <1>1, <1>7, <1>8
  <2>2. l - 1 + 1 = l /\ (IF 1 <= l THEN l - 1 + 1 ELSE 0) = l /\ \A i \in 1 .. l : 1 + i - 1 = i
    BY <1>1
  <2>3. /\ SubSeq(p, 1, l) \in Seq(Message) /\ Len(SubSeq(p, 1, l)) = l
        /\ \A i \in 1 .. l : SubSeq(p, 1, l)[i] = p[i]
    BY <2>1, <2>2, SubSeqProperties
  <2>4. /\ SubSeq(q, 1, l) \in Seq(Message) /\ Len(SubSeq(q, 1, l)) = l
        /\ \A i \in 1 .. l : SubSeq(q, 1, l)[i] = q[i]
    BY <2>1, <2>2, SubSeqProperties
  <2>5. PICK a, b : a = SubSeq(p, 1, l) /\ b = SubSeq(q, 1, l)
    OBVIOUS
  <2>6. a \in Seq(Message) /\ b \in Seq(Message) /\ Len(a) = Len(b) /\ \A i \in 1 .. Len(a) : a[i] = b[i]
    BY <1>8, <2>3, <2>4, <2>5
  <2>7. a = b
    BY ONLY <2>6, SeqEqual
  <2> QED
    BY <2>5, <2>7
<1>10. IsPrefix(p, q)
  BY <1>1, <1>7, <1>9 DEF IsPrefix
<1> QED
  BY <1>2, <1>10 DEF IsSuffix

LEMMA ExtendedIsPrefix ==
  ASSUME NEW old \in Seq(Seq(Nat)), NEW new \in Seq(Seq(Nat)), NEW message,
         new = old \/ new = Append(old, message)
  PROVE  IsPrefix(old, new)
<1>1. PICK l \in Nat : l = Len(old)
  OBVIOUS
<1>2. Len(old) <= Len(new) /\ \A j \in 1 .. l : new[j] = old[j]
  <2>1. CASE new = old
    BY <1>1, <2>1
  <2>2. CASE new = Append(old, message)
    BY <1>1, <2>2
  <2> QED
    BY <2>1, <2>2
<1>3. SubSeq(old, 1, l) = SubSeq(new, 1, l)
  BY <1>1, <1>2
<1> QED
  BY <1>1, <1>2, <1>3 DEF IsPrefix

\* Types are right: what a sender has left is the end of what it had, Recv holds less of
\* a message than its length and, while no length is cut, returns messages that were sent.
THEOREM TypeCorrect == Spec => []TypeOK
<1>1. IInv => TypeOK
  <2> SUFFICES ASSUME IInv PROVE TypeOK
    OBVIOUS
  <2>1. Types /\ TodoIsLast /\ (~cut => Returned)
    BY DEF IInv
  <2>2. ASSUME NEW s \in Senders PROVE IsSuffix(todo[s], ToSend[s])
    <3>1. todo[s] \in Seq(Message) /\ ToSend[s] \in Seq(Message)
      BY <2>1, WireAssumption DEF Types
    <3> QED
      BY <2>1, <3>1, LastOnesAreSuffix DEF TodoIsLast
  <2>3. ASSUME ~cut, NEW k \in DOMAIN received PROVE received[k] \in AllMessages
    <3>1. received \in Seq(Seq(Nat)) /\ sent \in Seq(Seq(Nat))
      BY <2>1 DEF Types
    <3>2. k \in 1 .. Len(received) /\ Len(received) \in Nat /\ Len(sent) \in Nat
      BY <3>1
    <3>3. Len(received) <= Len(sent) /\ received[k] = sent[k]
      BY <2>1, <2>3, <3>2 DEF Returned
    <3>4. k \in 1 .. Len(sent)
      BY <3>2, <3>3
    <3> QED
      BY <2>1, <2>3, <3>3, <3>4 DEF Returned
  <2> QED
    BY <2>1, <2>2, <2>3 DEF Types, TypeOK
<1> QED
  BY <1>1, Invariance, PTL

\* Recv's loop on the rest of a message goes on for ever only when the sending process
\* ended between the writes of that message, or when a length was cut before.
THEOREM SpinsOnlyOnTruncated == Spec => []SpinsOnTruncated
<1>1. IInv => SpinsOnTruncated
  BY DEF IInv, Returned, SpinsOnTruncated
<1> QED
  BY <1>1, Invariance, PTL

\* Connection implements a queue of whole messages, whatever the senders, their messages
\* and the cuts of the stream, until a length is cut: from then on all that is promised is
\* that what Recv has returned stays.
THEOREM ImplementsMessageQueue == Spec => ImplementsQueue
<1>1. Init => Queue!Init
  BY DEF Init, Queue!Init
<1>2. IInv /\ [Next]_vars => [Queue!Next]_<<sent, received, cut>>
  <2> SUFFICES ASSUME IInv, [Next]_vars PROVE [Queue!Next]_<<sent, received, cut>>
    OBVIOUS
  <2>1. Types /\ TodoIsLast /\ received \in Seq(Seq(Nat))
    BY DEF IInv, Types
  <2>2. ASSUME NEW s \in Senders, WriteLength(s) PROVE Queue!Next
    <3>1. Sending(s) /\ sent' = Append(sent, Body(Current(s))) /\ UNCHANGED <<received, cut>>
      BY <2>2 DEF WriteLength, recvVars
    <3>2. Body(Current(s)) \in AllMessages
      BY <2>1, <3>1, WriteIndex, SenderFacts
    <3>3. Queue!SendMessage(Body(Current(s)))
      BY <3>1 DEF Queue!SendMessage
    <3> QED
      BY <3>2, <3>3 DEF Queue!Next
  <2>3. ASSUME NEW s \in Senders, WriteMore(s) \/ WriteLast(s)
        PROVE  UNCHANGED <<sent, received, cut>>
    BY <2>3 DEF WriteMore, WriteLast, recvVars
  <2>4. Exit \/ Spin \/ UNCHANGED vars => UNCHANGED <<sent, received, cut>>
    BY DEF Exit, Spin, vars, sendVars, recvVars
  <2>5. ASSUME ReadLength, ~cut' PROVE UNCHANGED <<sent, received, cut>>
    <3>1. ~cut
      BY <2>5, CutStays
    <3>2. Whole
      BY <3>1 DEF IInv, Whole
    <3>3. cut \in BOOLEAN /\ cut' \in BOOLEAN
      BY <2>1, NextKeepsTypes DEF Types
    <3> QED
      BY <2>5, <3>1, <3>2, <3>3, WholeLength
  <2>6. ASSUME ReadLength \/ ReadBody, cut' PROVE Queue!Next
    <3>1. PICK old, new, message : /\ old = received /\ new = received'
                                   /\ new = old \/ new = Append(old, message)
      BY <2>6 DEF ReadLength, ReadBody, Return
    <3>2. IsPrefix(old, new)
      <4>1. Types'
        BY <2>1, NextKeepsTypes
      <4>2. old \in Seq(Seq(Nat)) /\ new \in Seq(Seq(Nat))
        BY <2>1, <3>1, <4>1 DEF Types
      <4> QED
        BY <3>1, <4>2, ExtendedIsPrefix
    <3>3. sent' = sent /\ cut' = TRUE
      <4>1. sent' = sent
        BY <2>6 DEF ReadLength, ReadBody, sendVars
      <4>2. Types'
        BY <2>1, NextKeepsTypes
      <4> QED
        BY <2>6, <4>1, <4>2 DEF Types
    <3>4. IsPrefix(received, received')
      BY <3>1, <3>2
    <3>5. Queue!Break
      BY <3>3, <3>4 DEF Queue!Break, Queue!IsPrefix, IsPrefix
    <3> QED
      BY <3>5 DEF Queue!Next
  <2>7. ASSUME ReadBody, ~cut' PROVE Queue!Next \/ UNCHANGED <<sent, received, cut>>
    <3>1. PICK c \in AtMost(length - Len(dst)) : dst' = dst \o SubSeq(stream, 1, c)
      BY <2>7 DEF ReadBody
    <3>2. /\ rPc = "body" /\ sent' = sent /\ cut' = cut
          /\ IF Len(dst') < length THEN UNCHANGED <<rPc, received>>
             ELSE rPc' = "length" /\ received' = Append(received, dst')
      BY <2>7 DEF ReadBody, Return, sendVars
    <3>3. Whole
      BY <2>7, <3>2 DEF IInv, Whole
    <3>4. PICK d : d = dst'
      OBVIOUS
    <3>5. /\ Len(received) < Len(sent) /\ d \in Seq(Nat) /\ Len(d) <= length
          /\ Len(d) = length => d = sent[Len(received) + 1]
      BY <3>1, <3>2, <3>3, <3>4, BodyIsRead
    <3>6. CASE Len(d) < length
      BY <3>2, <3>4, <3>6
    <3>7. CASE ~(Len(d) < length)
      <4>1. Len(d) \in Nat /\ length \in Nat
        BY <2>1, <3>2, <3>5 DEF Types
      <4>2. d = sent[Len(received) + 1]
        BY <3>5, <3>7, <4>1
      <4>3. received' = Append(received, sent[Len(received) + 1])
        BY <3>2, <3>4, <3>7, <4>2
      <4>4. Queue!Receive
        BY <2>7, <3>2, <3>5, <4>3 DEF Queue!Receive
      <4> QED
        BY <4>4 DEF Queue!Next
    <3> QED
      BY <3>6, <3>7
  <2> QED
    BY <2>2, <2>3, <2>4, <2>5, <2>6, <2>7 DEF Next, Recv, Send
<1> QED
  BY <1>1, <1>2, Invariance, PTL DEF Spec, Queue!Spec, ImplementsQueue
=============================================================================
