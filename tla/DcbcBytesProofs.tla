--------------------------- MODULE DcbcBytesProofs ---------------------------
(***************************************************************************)
(* What survives the conversions of DcbcBytes, for every width of a char.  *)
(***************************************************************************)
EXTENDS DcbcBytes, TLAPS

LEMMA Division ==
  ASSUME NEW n \in Nat
  PROVE  /\ n \div CHAR \in Nat /\ n % CHAR \in 0 .. CHAR - 1
         /\ n = (n \div CHAR) * CHAR + (n % CHAR)
BY CharAssumption

LEMMA Half == CHAR \div 2 \in Nat \ {0} /\ CHAR = 2 * (CHAR \div 2)
BY CharAssumption

\* Nothing but the sign of a char is lost below CHAR.
LEMMA SmallNumbers ==
  ASSUME NEW n \in 0 .. CHAR - 1
  PROVE  n \div CHAR = 0 /\ n % CHAR = n
BY CharAssumption

LEMMA SignedCharBounds ==
  ASSUME NEW n \in Nat
  PROVE  /\ SignedChar(n) \in Int /\ SignedChar(n) < CHAR
         /\ SignedChar(n) <= n % CHAR
         /\ SignedChar(n) >= 0 => SignedChar(n) = n % CHAR
BY CharAssumption, Division, Half DEF SignedChar

LEMMA TimesMonotonic ==
  ASSUME NEW a \in Int, NEW b \in Int, a <= b
  PROVE  a * CHAR <= b * CHAR
BY CharAssumption

LEMMA FourChars ==
  /\ CHAR * CHAR * CHAR * CHAR \in Nat \ {0}
  /\ CHAR <= CHAR * CHAR * CHAR * CHAR
<1>1. \A a, b \in Nat \ {0} : a * b \in Nat \ {0} /\ b <= a * b
  OBVIOUS
<1>2. CHAR \in Nat \ {0}
  BY CharAssumption
<1> DEFINE p == CHAR * CHAR
           q == p * CHAR
<1>3. p \in Nat \ {0}
  BY <1>1, <1>2
<1> HIDE DEF p
<1>4. q \in Nat \ {0}
  BY <1>1, <1>2, <1>3
<1> HIDE DEF q
<1>5. q * CHAR \in Nat \ {0} /\ CHAR <= q * CHAR
  BY <1>1, <1>2, <1>4
<1> QED
  BY <1>5 DEF p, q

LEMMA Wraps ==
  ASSUME NEW m \in Nat \ {0}, NEW k \in Int, -m <= k, k < m
  PROVE  k % m = IF k < 0 THEN k + m ELSE k
OBVIOUS

\* The count in the salts file comes back as it was when it fits in half a char
\* (saveSalts and loadSalts, JobManager::Encrypt and Decrypt).
THEOREM CountSurvives ==
  ASSUME NEW n \in Nat, n < CHAR \div 2
  PROVE  LoadedCount(SavedCount(n)) = n /\ LoadedUnsigned(SavedCount(n)) = n
<1>1. n \in 0 .. CHAR - 1 /\ 0 \in 0 .. CHAR - 1
  BY CharAssumption, Half
<1>2. Shift(n) = 0 /\ Shift(0) = 0
  BY <1>1, SmallNumbers DEF Shift
<1>3. SignedChar(n) = n /\ SignedChar(0) = 0
  BY <1>1, SmallNumbers, Half DEF SignedChar
<1>4. SavedCount(n) = <<0, 0, 0, n>>
  BY <1>2, <1>3 DEF SavedCount
<1>5. LoadedCount(SavedCount(n)) = n
  BY <1>4, CharAssumption DEF LoadedCount, Or
<1> DEFINE m == CHAR * CHAR * CHAR * CHAR
<1>6. m \in Nat \ {0} /\ CHAR <= m
  BY FourChars
<1> HIDE DEF m
<1>7. n \in Int /\ -m <= n /\ n < m /\ ~(n < 0)
  BY <1>1, <1>6, CharAssumption
<1>8. n % m = n
  BY ONLY <1>6, <1>7, Wraps
<1> QED
  BY <1>5, <1>8 DEF LoadedUnsigned, m

\* Beyond that, and while it fits in a char, an unsigned int turns it into a huge one:
\* loadSalts reads salts past the end of its file, and index entries that do not exist.
THEOREM CountTurnsHuge ==
  ASSUME NEW n \in CHAR \div 2 .. CHAR - 1
  PROVE  LoadedUnsigned(SavedCount(n)) = (CHAR * CHAR * CHAR * CHAR - CHAR) + n
<1> DEFINE m == CHAR * CHAR * CHAR * CHAR
<1>1. n \in 0 .. CHAR - 1 /\ n \in Nat /\ ~(n < CHAR \div 2) /\ CHAR \in Nat
  BY CharAssumption, Half
<1>2. Shift(n) = 0 /\ Shift(0) = 0
  BY <1>1, CharAssumption, SmallNumbers DEF Shift
<1>3. SignedChar(n) = n - CHAR /\ n - CHAR < 0
  BY <1>1, SmallNumbers DEF SignedChar
<1>4. LoadedCount(SavedCount(n)) = n - CHAR
  BY <1>2, <1>3 DEF SavedCount, LoadedCount, Or
<1>5. m \in Nat \ {0} /\ CHAR <= m
  BY FourChars
<1> HIDE DEF m
<1>6. n - CHAR \in Int /\ -m <= n - CHAR /\ n - CHAR < m
  BY <1>1, <1>3, <1>5
<1>7. (n - CHAR) % m = (n - CHAR) + m
  BY ONLY <1>3, <1>5, <1>6, Wraps
<1>8. (n - CHAR) + m = (m - CHAR) + n
  BY <1>1, <1>5
<1> QED
  BY <1>4, <1>7, <1>8 DEF LoadedUnsigned, m

\* JobManager's int never comes back as more than it was: main takes no salt past the
\* last one.
THEOREM LoadsNoMore ==
  ASSUME NEW n \in Nat
  PROVE  LoadedCount(SavedCount(n)) \in Int /\ LoadedCount(SavedCount(n)) <= n
<1> DEFINE a == Shift(n)
           b == Shift(a)
           h2 == SignedChar(b)
           h3 == SignedChar(a)
           h4 == SignedChar(n)
           header == SavedCount(n)
<1>1. a \in Nat /\ b \in Nat
  BY Division DEF Shift
<1>2. header[2] = h2 /\ header[3] = h3 /\ header[4] = h4
  BY DEF SavedCount
<1> HIDE DEF header
<1>3. h2 \in Int /\ h3 \in Int /\ h4 \in Int /\ h4 < CHAR
  BY <1>1, SignedCharBounds
<1>4. n = a * CHAR + (n % CHAR) /\ a = b * CHAR + (a % CHAR)
  BY <1>1, Division DEF Shift
<1>5. CASE h4 < 0
  BY <1>2, <1>3, <1>5 DEF LoadedCount, Or, header
<1>6. CASE h4 >= 0 /\ h3 < 0
  <2>1. h3 <= -1
    BY <1>3, <1>6
  <2>2. h3 * CHAR <= (-1) * CHAR
    BY <2>1, <1>3, TimesMonotonic
  <2>3. LoadedCount(header) = h3 * CHAR + h4
    BY <1>2, <1>3, <1>6 DEF LoadedCount, Or
  <2> HIDE DEF h3, h4
  <2>4. h3 * CHAR \in Int
    BY <1>3, CharAssumption
  <2> QED BY <2>2, <2>3, <2>4, <1>3, CharAssumption DEF header
<1>7. CASE h4 >= 0 /\ h3 >= 0
  <2>1. h4 = n % CHAR /\ h3 = a % CHAR
    BY <1>1, <1>7, SignedCharBounds
  <2>2. h2 <= b
    <3>1. h2 <= b % CHAR /\ b % CHAR \in Nat
      BY <1>1, SignedCharBounds, Division, CharAssumption
    <3>2. b \div CHAR \in Nat /\ b = (b \div CHAR) * CHAR + (b % CHAR)
      BY <1>1, Division
    <3>3. 0 * CHAR <= (b \div CHAR) * CHAR
      BY <3>2, TimesMonotonic
    <3> HIDE DEF h2, b
    <3> DEFINE p == (b \div CHAR) * CHAR
    <3>4. p \in Int
      BY <3>2, CharAssumption
    <3>5. 0 <= p
      BY <3>3, CharAssumption
    <3> HIDE DEF p
    <3> QED BY <3>1, <3>2, <3>4, <3>5, <1>1, <1>3 DEF p
  <2>3. h2 * CHAR <= b * CHAR
    BY <2>2, <1>1, <1>3, TimesMonotonic
  <2>4. h2 * CHAR + h3 <= a
    <3> HIDE DEF h2, h3, a, b
    <3>1. h2 * CHAR \in Int /\ b * CHAR \in Int
      BY <1>1, <1>3, CharAssumption
    <3> QED BY <3>1, <2>1, <2>3, <1>1, <1>3, <1>4
  <2>5. (h2 * CHAR + h3) * CHAR <= a * CHAR
    <3>1. h2 * CHAR + h3 \in Int
      BY <1>3, CharAssumption
    <3> QED BY <3>1, <2>4, <1>1, TimesMonotonic
  <2>6. LoadedCount(header) = (h2 * CHAR + h3) * CHAR + h4
    BY <1>2, <1>3, <1>7 DEF LoadedCount, Or
  <2> HIDE DEF h2, h3, h4, a, b
  <2>7. (h2 * CHAR + h3) * CHAR \in Int /\ a * CHAR \in Int
    BY <1>1, <1>3, CharAssumption
  <2> QED BY <2>1, <2>5, <2>6, <2>7, <1>3, <1>4 DEF header
<1> QED BY <1>3, <1>5, <1>6, <1>7

\* Chunks less than CHAR apart have different ids, so their cipher files have
\* different names (WorkerManager::EncryptChunk, ChunkHandler::encrypt).
THEOREM IdsDistinct ==
  ASSUME NEW c \in Nat, NEW d \in Nat, c < d, d - c < CHAR
  PROVE  ChunkId(c) # ChunkId(d)
<1> DEFINE p == (c + 2) % CHAR
           q == (d + 2) % CHAR
           j == (c + 2) \div CHAR
           k == (d + 2) \div CHAR
<1>1. /\ j \in Nat /\ p \in 0 .. CHAR - 1 /\ c + 2 = j * CHAR + p
      /\ k \in Nat /\ q \in 0 .. CHAR - 1 /\ d + 2 = k * CHAR + q
  BY Division
<1> SUFFICES p # q
  BY <1>1, Half, CharAssumption DEF ChunkId, SignedChar
<1>2. SUFFICES ASSUME p = q PROVE FALSE
  OBVIOUS
<1> HIDE DEF p, q, j, k
<1>3. j * CHAR \in Int /\ k * CHAR \in Int
  BY <1>1, CharAssumption
<1>4. j * CHAR < k * CHAR /\ k * CHAR < j * CHAR + CHAR
  BY <1>1, <1>2, <1>3, CharAssumption
<1>5. CASE k <= j
  BY <1>1, <1>3, <1>4, <1>5, TimesMonotonic
<1>6. CASE k >= j + 1
  <2>1. (j + 1) * CHAR <= k * CHAR
    BY <1>1, <1>6, TimesMonotonic
  <2>2. (j + 1) * CHAR = j * CHAR + CHAR
    BY <1>1, CharAssumption
  <2> QED BY <2>1, <2>2, <1>1, <1>3, <1>4, CharAssumption
<1> QED BY <1>1, <1>5, <1>6
==============================================================================
