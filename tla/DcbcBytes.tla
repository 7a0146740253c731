------------------------------ MODULE DcbcBytes ------------------------------
(***************************************************************************)
(* Numbers that the programs keep in chars: the count at the head of a     *)
(* salts file and the last char of a chunk id.  A char is signed, as on    *)
(* the compilers the makefiles call.                                       *)
(***************************************************************************)
EXTENDS Integers

CONSTANT CHAR  \* how many values a char has: 256

ASSUME CharAssumption == CHAR \in Nat \ {0} /\ CHAR % 2 = 0

\* The conversion of a number to char.
SignedChar(n) == IF n % CHAR < CHAR \div 2 THEN n % CHAR ELSE (n % CHAR) - CHAR

\* Shifting right by the width of a char.
Shift(n) == n \div CHAR

\* saveSalts: the four chars of the count, the most significant one first.
SavedCount(count) == <<SignedChar(Shift(Shift(Shift(count)))), SignedChar(Shift(Shift(count))),
                       SignedChar(Shift(count)), SignedChar(count)>>

\* high << (bits of a char) | low.  A negative low has every bit above its own
\* set, and hides high.
Or(high, low) == IF low < 0 THEN low ELSE high * CHAR + low

\* Mutant: the chars are taken in the order they were written.
LoadedCountSwapped(header) == Or(Or(header[4], header[3]), header[2])

\* JobManager::Decrypt: the last three chars, in an int.
LoadedCount(header) == Or(Or(header[2], header[3]), header[4])

\* loadSalts: the same in an unsigned int, which has four chars.
LoadedUnsigned(header) == LoadedCount(header) % (CHAR * CHAR * CHAR * CHAR)

\* The last char of the id of chunk c; the cipher file is named after it.
ChunkId(c) == SignedChar(c + 2)
==============================================================================
