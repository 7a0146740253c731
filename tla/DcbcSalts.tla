------------------------------ MODULE DcbcSalts ------------------------------
(***************************************************************************)
(* Salts as values.  Every chunk has a salt that depends on its own        *)
(* contents and on the salt of the chunk before it; the first chunk uses   *)
(* the fixed initialization vector.  A salt is abstracted to the sequence  *)
(* of what it was computed from, so two salts are equal exactly when they  *)
(* combine the same contents in the same order.                            *)
(***************************************************************************)
EXTENDS Integers, Sequences

\* The NULL of a salts index entry that no one has set.
NoSalt == <<>>

\* The literal "1234567890123456".
IV == <<-1>>

\* generateSalt / combine: mixes the hash of a chunk into the previous salt.
Combine(hash, previousSalt) == Append(previousSalt, hash)

\* The salt chunk i must end up with when every chunk before it was hashed
\* from its own contents: the IV followed by the contents 0, 1, ..., i.
ReferenceSalt(i) == [k \in 1 .. i + 2 |-> k - 2]
==============================================================================
