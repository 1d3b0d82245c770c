------------------------------ MODULE MCCodec ------------------------------
(* Numbers of all encoded sizes that matter, and an Ethereum header of 200 *)
(* bytes, with which the length of a header takes one byte or two.         *)
EXTENDS Codec

(* n bytes b at the low end of a number. *)
Number(n, b) == [i \in 1..8 |-> IF i > 8 - n THEN b ELSE 0]

(* Encoded in 1, 1, 2, 4, 5 and 9 bytes: with a key of 33 bytes a context  *)
(* takes from 36 to 60, 55 and 56 among them.                              *)
MCNumbers == {Number(0, 0), Number(1, 127), Number(1, 128), Number(3, 1),
              Number(4, 1), Number(8, 255)}
MCKeys == {[i \in 1..KeySize |-> 171]}
MCInner == [i \in 1..200 |-> IF i = 1 THEN 248 ELSE IF i = 2 THEN 198 ELSE 42]
=============================================================================
