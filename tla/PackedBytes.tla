------------------------------ MODULE PackedBytes ------------------------------
(* The bytes of mydb's packets, as data_format.h and protocol.c see them.      *)
EXTENDS Integers, Sequences

CONSTANT Byte  \* the values of a byte, 256 in the source

ASSUME ByteAssumption == Byte \in Nat /\ Byte >= 10  \* a number's first byte is at most 9

Bytes == 0..(Byte - 1)
Has(buf, n) == n <= Len(buf)   \* check_buf
Rest(buf, n) == SubSeq(buf, n + 1, Len(buf))
===============================================================================
