------------------------------- MODULE IntelHex -------------------------------
(***************************************************************************)
(* The records of an Intel HEX file (wendoo/intel-hex.ts): a record has an *)
(* address inside its bank, a type, data and a checksum.                   *)
(***************************************************************************)
EXTENDS Integers, Sequences, SequencesExt

DataType == 0
EofType == 1
UpperType == 4
ByteSum(s) == FoldLeft(LAMBDA a, b : a + b, 0, s)

(* encodeRecord: the checksum makes the bytes of a record add up to 0.     *)
Checksum(address, type, data) == (256 - ((Len(data) + address + type + ByteSum(data)) % 256)) % 256
Record(address, type, data) ==
    [address |-> address, type |-> type, data |-> data, sum |-> Checksum(address, type, data)]
EofRecord == Record(0, EofType, <<>>)
=============================================================================
