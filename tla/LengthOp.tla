------------------------------ MODULE LengthOp ------------------------------
(***************************************************************************)
(* apply of ics23/src/ops/length_op.rs: the length prefix an ICS23 leaf or *)
(* inner op puts before the bytes it hashes.                               *)
(*                                                                         *)
(* The data are passed through unchanged, so they are modelled by their    *)
(* length n; a successful result is the prefix bytes put in front of them  *)
(* and the data's length.                                                  *)
(***************************************************************************)
EXTENDS Naturals, Sequences

\* Bits of a u32 (32; TLC's integers need a smaller stand-in).
CONSTANTS U32Bits

\* The LengthOp enum of unionlabs::cosmos::ics23::length_op.
LengthOps == {"NoPrefix", "VarProto", "VarRlp", "Fixed32Big", "Fixed32Little",
              "Fixed64Big", "Fixed64Little", "Require32Bytes", "Require64Bytes"}

\* Result constructors: the prefixed data, or an ApplyError.
Prefixed(prefix, n) == [ok |-> TRUE, prefix |-> prefix, n |-> n]
ApplyError(kind, arg) == [ok |-> FALSE, err |-> kind, arg |-> arg]

(***************************************************************************)
(* prost::encoding::encode_varint: seven bits at a time, least significant *)
(* first, the high bit set on every byte but the last.                     *)
(***************************************************************************)
RECURSIVE encode_varint(_)
encode_varint(v) ==
    IF v < 128 THEN <<v>>
    ELSE <<(v % 128) + 128>> \o encode_varint(v \div 128)

\* u32::to_le_bytes of data.len() as u32 (the cast keeps the low U32Bits).
to_le_bytes32(v) == [i \in 1..4 |-> ((v % 2^U32Bits) \div 256^(i - 1)) % 256]

\* Mutant of apply: Fixed32Little written with to_be_bytes.
apply_Fixed32BigEndian(length_op, n) ==
    CASE length_op = "NoPrefix"       -> Prefixed(<<>>, n)
      [] length_op = "VarProto"       -> Prefixed(encode_varint(n), n)
      [] length_op = "Require32Bytes" ->
            IF n # 32 THEN ApplyError("Required32Bytes", n) ELSE Prefixed(<<>>, n)
      [] length_op = "Require64Bytes" ->
            IF n # 64 THEN ApplyError("Required64Bytes", n) ELSE Prefixed(<<>>, n)
      [] length_op = "Fixed32Little"  -> Prefixed([i \in 1..4 |-> to_le_bytes32(n)[5 - i]], n)
      [] OTHER                        -> ApplyError("UnsupportedOp", length_op)

apply(length_op, n) ==
    CASE length_op = "NoPrefix"       -> Prefixed(<<>>, n)
      [] length_op = "VarProto"       -> Prefixed(encode_varint(n), n)
      [] length_op = "Require32Bytes" ->
            IF n # 32 THEN ApplyError("Required32Bytes", n) ELSE Prefixed(<<>>, n)
      [] length_op = "Require64Bytes" ->
            IF n # 64 THEN ApplyError("Required64Bytes", n) ELSE Prefixed(<<>>, n)
      [] length_op = "Fixed32Little"  -> Prefixed(to_le_bytes32(n), n)
      [] OTHER                        -> ApplyError("UnsupportedOp", length_op)

=============================================================================
