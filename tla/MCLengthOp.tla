----------------------------- MODULE MCLengthOp -----------------------------
(***************************************************************************)
(* Applies every LengthOp to data of every length up to MaxN and compares  *)
(* the result with the length ops of spec section 3, read back from the    *)
(* prefix as a verifier hashing the same bytes would.                      *)
(***************************************************************************)
EXTENDS Naturals, Sequences, LengthOp

CONSTANTS MaxN

VARIABLES input, out

vars == <<input, out>>

Inputs == [op : LengthOps, n : 0..MaxN]

Init ==
    /\ input \in Inputs
    /\ out = [ok |-> FALSE, err |-> "None", arg |-> 0]

Apply ==
    /\ out.ok = FALSE /\ out.err = "None"
    /\ out' = apply(input.op, input.n)
    /\ UNCHANGED input

Next == Apply

Spec == Init /\ [][Next]_vars

-----------------------------------------------------------------------------
\* Reading a length prefix back.
RECURSIVE VarintValue(_)
VarintValue(s) == IF s = <<>> THEN 0 ELSE (Head(s) % 128) + 128 * VarintValue(Tail(s))

\* A varint is well formed: bytes, the continuation bit on all but the last.
WellFormedVarint(s) ==
    /\ Len(s) >= 1
    /\ \A i \in 1..Len(s) : s[i] \in 0..255 /\ (s[i] >= 128 <=> i < Len(s))

LittleEndianValue(s) == LET RECURSIVE V(_) V(i) == IF i = 0 THEN 0 ELSE s[i] * 256^(i - 1) + V(i - 1)
                        IN V(Len(s))

(***************************************************************************)
(* Spec 3: NoPrefix passes the data through; VarProto prefixes a minimal,  *)
(* well-formed varint that reads back as the data length (300 -> ac 02);   *)
(* Fixed32Little prefixes four bytes reading back as the length; the       *)
(* Require ops pass exactly 32 / 64 bytes and report the length they got   *)
(* otherwise; every other op is UnsupportedOp.                             *)
(***************************************************************************)
ApplyMatchesSpec ==
    LET op == input.op
        n  == input.n
    IN  (out.ok \/ out.err # "None") =>
          CASE op = "NoPrefix" -> out.ok /\ out.prefix = <<>> /\ out.n = n
            [] op = "VarProto" ->
                 /\ out.ok /\ out.n = n
                 /\ WellFormedVarint(out.prefix) /\ VarintValue(out.prefix) = n
                 /\ Len(out.prefix) = IF n < 128 THEN 1 ELSE IF n < 128^2 THEN 2 ELSE 3
                 /\ n = 300 => out.prefix = <<172, 2>>
            [] op = "Fixed32Little" ->
                 out.ok /\ Len(out.prefix) = 4 /\ LittleEndianValue(out.prefix) = n
            [] op \in {"Require32Bytes", "Require64Bytes"} ->
                 LET want == IF op = "Require32Bytes" THEN 32 ELSE 64
                 IN  IF n = want THEN out.ok /\ out.prefix = <<>>
                     ELSE ~out.ok /\ out.arg = n
                          /\ out.err = IF want = 32 THEN "Required32Bytes" ELSE "Required64Bytes"
            [] OTHER -> ~out.ok /\ out.err = "UnsupportedOp" /\ out.arg = op

=============================================================================
