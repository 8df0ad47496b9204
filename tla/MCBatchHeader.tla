--------------------------- MODULE MCBatchHeader ----------------------------
(***************************************************************************)
(* Decodes every header length up to MaxLen with every l1MessagePopped     *)
(* value of Popped, on every usize width of UsizeBits and under both       *)
(* builds, and compares the result with the v0 layout of spec section 3:   *)
(* an 89-byte prefix followed by exactly ceil(popped / 256) * 32 bytes of  *)
(* big-endian u256 words.                                                  *)
(***************************************************************************)
EXTENDS Naturals, Sequences, BatchHeader

CONSTANTS MaxLen, Popped, UsizeBits

VARIABLES input, out

vars == <<input, out>>

Inputs == [len : 0..MaxLen, popped : Popped, usize : UsizeBits, build : {"debug", "release"}]

Init ==
    /\ input \in Inputs
    /\ out = [res |-> "None"]

Decode ==
    /\ out.res = "None"
    /\ out' = decode(input.len, input.popped, input.usize, input.build)
    /\ UNCHANGED input

Next == Decode

Spec == Init /\ [][Next]_vars

-----------------------------------------------------------------------------
\* The layout of the spec, in unbounded integers.
SpecBitmapBytes(p) == ((p + 255) \div 256) * 32
SpecLen(p) == BATCH_HEADER_FIXED_LENGTH + SpecBitmapBytes(p)
SpecBitmap(p) == [i \in 1..(SpecBitmapBytes(p) \div 32) |->
                    [from |-> 89 + 32 * (i - 1), to |-> 89 + 32 * i - 1]]

(***************************************************************************)
(* decode accepts a header exactly when its length is the spec's           *)
(* 89 + ceil(popped / 256) * 32 and that length is a usize; whatever the   *)
(* build, the host width or the popped count at the 256 boundaries.        *)
(***************************************************************************)
DecodeLengthRule ==
    out.res # "None" =>
        (out.res = "Ok" <=> (input.len = SpecLen(input.popped) /\ SpecLen(input.popped) < 2^input.usize))

(***************************************************************************)
(* Spec 3: the skipped-message bitmap of a decoded header is the           *)
(* ceil(popped / 256) big-endian words that follow the 89-byte prefix.     *)
(* decode builds it from bz.chunks(32) over the whole input, prefix        *)
(* included.                                                               *)
(***************************************************************************)
BitmapIsTail ==
    out.res = "Ok" => out.bitmap = SpecBitmap(input.popped)

=============================================================================
