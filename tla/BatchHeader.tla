---------------------------- MODULE BatchHeader -----------------------------
(***************************************************************************)
(* BatchHeader::decode of unionlabs/src/scroll/batch_header_codec.rs.      *)
(*                                                                         *)
(* A header is abstracted to its byte length len and the value popped of   *)
(* its l1MessagePopped field (bytes 9..17, read only when the 89-byte      *)
(* fixed part is there).  The other fields are copied and play no part.    *)
(*                                                                         *)
(* Integer width matters here: l1_message_popped + 255 is u64 arithmetic   *)
(* and expected_len is a usize.  TLC's integers cannot hold 2^64, so the   *)
(* widths are the constants U64Bits and a usize width given per decode     *)
(* (64 on a 64-bit host, 32 on wasm32), scaled down with the same          *)
(* boundaries: popped + 255 wraps, the bitmap length may exceed usize, and *)
(* 89 + bitmap length may wrap usize.  An overflowing + or * panics in a   *)
(* build with overflow checks ("debug") and wraps without them            *)
(* ("release").                                                            *)
(***************************************************************************)
EXTENDS Integers, Sequences

CONSTANTS U64Bits

BATCH_HEADER_FIXED_LENGTH == 89

\* Result constructors.
LengthTooSmall == [res |-> "LengthTooSmall"]
IncorrectBitmapLength == [res |-> "IncorrectBitmapLength"]
TooManyL1Messages == [res |-> "TooManyL1Messages"]
Panic == [res |-> "Panic"]
DecodeOk(bitmap) == [res |-> "Ok", bitmap |-> bitmap]

(***************************************************************************)
(* Width-w addition under a build: the sum when it fits; otherwise -1,    *)
(* a panic, when the build checks overflow, and the wrapped sum if not.  *)
(***************************************************************************)
AddW(x, y, w, build) ==
    IF x + y < 2^w THEN x + y
    ELSE IF build = "debug" THEN -1 ELSE (x + y) % 2^w

(***************************************************************************)
(* slice.chunks(32) mapped by U256::try_from_big_endian: consecutive       *)
(* 32-byte ranges, the last one shorter, each taken as one word.  A word   *)
(* is the byte range [from, to] it is read from.  (U256 is outside the     *)
(* sources; a chunk of at most 32 bytes is taken to convert.)              *)
(***************************************************************************)
Chunks(from, len) ==
    [i \in 1..((len - from + 31) \div 32) |->
        [from |-> from + 32 * (i - 1),
         to   |-> IF from + 32 * i <= len THEN from + 32 * i - 1 ELSE len - 1]]

\* Mutant of expected_len: the round-up "+ 255" left out.
expected_len_Floor(popped, usize, build) ==
    LET bitmap == (popped \div 256) * 32
    IN  IF bitmap >= 2^usize THEN -2
        ELSE AddW(BATCH_HEADER_FIXED_LENGTH, bitmap, usize, build)

(***************************************************************************)
(* expected_len: 89 + usize::try_from(((popped + 255) / 256) * 32), the    *)
(* addition to 255 in u64 and to 89 in usize.  -1 is a panic, -2 the       *)
(* TooManyL1Messages of a failed try_from.  ((x / 256) * 32 cannot         *)
(* overflow u64.)                                                          *)
(***************************************************************************)
expected_len(popped, usize, build) ==
    LET rounded == AddW(popped, 255, U64Bits, build)
        bitmap  == (rounded \div 256) * 32
    IN  IF rounded = -1 THEN -1
        ELSE IF bitmap >= 2^usize THEN -2
        ELSE AddW(BATCH_HEADER_FIXED_LENGTH, bitmap, usize, build)

(***************************************************************************)
(* decode: LengthTooSmall below the fixed part; the expected length from   *)
(* l1MessagePopped (panic or TooManyL1Messages on the way); any other      *)
(* length is IncorrectBitmapLength; else the header, whose bitmap is       *)
(* bz.chunks(32) of the whole input.                                       *)
(***************************************************************************)
decode(len, popped, usize, build) ==
    LET e == expected_len(popped, usize, build)
    IN  CASE len < BATCH_HEADER_FIXED_LENGTH -> LengthTooSmall
          [] e = -1 -> Panic
          [] e = -2 -> TooManyL1Messages
          [] len # e -> IncorrectBitmapLength
          [] OTHER -> DecodeOk(Chunks(0, len))

=============================================================================
