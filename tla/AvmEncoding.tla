---------------------------- MODULE AvmEncoding ----------------------------
(***************************************************************************)
(* Conversions the AVM state layer applies to stack elements before they  *)
(* become keys of the contract-state JSON objects, and back.               *)
(*                                                                         *)
(* A hex string is a sequence of nibbles 0..15: HexStr emits lower-case    *)
(* digits, and the order of the digit characters '0'..'9' < 'a'..'f'       *)
(* coincides with the numeric order of the nibbles, so std::string         *)
(* comparison of two hex strings is StrLess below.                         *)
(***************************************************************************)
EXTENDS Integers, Sequences

(* util/strencodings HexStr: two lower-case hex digits per byte, high     *)
(* nibble first.  The empty byte string gives the empty string.           *)
HexStr(b) ==
    [i \in 1..(2 * Len(b)) |->
        IF i % 2 = 1 THEN b[(i + 1) \div 2] \div 16 ELSE b[i \div 2] % 16]

(* script_utils.h HexStrWith00Null: the empty byte string is written as   *)
(* the two-digit string "00", the same string as the byte string 0x00.    *)
HexStrWith00Null(b) ==
    IF Len(b) = 0 THEN <<0, 0>> ELSE HexStr(b)

(* util/strencodings ParseHex of a well-formed even-length hex string.    *)
ParseHex(s) ==
    [i \in 1..(Len(s) \div 2) |-> 16 * s[2 * i - 1] + s[2 * i]]

(* script_utils.h isHexStr: lower-case digits only, even length, >= 2.    *)
IsHexStr(s) ==
    /\ Len(s) % 2 = 0
    /\ Len(s) >= 2

(* The byte count the size validation charges for a hex string.           *)
HexByteCount(s) == Len(s) \div 2

(* std::string operator<, the key order of a nlohmann::json object (the   *)
(* default json type stores objects in a std::map).                       *)
RECURSIVE StrLess(_, _)
StrLess(s, t) ==
    IF s = <<>> THEN t # <<>>
    ELSE IF t = <<>> THEN FALSE
    ELSE IF Head(s) # Head(t) THEN Head(s) < Head(t)
    ELSE StrLess(Tail(s), Tail(t))

(* script_num.cpp CScriptNum::getint: saturate to the range of int.       *)
GetInt(n, IntMax) ==
    IF n > IntMax THEN IntMax
    ELSE IF n < -IntMax - 1 THEN -IntMax - 1
    ELSE n

=============================================================================
