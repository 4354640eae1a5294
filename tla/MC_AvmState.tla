---------------------------- MODULE MC_AvmState ----------------------------
(***************************************************************************)
(* Model values for AvmState.  The KV runs use three key arguments, two   *)
(* of which (the empty string and 0x00) are written as the same "00"     *)
(* string, and no token ids; the token runs use two ids and no keys.      *)
(* Amounts are scaled down: U64 = 8 stands for 2^64.                      *)
(***************************************************************************)
EXTENDS AvmState


\* the opcodes of the state and token runs, and of the block-info run
MCStateOps == {"KV_PUT", "KV_DELETE", "KV_GET", "KV_EXISTS",
               "FT_BALANCE_ADD", "NFT_PUT", "FT_WITHDRAW", "NFT_WITHDRAW"}
MCTokenOps == MCStateOps \cup {"FT_COUNT", "NFT_COUNT", "FT_BALANCE", "NFT_EXISTS",
                               "FT_ITEM", "NFT_ITEM"}
MCBlockOps == {"GETBLOCKINFO", "DECODEBLOCKINFO"}
MCKvBlockOps == MCStateOps \cup MCBlockOps

\* external.headers: the current height 5 and height 1.  Both headers
\* have exponent 29, mantissa 2, so that 0xffff / 2 = 32767.5.
MCHeader(v) == [nVersion |-> v, hashPrevBlock |-> <<v, 0>>, hashMerkleRoot |-> <<0, v>>,
                nTime |-> 3, nBits |-> 29 * 2^24 + 2, nNonce |-> 4]
MCHeaders == (1 :> MCHeader(1)) @@ (5 :> MCHeader(2))
MCCurrentHeight == 5
MCHeaderArgs == {MCHeader(1)}
MCBlockNumArgs == {0, 1, 6, 9}
MCNoHeaders == <<>>

MCKvKeyArgs == {<<>>, <<0>>, <<1>>}
MCKvValueArgs == {<<>>, <<5>>}
\* no contract state, or keyspace 0x01 holding 0x01 -> 0x05
MCKvInitStates == {<<>>, <<0, 1>> :> (<<0, 1>> :> <<0, 5>>)}
MCNoKvStates == {<<>>}

MCTokenIds == {1, 2}
MCNumArgs == {0, 1, 2}
MCOutputValues == <<2, 1>>
MCInitFtValues == {1, 7}
MCU64 == 8
MCIntMax == 2147483647
MCMaxStateKeySize == 1024

\* caps: one more keyspace or balance than the inputs hold overflows
MCMaxStateFinalBytes == 6
MCMaxStateUpdateBytes == 4
MCMaxBalancesBytes == 44
MCMaxBalancesUpdateBytes == 44
=============================================================================
