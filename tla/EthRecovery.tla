----------------------------- MODULE EthRecovery -----------------------------
(***************************************************************************)
(* The last byte of an Ethereum signature.  KMS returns r and s; the WASM  *)
(* module tries which of two points is the signer's and gives v, in which  *)
(* EIP-155 puts the chain id as well, as hexadecimal text without leading  *)
(* zeros.  The service appends the text to the 128 digits of r and s, and  *)
(* accepts the result if it is 65 bytes (sign_with_recovery_id).           *)
(*                                                                         *)
(* The text is what recover_v returns, whatever that is: the number, the   *)
(* text "0" where the key is not found, nothing when the call failed.      *)
(***************************************************************************)
EXTENDS Integers

DefaultEthChainId == 1

(* ETH_CHAIN_ID is parsed as a u8; a number that is none gives the default.*)
ParsedChainId(given) == IF given \in 0..255 THEN given ELSE DefaultEthChainId

(* SIGNATURE_RS_LEN, in hexadecimal digits.                                *)
RsLen == 128

(* A text of the module: its digits and their value.                       *)
Nothing == [digits |-> 0, value |-> 0]

HexText(n) ==
  [digits |-> IF n < 16 THEN 1 ELSE IF n < 256 THEN 2 ELSE 3, value |-> n]

(* The number of EIP-155; the parity is that of the point.                 *)
V(id, parity) == 35 + 2 * id + parity

RecoverV(id) == { HexText(V(id, parity)) : parity \in {0, 1} } \cup { HexText(0) }

(* An error of recover_v is logged and nothing is appended.                *)
AppendedText(id) == RecoverV(id) \cup { Nothing }

(* Defect: half a byte is dropped, and r and s alone are accepted.         *)
LengthRoundedDown(text) == (RsLen + text.digits) \div 2 \in {64, 65}

(* validate_signature_length: whole bytes, and 65 of them.                 *)
ValidSignatureLength(text) ==
  /\ (RsLen + text.digits) % 2 = 0
  /\ (RsLen + text.digits) \div 2 = 65

(* The chain id that the receiver of a signature reads from v.             *)
ChainIdOf(v) == (v - 35) \div 2

=============================================================================
