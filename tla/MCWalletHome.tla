---------------------------- MODULE MCWalletHome ----------------------------
(***************************************************************************)
(* Instances of WalletHome for TLC: the wallet module, whose passphrase is *)
(* fixed in its code, and one lez process with the operator's passphrase.  *)
(* A mnemonic is as good as another.                                       *)
(***************************************************************************)
EXTENDS WalletHome, TLC

MCPassOf == [c \in Callers |-> IF c \in Modules THEN "agent" ELSE "operator"]

MCUses == [c \in Callers |-> Exports]

MCSymmetry == Permutations(Mnemonics)
=============================================================================
