\* ensure_account has succeeded and the wallet is not there.
SPECIFICATION Spec
CONSTANTS
  Modules = {m}
  Consoles = {l}
  Passphrases = {"agent", "operator"}
  PassOf <- MCPassOf
  Mnemonics = {w1, w2}
  Layout = {"key_chain", "accounts"}
  Uses <- MCUses
  MaxTip = 1
  MaxFaults = 1
  Missing = Missing
  Torn = Torn
  None = None
INVARIANT EnsuredIsUsable
