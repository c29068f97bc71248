\* The module and a command line on one home directory.
SPECIFICATION Spec
SYMMETRY MCSymmetry
CONSTANTS
  Modules = {m}
  Consoles = {l}
  Passphrases = {"agent", "operator"}
  PassOf <- MCPassOf
  Mnemonics = {w1, w2}
  Layout = {"key_chain", "accounts"}
  Uses <- MCUses
  MaxTip = 1
  MaxFaults = 1
  Missing = Missing
  Torn = Torn
  None = None
INVARIANTS
  TypeOK
  AddressRecoverable
  AnnouncedWasSealed
  OneWallet
  ReturnedIsOnDisk
PROPERTIES
  AccountStands
