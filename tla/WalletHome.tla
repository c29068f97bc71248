------------------------------ MODULE WalletHome ------------------------------
(***************************************************************************)
(* The wallet core (lez-wallet-core): an account in a home directory, used *)
(* by the wallet module and by the lez command line, each a process of its *)
(* own with a passphrase of its own.                                       *)
(*                                                                         *)
(* The directory holds two files.  keystore.json has the secret key, under *)
(* the passphrase; wallet_storage.json is WalletCore's, has the account    *)
(* that receives and spends, and no passphrase.  Both go back to one       *)
(* mnemonic, along different derivations.                                  *)
(*                                                                         *)
(* A function of provider.rs is a sequence of stages, each a step: a read  *)
(* or a write of a file, a check of the input or a question to the         *)
(* sequencer.  Processes interleave at stages and may be killed there.     *)
(***************************************************************************)
EXTENDS Naturals, Sequences

CONSTANTS
  Modules,          \* processes that hold the wallet module
  Consoles,         \* processes of the lez command line
  Passphrases, PassOf,
  Mnemonics,        \* what new_init_storage may generate: bounds the first calls
  Layout,           \* the places where WalletCore keeps the accounts in its file (external)
  Uses,             \* bound: the functions each process calls
  MaxTip,           \* bound: blocks
  MaxFaults,        \* bound: kills and failed writes together
  Missing, Torn,    \* a file that does not exist, or that cannot be parsed
  None

Callers == Modules \cup Consoles

\* The account derived from the key in the keystore, and WalletCore's own: the
\* derivations differ and do not collide.
KeystoreAccount(m) == <<"keystore", m>>
WalletAccount(m) == <<"wallet", m>>
Accounts == {"keystore", "wallet"} \X Mnemonics

Keystores == [nsk : Mnemonics, pass : Passphrases]
Storages == [seed : Mnemonics, height : 0..MaxTip]
Unreadable == {Missing, Torn}

\* How an error is worded does not matter here.
Errors == {"error"}

ASSUME WalletAssumption ==
  /\ PassOf \in [Callers -> Passphrases]
  /\ Layout \subseteq {"key_chain", "accounts"}
  /\ MaxTip \in Nat /\ MaxFaults \in Nat
  /\ None \notin Mnemonics \cup Errors
  /\ Missing # Torn
  /\ Unreadable \cap (Keystores \cup Storages) = {}

\* A slip: the authentication tag is not checked.
NoTagDecrypts(file, passphrase) == file \notin Unreadable

Encrypt(nsk, passphrase) == [nsk |-> nsk, pass |-> passphrase]
Decrypts(file, passphrase) == file \notin Unreadable /\ file.pass = passphrase

\* The functions of provider.rs as their stages; ensure_account goes on as "reopen" or
\* as "create" when it has looked for the keystore.
GetNpk == <<"account">>
GetVpk == <<"account">>
GetBalance == <<"account", "open", "ask">>
SyncPrivate == <<"open", "tip", "blocks", "store">>
GetHistory == <<"keystore", "open">>
SendShielded == <<"amount", "public", "open", "own", "recipient", "ask">>
SendToForeign == <<"amount", "input", "own", "open", "ask">>
ProgramQuery == <<"open", "input", "ask">>
ProgramCall == <<"keystore", "open", "input", "ask", "post">>
ProgramDeploy == <<"open", "input", "post">>
Reopen == <<"exists", "keystore">>
Create == <<"exists", "init", "touch", "save", "print", "store">>

Plan == [npk |-> GetNpk, vpk |-> GetVpk, balance |-> GetBalance, sync |-> SyncPrivate,
         history |-> GetHistory, send |-> SendShielded, send_to |-> SendToForeign,
         query |-> ProgramQuery, program |-> ProgramCall, deploy |-> ProgramDeploy,
         ensure |-> <<"exists">>, reopen |-> Reopen, create |-> Create]

Ops == DOMAIN Plan
Exports == Ops \ {"reopen", "create"}
OpsOf(c) == Uses[c] \cap (IF c \in Consoles THEN Exports \ {"vpk", "send_to"} ELSE Exports)

Calls == [op : Ops \cup {"none"},
          pc : 1..7,                      \* the stage it is at; past the last one it returns
          seed : Mnemonics \cup {None},   \* of the wallet opened, or of the file last read
          nsk : Mnemonics \cup {None},    \* out of the keystore
          height : 0..MaxTip, error : Errors \cup {None}]
NoCall == [op |-> "none", pc |-> 1, seed |-> None, nsk |-> None, height |-> 0, error |-> None]

Stage(r) == IF r.op = "none" THEN "idle"
            ELSE IF r.error # None \/ r.pc > Len(Plan[r.op]) THEN "return"
            ELSE Plan[r.op][r.pc]

VARIABLES
  keystore, storage,  \* the two files
  call,               \* the call each process is in
  used,               \* the mnemonics generated so far
  tip,                \* the last block (external)
  faults,
  shown,              \* history: mnemonics printed for the operator
  sealed,             \* history: keystores written
  announced,          \* history: accounts returned by ensure_account, and to which passphrase
  given,              \* history: accounts whose keys were returned by npk or vpk
  raced               \* history: two calls that update the files overlapped

files == <<keystore, storage>>
world == <<used, tip, faults>>
records == <<shown, sealed, announced, given>>
vars == <<files, call, world, records, raced>>

Init ==
  /\ keystore = Missing
  /\ storage = Missing
  /\ call = [c \in Callers |-> NoCall]
  /\ used = {}
  /\ tip = 0
  /\ faults = 0
  /\ shown = {} /\ sealed = {} /\ announced = {} /\ given = {}
  /\ raced = FALSE

At(c, stage) == Stage(call[c]) = stage

\* The call of c, as it is in r, goes on to its next stage.
Go(c, r) == call' = [call EXCEPT ![c] = [r EXCEPT !.pc = r.pc + 1]]

\* An error leaves the function at once, with all that it has read.
Fail(c, error) == call' = [call EXCEPT ![c] = [NoCall EXCEPT !.op = call[c].op, !.error = error]]

Fault == faults < MaxFaults /\ faults' = faults + 1

\* A call that is going to write what it has computed from what it has read.
Updating(c) ==
  \/ call[c].op = "create"
  \/ call[c].op = "sync" /\ call[c].pc > 1
Race(c) == raced' = (raced \/ \E d \in Callers \ {c} : Updating(d))

(***************************************************************************)
(* Entry, and the checks shared by the functions.                          *)
(***************************************************************************)

\* An exported function; an argument that is null or no UTF-8 ends the call.
Begin(c) ==
  /\ At(c, "idle")
  /\ \E op \in OpsOf(c), error \in {None, "error"} :
       call' = [call EXCEPT ![c] = [NoCall EXCEPT !.op = op, !.error = error]]
  /\ UNCHANGED <<files, world, records, raced>>

\* Read an account, or its keys, out of the wallet's storage.
AccountFromStorage(c) ==
  /\ At(c, "account") \/ At(c, "own")
  /\ LET place == IF At(c, "own") THEN "accounts" ELSE "key_chain" IN
     IF storage \notin Unreadable /\ place \in Layout
     THEN Go(c, [call[c] EXCEPT !.seed = storage.seed])
     ELSE Fail(c, "error")
  /\ UNCHANGED <<files, world, records, raced>>

\* The sender of send: an account that is public, if the file has one.
PublicAccountId(c) ==
  /\ At(c, "public")
  /\ \/ storage \notin Unreadable /\ "key_chain" \in Layout /\ Go(c, call[c])
     \/ Fail(c, "error")
  /\ UNCHANGED <<files, world, records, raced>>

AccountIdFromKeystore(c) ==
  /\ At(c, "keystore")
  /\ IF Decrypts(keystore, PassOf[c])
     THEN Go(c, [call[c] EXCEPT !.nsk = keystore.nsk])
     ELSE Fail(c, "error")
  /\ UNCHANGED <<files, world, records, raced>>

\* The functions open the wallet; only a sync will write back what it has opened.
OpenWallet(c) ==
  /\ At(c, "open")
  /\ \/ /\ storage \notin Unreadable /\ call[c].op = "sync"
        /\ Go(c, [call[c] EXCEPT !.seed = storage.seed, !.height = storage.height])
        /\ Race(c)
     \/ /\ storage \notin Unreadable /\ call[c].op # "sync"
        /\ Go(c, call[c])
        /\ UNCHANGED raced
     \/ /\ storage \in Unreadable
        /\ Fail(c, "error")
        /\ UNCHANGED raced
  /\ UNCHANGED <<files, world, records>>

\* Amounts, keys, program ids, parameters and binaries.
CheckInput(c) ==
  /\ At(c, "amount") \/ At(c, "input")
  /\ Go(c, call[c]) \/ Fail(c, "error")
  /\ UNCHANGED <<files, world, records, raced>>

\* send pays into the agent's own account only, and that is WalletCore's.
CheckRecipient(c) ==
  /\ At(c, "recipient")
  /\ \E recipient \in Accounts :
       IF recipient = WalletAccount(call[c].seed) THEN Go(c, call[c]) ELSE Fail(c, "error")
  /\ UNCHANGED <<files, world, records, raced>>

\* A slip: the id of the last block is taken for the number of blocks.
CountAsk(c) ==
  /\ \E s \in {"ask", "blocks", "post", "tip"} : At(c, s)
  /\ Go(c, IF At(c, "tip") THEN [call[c] EXCEPT !.height = tip + 1] ELSE call[c]) \/ Fail(c, "error")
  /\ UNCHANGED <<files, world, records, raced>>

\* The sequencer answers, or its client gives up.
Ask(c) ==
  /\ \/ /\ At(c, "ask") \/ At(c, "blocks") \/ At(c, "post")
        /\ Go(c, call[c]) \/ Fail(c, "error")
     \/ /\ At(c, "tip")
        /\ Go(c, [call[c] EXCEPT !.height = tip]) \/ Fail(c, "error")
  /\ UNCHANGED <<files, world, records, raced>>

\* A slip: the result of the write is dropped.
UncheckedStore(c) ==
  /\ At(c, "store")
  /\ \/ /\ storage' = [seed |-> call[c].seed, height |-> call[c].height]
        /\ UNCHANGED faults
     \/ Fault /\ storage' \in {storage, Torn}
  /\ Go(c, call[c])
  /\ UNCHANGED <<keystore, used, tip, records, raced>>

\* store_persistent_data, at the end of a sync and of the creation of an account.
\* The write may fail, and may then have destroyed the old content.
Store(c) ==
  /\ At(c, "store")
  /\ \/ /\ storage' = [seed |-> call[c].seed, height |-> call[c].height]
        /\ Go(c, call[c])
        /\ UNCHANGED faults
     \/ /\ Fault
        /\ storage' \in {storage, Torn}
        /\ Fail(c, "error")
  /\ UNCHANGED <<keystore, used, tip, records, raced>>

(***************************************************************************)
(* ensure_account.                                                         *)
(***************************************************************************)

\* A slip: a keystore that does not open counts as none.
EagerEnsureAccount(c) ==
  /\ At(c, "exists")
  /\ IF Decrypts(keystore, PassOf[c])
     THEN /\ Go(c, [call[c] EXCEPT !.op = "reopen"])
          /\ UNCHANGED raced
     ELSE /\ Go(c, [call[c] EXCEPT !.op = "create"])
          /\ Race(c)
  /\ UNCHANGED <<files, world, records>>

\* It reopens whatever keystore there is and creates an account if there is none.
EnsureAccount(c) ==
  /\ At(c, "exists")
  /\ \/ /\ keystore # Missing
        /\ Go(c, [call[c] EXCEPT !.op = "reopen"])
        /\ UNCHANGED raced
     \/ /\ keystore = Missing
        /\ Go(c, [call[c] EXCEPT !.op = "create"])
        /\ Race(c)
     \/ Fail(c, "error") /\ UNCHANGED raced
  /\ UNCHANGED <<files, world, records>>

\* A slip: the key is that of a mnemonic of its own.
TwiceNewInitStorage(c) ==
  /\ At(c, "init")
  /\ \E m \in Mnemonics \ used, k \in Mnemonics \ used :
       /\ used' = used \cup {m, k}
       /\ Go(c, [call[c] EXCEPT !.seed = m, !.nsk = k])
  /\ UNCHANGED <<files, tip, faults, records, raced>>

\* WalletCore makes a mnemonic, of which ensure_account derives its key.
NewInitStorage(c) ==
  /\ At(c, "init")
  /\ \/ \E m \in Mnemonics \ used :
          /\ used' = used \cup {m}
          /\ Go(c, [call[c] EXCEPT !.seed = m, !.nsk = m])
     \/ Fail(c, "error") /\ UNCHANGED used
  /\ UNCHANGED <<files, tip, faults, records, raced>>

\* fs::write first empties the file,
TouchKeystore(c) ==
  /\ At(c, "touch")
  /\ \/ /\ keystore' = Torn
        /\ Go(c, call[c])
        /\ UNCHANGED faults
     \/ Fault /\ Fail(c, "error") /\ UNCHANGED keystore
  /\ UNCHANGED <<storage, used, tip, records, raced>>

\* A slip: the mnemonic is not printed.
SilentSaveKeystore(c) ==
  /\ At(c, "save")
  /\ LET file == Encrypt(call[c].nsk, PassOf[c]) IN
     \/ /\ keystore' = file
        /\ sealed' = sealed \cup {file}
        /\ call' = [call EXCEPT ![c].pc = 6]
        /\ UNCHANGED faults
     \/ Fault /\ keystore' = Torn /\ Fail(c, "error") /\ UNCHANGED sealed
  /\ UNCHANGED <<storage, used, tip, shown, announced, given, raced>>

\* then fills it.
SaveKeystore(c) ==
  /\ At(c, "save")
  /\ LET file == Encrypt(call[c].nsk, PassOf[c]) IN
     \/ /\ keystore' = file
        /\ sealed' = sealed \cup {file}
        /\ Go(c, call[c])
        /\ UNCHANGED faults
     \/ Fault /\ keystore' = Torn /\ Fail(c, "error") /\ UNCHANGED sealed
  /\ UNCHANGED <<storage, used, tip, shown, announced, given, raced>>

PrintMnemonic(c) ==
  /\ At(c, "print")
  /\ shown' = shown \cup {call[c].seed}
  /\ Go(c, call[c])
  /\ UNCHANGED <<files, world, sealed, announced, given, raced>>

\* A result, or an error envelope: only a result tells the caller something.
Reply(c) ==
  /\ At(c, "return")
  /\ LET r == call[c]
         ok == r.error = None IN
     /\ announced' = IF ok /\ r.op \in {"reopen", "create"}
                     THEN announced \cup {<<KeystoreAccount(r.nsk), PassOf[c]>>} ELSE announced
     /\ given' = IF ok /\ r.op \in {"npk", "vpk"} THEN given \cup {WalletAccount(r.seed)} ELSE given
  /\ call' = [call EXCEPT ![c] = NoCall]
  /\ UNCHANGED <<files, world, shown, sealed, raced>>

\* A process is killed, or panics in the wallet core; a file being written may be lost.
Kill(c) ==
  /\ ~At(c, "idle")
  /\ Fault
  /\ storage' \in IF At(c, "store") THEN {storage, Torn} ELSE {storage}
  /\ call' = [call EXCEPT ![c] = NoCall]
  /\ UNCHANGED <<keystore, used, tip, records, raced>>

NewBlock ==
  /\ tip < MaxTip
  /\ tip' = tip + 1
  /\ UNCHANGED <<files, call, used, faults, records, raced>>

Step(c) ==
  \/ AccountFromStorage(c) \/ PublicAccountId(c) \/ AccountIdFromKeystore(c) \/ OpenWallet(c)
  \/ CheckInput(c) \/ CheckRecipient(c) \/ Ask(c) \/ Store(c)
  \/ EnsureAccount(c) \/ NewInitStorage(c) \/ TouchKeystore(c) \/ SaveKeystore(c) \/ PrintMnemonic(c)
  \/ Reply(c)

Next == (\E c \in Callers : Begin(c) \/ Step(c) \/ Kill(c)) \/ NewBlock

Spec == Init /\ [][Next]_vars

(***************************************************************************)
(* Properties.                                                             *)
(***************************************************************************)

\* Every variable keeps its type.
TypeOK ==
  /\ keystore \in Keystores \cup Unreadable
  /\ storage \in Storages \cup Unreadable
  /\ call \in [Callers -> Calls]
  /\ used \in SUBSET Mnemonics
  /\ tip \in 0..MaxTip
  /\ faults \in 0..MaxFaults
  /\ shown \in SUBSET Mnemonics
  /\ sealed \in SUBSET Keystores
  /\ announced \in SUBSET (Accounts \X Passphrases)
  /\ given \in SUBSET Accounts
  /\ raced \in BOOLEAN

\* Whoever pays to keys that npk or vpk returned pays into an account that the
\* operator can recover: its mnemonic was printed before, wherever a process was
\* killed and however calls overlapped.
AddressRecoverable == \A m \in Mnemonics : WalletAccount(m) \in given => m \in shown

\* ensure_account returns the account of a keystore that was completely written
\* under the caller's own passphrase.
AnnouncedWasSealed ==
  \A m \in Mnemonics, p \in Passphrases :
    <<KeystoreAccount(m), p>> \in announced => Encrypt(m, p) \in sealed

\* The two files never belong to different mnemonics, unless two calls that
\* update them overlapped.
OneWallet ==
  ~raced /\ keystore \notin Unreadable /\ storage \notin Unreadable =>
    keystore.nsk = storage.seed

\* When ensure_account or sync_private reports success, what it computed is on
\* disk, unless the calls overlapped.
ReturnedIsOnDisk ==
  \A c \in Callers :
    At(c, "return") /\ call[c].error = None /\ ~raced =>
      /\ call[c].op = "create" => keystore = Encrypt(call[c].nsk, PassOf[c])
      /\ call[c].op \in {"create", "sync"} =>
           storage = [seed |-> call[c].seed, height |-> call[c].height]

\* Once ensure_account has returned an account it is there for good: the
\* keystore does not change, whatever passphrase the next caller has.
AccountStands ==
  [][announced # {} /\ ~raced' => keystore' = keystore]_<<keystore, announced, raced>>

\* "no private account found in wallet storage; run ensure_account first": after
\* ensure_account has succeeded the wallet's storage is there.
EnsuredIsUsable ==
  \A c \in Callers :
    At(c, "return") /\ call[c].error = None /\ call[c].op \in {"reopen", "create"} /\ ~raced =>
      storage \notin Unreadable
===============================================================================
