--------------------------- MODULE WalletHomeProofs ---------------------------
(***************************************************************************)
(* Proofs about WalletHome, for any processes, passphrases, mnemonics and  *)
(* bounds: what a process has read, and what it may announce, survives the *)
(* steps of all others and the loss of any of them; what is announced was  *)
(* written, what is given out was printed; and, as long as no two updates  *)
(* overlap, the two files belong together and the keystore stands.         *)
(***************************************************************************)
EXTENDS WalletHome, TLAPS

(***************************************************************************)
(* Where in its function a call is.                                        *)
(***************************************************************************)

\* How many stages the functions have.
LEMMA PlanLengths ==
  /\ \A op \in Ops : Len(Plan[op]) \in 1..6
  /\ Len(Plan.npk) = 1 /\ Len(Plan.vpk) = 1 /\ Len(Plan.sync) = 4
  /\ Len(Plan.reopen) = 2 /\ Len(Plan.create) = 6
<1>1. Len(Plan.npk) = 1 /\ Len(Plan.vpk) = 1 /\ Len(Plan.balance) = 3 /\ Len(Plan.history) = 2
  BY DEF Plan, GetNpk, GetVpk, GetBalance, GetHistory
<1>2. Len(Plan.sync) = 4 /\ Len(Plan.reopen) = 2 /\ Len(Plan.ensure) = 1
  BY DEF Plan, SyncPrivate, Reopen
<1>3. Len(Plan.send) = 6
  BY DEF Plan, SendShielded
<1>4. Len(Plan.send_to) = 5
  BY DEF Plan, SendToForeign
<1>5. Len(Plan.query) = 3 /\ Len(Plan.deploy) = 3
  BY DEF Plan, ProgramQuery, ProgramDeploy
<1>6. Len(Plan.program) = 5
  BY DEF Plan, ProgramCall
<1>7. Len(Plan.create) = 6
  BY DEF Plan, Create
<1>8. Ops = {"npk", "vpk", "balance", "sync", "history", "send", "send_to", "query", "program", "deploy",
             "ensure", "reopen", "create"}
  BY DEF Ops, Plan
<1> QED
  BY <1>1, <1>2, <1>3, <1>4, <1>5, <1>6, <1>7, <1>8

\* No plan has a stage that is called "idle" or "return".
LEMMA PlanStages ==
  ASSUME NEW op \in Ops, NEW i \in 1..Len(Plan[op])
  PROVE  Plan[op][i] \notin {"idle", "return"}
<1>1. CASE op = "npk"
  BY <1>1 DEF Plan, GetNpk
<1>2. CASE op = "vpk"
  BY <1>2 DEF Plan, GetVpk
<1>3. CASE op = "balance"
  BY <1>3 DEF Plan, GetBalance
<1>4. CASE op = "sync"
  BY <1>4 DEF Plan, SyncPrivate
<1>5. CASE op = "history"
  BY <1>5 DEF Plan, GetHistory
<1>6. CASE op = "send"
  BY <1>6 DEF Plan, SendShielded
<1>7. CASE op = "send_to"
  BY <1>7 DEF Plan, SendToForeign
<1>8. CASE op = "query"
  BY <1>8 DEF Plan, ProgramQuery
<1>9. CASE op = "program"
  BY <1>9 DEF Plan, ProgramCall
<1>10. CASE op = "deploy"
  BY <1>10 DEF Plan, ProgramDeploy
<1>11. CASE op = "ensure"
  BY <1>11 DEF Plan
<1>12. CASE op = "reopen"
  BY <1>12 DEF Plan, Reopen
<1>13. CASE op = "create"
  BY <1>13 DEF Plan, Create
<1> QED
  BY <1>1, <1>2, <1>3, <1>4, <1>5, <1>6, <1>7, <1>8, <1>9, <1>10, <1>11, <1>12, <1>13 DEF Ops, Plan

\* A call that neither waits nor returns is at one of the stages of its plan.
LEMMA StagePc ==
  ASSUME NEW r \in Calls, Stage(r) \notin {"idle", "return"}
  PROVE  /\ r.op \in Ops
         /\ r.error = None
         /\ r.pc \in 1..6
         /\ Stage(r) = Plan[r.op][r.pc]
         /\ r.pc <= Len(Plan[r.op])
<1>1. r.op \in Ops /\ r.error = None /\ r.pc <= Len(Plan[r.op]) /\ Stage(r) = Plan[r.op][r.pc]
  BY DEF Stage, Calls
<1>2. Len(Plan[r.op]) \in 1..6
  BY <1>1, PlanLengths, Zenon
<1> QED
  BY <1>1, <1>2 DEF Calls

\* The stages at which files are read or written, and their places in the plans.
LEMMA StagePlaces ==
  ASSUME NEW r \in Calls
  PROVE  /\ Stage(r) = "account" => r.op \in {"npk", "vpk", "balance"} /\ r.pc = 1
         /\ Stage(r) = "own" => r.op \in {"send", "send_to"}
         /\ Stage(r) = "keystore" => r.op \in {"history", "program"} \/ (r.op = "reopen" /\ r.pc = 2)
         /\ Stage(r) = "open" => r.op \notin {"npk", "vpk", "ensure", "reopen", "create"} /\ (r.op = "sync" => r.pc = 1)
         /\ Stage(r) = "tip" => r.op = "sync" /\ r.pc = 2
         /\ Stage(r) = "blocks" => r.op = "sync" /\ r.pc = 3
         /\ Stage(r) = "store" => (r.op = "sync" /\ r.pc = 4) \/ (r.op = "create" /\ r.pc = 6)
         /\ Stage(r) = "exists" => r.op \in {"ensure", "reopen", "create"} /\ r.pc = 1
         /\ Stage(r) = "init" => r.op = "create" /\ r.pc = 2
         /\ Stage(r) = "touch" => r.op = "create" /\ r.pc = 3
         /\ Stage(r) = "save" => r.op = "create" /\ r.pc = 4
         /\ Stage(r) = "print" => r.op = "create" /\ r.pc = 5
         /\ Stage(r) \in {"public", "amount", "input", "recipient", "ask", "post"} =>
              r.op \in {"balance", "send", "send_to", "query", "program", "deploy"}
<1>1. CASE Stage(r) \in {"idle", "return"}
  BY <1>1
<1>2. CASE Stage(r) \notin {"idle", "return"}
  <2>1. /\ r.op \in Ops
        /\ r.pc \in 1..6
        /\ r.pc <= Len(Plan[r.op])
        /\ Stage(r) = Plan[r.op][r.pc]
    BY <1>2, StagePc
  <2>2. CASE r.op \in {"npk", "vpk"}
    <3>1. Plan[r.op] = <<"account">>
      BY <2>2 DEF Plan, GetNpk, GetVpk
    <3> QED
      BY <2>1, <2>2, <3>1
  <2>3. CASE r.op = "balance"
    <3>1. Plan[r.op] = <<"account", "open", "ask">>
      BY <2>3 DEF Plan, GetBalance
    <3> QED
      BY <2>1, <2>3, <3>1
  <2>4. CASE r.op = "sync"
    <3>1. Plan[r.op] = <<"open", "tip", "blocks", "store">>
      BY <2>4 DEF Plan, SyncPrivate
    <3>2. Len(Plan[r.op]) = 4 /\ r.pc \in 1..4
      BY <2>1, <3>1
    <3>3. \/ r.pc = 1 /\ Stage(r) = "open"
          \/ r.pc = 2 /\ Stage(r) = "tip"
          \/ r.pc = 3 /\ Stage(r) = "blocks"
          \/ r.pc = 4 /\ Stage(r) = "store"
      BY <2>1, <3>1, <3>2
    <3> QED
      BY <2>4, <3>3
  <2>5. CASE r.op = "history"
    <3>1. Plan[r.op] = <<"keystore", "open">>
      BY <2>5 DEF Plan, GetHistory
    <3> QED
      BY <2>1, <2>5, <3>1
  <2>6. CASE r.op = "send"
    <3>1. Plan[r.op] = <<"amount", "public", "open", "own", "recipient", "ask">>
      BY <2>6 DEF Plan, SendShielded
    <3>2. Len(Plan[r.op]) = 6 /\ r.pc \in 1..6
      BY <2>1, <3>1
    <3>3. Stage(r) \in {"amount", "public", "open", "own", "recipient", "ask"}
      BY <2>1, <3>1, <3>2
    <3> QED
      BY <2>6, <3>3
  <2>7. CASE r.op = "send_to"
    <3>1. Plan[r.op] = <<"amount", "input", "own", "open", "ask">>
      BY <2>7 DEF Plan, SendToForeign
    <3>2. Len(Plan[r.op]) = 5 /\ r.pc \in 1..5
      BY <2>1, <3>1
    <3>3. Stage(r) \in {"amount", "input", "own", "open", "ask"}
      BY <2>1, <3>1, <3>2
    <3> QED
      BY <2>7, <3>3
  <2>8. CASE r.op = "query"
    <3>1. Plan[r.op] = <<"open", "input", "ask">>
      BY <2>8 DEF Plan, ProgramQuery
    <3> QED
      BY <2>1, <2>8, <3>1
  <2>9. CASE r.op = "program"
    <3>1. Plan[r.op] = <<"keystore", "open", "input", "ask", "post">>
      BY <2>9 DEF Plan, ProgramCall
    <3>2. Len(Plan[r.op]) = 5 /\ r.pc \in 1..5
      BY <2>1, <3>1
    <3>3. Stage(r) \in {"keystore", "open", "input", "ask", "post"}
      BY <2>1, <3>1, <3>2
    <3> QED
      BY <2>9, <3>3
  <2>10. CASE r.op = "deploy"
    <3>1. Plan[r.op] = <<"open", "input", "post">>
      BY <2>10 DEF Plan, ProgramDeploy
    <3> QED
      BY <2>1, <2>10, <3>1
  <2>11. CASE r.op = "ensure"
    <3>1. Plan[r.op] = <<"exists">>
      BY <2>11 DEF Plan
    <3> QED
      BY <2>1, <2>11, <3>1
  <2>12. CASE r.op = "reopen"
    <3>1. Plan[r.op] = <<"exists", "keystore">>
      BY <2>12 DEF Plan, Reopen
    <3> QED
      BY <2>1, <2>12, <3>1
  <2>13. CASE r.op = "create"
    <3>1. Plan[r.op] = <<"exists", "init", "touch", "save", "print", "store">>
      BY <2>13 DEF Plan, Create
    <3>2. Len(Plan[r.op]) = 6 /\ r.pc \in 1..6
      BY <2>1, <3>1
    <3>3. \/ r.pc = 1 /\ Stage(r) = "exists"
          \/ r.pc = 2 /\ Stage(r) = "init"
          \/ r.pc = 3 /\ Stage(r) = "touch"
          \/ r.pc = 4 /\ Stage(r) = "save"
          \/ r.pc = 5 /\ Stage(r) = "print"
          \/ r.pc = 6 /\ Stage(r) = "store"
      BY <2>1, <3>1, <3>2
    <3> QED
      BY <2>13, <3>3
  <2> QED
    BY <2>1, <2>2, <2>3, <2>4, <2>5, <2>6, <2>7, <2>8, <2>9, <2>10, <2>11, <2>12, <2>13 DEF Ops, Plan
<1> QED
  BY <1>1, <1>2

\* A call returns successfully only when it has been through its whole plan.
LEMMA ReturnPc ==
  ASSUME NEW r \in Calls, Stage(r) = "return", r.error = None
  PROVE  /\ r.op \in Ops
         /\ r.op \in {"npk", "vpk"} => r.pc > 1
         /\ r.op = "sync" => r.pc > 4
         /\ r.op = "reopen" => r.pc > 2
         /\ r.op = "create" => r.pc > 6
<1>1. r.op \in Ops
  BY DEF Stage, Calls
<1>2. CASE r.pc > Len(Plan[r.op])
  BY <1>1, <1>2, PlanLengths DEF Calls
<1>3. CASE ~(r.pc > Len(Plan[r.op]))
  <2>1. Plan[r.op][r.pc] = "return"
    BY <1>1, <1>3 DEF Stage, Ops, Plan
  <2>2. r.pc \in 1..Len(Plan[r.op])
    BY <1>1, <1>3, PlanLengths DEF Calls
  <2>3. Plan[r.op][r.pc] # "return"
    BY <1>1, <2>2, PlanStages
  <2> QED
    BY <2>1, <2>3
<1> QED
  BY <1>2, <1>3

(***************************************************************************)
(* Types.                                                                  *)
(***************************************************************************)

LEMMA NoCallType == NoCall \in Calls
BY WalletAssumption DEF NoCall, Calls

\* Only the call of c is replaced.
LEMMA OneCall ==
  ASSUME call \in [Callers -> Calls], NEW c \in Callers, NEW x \in Calls,
         call' = [call EXCEPT ![c] = x]
  PROVE  /\ call' \in [Callers -> Calls]
         /\ call'[c] = x
         /\ \A d \in Callers \ {c} : call'[d] = call[d]
OBVIOUS

\* A call goes on to the next stage with what it has just read.
LEMMA GoOn ==
  ASSUME call \in [Callers -> Calls], NEW c \in Callers, NEW r \in Calls, r.pc \in 1..6, Go(c, r)
  PROVE  /\ call' \in [Callers -> Calls]
         /\ call'[c] \in Calls
         /\ call'[c].op = r.op /\ call'[c].pc = r.pc + 1 /\ call'[c].seed = r.seed
         /\ call'[c].nsk = r.nsk /\ call'[c].height = r.height /\ call'[c].error = r.error
         /\ \A d \in Callers \ {c} : call'[d] = call[d]
<1> DEFINE x == [r EXCEPT !.pc = r.pc + 1]
<1>1. x \in Calls
  BY DEF Calls
<1>2. /\ x.op = r.op /\ x.pc = r.pc + 1 /\ x.seed = r.seed
      /\ x.nsk = r.nsk /\ x.height = r.height /\ x.error = r.error
  BY DEF Calls
<1>3. call' = [call EXCEPT ![c] = x]
  BY DEF Go
<1> HIDE DEF x
<1>4. call' \in [Callers -> Calls] /\ call'[c] = x /\ \A d \in Callers \ {c} : call'[d] = call[d]
  BY <1>1, <1>3, OneCall
<1> QED
  BY <1>1, <1>2, <1>4

\* A call that fails keeps nothing but its error.
LEMMA Failed ==
  ASSUME call \in [Callers -> Calls], NEW c \in Callers, NEW error \in Errors, Fail(c, error)
  PROVE  /\ call' \in [Callers -> Calls]
         /\ call'[c] \in Calls
         /\ call'[c].op = call[c].op /\ call'[c].pc = 1 /\ call'[c].error = error
         /\ \A d \in Callers \ {c} : call'[d] = call[d]
<1> DEFINE x == [NoCall EXCEPT !.op = call[c].op, !.error = error]
<1>1. x \in Calls /\ x.op = call[c].op /\ x.pc = 1 /\ x.error = error
  BY NoCallType DEF Calls, NoCall
<1>2. call' = [call EXCEPT ![c] = x]
  BY DEF Fail
<1> HIDE DEF x
<1>3. call' \in [Callers -> Calls] /\ call'[c] = x /\ \A d \in Callers \ {c} : call'[d] = call[d]
  BY <1>1, <1>2, OneCall
<1> QED
  BY <1>1, <1>3

LEMMA ErrorTypes == "error" \in Errors /\ None \notin Errors
BY WalletAssumption DEF Errors

LEMMA AtStage ==
  ASSUME TypeOK, NEW c \in Callers, NEW s, s \notin {"idle", "return"}, At(c, s)
  PROVE  call[c] \in Calls /\ call[c].op \in Ops /\ call[c].error = None /\ call[c].pc \in 1..6
<1>1. call[c] \in Calls
  BY DEF TypeOK
<1>2. Stage(call[c]) \notin {"idle", "return"}
  BY DEF At
<1> QED
  BY <1>1, <1>2, StagePc

\* What the wallet's files hold, as what a call keeps of them.
LEMMA ReadTypes ==
  ASSUME TypeOK
  PROVE  /\ storage \notin Unreadable => storage.seed \in Mnemonics /\ storage.height \in 0..MaxTip
         /\ keystore \notin Unreadable => keystore.nsk \in Mnemonics /\ keystore.pass \in Passphrases
BY DEF TypeOK, Storages, Keystores

\* What a step may do to the call of its process if it does nothing else: end it with
\* an error, or take it on with what it has read.
Advanced(c) ==
  LET r == call[c]
      s == call'[c]
  IN /\ r.error = None /\ s.op = r.op
     /\ \/ /\ s.error # None /\ s.pc = 1
           /\ UNCHANGED raced
        \/ /\ s.error = None /\ s.pc = r.pc + 1
           /\ r.op \notin {"npk", "vpk", "sync", "ensure", "reopen", "create"}
           /\ UNCHANGED raced
        \/ /\ s.error = None /\ s.pc = r.pc + 1
           /\ r.op \in {"npk", "vpk"} /\ storage \notin Unreadable /\ s.seed = storage.seed
           /\ UNCHANGED raced
        \/ /\ s.error = None /\ s.pc = 3
           /\ r.op = "reopen" /\ keystore \notin Unreadable /\ keystore = Encrypt(s.nsk, PassOf[c])
           /\ s.nsk \in Mnemonics
           /\ UNCHANGED raced
        \/ /\ s.error = None /\ s.pc = 2
           /\ r.op = "sync" /\ r.pc = 1 /\ storage \notin Unreadable /\ s.seed = storage.seed
           /\ Race(c)
        \/ /\ s.error = None /\ s.pc = r.pc + 1
           /\ r.op = "sync" /\ r.pc \in 2..3 /\ s.seed = r.seed
           /\ UNCHANGED raced

Reads(c) ==
  \/ AccountFromStorage(c) \/ PublicAccountId(c) \/ AccountIdFromKeystore(c) \/ OpenWallet(c)
  \/ CheckInput(c) \/ CheckRecipient(c) \/ Ask(c)

\* The steps that only read files, check the input or ask the sequencer.
LEMMA ReadingAdvances ==
  ASSUME TypeOK, NEW c \in Callers, Reads(c)
  PROVE  /\ call' \in [Callers -> Calls]
         /\ \A d \in Callers \ {c} : call'[d] = call[d]
         /\ UNCHANGED <<files, world, records>>
         /\ Advanced(c)
<1>1. call \in [Callers -> Calls] /\ call[c] \in Calls
  BY DEF TypeOK
<1>2. ASSUME NEW error \in Errors, Fail(c, error), UNCHANGED <<files, world, records, raced>>, call[c].error = None
      PROVE  /\ call' \in [Callers -> Calls]
             /\ \A d \in Callers \ {c} : call'[d] = call[d]
             /\ UNCHANGED <<files, world, records>>
             /\ Advanced(c)
  <2>1. /\ call' \in [Callers -> Calls]
        /\ call'[c].op = call[c].op /\ call'[c].pc = 1 /\ call'[c].error = error
        /\ \A d \in Callers \ {c} : call'[d] = call[d]
    BY <1>1, <1>2, Failed
  <2> QED
    BY <1>2, <2>1, ErrorTypes DEF Advanced
<1>3. CASE AccountFromStorage(c)
  <2>1. /\ call[c].pc \in 1..6 /\ call[c].error = None
        /\ call[c].op \in {"npk", "vpk", "balance", "send", "send_to"}
    BY <1>1, <1>3, AtStage, StagePlaces DEF AccountFromStorage, At
  <2>2. CASE Fail(c, "error")
    BY <1>2, <1>3, <2>1, <2>2, ErrorTypes DEF AccountFromStorage
  <2>3. CASE storage \notin Unreadable /\ Go(c, [call[c] EXCEPT !.seed = storage.seed])
    <3> DEFINE r == [call[c] EXCEPT !.seed = storage.seed]
    <3>1. /\ r \in Calls /\ r.pc = call[c].pc /\ r.op = call[c].op
          /\ r.error = call[c].error /\ r.seed = storage.seed
      BY <1>1, <2>3, ReadTypes DEF Calls
    <3> HIDE DEF r
    <3>2. /\ call' \in [Callers -> Calls]
          /\ call'[c].op = r.op /\ call'[c].pc = r.pc + 1 /\ call'[c].error = r.error /\ call'[c].seed = r.seed
          /\ \A d \in Callers \ {c} : call'[d] = call[d]
      BY <1>1, <2>1, <2>3, <3>1, GoOn DEF r
    <3> QED
      BY <1>3, <2>1, <2>3, <3>1, <3>2 DEF AccountFromStorage, Advanced
  <2> QED
    BY <1>3, <2>2, <2>3 DEF AccountFromStorage
<1>4. CASE AccountIdFromKeystore(c)
  <2>1. /\ call[c].pc \in 1..6 /\ call[c].error = None
        /\ call[c].op \in {"history", "program"} \/ (call[c].op = "reopen" /\ call[c].pc = 2)
    BY <1>1, <1>4, AtStage, StagePlaces DEF AccountIdFromKeystore, At
  <2>2. CASE Fail(c, "error")
    BY <1>2, <1>4, <2>1, <2>2, ErrorTypes DEF AccountIdFromKeystore
  <2>3. CASE Decrypts(keystore, PassOf[c]) /\ Go(c, [call[c] EXCEPT !.nsk = keystore.nsk])
    <3> DEFINE r == [call[c] EXCEPT !.nsk = keystore.nsk]
    <3>1. /\ r \in Calls /\ r.pc = call[c].pc /\ r.op = call[c].op
          /\ r.error = call[c].error /\ r.nsk = keystore.nsk
      BY <1>1, <2>3, ReadTypes DEF Calls, Decrypts
    <3>2. keystore \notin Unreadable /\ keystore = Encrypt(keystore.nsk, PassOf[c]) /\ keystore.nsk \in Mnemonics
      BY <2>3, ReadTypes DEF Decrypts, Encrypt, TypeOK, Keystores
    <3> HIDE DEF r
    <3>3. /\ call' \in [Callers -> Calls]
          /\ call'[c].op = r.op /\ call'[c].pc = r.pc + 1 /\ call'[c].error = r.error /\ call'[c].nsk = r.nsk
          /\ \A d \in Callers \ {c} : call'[d] = call[d]
      BY <1>1, <2>1, <2>3, <3>1, GoOn DEF r
    <3> QED
      BY <1>4, <2>1, <3>1, <3>2, <3>3 DEF AccountIdFromKeystore, Advanced
  <2> QED
    BY <1>4, <2>2, <2>3 DEF AccountIdFromKeystore
<1>5. CASE OpenWallet(c)
  <2>1. /\ call[c].pc \in 1..6 /\ call[c].error = None
        /\ call[c].op \notin {"npk", "vpk", "ensure", "reopen", "create"}
        /\ call[c].op = "sync" => call[c].pc = 1
    BY <1>1, <1>5, AtStage, StagePlaces DEF OpenWallet, At
  <2>2. CASE UNCHANGED raced /\ Fail(c, "error")
    BY <1>2, <1>5, <2>1, <2>2, ErrorTypes DEF OpenWallet
  <2>3. CASE UNCHANGED raced /\ call[c].op # "sync" /\ Go(c, call[c])
    <3>1. /\ call' \in [Callers -> Calls]
          /\ call'[c].op = call[c].op /\ call'[c].pc = call[c].pc + 1 /\ call'[c].error = None
          /\ \A d \in Callers \ {c} : call'[d] = call[d]
      BY <1>1, <2>1, <2>3, GoOn
    <3> QED
      BY <1>5, <2>1, <2>3, <3>1 DEF OpenWallet, Advanced
  <2>4. CASE /\ storage \notin Unreadable /\ call[c].op = "sync"
             /\ Go(c, [call[c] EXCEPT !.seed = storage.seed, !.height = storage.height])
             /\ Race(c)
    <3> DEFINE r == [call[c] EXCEPT !.seed = storage.seed, !.height = storage.height]
    <3>1. /\ r \in Calls /\ r.pc = call[c].pc /\ r.op = call[c].op
          /\ r.error = call[c].error /\ r.seed = storage.seed
      BY <1>1, <2>4, ReadTypes DEF Calls
    <3> HIDE DEF r
    <3>2. /\ call' \in [Callers -> Calls]
          /\ call'[c].op = r.op /\ call'[c].pc = r.pc + 1 /\ call'[c].error = r.error /\ call'[c].seed = r.seed
          /\ \A d \in Callers \ {c} : call'[d] = call[d]
      BY <1>1, <2>1, <2>4, <3>1, GoOn DEF r
    <3> QED
      BY <1>5, <2>1, <2>4, <3>1, <3>2 DEF OpenWallet, Advanced
  <2> QED
    BY <1>5, <2>2, <2>3, <2>4 DEF OpenWallet
<1>6. ASSUME UNCHANGED <<files, world, records, raced>>, Go(c, call[c]), call[c].pc \in 1..6, call[c].error = None,
             \/ call[c].op \in {"balance", "send", "send_to", "query", "program", "deploy"}
             \/ call[c].op = "sync" /\ call[c].pc \in 2..3
      PROVE  /\ call' \in [Callers -> Calls]
             /\ \A d \in Callers \ {c} : call'[d] = call[d]
             /\ UNCHANGED <<files, world, records>>
             /\ Advanced(c)
  <2>1. /\ call' \in [Callers -> Calls]
        /\ call'[c].op = call[c].op /\ call'[c].pc = call[c].pc + 1 /\ call'[c].error = None
        /\ call'[c].seed = call[c].seed
        /\ \A d \in Callers \ {c} : call'[d] = call[d]
    BY <1>1, <1>6, GoOn
  <2> QED
    BY <1>6, <2>1 DEF Advanced
<1>7. CASE PublicAccountId(c) \/ CheckInput(c) \/ CheckRecipient(c)
  <2>1. /\ call[c].pc \in 1..6 /\ call[c].error = None
        /\ call[c].op \in {"balance", "send", "send_to", "query", "program", "deploy"}
    BY <1>1, <1>7, AtStage, StagePlaces DEF PublicAccountId, CheckInput, CheckRecipient, At
  <2>2. UNCHANGED <<files, world, records, raced>> /\ (Go(c, call[c]) \/ \E error \in Errors : Fail(c, error))
    BY <1>7, ErrorTypes DEF PublicAccountId, CheckInput, CheckRecipient
  <2> QED
    BY <1>2, <1>6, <2>1, <2>2
<1>8. CASE Ask(c)
  <2>1. UNCHANGED <<files, world, records, raced>>
    BY <1>8 DEF Ask
  <2>2. call[c].pc \in 1..6 /\ call[c].error = None
    BY <1>8, AtStage DEF Ask
  <2>3. CASE \E error \in Errors : Fail(c, error)
    BY <1>2, <2>1, <2>2, <2>3
  <2>4. CASE (At(c, "ask") \/ At(c, "blocks") \/ At(c, "post")) /\ Go(c, call[c])
    <3>1. \/ call[c].op \in {"balance", "send", "send_to", "query", "program", "deploy"}
          \/ call[c].op = "sync" /\ call[c].pc \in 2..3
      BY <1>1, <2>4, StagePlaces DEF At
    <3> QED
      BY <1>6, <2>1, <2>2, <2>4, <3>1
  <2>5. CASE At(c, "tip") /\ Go(c, [call[c] EXCEPT !.height = tip])
    <3> DEFINE r == [call[c] EXCEPT !.height = tip]
    <3>1. /\ r \in Calls /\ r.pc = call[c].pc /\ r.op = call[c].op
          /\ r.error = call[c].error /\ r.seed = call[c].seed
      BY <1>1 DEF Calls, TypeOK
    <3>2. call[c].op = "sync" /\ call[c].pc = 2
      BY <1>1, <2>5, StagePlaces DEF At
    <3> HIDE DEF r
    <3>3. /\ call' \in [Callers -> Calls]
          /\ call'[c].op = r.op /\ call'[c].pc = r.pc + 1 /\ call'[c].error = r.error /\ call'[c].seed = r.seed
          /\ \A d \in Callers \ {c} : call'[d] = call[d]
      BY <1>1, <2>2, <2>5, <3>1, GoOn DEF r
    <3> QED
      BY <2>1, <2>2, <3>1, <3>2, <3>3 DEF Advanced
  <2> QED
    BY <1>8, <2>3, <2>4, <2>5, ErrorTypes DEF Ask
<1> QED
  BY <1>3, <1>4, <1>5, <1>7, <1>8 DEF Reads

(***************************************************************************)
(* Type correctness.  It needs to be known where in its plan a call has    *)
(* read, or been given, the mnemonic that it will write.                   *)
(***************************************************************************)

Filled(r) ==
  r.error = None =>
    /\ r.op \in {"npk", "vpk", "sync"} /\ r.pc > 1 => r.seed \in Mnemonics
    /\ r.op = "reopen" /\ r.pc > 2 => r.nsk \in Mnemonics
    /\ r.op = "create" /\ r.pc > 2 => r.seed \in Mnemonics /\ r.nsk = r.seed
Typed == TypeOK /\ \A c \in Callers : Filled(call[c])

LEMMA TypedInit == Init => Typed
<1> SUFFICES ASSUME Init
             PROVE  Typed
  OBVIOUS
<1>1. TypeOK
  <2>1. call \in [Callers -> Calls]
    BY NoCallType DEF Init
  <2>2. tip \in 0..MaxTip /\ faults \in 0..MaxFaults
    BY WalletAssumption DEF Init
  <2> QED
    BY <2>1, <2>2 DEF Init, TypeOK, Unreadable
<1>2. \A c \in Callers : call[c].pc = 1
  BY DEF Init, NoCall
<1> QED
  BY <1>1, <1>2 DEF Typed, Filled

\* The calls of the other processes stay as they are.
LEMMA OthersFilled ==
  ASSUME Typed, TypeOK', NEW c \in Callers, \A d \in Callers \ {c} : call'[d] = call[d], Filled(call'[c])
  PROVE  Typed'
<1>1. \A d \in Callers : Filled(call'[d])
  BY DEF Typed, Filled
<1> QED
  BY <1>1 DEF Typed, Filled

\* A call that has not begun to read is trivially filled.
LEMMA FreshFilled ==
  ASSUME NEW r \in Calls, r.error # None \/ r.pc = 1
  PROVE  Filled(r)
BY DEF Filled, Calls

\* Begin and Kill leave a call at its beginning, or none.
LEMMA BeginFresh ==
  ASSUME TypeOK, NEW c \in Callers, Begin(c) \/ Kill(c) \/ Reply(c)
  PROVE  /\ call' \in [Callers -> Calls]
         /\ call'[c].op \notin {"reopen", "create"}
         /\ call'[c].pc = 1
         /\ \A d \in Callers \ {c} : call'[d] = call[d]
<1>1. call \in [Callers -> Calls]
  BY DEF TypeOK
<1>2. CASE Begin(c)
  <2>1. PICK op \in OpsOf(c), error \in {None, "error"} :
          call' = [call EXCEPT ![c] = [NoCall EXCEPT !.op = op, !.error = error]]
    BY <1>2 DEF Begin
  <2> DEFINE r == [NoCall EXCEPT !.op = op, !.error = error]
  <2>2. r \in Calls /\ r.op = op /\ r.pc = 1 /\ op \notin {"reopen", "create"}
    BY NoCallType, ErrorTypes DEF Calls, NoCall, OpsOf, Exports
  <2> HIDE DEF r
  <2>3. /\ call' \in [Callers -> Calls]
        /\ call'[c] = r
        /\ \A d \in Callers \ {c} : call'[d] = call[d]
    BY <1>1, <2>1, <2>2, OneCall DEF r
  <2> QED
    BY <2>2, <2>3
<1>3. CASE Kill(c) \/ Reply(c)
  <2>1. call' = [call EXCEPT ![c] = NoCall]
    BY <1>3 DEF Kill, Reply
  <2>2. NoCall.op = "none" /\ NoCall.pc = 1
    BY DEF NoCall
  <2>3. /\ call' \in [Callers -> Calls]
        /\ call'[c] = NoCall
        /\ \A d \in Callers \ {c} : call'[d] = call[d]
    BY <1>1, <2>1, NoCallType, OneCall
  <2> QED
    BY <2>2, <2>3
<1> QED
  BY <1>2, <1>3

LEMMA TypedStep ==
  ASSUME Typed, NEW c \in Callers, Begin(c) \/ Step(c) \/ Kill(c)
  PROVE  Typed'
<1>1. TypeOK /\ call \in [Callers -> Calls] /\ raced \in BOOLEAN /\ call[c] \in Calls /\ Filled(call[c])
  BY DEF Typed, TypeOK
<1>2. ASSUME NEW error \in Errors, Fail(c, error)
      PROVE  /\ call' \in [Callers -> Calls] /\ Filled(call'[c])
             /\ \A d \in Callers \ {c} : call'[d] = call[d]
  BY <1>1, <1>2, Failed, FreshFilled
<1>3. CASE Begin(c) \/ Kill(c)
  <2>1. call' \in [Callers -> Calls] /\ Filled(call'[c]) /\ \A d \in Callers \ {c} : call'[d] = call[d]
    BY <1>1, <1>3, BeginFresh, FreshFilled
  <2>2. faults' \in 0..MaxFaults
    <3>1. faults' = faults \/ (faults < MaxFaults /\ faults' = faults + 1)
      BY <1>3 DEF Begin, Kill, Fault, world
    <3> QED
      BY <1>1, <3>1, WalletAssumption DEF TypeOK
  <2>3. storage' \in Storages \cup Unreadable
    BY <1>1, <1>3 DEF Begin, Kill, TypeOK, Unreadable, files
  <2>4. TypeOK'
    BY <1>1, <1>3, <2>1, <2>2, <2>3 DEF Begin, Kill, TypeOK, files, world, records
  <2> QED
    BY <2>1, <2>4, OthersFilled
<1>4. CASE Reads(c)
  <2>1. /\ call' \in [Callers -> Calls]
        /\ \A d \in Callers \ {c} : call'[d] = call[d]
        /\ UNCHANGED <<files, world, records>>
        /\ Advanced(c)
    BY <1>1, <1>4, ReadingAdvances
  <2>2. raced' \in BOOLEAN
    BY <1>1, <2>1 DEF Advanced, Race
  <2>3. TypeOK'
    BY <1>1, <2>1, <2>2 DEF TypeOK, files, world, records
  <2>4. Filled(call'[c])
    BY <1>1, <2>1, ReadTypes DEF Advanced, Filled, Calls
  <2> QED
    BY <2>1, <2>3, <2>4, OthersFilled
<1>5. CASE Store(c)
  <2>1. /\ call[c].pc \in 1..6 /\ call[c].error = None
        /\ (call[c].op = "sync" /\ call[c].pc = 4) \/ (call[c].op = "create" /\ call[c].pc = 6)
    BY <1>1, <1>5, AtStage, StagePlaces DEF Store, At
  <2>3. /\ call' \in [Callers -> Calls] /\ Filled(call'[c])
        /\ \A d \in Callers \ {c} : call'[d] = call[d]
    <3>1. CASE Fail(c, "error")
      BY <1>2, <3>1, ErrorTypes
    <3>2. CASE Go(c, call[c])
      BY <1>1, <2>1, <3>2, GoOn DEF Filled
    <3> QED
      BY <1>5, <3>1, <3>2 DEF Store
  <2>4. [seed |-> call[c].seed, height |-> call[c].height] \in Storages
    BY <1>1, <2>1 DEF Filled, Storages, Calls
  <2>5. storage' \in Storages \cup Unreadable
    BY <1>1, <1>5, <2>4 DEF Store, TypeOK, Unreadable
  <2>6. faults' \in 0..MaxFaults
    BY <1>1, <1>5, WalletAssumption DEF Store, Fault, TypeOK
  <2>7. TypeOK'
    BY <1>1, <1>5, <2>3, <2>5, <2>6 DEF Store, TypeOK, records
  <2> QED
    BY <2>3, <2>7, OthersFilled
<1>6. CASE EnsureAccount(c)
  <2>1. call[c].pc = 1
    BY <1>1, <1>6, StagePlaces DEF EnsureAccount, At
  <2>2. raced' \in BOOLEAN
    BY <1>1, <1>6 DEF EnsureAccount, Race
  <2>3. ASSUME NEW op \in {"reopen", "create"}, Go(c, [call[c] EXCEPT !.op = op])
        PROVE  /\ call' \in [Callers -> Calls] /\ Filled(call'[c])
               /\ \A d \in Callers \ {c} : call'[d] = call[d]
    <3> DEFINE r == [call[c] EXCEPT !.op = op]
    <3>1. r \in Calls /\ r.pc = 1
      BY <1>1, <2>1 DEF Calls, Ops, Plan
    <3>2. r.op \in {"reopen", "create"} /\ Go(c, r)
      BY <1>1, <2>3 DEF Calls
    <3> HIDE DEF r
    <3>3. /\ call' \in [Callers -> Calls] /\ call'[c].pc = 2 /\ call'[c] \in Calls
          /\ call'[c].op = r.op
          /\ \A d \in Callers \ {c} : call'[d] = call[d]
      BY <1>1, <3>1, <3>2, GoOn
    <3> QED
      BY <3>2, <3>3 DEF Filled
  <2>4. /\ call' \in [Callers -> Calls] /\ Filled(call'[c])
        /\ \A d \in Callers \ {c} : call'[d] = call[d]
    BY <1>2, <1>6, <2>3, ErrorTypes DEF EnsureAccount
  <2>5. TypeOK'
    BY <1>1, <1>6, <2>2, <2>4 DEF EnsureAccount, TypeOK, files, world, records
  <2> QED
    BY <2>4, <2>5, OthersFilled
<1>7. CASE NewInitStorage(c)
  <2>1. call[c].op = "create" /\ call[c].pc = 2
    BY <1>1, <1>7, StagePlaces DEF NewInitStorage, At
  <2>2. call[c].error = None
    BY <1>1, <1>7, AtStage DEF NewInitStorage
  <2>3. CASE Fail(c, "error") /\ UNCHANGED used
    <3>1. /\ call' \in [Callers -> Calls] /\ Filled(call'[c])
          /\ \A d \in Callers \ {c} : call'[d] = call[d]
      BY <1>2, <2>3, ErrorTypes
    <3>2. TypeOK'
      BY <1>1, <1>7, <2>3, <3>1 DEF NewInitStorage, TypeOK, files, records
    <3> QED
      BY <3>1, <3>2, OthersFilled
  <2>4. ASSUME NEW m \in Mnemonics, used' = used \cup {m}, Go(c, [call[c] EXCEPT !.seed = m, !.nsk = m])
        PROVE  Typed'
    <3> DEFINE r == [call[c] EXCEPT !.seed = m, !.nsk = m]
    <3>1. r \in Calls /\ r.pc = 2 /\ r.op = "create" /\ r.seed = m /\ r.nsk = m /\ r.height = call[c].height
      BY <1>1, <2>1 DEF Calls
    <3>a. Go(c, r)
      BY <2>4
    <3> HIDE DEF r
    <3>2. /\ call' \in [Callers -> Calls] /\ call'[c].pc = 3 /\ call'[c].op = "create"
          /\ call'[c].seed = m /\ call'[c].nsk = m /\ call'[c].height = call[c].height
          /\ \A d \in Callers \ {c} : call'[d] = call[d]
      BY <1>1, <3>1, <3>a, GoOn
    <3>3. TypeOK'
      BY <1>1, <1>7, <2>4, <3>2 DEF NewInitStorage, TypeOK, files, records
    <3> QED
      BY <2>4, <3>2, <3>3, OthersFilled DEF Filled
  <2> QED
    BY <1>7, <2>3, <2>4 DEF NewInitStorage
<1>8. CASE TouchKeystore(c) \/ SaveKeystore(c) \/ PrintMnemonic(c)
  <2>1. call[c].op = "create" /\ call[c].pc \in 3..5
    BY <1>1, <1>8, StagePlaces DEF TouchKeystore, SaveKeystore, PrintMnemonic, At
  <2>2. call[c].error = None
    BY <1>1, <1>8, AtStage DEF TouchKeystore, SaveKeystore, PrintMnemonic
  <2>3. call[c].seed \in Mnemonics /\ call[c].nsk = call[c].seed
    BY <1>1, <2>1, <2>2 DEF Filled
  <2>4. /\ call' \in [Callers -> Calls] /\ Filled(call'[c])
        /\ \A d \in Callers \ {c} : call'[d] = call[d]
    <3>1. CASE Fail(c, "error")
      BY <1>2, <3>1, ErrorTypes
    <3>2. CASE Go(c, call[c])
      BY <1>1, <2>1, <2>3, <3>2, GoOn DEF Filled
    <3> QED
      BY <1>8, <3>1, <3>2 DEF TouchKeystore, SaveKeystore, PrintMnemonic
  <2>5. Encrypt(call[c].nsk, PassOf[c]) \in Keystores
    BY <2>3, WalletAssumption DEF Encrypt, Keystores
  <2>6. faults' \in 0..MaxFaults
    BY <1>1, <1>8, WalletAssumption DEF TouchKeystore, SaveKeystore, PrintMnemonic, Fault, TypeOK, world
  <2>7. /\ keystore' \in Keystores \cup Unreadable
        /\ sealed' \in SUBSET Keystores
        /\ shown' \in SUBSET Mnemonics
    BY <1>1, <1>8, <2>3, <2>5 DEF TouchKeystore, SaveKeystore, PrintMnemonic, TypeOK, Unreadable, files, records
  <2>8. TypeOK'
    BY <1>1, <1>8, <2>4, <2>6, <2>7
       DEF TouchKeystore, SaveKeystore, PrintMnemonic, TypeOK, files, world, records
  <2> QED
    BY <2>4, <2>8, OthersFilled
<1>9. CASE Reply(c)
  <2>0. Stage(call[c]) = "return"
    BY <1>9 DEF Reply, At
  <2>1. call' \in [Callers -> Calls] /\ Filled(call'[c]) /\ \A d \in Callers \ {c} : call'[d] = call[d]
    BY <1>1, <1>9, BeginFresh, FreshFilled
  <2>2. announced' \in SUBSET (Accounts \X Passphrases)
    <3>1. CASE UNCHANGED announced
      BY <1>1, <3>1 DEF TypeOK
    <3>2. CASE /\ call[c].error = None /\ call[c].op \in {"reopen", "create"}
               /\ announced' = announced \cup {<<KeystoreAccount(call[c].nsk), PassOf[c]>>}
      <4>1. call[c].nsk \in Mnemonics
        BY <1>1, <2>0, <3>2, ReturnPc DEF Filled, Calls
      <4> QED
        BY <1>1, <3>2, <4>1, WalletAssumption DEF TypeOK, KeystoreAccount, Accounts
    <3> QED
      BY <1>9, <3>1, <3>2 DEF Reply
  <2>3. given' \in SUBSET Accounts
    <3>1. CASE UNCHANGED given
      BY <1>1, <3>1 DEF TypeOK
    <3>2. CASE /\ call[c].error = None /\ call[c].op \in {"npk", "vpk"}
               /\ given' = given \cup {WalletAccount(call[c].seed)}
      <4>1. call[c].seed \in Mnemonics
        BY <1>1, <2>0, <3>2, ReturnPc DEF Filled, Calls
      <4> QED
        BY <1>1, <3>2, <4>1 DEF TypeOK, WalletAccount, Accounts
    <3> QED
      BY <1>9, <3>1, <3>2 DEF Reply
  <2>4. TypeOK'
    BY <1>1, <1>9, <2>1, <2>2, <2>3 DEF Reply, TypeOK, files, world
  <2> QED
    BY <2>1, <2>4, OthersFilled
<1> QED
  BY <1>3, <1>4, <1>5, <1>6, <1>7, <1>8, <1>9 DEF Step, Reads

LEMMA TypedNext == Typed /\ [Next]_vars => Typed'
<1> SUFFICES ASSUME Typed, [Next]_vars
             PROVE  Typed'
  OBVIOUS
<1>1. CASE UNCHANGED vars
  BY <1>1 DEF Typed, TypeOK, Filled, vars, files, world, records
<1>2. CASE NewBlock
  BY <1>2, WalletAssumption DEF NewBlock, Typed, TypeOK, Filled, files, records
<1>3. CASE \E c \in Callers : Begin(c) \/ Step(c) \/ Kill(c)
  BY <1>3, TypedStep
<1> QED
  BY <1>1, <1>2, <1>3 DEF Next

\* Every variable of the wallet's home keeps its type.
THEOREM WalletTypeCorrect == Spec => []TypeOK
<1>1. Spec => []Typed
  BY TypedInit, TypedNext, PTL DEF Spec
<1>2. Typed => TypeOK
  BY DEF Typed
<1> QED
  BY <1>1, <1>2, PTL

(***************************************************************************)
(* First invariant: nothing is kept that was not announced to the operator *)
(* or written under a passphrase before.                                   *)
(***************************************************************************)

FilesKnown ==
  /\ storage \notin Unreadable => storage.seed \in shown
  /\ keystore \notin Unreadable => keystore \in sealed

\* What a process has read, or is about to write, is known in the same sense.
CallKnown(r, pass) ==
  r.error = None =>
    /\ r.op \in {"npk", "vpk", "sync"} /\ r.pc > 1 => r.seed \in shown
    /\ r.op = "reopen" /\ r.pc > 2 => Encrypt(r.nsk, pass) \in sealed
    /\ r.op = "create" /\ r.pc > 4 => Encrypt(r.nsk, pass) \in sealed
    /\ r.op = "create" /\ r.pc > 5 => r.seed \in shown
CallsKnown == \A c \in Callers : CallKnown(call[c], PassOf[c])

Known == FilesKnown /\ CallsKnown /\ AddressRecoverable /\ AnnouncedWasSealed

LEMMA KnownInit == Init => Known
BY DEF Init, Known, FilesKnown, CallsKnown, CallKnown, NoCall, Unreadable, AddressRecoverable, AnnouncedWasSealed

\* A writing step takes its call on as it is, or ends it with an error.
LEMMA Proceeds ==
  ASSUME Typed, NEW c \in Callers, call[c].pc \in 1..6, call[c].error = None,
         Go(c, call[c]) \/ Fail(c, "error")
  PROVE  /\ call'[c].op = call[c].op
         /\ \A d \in Callers \ {c} : call'[d] = call[d]
         /\ \/ call'[c].error # None /\ call'[c].pc = 1 /\ Fail(c, "error")
            \/ /\ call'[c].error = None /\ call'[c].pc = call[c].pc + 1
               /\ call'[c].seed = call[c].seed /\ call'[c].nsk = call[c].nsk
               /\ call'[c].height = call[c].height
               /\ Go(c, call[c])
<1>1. call \in [Callers -> Calls] /\ call[c] \in Calls
  BY DEF Typed, TypeOK
<1>2. CASE Go(c, call[c])
  BY <1>1, <1>2, GoOn
<1>3. CASE Fail(c, "error")
  BY <1>1, <1>3, Failed, ErrorTypes
<1> QED
  BY <1>2, <1>3

\* The two steps of ensure_account that decide, and that make the mnemonic.
LEMMA EnsureMoves ==
  ASSUME Typed, NEW c \in Callers, EnsureAccount(c)
  PROVE  /\ call[c].op \in {"ensure", "reopen", "create"}
         /\ \A d \in Callers \ {c} : call'[d] = call[d]
         /\ \/ call'[c].error # None /\ call'[c].pc = 1 /\ call'[c].op = call[c].op /\ UNCHANGED raced
            \/ /\ keystore # Missing /\ call'[c].op = "reopen" /\ call'[c].pc = 2 /\ UNCHANGED raced
            \/ /\ keystore = Missing /\ call'[c].op = "create" /\ call'[c].pc = 2 /\ Race(c)
<1>1. call \in [Callers -> Calls] /\ call[c] \in Calls
  BY DEF Typed, TypeOK
<1>2. call[c].op \in {"ensure", "reopen", "create"} /\ call[c].pc = 1
  BY <1>1, StagePlaces DEF EnsureAccount, At
<1>3. ASSUME NEW op \in {"reopen", "create"}, Go(c, [call[c] EXCEPT !.op = op])
      PROVE  call'[c].op = op /\ call'[c].pc = 2 /\ \A d \in Callers \ {c} : call'[d] = call[d]
  <2> DEFINE r == [call[c] EXCEPT !.op = op]
  <2>1. r \in Calls /\ r.op = op /\ r.pc = 1 /\ Go(c, r)
    BY <1>1, <1>2, <1>3 DEF Calls, Ops, Plan
  <2> HIDE DEF r
  <2> QED
    BY <1>1, <2>1, GoOn
<1>4. CASE Fail(c, "error") /\ UNCHANGED raced
  BY <1>1, <1>2, <1>4, Failed, ErrorTypes
<1>5. CASE keystore # Missing /\ Go(c, [call[c] EXCEPT !.op = "reopen"]) /\ UNCHANGED raced
  BY <1>2, <1>3, <1>5
<1>6. CASE keystore = Missing /\ Go(c, [call[c] EXCEPT !.op = "create"]) /\ Race(c)
  BY <1>2, <1>3, <1>6
<1> QED
  BY <1>4, <1>5, <1>6 DEF EnsureAccount

LEMMA InitMoves ==
  ASSUME Typed, NEW c \in Callers, NewInitStorage(c)
  PROVE  /\ call[c].op = "create" /\ call[c].pc = 2 /\ call[c].error = None
         /\ call'[c].op = "create"
         /\ \A d \in Callers \ {c} : call'[d] = call[d]
         /\ \/ call'[c].error # None /\ call'[c].pc = 1
            \/ call'[c].error = None /\ call'[c].pc = 3
<1>1. call \in [Callers -> Calls] /\ call[c] \in Calls
  BY DEF Typed, TypeOK
<1>2. call[c].op = "create" /\ call[c].pc = 2
  BY <1>1, StagePlaces DEF NewInitStorage, At
<1>3. call[c].error = None
  BY AtStage DEF NewInitStorage, Typed
<1>4. ASSUME NEW m \in Mnemonics, Go(c, [call[c] EXCEPT !.seed = m, !.nsk = m])
      PROVE  /\ call'[c].op = "create" /\ call'[c].pc = 3 /\ call'[c].error = None
             /\ \A d \in Callers \ {c} : call'[d] = call[d]
  <2> DEFINE r == [call[c] EXCEPT !.seed = m, !.nsk = m]
  <2>1. r \in Calls /\ r.op = "create" /\ r.pc = 2 /\ r.error = None /\ Go(c, r)
    BY <1>1, <1>2, <1>3, <1>4 DEF Calls
  <2> HIDE DEF r
  <2> QED
    BY <1>1, <2>1, GoOn
<1>5. CASE Fail(c, "error")
  BY <1>1, <1>2, <1>3, <1>5, Failed, ErrorTypes
<1>6. CASE \E m \in Mnemonics : Go(c, [call[c] EXCEPT !.seed = m, !.nsk = m])
  BY <1>2, <1>3, <1>4, <1>6
<1> QED
  BY <1>5, <1>6 DEF NewInitStorage

\* The calls of the other processes stay known while the records only grow.
LEMMA OthersKnown ==
  ASSUME CallsKnown, NEW c \in Callers, \A d \in Callers \ {c} : call'[d] = call[d],
         shown \subseteq shown', sealed \subseteq sealed', CallKnown(call[c], PassOf[c])'
  PROVE  CallsKnown'
<1>1. ASSUME NEW d \in Callers
      PROVE  CallKnown(call[d], PassOf[d])'
  <2>1. CASE d = c
    BY <2>1
  <2>2. CASE d # c
    <3>1. CallKnown(call[d], PassOf[d]) /\ call'[d] = call[d]
      BY <2>2 DEF CallsKnown
    <3> QED
      BY <3>1 DEF CallKnown
  <2> QED
    BY <2>1, <2>2
<1> QED
  BY <1>1 DEF CallsKnown

LEMMA KnownStep ==
  ASSUME Typed, Known, NEW c \in Callers, Begin(c) \/ Step(c) \/ Kill(c)
  PROVE  Known'
<1>1. /\ TypeOK /\ call[c] \in Calls /\ Filled(call[c]) /\ CallKnown(call[c], PassOf[c])
      /\ FilesKnown /\ CallsKnown /\ AddressRecoverable /\ AnnouncedWasSealed
  BY DEF Typed, TypeOK, Known, CallsKnown
<1>2. ASSUME UNCHANGED <<announced, given>>, shown \subseteq shown', sealed \subseteq sealed'
      PROVE  AddressRecoverable' /\ AnnouncedWasSealed'
  BY <1>1, <1>2 DEF AddressRecoverable, AnnouncedWasSealed
<1>3. CASE Begin(c) \/ Kill(c)
  <2>1. call'[c].pc = 1 /\ call'[c].op \notin {"reopen", "create"} /\ \A d \in Callers \ {c} : call'[d] = call[d]
    BY <1>1, <1>3, BeginFresh
  <2>2. UNCHANGED records /\ keystore' = keystore /\ storage' \in {storage, Torn}
    BY <1>3 DEF Begin, Kill, files
  <2>3. CallsKnown'
    BY <1>1, <2>1, <2>2, OthersKnown DEF CallKnown, records
  <2>4. FilesKnown'
    BY <1>1, <2>2 DEF FilesKnown, records, Unreadable
  <2> QED
    BY <1>2, <2>2, <2>3, <2>4 DEF Known, records
<1>4. CASE Reads(c)
  <2>1. /\ \A d \in Callers \ {c} : call'[d] = call[d]
        /\ UNCHANGED <<files, world, records>>
        /\ Advanced(c)
    BY <1>1, <1>4, ReadingAdvances
  <2>2. CallKnown(call[c], PassOf[c])'
    BY <1>1, <2>1 DEF Advanced, CallKnown, FilesKnown, Calls, records
  <2>3. CallsKnown'
    BY <1>1, <2>1, <2>2, OthersKnown DEF records
  <2> QED
    BY <1>1, <1>2, <2>1, <2>3 DEF Known, FilesKnown, files, records
<1>5. CASE Store(c)
  <2>1. /\ call[c].pc \in 1..6 /\ call[c].error = None
        /\ (call[c].op = "sync" /\ call[c].pc = 4) \/ (call[c].op = "create" /\ call[c].pc = 6)
    BY <1>1, <1>5, AtStage, StagePlaces DEF Store, At
  <2>2. UNCHANGED <<keystore, records>> /\ (Go(c, call[c]) \/ Fail(c, "error"))
    BY <1>5 DEF Store
  <2>3. CallKnown(call[c], PassOf[c])'
    BY <1>1, <2>1, <2>2, Proceeds DEF CallKnown, records
  <2>4. CallsKnown'
    BY <1>1, <2>1, <2>2, <2>3, Proceeds, OthersKnown DEF records
  <2>5. call[c].seed \in shown
    BY <1>1, <2>1 DEF CallKnown
  <2>6. storage' = [seed |-> call[c].seed, height |-> call[c].height] \/ storage' \in {storage, Torn}
    BY <1>5 DEF Store
  <2>7. FilesKnown'
    BY <1>1, <2>2, <2>5, <2>6 DEF FilesKnown, records, Unreadable
  <2> QED
    BY <1>2, <2>2, <2>4, <2>7 DEF Known, records
<1>6. CASE EnsureAccount(c)
  <2>1. call[c].pc = 1 /\ call[c].error = None
    BY <1>1, <1>6, StagePlaces, AtStage DEF EnsureAccount, At
  <2>2. call'[c].pc \in 1..2 /\ call'[c].op \notin {"npk", "vpk", "sync"} /\ \A d \in Callers \ {c} : call'[d] = call[d]
    BY <1>1, <1>6, <2>1, EnsureMoves
  <2>3. CallKnown(call[c], PassOf[c])'
    BY <2>2 DEF CallKnown
  <2>4. UNCHANGED <<files, records>>
    BY <1>6 DEF EnsureAccount
  <2>5. CallsKnown'
    BY <1>1, <2>2, <2>3, <2>4, OthersKnown DEF records
  <2> QED
    BY <1>1, <1>2, <2>4, <2>5 DEF Known, FilesKnown, files, records
<1>7. CASE NewInitStorage(c)
  <2>1. call'[c].op = "create" /\ call'[c].pc \in 1..3 /\ \A d \in Callers \ {c} : call'[d] = call[d]
    BY <1>1, <1>7, InitMoves
  <2>2. UNCHANGED <<files, records>>
    BY <1>7 DEF NewInitStorage
  <2>3. CallKnown(call[c], PassOf[c])'
    BY <2>1 DEF CallKnown
  <2>4. CallsKnown'
    BY <1>1, <2>1, <2>2, <2>3, OthersKnown DEF records
  <2> QED
    BY <1>1, <1>2, <2>2, <2>4 DEF Known, FilesKnown, files, records
<1>8. CASE TouchKeystore(c) \/ SaveKeystore(c) \/ PrintMnemonic(c)
  <2>1. call[c].op = "create" /\ call[c].pc \in 3..5 /\ call[c].error = None
    BY <1>1, <1>8, StagePlaces, AtStage DEF TouchKeystore, SaveKeystore, PrintMnemonic, At
  <2>2. Go(c, call[c]) \/ Fail(c, "error")
    BY <1>8 DEF TouchKeystore, SaveKeystore, PrintMnemonic
  <2>3. UNCHANGED <<storage, announced, given>> /\ shown \subseteq shown' /\ sealed \subseteq sealed'
    BY <1>8 DEF TouchKeystore, SaveKeystore, PrintMnemonic, files, records
  <2>4. keystore' = keystore \/ keystore' = Torn \/ (keystore' = Encrypt(call[c].nsk, PassOf[c]) /\ keystore' \in sealed')
    BY <1>8 DEF TouchKeystore, SaveKeystore, PrintMnemonic, files
  <2>5. FilesKnown'
    BY <1>1, <2>3, <2>4 DEF FilesKnown, Unreadable
  <2>6. call[c].pc = 4 /\ Go(c, call[c]) => Encrypt(call[c].nsk, PassOf[c]) \in sealed'
    <3>1. SUFFICES ASSUME call[c].pc = 4, Go(c, call[c])
                   PROVE  Encrypt(call[c].nsk, PassOf[c]) \in sealed'
      OBVIOUS
    <3>2. SaveKeystore(c)
      BY <1>1, <1>8, <3>1, StagePlaces DEF TouchKeystore, PrintMnemonic, At
    <3>3. ~Fail(c, "error")
      BY <1>1, <2>1, <3>1, GoOn, Failed, ErrorTypes DEF TypeOK
    <3> QED
      BY <3>2, <3>3 DEF SaveKeystore
  <2>7. call[c].pc = 5 => call[c].seed \in shown'
    <3>1. SUFFICES ASSUME call[c].pc = 5
                   PROVE  call[c].seed \in shown'
      OBVIOUS
    <3>2. PrintMnemonic(c)
      BY <1>1, <1>8, <3>1, StagePlaces DEF TouchKeystore, SaveKeystore, At
    <3> QED
      BY <3>2 DEF PrintMnemonic
  <2>8. CallKnown(call[c], PassOf[c])'
    BY <1>1, <2>1, <2>2, <2>3, <2>6, <2>7, Proceeds DEF CallKnown
  <2>9. CallsKnown'
    BY <1>1, <2>1, <2>2, <2>3, <2>8, Proceeds, OthersKnown
  <2> QED
    BY <1>2, <2>3, <2>5, <2>9 DEF Known
<1>9. CASE Reply(c)
  <2>1. call'[c].pc = 1 /\ call'[c].op \notin {"reopen", "create"} /\ \A d \in Callers \ {c} : call'[d] = call[d]
    BY <1>1, <1>9, BeginFresh
  <2>2. UNCHANGED <<files, shown, sealed>>
    BY <1>9 DEF Reply
  <2>3. CallsKnown' /\ FilesKnown'
    BY <1>1, <2>1, <2>2, OthersKnown DEF CallKnown, FilesKnown, files
  <2>4. Stage(call[c]) = "return"
    BY <1>9 DEF Reply, At
  <2>5. AddressRecoverable'
    <3>1. CASE UNCHANGED given
      BY <1>1, <2>2, <3>1 DEF AddressRecoverable
    <3>2. CASE /\ call[c].error = None /\ call[c].op \in {"npk", "vpk"}
               /\ given' = given \cup {WalletAccount(call[c].seed)}
      <4>1. call[c].seed \in shown
        BY <1>1, <2>4, <3>2, ReturnPc DEF CallKnown
      <4> QED
        BY <1>1, <2>2, <3>2, <4>1 DEF AddressRecoverable, WalletAccount
    <3> QED
      BY <1>9, <3>1, <3>2 DEF Reply
  <2>6. AnnouncedWasSealed'
    <3>1. CASE UNCHANGED announced
      BY <1>1, <2>2, <3>1 DEF AnnouncedWasSealed
    <3>2. CASE /\ call[c].error = None /\ call[c].op \in {"reopen", "create"}
               /\ announced' = announced \cup {<<KeystoreAccount(call[c].nsk), PassOf[c]>>}
      <4>1. Encrypt(call[c].nsk, PassOf[c]) \in sealed
        BY <1>1, <2>4, <3>2, ReturnPc DEF CallKnown, Calls
      <4> QED
        BY <1>1, <2>2, <3>2, <4>1 DEF AnnouncedWasSealed, KeystoreAccount
    <3> QED
      BY <1>9, <3>1, <3>2 DEF Reply
  <2> QED
    BY <2>3, <2>5, <2>6 DEF Known
<1> QED
  BY <1>3, <1>4, <1>5, <1>6, <1>7, <1>8, <1>9 DEF Step, Reads

LEMMA KnownNext == Typed /\ Known /\ [Next]_vars => Known'
<1> SUFFICES ASSUME Typed, Known, [Next]_vars
             PROVE  Known'
  OBVIOUS
<1>1. CASE UNCHANGED vars
  BY <1>1 DEF Known, FilesKnown, CallsKnown, CallKnown, AddressRecoverable, AnnouncedWasSealed,
     vars, files, records
<1>2. CASE NewBlock
  BY <1>2 DEF NewBlock, Known, FilesKnown, CallsKnown, CallKnown, AddressRecoverable, AnnouncedWasSealed,
     files, records
<1>3. CASE \E c \in Callers : Begin(c) \/ Step(c) \/ Kill(c)
  BY <1>3, KnownStep
<1> QED
  BY <1>1, <1>2, <1>3 DEF Next

LEMMA KnownAlways == Spec => [](Typed /\ Known)
<1>1. Init => Typed /\ Known
  BY TypedInit, KnownInit
<1>2. Typed /\ Known /\ [Next]_vars => (Typed /\ Known)'
  BY TypedNext, KnownNext
<1> QED
  BY <1>1, <1>2, PTL DEF Spec

\* Keys that npk or vpk returned belong to an account whose mnemonic was printed,
\* with any number of processes, mnemonics, kills and failed writes.
THEOREM WalletAddressRecoverable == Spec => []AddressRecoverable
<1>1. Known => AddressRecoverable
  BY DEF Known
<1> QED
  BY <1>1, KnownAlways, PTL

\* ensure_account returns the account of a keystore that was completely written
\* under the caller's passphrase.
THEOREM WalletAnnouncedWasSealed == Spec => []AnnouncedWasSealed
<1>1. Known => AnnouncedWasSealed
  BY DEF Known
<1> QED
  BY <1>1, KnownAlways, PTL

(***************************************************************************)
(* Second invariant: what the files hold while a process updates them.     *)
(***************************************************************************)

\* A call that has read, written or created an account.
PastKeystore(r) ==
  /\ r.error = None
  /\ \/ r.op = "reopen" /\ r.pc > 2
     \/ r.op = "create" /\ r.pc > 4
     \/ r.op = "sync" /\ r.pc > 1

\* While there is no keystore, or only half of one, nobody has seen an account.
NothingYet == storage = Missing /\ announced = {} /\ \A c \in Callers : ~PastKeystore(call[c])
KeystoreFirst ==
  keystore = Missing => NothingYet /\ \A c \in Callers : ~(call[c].op = "create" /\ call[c].pc = 4)

\* A process that updates the files finds them as it has read or left them.
FilesMatch(r, pass) ==
  r.error = None =>
    /\ r.op = "create" /\ r.pc \in 1..3 => keystore = Missing
    /\ r.op = "create" /\ r.pc = 4 => keystore = Torn /\ NothingYet
    /\ r.op = "create" /\ r.pc \in 5..6 => keystore = Encrypt(r.nsk, pass) /\ storage = Missing
    /\ r.op = "create" /\ r.pc = 7 => keystore = Encrypt(r.nsk, pass)
    /\ r.op = "sync" /\ r.pc \in 2..4 => storage \notin Unreadable /\ storage.seed = r.seed
    /\ r.op = "create" /\ r.pc = 7 => storage = [seed |-> r.seed, height |-> r.height]
    /\ r.op = "sync" /\ r.pc \in 5..7 => storage = [seed |-> r.seed, height |-> r.height]

\* It is the only one, as long as no two have overlapped.
Alone ==
  /\ \A c, d \in Callers : Updating(c) /\ Updating(d) => c = d
  /\ \A c \in Callers : FilesMatch(call[c], PassOf[c])

Undisturbed == KeystoreFirst /\ (~raced => Alone) /\ OneWallet

LEMMA UndisturbedInit == Init => Undisturbed
<1> SUFFICES ASSUME Init
             PROVE  Undisturbed
  OBVIOUS
<1>1. \A c \in Callers : call[c].op = "none"
  BY DEF Init, NoCall
<1>2. KeystoreFirst
  BY <1>1 DEF Init, KeystoreFirst, NothingYet, PastKeystore
<1>3. Alone
  BY <1>1 DEF Alone, Updating, FilesMatch
<1> QED
  BY <1>2, <1>3 DEF Undisturbed, OneWallet, Init, Unreadable

\* What a step of c that is not one of the keystore's writes, or is no write at all,
\* makes of an empty home.
LEMMA NothingYetStep ==
  ASSUME Typed, keystore \in Unreadable, NothingYet, NEW c \in Callers,
         Begin(c) \/ Step(c) \/ Kill(c), ~SaveKeystore(c)
  PROVE  NothingYet' /\ (keystore' = Missing => keystore = Missing)
<1>1. /\ TypeOK /\ call[c] \in Calls /\ storage = Missing /\ announced = {} /\ ~PastKeystore(call[c])
  BY DEF Typed, TypeOK, NothingYet
<1>2. ASSUME storage' = storage, announced' = announced, \A d \in Callers \ {c} : call'[d] = call[d],
             ~PastKeystore(call[c])'
      PROVE  NothingYet'
  <2>1. ASSUME NEW d \in Callers
        PROVE  ~PastKeystore(call[d])'
    <3>1. CASE d = c
      BY <1>2, <3>1
    <3>2. CASE d # c
      BY <1>2, <3>2 DEF NothingYet, PastKeystore
    <3> QED
      BY <3>1, <3>2
  <2> QED
    BY <1>1, <1>2, <2>1 DEF NothingYet
<1>3. ~Store(c)
  <2> SUFFICES ASSUME Store(c)
               PROVE  FALSE
    OBVIOUS
  <2>1. /\ call[c].error = None
        /\ (call[c].op = "sync" /\ call[c].pc = 4) \/ (call[c].op = "create" /\ call[c].pc = 6)
    BY <1>1, AtStage, StagePlaces DEF Store, At
  <2> QED
    BY <1>1, <2>1 DEF PastKeystore
<1>4. ~PrintMnemonic(c)
  <2> SUFFICES ASSUME PrintMnemonic(c)
               PROVE  FALSE
    OBVIOUS
  <2>1. call[c].error = None /\ call[c].op = "create" /\ call[c].pc = 5
    BY <1>1, AtStage, StagePlaces DEF PrintMnemonic, At
  <2> QED
    BY <1>1, <2>1 DEF PastKeystore
<1>5. CASE Begin(c) \/ Kill(c)
  <2>1. call'[c].pc = 1 /\ \A d \in Callers \ {c} : call'[d] = call[d]
    BY <1>1, <1>5, BeginFresh
  <2>2. ~At(c, "store")
    <3> SUFFICES ASSUME At(c, "store")
                 PROVE  FALSE
      OBVIOUS
    <3>1. /\ call[c].error = None
          /\ (call[c].op = "sync" /\ call[c].pc = 4) \/ (call[c].op = "create" /\ call[c].pc = 6)
      BY <1>1, AtStage, StagePlaces DEF At
    <3> QED
      BY <1>1, <3>1 DEF PastKeystore
  <2>3. UNCHANGED <<files, records>>
    BY <1>5, <2>2 DEF Begin, Kill, files
  <2> QED
    BY <1>2, <2>1, <2>3 DEF files, records, PastKeystore
<1>6. CASE Reads(c)
  <2>1. /\ \A d \in Callers \ {c} : call'[d] = call[d]
        /\ UNCHANGED <<files, world, records>>
        /\ Advanced(c)
    BY <1>1, <1>6, ReadingAdvances
  <2>2. ~PastKeystore(call[c])'
    BY <1>1, <2>1 DEF Advanced, PastKeystore, Unreadable, Calls
  <2> QED
    BY <1>2, <2>1, <2>2 DEF files, records
<1>7. CASE EnsureAccount(c)
  <2>1. call'[c].pc \in 1..2 /\ call'[c].op # "sync" /\ \A d \in Callers \ {c} : call'[d] = call[d]
    BY <1>7, EnsureMoves
  <2> QED
    BY <1>2, <1>7, <2>1 DEF EnsureAccount, files, records, PastKeystore
<1>8. CASE NewInitStorage(c)
  <2>1. call'[c].op = "create" /\ call'[c].pc \in 1..3 /\ \A d \in Callers \ {c} : call'[d] = call[d]
    BY <1>8, InitMoves
  <2>2. UNCHANGED <<files, records>>
    BY <1>8 DEF NewInitStorage
  <2> QED
    BY <1>2, <2>1, <2>2 DEF files, records, PastKeystore
<1>9. CASE TouchKeystore(c)
  <2>1. call[c].op = "create" /\ call[c].pc = 3 /\ call[c].error = None
    BY <1>1, <1>9, StagePlaces, AtStage DEF TouchKeystore, At
  <2>2. call'[c].op = "create" /\ call'[c].pc \in {1, 4} /\ \A d \in Callers \ {c} : call'[d] = call[d]
    BY <1>9, <2>1, Proceeds DEF TouchKeystore
  <2>3. storage' = storage /\ announced' = announced /\ (keystore' = Torn \/ keystore' = keystore)
    BY <1>9 DEF TouchKeystore, records
  <2>4. ~PastKeystore(call[c])'
    BY <2>2 DEF PastKeystore
  <2> QED
    BY <1>2, <2>2, <2>3, <2>4, WalletAssumption
<1>10. CASE Reply(c)
  <2>1. call'[c].pc = 1 /\ \A d \in Callers \ {c} : call'[d] = call[d]
    BY <1>1, <1>10, BeginFresh
  <2>2. announced' = announced
    <3>1. Stage(call[c]) = "return"
      BY <1>10 DEF Reply, At
    <3>2. ~(call[c].error = None /\ call[c].op \in {"reopen", "create"})
      BY <1>1, <3>1, ReturnPc DEF PastKeystore, Calls
    <3> QED
      BY <1>10, <3>2 DEF Reply
  <2> QED
    BY <1>2, <1>10, <2>1, <2>2 DEF Reply, files, PastKeystore
<1> QED
  BY <1>3, <1>4, <1>5, <1>6, <1>7, <1>8, <1>9, <1>10 DEF Step, Reads

\* How the steps of c change the files.
LEMMA FileEffects ==
  ASSUME Typed, NEW c \in Callers, Begin(c) \/ Step(c) \/ Kill(c)
  PROVE  /\ keystore' # keystore => call[c].op = "create" /\ (TouchKeystore(c) \/ SaveKeystore(c))
         /\ storage' # storage => Updating(c) /\ (Store(c) \/ (Kill(c) /\ storage' = Torn))
         /\ keystore' = Missing => keystore = Missing
<1>1. call[c] \in Calls /\ TypeOK
  BY DEF Typed, TypeOK
<1>2. CASE Begin(c) \/ Reads(c) \/ EnsureAccount(c) \/ NewInitStorage(c) \/ PrintMnemonic(c) \/ Reply(c)
  <2>1. UNCHANGED files
    <3>1. CASE Begin(c) \/ EnsureAccount(c) \/ PrintMnemonic(c) \/ Reply(c)
      BY <3>1 DEF Begin, EnsureAccount, PrintMnemonic, Reply
    <3>2. CASE NewInitStorage(c)
      BY <3>2 DEF NewInitStorage
    <3>3. CASE Reads(c)
      BY <1>1, <3>3, ReadingAdvances
    <3> QED
      BY <1>2, <3>1, <3>2, <3>3
  <2> QED
    BY <2>1 DEF files
<1>3. At(c, "store") => Updating(c)
  <2>1. At(c, "store") => (call[c].op = "sync" /\ call[c].pc = 4) \/ (call[c].op = "create" /\ call[c].pc = 6)
    BY <1>1, StagePlaces DEF At
  <2> QED
    BY <2>1 DEF Updating
<1>4. CASE Store(c) \/ Kill(c)
  BY <1>3, <1>4 DEF Store, Kill
<1>5. CASE TouchKeystore(c) \/ SaveKeystore(c)
  <2>1. call[c].op = "create"
    BY <1>1, <1>5, StagePlaces DEF TouchKeystore, SaveKeystore, At
  <2>2. storage' = storage
    BY <1>5 DEF TouchKeystore, SaveKeystore
  <2>3. keystore' = Missing => keystore = Missing
    <3>1. keystore' = keystore \/ keystore' = Torn \/ (SaveKeystore(c) /\ keystore' = Encrypt(call[c].nsk, PassOf[c]))
      BY <1>5 DEF TouchKeystore, SaveKeystore
    <3>2. SaveKeystore(c) => Encrypt(call[c].nsk, PassOf[c]) # Missing
      <4> SUFFICES ASSUME SaveKeystore(c)
                   PROVE  Encrypt(call[c].nsk, PassOf[c]) # Missing
        OBVIOUS
      <4>1. call[c].op = "create" /\ call[c].pc = 4 /\ call[c].error = None
        BY <1>1, StagePlaces, AtStage DEF SaveKeystore, At
      <4>2. Encrypt(call[c].nsk, PassOf[c]) \in Keystores
        BY <4>1, WalletAssumption DEF Typed, Filled, Encrypt, Keystores
      <4> QED
        BY <4>2, WalletAssumption DEF Unreadable
    <3> QED
      BY <3>1, <3>2, WalletAssumption
  <2> QED
    BY <1>5, <2>1, <2>2, <2>3
<1> QED
  BY <1>2, <1>4, <1>5 DEF Step, Reads

LEMMA KeystoreFirstStep ==
  ASSUME Typed, KeystoreFirst, NEW c \in Callers, Begin(c) \/ Step(c) \/ Kill(c)
  PROVE  KeystoreFirst'
<1> SUFFICES ASSUME keystore' = Missing
             PROVE  NothingYet' /\ \A d \in Callers : ~(call'[d].op = "create" /\ call'[d].pc = 4)
  BY DEF KeystoreFirst
<1>1. /\ keystore = Missing /\ NothingYet /\ TypeOK /\ call[c] \in Calls
      /\ \A d \in Callers : ~(call[d].op = "create" /\ call[d].pc = 4)
  BY FileEffects DEF KeystoreFirst, Typed, TypeOK
<1>2. ~SaveKeystore(c)
  BY <1>1, StagePlaces DEF SaveKeystore, At
<1>3. NothingYet'
  BY <1>1, <1>2, NothingYetStep DEF Unreadable
<1>4. /\ ~(call'[c].op = "create" /\ call'[c].pc = 4)
      /\ \A d \in Callers \ {c} : call'[d] = call[d]
  <2>1. CASE Begin(c) \/ Kill(c) \/ Reply(c)
    BY <1>1, <2>1, BeginFresh
  <2>2. CASE Reads(c)
    <3>1. Advanced(c) /\ \A d \in Callers \ {c} : call'[d] = call[d]
      BY <1>1, <2>2, ReadingAdvances
    <3> QED
      BY <3>1 DEF Advanced
  <2>3. CASE EnsureAccount(c)
    BY <2>3, EnsureMoves
  <2>4. CASE NewInitStorage(c)
    BY <2>4, InitMoves
  <2>5. CASE Store(c) \/ PrintMnemonic(c)
    <3>1. /\ call[c].pc \in 1..6 /\ call[c].error = None
          /\ call[c].op = "create" => call[c].pc \in 5..6
      BY <1>1, <2>5, StagePlaces, AtStage DEF Store, PrintMnemonic, At
    <3> QED
      BY <2>5, <3>1, Proceeds DEF Store, PrintMnemonic
  <2>6. CASE TouchKeystore(c)
    <3>1. call[c].pc \in 1..6 /\ call[c].error = None
      BY <1>1, <2>6, AtStage DEF TouchKeystore
    <3>2. Fail(c, "error")
      BY <1>1, <2>6, WalletAssumption DEF TouchKeystore
    <3> QED
      BY <1>1, <3>2, Failed, ErrorTypes DEF TypeOK
  <2> QED
    BY <1>2, <2>1, <2>2, <2>3, <2>4, <2>5, <2>6 DEF Step, Reads
<1>5. \A d \in Callers : ~(call'[d].op = "create" /\ call'[d].pc = 4)
  BY <1>1, <1>4
<1> QED
  BY <1>3, <1>5

\* Only one process updates: a second one that begins sets raced.
LEMMA SingleStep ==
  ASSUME Typed, Alone, NEW c \in Callers, Begin(c) \/ Step(c) \/ Kill(c), ~raced'
  PROVE  /\ \A a, b \in Callers : Updating(a)' /\ Updating(b)' => a = b
         /\ \A d \in Callers \ {c} : call'[d] = call[d]
<1>1. TypeOK /\ call[c] \in Calls
  BY DEF Typed, TypeOK
<1>2. /\ \A d \in Callers \ {c} : call'[d] = call[d]
      /\ Updating(c)' => Updating(c) \/ \A d \in Callers \ {c} : ~Updating(d)
  <2>1. CASE Begin(c) \/ Kill(c) \/ Reply(c)
    BY <1>1, <2>1, BeginFresh DEF Updating
  <2>2. CASE Reads(c)
    <3>1. Advanced(c) /\ \A d \in Callers \ {c} : call'[d] = call[d]
      BY <1>1, <2>2, ReadingAdvances
    <3>2. Race(c) => \A d \in Callers \ {c} : ~Updating(d)
      BY DEF Race
    <3> QED
      BY <1>1, <3>1, <3>2 DEF Advanced, Updating, Calls
  <2>3. CASE EnsureAccount(c)
    <3>1. Race(c) => \A d \in Callers \ {c} : ~Updating(d)
      BY DEF Race
    <3> QED
      BY <2>3, <3>1, EnsureMoves DEF Updating
  <2>4. CASE NewInitStorage(c)
    BY <2>4, InitMoves DEF Updating
  <2>5. CASE Store(c) \/ TouchKeystore(c) \/ SaveKeystore(c) \/ PrintMnemonic(c)
    <3>1. /\ call[c].pc \in 1..6 /\ call[c].error = None
          /\ (call[c].op = "sync" /\ call[c].pc = 4) \/ call[c].op = "create"
      BY <1>1, <2>5, StagePlaces, AtStage DEF Store, TouchKeystore, SaveKeystore, PrintMnemonic, At
    <3>2. Updating(c)
      BY <3>1 DEF Updating
    <3>3. Go(c, call[c]) \/ Fail(c, "error")
      BY <2>5 DEF Store, TouchKeystore, SaveKeystore, PrintMnemonic
    <3> QED
      BY <3>1, <3>2, <3>3, Proceeds
  <2> QED
    BY <2>1, <2>2, <2>3, <2>4, <2>5 DEF Step, Reads
<1>3. \A d \in Callers \ {c} : Updating(d)' <=> Updating(d)
  BY <1>2 DEF Updating
<1> QED
  BY <1>2, <1>3 DEF Alone

\* The other processes find the files as before.
LEMMA OthersMatch ==
  ASSUME Typed, Alone, NEW c \in Callers, Begin(c) \/ Step(c) \/ Kill(c), NEW d \in Callers \ {c},
         call'[d] = call[d]
  PROVE  FilesMatch(call[d], PassOf[d])'
<1>1. FilesMatch(call[d], PassOf[d]) /\ call[d] \in Calls
  BY DEF Alone, Typed, TypeOK
<1>2. CASE Updating(d)
  <2>1. ~Updating(c)
    BY <1>2 DEF Alone
  <2>2. keystore' = keystore /\ storage' = storage
    BY <2>1, FileEffects DEF Updating
  <2>3. ~SaveKeystore(c)
    BY <2>1, StagePlaces DEF SaveKeystore, At, Updating, Typed, TypeOK
  <2>4. keystore = Torn /\ NothingYet => NothingYet'
    BY <2>3, NothingYetStep DEF Unreadable
  <2> QED
    BY <1>1, <2>2, <2>4 DEF FilesMatch
<1>3. CASE ~Updating(d)
  BY <1>1, <1>3 DEF FilesMatch, Updating, Calls
<1> QED
  BY <1>2, <1>3

\* So does c itself, and the two files still belong together.
LEMMA OwnMatches ==
  ASSUME Typed, KeystoreFirst, Alone, OneWallet, NEW c \in Callers, Begin(c) \/ Step(c) \/ Kill(c), ~raced, ~raced'
  PROVE  FilesMatch(call[c], PassOf[c])' /\ OneWallet'
<1>1. /\ TypeOK /\ call[c] \in Calls /\ FilesMatch(call[c], PassOf[c]) /\ Filled(call[c])
  BY DEF Alone, Typed, TypeOK
<1>2. ASSUME keystore' = keystore \/ keystore' = Torn, storage' = storage \/ storage' = Torn
      PROVE  OneWallet'
  BY <1>2 DEF OneWallet, Unreadable
<1>3. CASE Begin(c) \/ Kill(c) \/ Reply(c)
  <2>1. call'[c].pc = 1 /\ call'[c].op # "create"
    BY <1>1, <1>3, BeginFresh
  <2>2. FilesMatch(call[c], PassOf[c])'
    BY <2>1 DEF FilesMatch
  <2>3. keystore' = keystore /\ (storage' = storage \/ storage' = Torn)
    BY <1>3 DEF Begin, Kill, Reply, files
  <2> QED
    BY <1>2, <2>2, <2>3
<1>4. CASE Reads(c)
  <2>1. Advanced(c) /\ UNCHANGED files
    BY <1>1, <1>4, ReadingAdvances
  <2>2. FilesMatch(call[c], PassOf[c])'
    BY <1>1, <2>1 DEF Advanced, FilesMatch, files, Calls
  <2> QED
    BY <1>2, <2>1, <2>2 DEF files
<1>5. CASE EnsureAccount(c)
  <2>1. UNCHANGED files
    BY <1>5 DEF EnsureAccount
  <2>2. FilesMatch(call[c], PassOf[c])'
    BY <1>5, <2>1, EnsureMoves DEF FilesMatch, files
  <2> QED
    BY <1>2, <2>1, <2>2 DEF files
<1>6. CASE NewInitStorage(c)
  <2>1. UNCHANGED files
    BY <1>6 DEF NewInitStorage
  <2>2. FilesMatch(call[c], PassOf[c])'
    BY <1>1, <1>6, <2>1, InitMoves DEF FilesMatch, files
  <2> QED
    BY <1>2, <2>1, <2>2 DEF files
<1>7. CASE Store(c)
  <2>1. /\ call[c].pc \in 1..6 /\ call[c].error = None
        /\ (call[c].op = "sync" /\ call[c].pc = 4) \/ (call[c].op = "create" /\ call[c].pc = 6)
    BY <1>1, <1>7, AtStage, StagePlaces DEF Store, At
  <2>2. keystore' = keystore
    BY <1>7 DEF Store
  <2>3. CASE storage' \in {storage, Torn} /\ Fail(c, "error")
    <3>1. call'[c].error # None
      BY <1>1, <2>1, <2>3, Failed, ErrorTypes DEF TypeOK
    <3> QED
      BY <1>2, <2>2, <2>3, <3>1 DEF FilesMatch
  <2>4. CASE storage' = [seed |-> call[c].seed, height |-> call[c].height] /\ Go(c, call[c])
    <3>1. /\ call'[c].op = call[c].op /\ call'[c].pc = call[c].pc + 1 /\ call'[c].error = None
          /\ call'[c].seed = call[c].seed /\ call'[c].nsk = call[c].nsk /\ call'[c].height = call[c].height
      BY <1>1, <2>1, <2>4, GoOn DEF TypeOK
    <3>2. FilesMatch(call[c], PassOf[c])'
      BY <1>1, <2>1, <2>2, <2>4, <3>1 DEF FilesMatch
    <3>3. keystore \notin Unreadable => keystore.nsk = call[c].seed
      <4>1. CASE call[c].op = "sync"
        BY <1>1, <2>1, <4>1 DEF FilesMatch, OneWallet
      <4>2. CASE call[c].op = "create"
        BY <1>1, <2>1, <4>2 DEF FilesMatch, Filled, Encrypt
      <4> QED
        BY <2>1, <4>1, <4>2
    <3>4. OneWallet'
      BY <2>2, <2>4, <3>3 DEF OneWallet
    <3> QED
      BY <3>2, <3>4
  <2> QED
    BY <1>7, <2>3, <2>4 DEF Store
<1>8. CASE TouchKeystore(c)
  <2>1. call[c].op = "create" /\ call[c].pc = 3 /\ call[c].error = None
    BY <1>1, <1>8, StagePlaces, AtStage DEF TouchKeystore, At
  <2>2. storage' = storage /\ (keystore' = Torn \/ keystore' = keystore)
    BY <1>8 DEF TouchKeystore
  <2>3. keystore = Missing /\ NothingYet
    BY <1>1, <2>1 DEF FilesMatch, KeystoreFirst
  <2>4. NothingYet'
    <3>1. ~SaveKeystore(c)
      BY <1>1, <2>1, StagePlaces DEF SaveKeystore, At
    <3> QED
      BY <2>3, <3>1, NothingYetStep DEF Unreadable
  <2>5. FilesMatch(call[c], PassOf[c])'
    <3>1. CASE keystore' = Torn /\ Go(c, call[c])
      BY <2>1, <2>4, <3>1, Proceeds DEF FilesMatch
    <3>2. CASE Fail(c, "error")
      BY <1>1, <3>2, Failed, ErrorTypes DEF FilesMatch, TypeOK
    <3> QED
      BY <1>8, <3>1, <3>2 DEF TouchKeystore
  <2> QED
    BY <1>2, <2>2, <2>5
<1>9. CASE SaveKeystore(c)
  <2>1. call[c].op = "create" /\ call[c].pc = 4 /\ call[c].error = None
    BY <1>1, <1>9, StagePlaces, AtStage DEF SaveKeystore, At
  <2>2. storage' = storage /\ storage = Missing
    BY <1>1, <1>9, <2>1 DEF SaveKeystore, FilesMatch, NothingYet
  <2>3. OneWallet'
    BY <2>2 DEF OneWallet, Unreadable
  <2>4. CASE keystore' = Encrypt(call[c].nsk, PassOf[c]) /\ Go(c, call[c])
    <3>1. call'[c].op = "create" /\ call'[c].pc = 5 /\ call'[c].nsk = call[c].nsk
      BY <1>1, <2>1, <2>4, GoOn DEF TypeOK
    <3> QED
      BY <2>2, <2>3, <2>4, <3>1 DEF FilesMatch, Encrypt
  <2>5. CASE Fail(c, "error")
    BY <1>1, <2>3, <2>5, Failed, ErrorTypes DEF FilesMatch, TypeOK
  <2> QED
    BY <1>9, <2>4, <2>5 DEF SaveKeystore
<1>10. CASE PrintMnemonic(c)
  <2>1. call[c].op = "create" /\ call[c].pc = 5 /\ call[c].error = None
    BY <1>1, <1>10, StagePlaces, AtStage DEF PrintMnemonic, At
  <2>2. UNCHANGED files
    BY <1>10 DEF PrintMnemonic
  <2>3. call'[c].op = "create" /\ call'[c].pc = 6 /\ call'[c].nsk = call[c].nsk
    BY <1>1, <1>10, <2>1, GoOn DEF TypeOK, PrintMnemonic
  <2>4. FilesMatch(call[c], PassOf[c])'
    BY <1>1, <2>1, <2>2, <2>3 DEF FilesMatch, files, Encrypt
  <2> QED
    BY <1>2, <2>2, <2>4 DEF files
<1> QED
  BY <1>3, <1>4, <1>5, <1>6, <1>7, <1>8, <1>9, <1>10 DEF Step, Reads

LEMMA RacedStays ==
  ASSUME NEW c \in Callers, Begin(c) \/ Step(c) \/ Kill(c), Typed
  PROVE  raced => raced'
<1>1. CASE Reads(c)
  <2>1. Advanced(c)
    BY <1>1, ReadingAdvances DEF Typed
  <2> QED
    BY <2>1 DEF Advanced, Race
<1>2. CASE EnsureAccount(c)
  BY <1>2, EnsureMoves DEF Race, EnsureAccount
<1>3. CASE Begin(c) \/ Kill(c) \/ Reply(c) \/ Store(c) \/ TouchKeystore(c) \/ SaveKeystore(c) \/ PrintMnemonic(c)
  BY <1>3 DEF Begin, Kill, Reply, Store, TouchKeystore, SaveKeystore, PrintMnemonic
<1>4. CASE NewInitStorage(c)
  BY <1>4 DEF NewInitStorage
<1> QED
  BY <1>1, <1>2, <1>3, <1>4 DEF Step, Reads

LEMMA UndisturbedNext == Typed /\ Undisturbed /\ [Next]_vars => Undisturbed'
<1> SUFFICES ASSUME Typed, Undisturbed, [Next]_vars
             PROVE  Undisturbed'
  OBVIOUS
<1>1. CASE UNCHANGED <<files, call, records, raced>>
  BY <1>1 DEF Undisturbed, KeystoreFirst, NothingYet, PastKeystore, Alone, Updating, FilesMatch, OneWallet,
     files, records
<1>2. ASSUME NEW c \in Callers, Begin(c) \/ Step(c) \/ Kill(c)
      PROVE  Undisturbed'
  <2>1. KeystoreFirst'
    BY <1>2, KeystoreFirstStep DEF Undisturbed
  <2>2. CASE raced'
    BY <2>1, <2>2 DEF Undisturbed, OneWallet
  <2>3. CASE ~raced'
    <3>1. ~raced /\ Alone /\ KeystoreFirst /\ OneWallet
      BY <1>2, <2>3, RacedStays DEF Undisturbed
    <3>2. /\ \A a, b \in Callers : Updating(a)' /\ Updating(b)' => a = b
          /\ \A d \in Callers \ {c} : call'[d] = call[d]
      BY <1>2, <2>3, <3>1, SingleStep
    <3>3. FilesMatch(call[c], PassOf[c])' /\ OneWallet'
      BY <1>2, <2>3, <3>1, OwnMatches
    <3>4. \A d \in Callers \ {c} : FilesMatch(call[d], PassOf[d])'
      BY <1>2, <3>1, <3>2, OthersMatch
    <3>5. Alone'
      BY <3>2, <3>3, <3>4 DEF Alone
    <3> QED
      BY <2>1, <3>3, <3>5 DEF Undisturbed
  <2> QED
    BY <2>2, <2>3
<1> QED
  BY <1>1, <1>2 DEF Next, vars, NewBlock, world

LEMMA UndisturbedAlways == Spec => [](Typed /\ Undisturbed)
<1>1. Init => Typed /\ Undisturbed
  BY TypedInit, UndisturbedInit
<1>2. Typed /\ Undisturbed /\ [Next]_vars => (Typed /\ Undisturbed)'
  BY TypedNext, UndisturbedNext
<1> QED
  BY <1>1, <1>2, PTL DEF Spec

\* The keystore and the wallet's storage belong to one mnemonic until two updates
\* overlap, whatever is killed or fails in between.
THEOREM WalletOneWallet == Spec => []OneWallet
<1>1. Undisturbed => OneWallet
  BY DEF Undisturbed
<1> QED
  BY <1>1, UndisturbedAlways, PTL

\* Success of ensure_account or of sync_private means that the files are written.
THEOREM WalletReturnedIsOnDisk == Spec => []ReturnedIsOnDisk
<1>1. Typed /\ Undisturbed => ReturnedIsOnDisk
  <2> SUFFICES ASSUME Typed, Undisturbed, NEW c \in Callers,
                      At(c, "return"), call[c].error = None, ~raced
               PROVE  /\ call[c].op = "create" => keystore = Encrypt(call[c].nsk, PassOf[c])
                      /\ call[c].op \in {"create", "sync"} =>
                           storage = [seed |-> call[c].seed, height |-> call[c].height]
    BY DEF ReturnedIsOnDisk
  <2>1. FilesMatch(call[c], PassOf[c]) /\ call[c] \in Calls
    BY DEF Undisturbed, Alone, Typed, TypeOK
  <2>2. (call[c].op = "create" => call[c].pc = 7) /\ (call[c].op = "sync" => call[c].pc \in 5..7)
    BY <2>1, ReturnPc DEF At, Calls
  <2> QED
    BY <2>1, <2>2 DEF FilesMatch
<1> QED
  BY <1>1, UndisturbedAlways, PTL

\* The keystore of an account that was announced does not change again.
THEOREM WalletAccountStands == Spec => AccountStands
<1>1. Typed /\ Undisturbed /\ [Next]_vars =>
        [announced # {} /\ ~raced' => keystore' = keystore]_<<keystore, announced, raced>>
  <2> SUFFICES ASSUME Typed, Undisturbed, [Next]_vars, announced # {}, ~raced', keystore' # keystore
               PROVE  FALSE
    OBVIOUS
  <2>1. PICK c \in Callers : Begin(c) \/ Step(c) \/ Kill(c)
    BY DEF Next, NewBlock, vars, files
  <2>2. call[c].op = "create" /\ (TouchKeystore(c) \/ SaveKeystore(c)) /\ ~raced
    BY <2>1, FileEffects, RacedStays
  <2>3. FilesMatch(call[c], PassOf[c]) /\ KeystoreFirst /\ call[c] \in Calls /\ TypeOK
    BY <2>2 DEF Undisturbed, Alone, Typed, TypeOK
  <2>4. call[c].pc \in 3..4 /\ call[c].error = None
    BY <2>2, <2>3, StagePlaces, AtStage DEF TouchKeystore, SaveKeystore, At
  <2>5. announced = {}
    BY <2>2, <2>3, <2>4 DEF FilesMatch, KeystoreFirst, NothingYet
  <2> QED
    BY <2>5
<1> QED
  BY <1>1, UndisturbedAlways, PTL DEF Spec, AccountStands
===============================================================================
