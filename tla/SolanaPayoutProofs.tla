------------------------- MODULE SolanaPayoutProofs -------------------------
(***************************************************************************)
(* No swap is paid twice by the handshake of runSolanaPayout and its       *)
(* children.  The argument (PayoutInv) looks at the record only: GO is     *)
(* given to the child that is on record, a record is never replaced, and   *)
(* nothing is sent without GO.  From it, and from what SolanaProgramProofs *)
(* shows of the accounts, the handshake implements PayoutLeg.  What the    *)
(* program keeps locked is then bounded (MakerInv): every open escrow is   *)
(* that of one child whose payment has not landed, for its swap's price.   *)
(***************************************************************************)
EXTENDS SolanaPayout, TLAPS

\* Why LockedByFailuresOnly holds: an escrow has one maker, and a payment takes its own escrow's worth out,
\* or more.
Unpaid == {a \in Landed : child[a].pay # "landed"}
MakerInv ==
    /\ \A a \in Landed :
        child[a].nonce < intent_nonce /\ intent[child[a].nonce].amount = Price[SwapOf[a]]
    /\ \A a, b \in Landed : child[a].nonce = child[b].nonce => a = b
    /\ Program!Total(Locked) <= Program!Total(EscrowedBy(Unpaid))

Entry == [status : {"none", "settling", "settled"}, by : Attempt \cup {Nobody}]

\* What is known of each child alone, given its swap's entry.
ChildOK(a) ==
    /\ child[a].owned /\ ~child[a].go => ledger[SwapOf[a]].status = "none"
    /\ child[a].go => ledger[SwapOf[a]].by = a /\ ledger[SwapOf[a]].status # "none"
    /\ Sent(a) => child[a].go
    /\ child[a].pc = "none" => child[a] = NoChild
    /\ child[a].pc = "fetch" => child[a].escrow = "none"
    /\ child[a].pc \in {"fetch", "confirm"} => child[a].pay = "none"
    /\ child[a].pc = "wait" => child[a].pay = "signed"
    /\ child[a].pc = "ok" => child[a].pay = "landed"
    /\ child[a].pay # "none" => child[a].escrow = "landed"

PayoutInv ==
    /\ child \in [Attempt -> ChildRecord]
    /\ ledger \in [Swap -> Entry]
    /\ \A a, b \in Attempt : child[a].owned /\ child[b].owned => a = b
    /\ \A a \in Attempt : ChildOK(a)
    /\ \A s \in Swap : ledger[s].status = "none" <=> ledger[s].by = Nobody
    /\ \A s \in Swap : ledger[s].status = "settled" => child[ledger[s].by].pay = "landed"

----------------------------------------------------------------------------
(***************************************************************************)
(* The program's accounts: what is proved of them in SolanaProgramProofs,  *)
(* for the instance that the payout runs against.                          *)
(***************************************************************************)
Accounts == INSTANCE SolanaProgramProofs WITH
    Channel <- {ArbitrumSepolia},
    Amount <- {Price[s] : s \in Swap}, Slippage <- {Slippage}, Expiry <- {EscrowLife}

\* The parameters of the payout are parameters of the program.
LEMMA ParametersFit == Accounts!SolanaAssumption
BY PayoutAssumption DEF Accounts!SolanaAssumption, Slippage

\* The two instances are one and the same.
LEMMA SameProgram ==
    /\ Program!IntentId = Accounts!IntentId
    /\ Program!TypeOK <=> Accounts!TypeOK
    /\ Program!Tick <=> Accounts!Tick
    /\ \A o, d \in Wallet, n, e, s \in Nat :
        Program!submit_intent(o, n, d, e, s, ArbitrumSepolia)
            => Accounts!submit_intent(o, n, d, e, s, ArbitrumSepolia)
    /\ \A i \in Program!IntentId, n \in Nat :
        Program!receive_settlement(i, n) => Accounts!receive_settlement(i, n)
<1>1. Program!IntentId = Accounts!IntentId
  BY DEF Program!IntentId, Accounts!IntentId
<1>2. Program!TypeOK <=> Accounts!TypeOK
  BY DEF Program!TypeOK, Accounts!TypeOK, Program!IntentRecord, Accounts!IntentRecord,
         Program!IntentId, Accounts!IntentId
<1>3. Program!Tick <=> Accounts!Tick
  BY DEF Program!Tick, Accounts!Tick
<1>4. ASSUME NEW o \in Wallet, NEW d \in Wallet, NEW n \in Nat, NEW e \in Nat, NEW s \in Nat
      PROVE  Program!submit_intent(o, n, d, e, s, ArbitrumSepolia)
                => Accounts!submit_intent(o, n, d, e, s, ArbitrumSepolia)
  BY DEF Program!submit_intent, Accounts!submit_intent
<1>5. ASSUME NEW i \in Program!IntentId, NEW n \in Nat
      PROVE  Program!receive_settlement(i, n) => Accounts!receive_settlement(i, n)
  BY DEF Program!receive_settlement, Accounts!receive_settlement, Program!Acceptable,
         Accounts!Acceptable, Program!SlippageDeduction, Accounts!SlippageDeduction,
         Program!Credit, Accounts!Credit
<1>6. QED
  BY <1>1, <1>2, <1>3, <1>4, <1>5

\* An attempt is of a swap.
LEMMA SwapOfType == \A a \in Attempt : SwapOf[a] \in Swap /\ a[1] = SwapOf[a] /\ a # Nobody
BY PayoutAssumption DEF Attempt, SwapOf

\* Who is on record is an attempt.
LEMMA RecordType ==
    ASSUME PayoutInv, NEW s \in Swap
    PROVE  ledger[s].status # "none" <=> ledger[s].by \in Attempt
BY SwapOfType DEF PayoutInv, Entry

LEMMA InitPayout == Init => PayoutInv
<1> SUFFICES ASSUME Init PROVE PayoutInv
  OBVIOUS
<1>1. NoChild \in ChildRecord
  BY PayoutAssumption DEF NoChild, ChildRecord
<1>2. child = [a \in Attempt |-> NoChild] /\ ledger = [s \in Swap |-> [status |-> "none", by |-> Nobody]]
  BY DEF Init
<1>3. child \in [Attempt -> ChildRecord] /\ ledger \in [Swap -> Entry]
  BY <1>1, <1>2 DEF Entry
<1>4. ASSUME NEW a \in Attempt PROVE ChildOK(a) /\ ~child[a].owned
  BY <1>2, SwapOfType DEF ChildOK, NoChild, Sent
<1>5. \A s \in Swap : ledger[s].status = "none" /\ ledger[s].by = Nobody
  BY <1>2
<1>6. QED
  BY <1>3, <1>4, <1>5 DEF PayoutInv

\* The nonce that a child reads is one the program had.
LEMMA ReadNonceType ==
    ASSUME Accounts!SolanaInv, NEW n \in ReadNonce
    PROVE  n \in 0 .. MaxIntents /\ (n # 0 => n - 1 \in 0 .. (MaxIntents - 1))
<1>1. intent_nonce \in 0 .. MaxIntents
  BY DEF Accounts!SolanaInv, Accounts!TypeOK
<1>2. QED
  BY <1>1, PayoutAssumption DEF ReadNonce

\* A step of one child that leaves the ledger alone.
LEMMA ChildStep ==
    ASSUME PayoutInv, NEW a \in Attempt, NEW new \in ChildRecord, Set(a, new), UNCHANGED ledger,
           ChildOK(a)',
           new.owned => child[a].owned \/ \A b \in Attempt : ~child[b].owned,
           child[a].pay = "landed" => new.pay = "landed"
    PROVE  PayoutInv'
<1>1. child' = [child EXCEPT ![a] = new] /\ ledger' = ledger
  BY DEF Set
<1>2. child' \in [Attempt -> ChildRecord] /\ ledger' \in [Swap -> Entry]
  BY <1>1 DEF PayoutInv
<1>3. \A b, c \in Attempt : child'[b].owned /\ child'[c].owned => b = c
  BY <1>1 DEF PayoutInv
<1>4. ASSUME NEW b \in Attempt, b # a PROVE ChildOK(b)'
  <2>1. child'[b] = child[b]
    BY <1>1, <1>4 DEF PayoutInv
  <2>2. QED
    BY <1>1, <2>1 DEF PayoutInv, ChildOK, Sent
<1>5. ASSUME NEW s \in Swap, ledger'[s].status = "settled"
      PROVE  child'[ledger'[s].by].pay = "landed"
  BY <1>1, <1>5 DEF PayoutInv
<1>6. QED
  BY <1>1, <1>2, <1>3, <1>4, <1>5 DEF PayoutInv

\* The steps of a child, one at a time.
LEMMA ChildStepsKeep ==
    ASSUME PayoutInv, Accounts!SolanaInv, NEW a \in Attempt,
           \/ Spawn(a) \/ Submit(a) \/ EscrowLands(a) \/ Sign(a) \/ Broadcast(a)
           \/ PaymentLands(a) \/ PaymentReverts(a) \/ Confirmed(a) \/ Fails(a)
    PROVE  PayoutInv'
<1>0. child[a] \in ChildRecord /\ ChildOK(a)
  BY DEF PayoutInv
<1> DEFINE Keeps(new) ==
                /\ new \in ChildRecord
                /\ Set(a, new)
                /\ ledger' = ledger
                /\ new.owned => child[a].owned \/ \A b \in Attempt : ~child[b].owned
                /\ child[a].pay = "landed" => new.pay = "landed"
                /\ new.owned /\ ~new.go => ledger[SwapOf[a]].status = "none"
                /\ new.go => ledger[SwapOf[a]].by = a /\ ledger[SwapOf[a]].status # "none"
                /\ new.pay \in {"sent", "landed", "reverted"} => new.go
                /\ new.pc # "none"
                /\ new.pc = "fetch" => new.escrow = "none"
                /\ new.pc \in {"fetch", "confirm"} => new.pay = "none"
                /\ new.pc = "wait" => new.pay = "signed"
                /\ new.pc = "ok" => new.pay = "landed"
                /\ new.pay # "none" => new.escrow = "landed"
<1>1. ASSUME NEW new, Keeps(new) PROVE PayoutInv'
  <2>1. child'[a] = new
    BY <1>1 DEF Set, PayoutInv
  <2>2. ChildOK(a)'
    BY <1>1, <2>1 DEF ChildOK, Sent
  <2>3. QED
    BY <1>1, <2>2, ChildStep
<1> HIDE DEF Keeps
<1>2. CASE Spawn(a)
  <2>1. /\ child[a] = NoChild
        /\ \A b \in Attempt : ~child[b].owned
        /\ ledger[SwapOf[a]].status = "none" /\ ledger' = ledger
        /\ Set(a, [child[a] EXCEPT !.pc = "fetch", !.owned = TRUE])
    BY <1>0, <1>2 DEF Spawn, ChildOK
  <2>2. /\ ~child[a].go
        /\ child[a].pay = "none"
        /\ child[a].escrow = "none"
    BY <2>1 DEF NoChild
  <2>3. Keeps([child[a] EXCEPT !.pc = "fetch", !.owned = TRUE])
    BY <1>0, <2>1, <2>2 DEF Keeps, ChildRecord
  <2>4. QED
    BY <1>1, <2>3
<1>3. CASE Submit(a)
  <2>1. PICK n \in ReadNonce :
            Set(a, [child[a] EXCEPT !.pc = "confirm", !.nonce = n, !.escrow = "sent"])
    BY <1>3 DEF Submit
  <2>2. n \in 0 .. MaxIntents
    BY ReadNonceType
  <2>3. Keeps([child[a] EXCEPT !.pc = "confirm", !.nonce = n, !.escrow = "sent"])
    BY <1>0, <1>3, <2>1, <2>2 DEF Keeps, Submit, ChildOK, ChildRecord, Sent
  <2>4. QED
    BY <1>1, <2>3
<1>4. CASE EscrowLands(a)
  <2>1. child[a].pc \notin {"none", "fetch"}
    BY <1>0, <1>4 DEF EscrowLands, ChildOK, NoChild
  <2>2. Keeps([child[a] EXCEPT !.escrow = "landed"])
    BY <1>0, <1>4, <2>1 DEF Keeps, EscrowLands, ChildOK, ChildRecord, Sent
  <2>3. QED
    BY <1>1, <2>2
<1>5. CASE Sign(a)
  <2>1. PICK n \in ReadNonce \ {0} :
            Set(a, [child[a] EXCEPT !.pc = "wait", !.used = n - 1, !.pay = "signed"])
    BY <1>5 DEF Sign
  <2>2. n - 1 \in 0 .. (MaxIntents - 1)
    BY ReadNonceType
  <2>3. Keeps([child[a] EXCEPT !.pc = "wait", !.used = n - 1, !.pay = "signed"])
    BY <1>0, <1>5, <2>1, <2>2 DEF Keeps, Sign, ChildOK, ChildRecord, Sent
  <2>4. QED
    BY <1>1, <2>3
<1>6. CASE Broadcast(a)
  <2>1. Keeps([child[a] EXCEPT !.pc = "poll", !.pay = "sent"])
    BY <1>0, <1>6 DEF Keeps, Broadcast, ChildOK, ChildRecord, Sent
  <2>2. QED
    BY <1>1, <2>1
<1>7. CASE PaymentLands(a)
  <2>1. child[a].pc \notin {"none", "fetch", "confirm", "wait"}
    BY <1>0, <1>7 DEF PaymentLands, ChildOK, NoChild
  <2>2. Keeps([child[a] EXCEPT !.pay = "landed"])
    BY <1>0, <1>7, <2>1 DEF Keeps, PaymentLands, ChildOK, ChildRecord, Sent
  <2>3. QED
    BY <1>1, <2>2
<1>8. CASE PaymentReverts(a)
  <2>1. /\ child[a].pay = "sent" /\ UNCHANGED ledger
        /\ Set(a, [child[a] EXCEPT !.pay = "reverted"])
    BY <1>8 DEF PaymentReverts
  <2>2. child[a].pc \notin {"none", "fetch", "confirm", "wait", "ok"}
    BY <1>0, <2>1 DEF ChildOK, NoChild
  <2>3. Keeps([child[a] EXCEPT !.pay = "reverted"])
    BY <1>0, <2>1, <2>2 DEF Keeps, ChildOK, ChildRecord, Sent
  <2>4. QED
    BY <1>1, <2>3
<1>9. CASE Confirmed(a)
  <2>1. Keeps([child[a] EXCEPT !.pc = "ok"])
    BY <1>0, <1>9 DEF Keeps, Confirmed, ChildOK, ChildRecord, Sent
  <2>2. QED
    BY <1>1, <2>1
<1>10. CASE Fails(a)
  <2>1. Keeps([child[a] EXCEPT !.pc = "failed"])
    BY <1>0, <1>10 DEF Keeps, Fails, ChildOK, ChildRecord, Sent
  <2>2. QED
    BY <1>1, <2>1
<1>11. QED
  BY <1>2, <1>3, <1>4, <1>5, <1>6, <1>7, <1>8, <1>9, <1>10

\* The record is written once per swap: the swap's entry is empty while its child waits.
LEMMA ParentRecordsKeeps ==
    ASSUME PayoutInv, NEW a \in Attempt, ParentRecords(a)
    PROVE  PayoutInv'
<1> DEFINE s == SwapOf[a]
<1>0. s \in Swap /\ child[a] \in ChildRecord /\ ChildOK(a)
  BY SwapOfType DEF PayoutInv
<1>1. /\ ledger' = [ledger EXCEPT ![s] = [status |-> "settling", by |-> a]]
      /\ child' = [child EXCEPT ![a] = [child[a] EXCEPT !.go = TRUE]]
      /\ child[a].owned /\ ~child[a].go /\ child[a].pay = "signed"
  BY DEF ParentRecords, Set
<1>2. ledger[s].status = "none"
  BY <1>0, <1>1 DEF ChildOK
<1>3. child' \in [Attempt -> ChildRecord] /\ ledger' \in [Swap -> Entry]
  BY <1>0, <1>1 DEF PayoutInv, ChildRecord, Entry
<1>4. \A b, c \in Attempt : child'[b].owned /\ child'[c].owned => b = c
  BY <1>0, <1>1 DEF PayoutInv, ChildRecord
<1>5. ASSUME NEW b \in Attempt PROVE ChildOK(b)'
  <2>1. CASE b = a
    <3>1. /\ child'[a].go /\ child'[a].pay = "signed" /\ child'[a].pc = child[a].pc
          /\ child'[a].pc \notin {"none", "fetch", "confirm", "ok"}
          /\ child'[a].escrow = "landed"
          /\ ledger'[s].by = a /\ ledger'[s].status = "settling"
      BY <1>0, <1>1 DEF ChildRecord, ChildOK, NoChild, PayoutInv
    <3>2. QED
      BY <2>1, <3>1 DEF ChildOK, Sent
  <2>2. CASE b # a
    <3>1. child'[b] = child[b] /\ ChildOK(b) /\ SwapOf[b] \in Swap /\ ~child[b].owned
      BY <1>1, <2>2, SwapOfType DEF PayoutInv
    <3>2. SwapOf[b] = s => ~child[b].go
      BY <1>2, <3>1 DEF ChildOK
    <3>3. SwapOf[b] # s => ledger'[SwapOf[b]] = ledger[SwapOf[b]]
      BY <1>0, <1>1, <3>1 DEF PayoutInv
    <3>4. QED
      BY <3>1, <3>2, <3>3 DEF ChildOK, Sent
  <2>3. QED
    BY <2>1, <2>2
<1>6. ASSUME NEW t \in Swap, ledger'[t].status = "settled"
      PROVE  child'[ledger'[t].by].pay = "landed"
  <2>1. t # s /\ ledger'[t] = ledger[t]
    BY <1>0, <1>1, <1>6 DEF PayoutInv
  <2>2. ledger[t].by \in Attempt /\ child[ledger[t].by].pay = "landed"
    BY <1>6, <2>1, RecordType DEF PayoutInv
  <2>3. QED
    BY <1>1, <2>1, <2>2 DEF PayoutInv
<1>7. \A t \in Swap : ledger'[t].status = "none" <=> ledger'[t].by = Nobody
  BY <1>0, <1>1, SwapOfType DEF PayoutInv
<1>8. QED
  BY <1>3, <1>4, <1>5, <1>6, <1>7 DEF PayoutInv

\* Settling becomes settled, for a payout that landed, and a parent may let go of its child.
LEMMA SettleStep ==
    ASSUME PayoutInv, NEW own \in [Attempt -> BOOLEAN],
           \A a \in Attempt : own[a] => child[a].owned,
           child' = [a \in Attempt |-> [child[a] EXCEPT !.owned = own[a]]],
           \/ ledger' = ledger
           \/ \E s \in Swap : /\ ledger' = [ledger EXCEPT ![s].status = "settled"]
                              /\ ledger[s].status # "none"
                              /\ child[ledger[s].by].pay = "landed"
    PROVE  PayoutInv'
<1>1. \A a \in Attempt :
        /\ child'[a] \in ChildRecord
        /\ child'[a].owned = own[a]
        /\ child'[a].go = child[a].go /\ child'[a].pay = child[a].pay /\ child'[a].pc = child[a].pc
        /\ child'[a].escrow = child[a].escrow
        /\ ~child[a].owned => child'[a] = child[a]
  <2> SUFFICES ASSUME NEW a \in Attempt
               PROVE  /\ child'[a] \in ChildRecord
                      /\ child'[a].owned = own[a]
                      /\ child'[a].go = child[a].go /\ child'[a].pay = child[a].pay
                      /\ child'[a].pc = child[a].pc /\ child'[a].escrow = child[a].escrow
                      /\ ~child[a].owned => child'[a] = child[a]
    OBVIOUS
  <2>1. child'[a] = [child[a] EXCEPT !.owned = own[a]] /\ child[a] \in ChildRecord
    BY DEF PayoutInv
  <2>2. own[a] \in BOOLEAN /\ (own[a] => child[a].owned)
    OBVIOUS
  <2>3. QED
    BY <2>1, <2>2 DEF ChildRecord
<1>2. /\ ledger' \in [Swap -> Entry]
      /\ \A s \in Swap :
            /\ ledger'[s].by = ledger[s].by
            /\ ledger'[s].status = "none" <=> ledger[s].status = "none"
            /\ ledger'[s].status # "none" => ledger[s].by \in Attempt
            /\ ledger'[s].status = "settled" => child[ledger[s].by].pay = "landed"
  <2>0. \A s \in Swap : ledger[s].status # "none" => ledger[s].by \in Attempt
    BY RecordType
  <2>1. CASE ledger' = ledger
    BY <2>0, <2>1 DEF PayoutInv
  <2>2. ASSUME NEW s \in Swap, ledger' = [ledger EXCEPT ![s].status = "settled"],
               ledger[s].status # "none", child[ledger[s].by].pay = "landed"
        PROVE  <1>2
    <3>1. ledger' \in [Swap -> Entry] /\ ledger'[s].by = ledger[s].by /\ ledger'[s].status = "settled"
      BY <2>2 DEF PayoutInv, Entry
    <3>2. \A t \in Swap : t # s => ledger'[t] = ledger[t]
      BY <2>2 DEF PayoutInv
    <3>3. QED
      BY <2>0, <2>2, <3>1, <3>2 DEF PayoutInv
  <2>3. QED
    BY <2>1, <2>2
<1>3. child' \in [Attempt -> ChildRecord]
  BY <1>1
<1>4. ASSUME NEW a \in Attempt PROVE ChildOK(a)'
  <2>1. ChildOK(a) /\ SwapOf[a] \in Swap
    BY SwapOfType DEF PayoutInv
  <2>2. child'[a].pc = "none" => child'[a] = NoChild
    BY <1>1, <2>1 DEF ChildOK, NoChild
  <2>3. QED
    BY <1>1, <1>2, <2>1, <2>2 DEF ChildOK, Sent
<1>5. \A a, b \in Attempt : child'[a].owned /\ child'[b].owned => a = b
  BY <1>1 DEF PayoutInv
<1>6. QED
  BY <1>1, <1>2, <1>3, <1>4, <1>5 DEF PayoutInv

\* Every step of the children, of their parent and of everybody else.
LEMMA NextPayout == PayoutInv /\ Accounts!SolanaInv /\ [Next]_vars => PayoutInv'
<1> SUFFICES ASSUME PayoutInv, Accounts!SolanaInv, [Next]_vars PROVE PayoutInv'
  OBVIOUS
<1>1. ASSUME NEW a \in Attempt,
             \/ Spawn(a) \/ Submit(a) \/ EscrowLands(a) \/ Sign(a) \/ Broadcast(a)
             \/ PaymentLands(a) \/ PaymentReverts(a) \/ Confirmed(a) \/ Fails(a)
      PROVE  PayoutInv'
  BY <1>1, ChildStepsKeep
<1>2. ASSUME NEW a \in Attempt, ParentRecords(a) PROVE PayoutInv'
  BY <1>2, ParentRecordsKeeps
<1>3. ASSUME NEW a \in Attempt, ParentSees(a) PROVE PayoutInv'
  <2> DEFINE own == [b \in Attempt |-> IF b = a THEN FALSE ELSE child[b].owned]
             s == SwapOf[a]
  <2>1. child' = [child EXCEPT ![a] = [child[a] EXCEPT !.owned = FALSE]]
    BY <1>3 DEF ParentSees, Set
  <2>2. \A b \in Attempt : child[b] \in ChildRecord /\ child[b] = [child[b] EXCEPT !.owned = child[b].owned]
    BY DEF PayoutInv, ChildRecord
  <2>3. child' = [b \in Attempt |-> [child[b] EXCEPT !.owned = own[b]]]
    BY <2>1, <2>2 DEF PayoutInv
  <2>4. own \in [Attempt -> BOOLEAN] /\ \A b \in Attempt : own[b] => child[b].owned
    BY <2>2 DEF ChildRecord
  <2>5. ChildOK(a) /\ s \in Swap
    BY SwapOfType DEF PayoutInv
  <2>6. child[a].pc = "ok" =>
            child[a].pay = "landed" /\ ledger[s].by = a /\ ledger[s].status # "none"
    BY <2>5 DEF ChildOK, Sent
  <2>7. \/ ledger' = ledger
        \/ child[a].pc = "ok" /\ ledger' = [ledger EXCEPT ![s].status = "settled"]
    BY <1>3 DEF ParentSees
  <2>8. QED
    BY <2>3, <2>4, <2>5, <2>6, <2>7, SettleStep
<1>4. ASSUME NEW s \in Swap, Reconcile(s) PROVE PayoutInv'
  <2> DEFINE own == [b \in Attempt |-> child[b].owned]
  <2>1. /\ child' = child /\ ledger' = [ledger EXCEPT ![s].status = "settled"]
        /\ ledger[s].status = "settling" /\ child[ledger[s].by].pay = "landed"
    BY <1>4 DEF Reconcile
  <2>2. own \in [Attempt -> BOOLEAN] /\ child = [b \in Attempt |-> [child[b] EXCEPT !.owned = own[b]]]
    BY DEF PayoutInv, ChildRecord
  <2>3. QED
    BY <1>4, <2>1, <2>2, SettleStep
<1>5. CASE ParentCrashes
  <2> DEFINE own == [b \in Attempt |-> FALSE]
  <2>1. child' = [b \in Attempt |-> [child[b] EXCEPT !.owned = own[b]]] /\ ledger' = ledger
    BY <1>5 DEF ParentCrashes
  <2>2. own \in [Attempt -> BOOLEAN] /\ \A b \in Attempt : own[b] => child[b].owned
    OBVIOUS
  <2>3. QED
    BY <2>1, <2>2, SettleStep
<1>6. CASE Others \/ UNCHANGED vars
  <2>1. child' = child /\ ledger' = ledger
    BY <1>6 DEF Others, vars
  <2>2. QED
    BY <2>1 DEF PayoutInv, ChildOK, Sent
<1>7. QED
  BY <1>1, <1>2, <1>3, <1>4, <1>5, <1>6 DEF Next

----------------------------------------------------------------------------
\* The accounts are well-formed from the start, with the channel open.
LEMMA InitAccounts == Init => Accounts!SolanaInv
<1> SUFFICES ASSUME Init PROVE Accounts!SolanaInv
  OBVIOUS
<1>1. /\ \A i \in Accounts!IntentId : intent[i] = Accounts!NoIntent /\ escrowed[i] = 0
      /\ intent = [i \in Accounts!IntentId |-> Accounts!NoIntent]
      /\ escrowed = [i \in Accounts!IntentId |-> 0]
  BY DEF Init, Program!IntentId, Accounts!IntentId, Program!NoIntent, Accounts!NoIntent
<1>2. Accounts!NoIntent \in Accounts!IntentRecord /\ Accounts!NoIntent.status = "Absent"
  BY PayoutAssumption DEF Accounts!NoIntent, Accounts!IntentRecord
<1>3. Accounts!TypeOK
  <2>1. intent \in [Accounts!IntentId -> Accounts!IntentRecord]
    BY <1>1, <1>2
  <2>2. escrowed \in [Accounts!IntentId -> Nat]
    BY <1>1
  <2>3. clock \in 0 .. MaxTime /\ intent_nonce \in 0 .. MaxIntents /\ lamports \in [Wallet -> Nat]
    BY PayoutAssumption DEF Init
  <2>4. paused \in BOOLEAN /\ breaker \in [{ArbitrumSepolia} -> {"absent", "open", "halted"}]
    BY DEF Init
  <2>5. QED
    BY <2>1, <2>2, <2>3, <2>4 DEF Accounts!TypeOK
<1>4. Accounts!FreshAccounts /\ Accounts!EscrowIsWhole /\ Accounts!SlippageRespected
  BY <1>1, <1>2 DEF Accounts!FreshAccounts, Accounts!EscrowIsWhole, Accounts!SlippageRespected
<1>5. QED
  BY <1>3, <1>4 DEF Accounts!SolanaInv

\* A submission, by a child or by somebody else.
LEMMA SubmissionAccounts ==
    ASSUME Accounts!SolanaInv, NEW o \in Wallet, NEW d \in Wallet, NEW n \in Nat,
           Program!submit_intent(o, n, d, clock + EscrowLife, Slippage, ArbitrumSepolia)
    PROVE  /\ Accounts!SolanaInv'
           /\ intent_nonce \in Program!IntentId
           /\ intent[intent_nonce].status = "Absent"
           /\ intent'[intent_nonce].status = "Pending"
           /\ intent'[intent_nonce].owner = o /\ intent'[intent_nonce].amount = n
           /\ intent_nonce' = intent_nonce + 1
           /\ \A i \in Program!IntentId \ {intent_nonce} : intent'[i] = intent[i]
<1>1. /\ clock \in Nat /\ intent_nonce \in 0 .. MaxIntents
      /\ intent \in [Accounts!IntentId -> Accounts!IntentRecord]
  BY PayoutAssumption DEF Accounts!SolanaInv, Accounts!TypeOK
<1>2. PICK e \in Nat : e = clock + EscrowLife
  BY <1>1, PayoutAssumption
<1>3. Accounts!submit_intent(o, n, d, e, Slippage, ArbitrumSepolia)
  <2>1. Slippage \in Nat
    BY DEF Slippage
  <2>2. Program!submit_intent(o, n, d, e, Slippage, ArbitrumSepolia)
    BY <1>2
  <2>3. QED
    BY <1>2, <2>1, <2>2, SameProgram
<1>4. Accounts!SolanaInv'
  <2>1. Slippage \in Nat /\ ArbitrumSepolia \in {ArbitrumSepolia}
    BY DEF Slippage
  <2>2. QED
    BY <1>2, <1>3, <2>1, ParametersFit, Accounts!SubmitInv
<1>5. /\ intent_nonce \in Program!IntentId
      /\ intent[intent_nonce].status = "Absent"
  <2>1. intent_nonce < MaxIntents
    BY <1>3 DEF Accounts!submit_intent
  <2>2. intent_nonce \in Accounts!IntentId
    BY <1>1, <2>1, PayoutAssumption DEF Accounts!IntentId
  <2>3. QED
    BY <1>1, <2>2, SameProgram DEF Accounts!SolanaInv, Accounts!FreshAccounts
<1>6. /\ intent'[intent_nonce].status = "Pending"
      /\ intent'[intent_nonce].owner = o /\ intent'[intent_nonce].amount = n
      /\ intent_nonce' = intent_nonce + 1
      /\ \A i \in Program!IntentId \ {intent_nonce} : intent'[i] = intent[i]
  BY <1>1, <1>3, <1>5, SameProgram DEF Accounts!submit_intent
<1>7. QED
  BY <1>4, <1>5, <1>6

\* A payment.
LEMMA PaymentAccounts ==
    ASSUME Accounts!SolanaInv, NEW i \in Program!IntentId, NEW n \in Nat,
           Program!receive_settlement(i, n)
    PROVE  /\ Accounts!SolanaInv'
           /\ intent[i].status = "Pending"
           /\ intent'[i].status = "Settled" /\ intent'[i].settled_amount = n
           /\ intent'[i].owner = intent[i].owner /\ intent'[i].destination = intent[i].destination
           /\ intent[i].amount >= n
           /\ \A j \in Program!IntentId : intent'[j].amount = intent[j].amount
           /\ intent_nonce' = intent_nonce
           /\ \A j \in Program!IntentId \ {i} : intent'[j] = intent[j]
<1>1. Accounts!receive_settlement(i, n) /\ i \in Accounts!IntentId
  BY SameProgram
<1>2. Accounts!SolanaInv'
  BY <1>1, ParametersFit, Accounts!ReceiveInv
<1>3. intent \in [Accounts!IntentId -> Accounts!IntentRecord] /\ intent[i] \in Accounts!IntentRecord
  BY <1>1 DEF Accounts!SolanaInv, Accounts!TypeOK
<1>4. intent[i].amount >= n
  BY <1>1, <1>3 DEF Accounts!receive_settlement, Accounts!Acceptable, Accounts!IntentRecord
<1>5. /\ intent[i].status = "Pending"
      /\ intent'[i].status = "Settled" /\ intent'[i].settled_amount = n
      /\ intent'[i].owner = intent[i].owner /\ intent'[i].destination = intent[i].destination
      /\ intent'[i].amount = intent[i].amount
      /\ intent_nonce' = intent_nonce
      /\ \A j \in Program!IntentId \ {i} : intent'[j] = intent[j]
  BY <1>1, <1>3, SameProgram DEF Accounts!receive_settlement, Accounts!IntentRecord
<1>6. QED
  BY <1>2, <1>4, <1>5

\* The price and the wallet of an attempt.
LEMMA PriceType ==
    ASSUME NEW a \in Attempt
    PROVE  Price[SwapOf[a]] \in Nat /\ Dest[SwapOf[a]] \in Wallet
BY SwapOfType, PayoutAssumption

\* The program's side of every step.
LEMMA NextAccounts == PayoutInv /\ Accounts!SolanaInv /\ [Next]_vars => Accounts!SolanaInv'
<1> SUFFICES ASSUME PayoutInv, Accounts!SolanaInv, [Next]_vars PROVE Accounts!SolanaInv'
  OBVIOUS
<1>1. ASSUME UNCHANGED programVars PROVE Accounts!SolanaInv'
  BY <1>1, ParametersFit, Accounts!NextInv DEF programVars, Accounts!vars
<1>2. ASSUME NEW a \in Attempt, EscrowLands(a) PROVE Accounts!SolanaInv'
  BY <1>2, SubmissionAccounts, PriceType, PayoutAssumption DEF EscrowLands
<1>3. ASSUME NEW a \in Attempt, PaymentLands(a) PROVE Accounts!SolanaInv'
  <2>1. PICK i \in Program!IntentId : i = child[a].used
    BY DEF PayoutInv, ChildRecord, Program!IntentId
  <2>2. Program!receive_settlement(i, Price[SwapOf[a]])
    BY <1>3, <2>1 DEF PaymentLands
  <2>3. QED
    BY <2>2, PaymentAccounts, PriceType
<1>4. CASE Others
  <2>1. CASE Program!submit_intent(Other, 1, Other, clock + EscrowLife, Slippage, ArbitrumSepolia)
    BY <2>1, SubmissionAccounts, PayoutAssumption
  <2>2. CASE Program!Tick
    <3>1. Accounts!Next
      BY <2>2, SameProgram DEF Accounts!Next
    <3>2. QED
      BY <3>1, ParametersFit, Accounts!NextInv
  <2>3. QED
    BY <1>4, <2>1, <2>2 DEF Others
<1>5. ASSUME NEW a \in Attempt,
             \/ Spawn(a) \/ Submit(a) \/ Sign(a) \/ ParentRecords(a) \/ Broadcast(a)
             \/ PaymentReverts(a) \/ Confirmed(a) \/ Fails(a) \/ ParentSees(a)
      PROVE  Accounts!SolanaInv'
  BY <1>1, <1>5 DEF Spawn, Submit, Sign, ParentRecords, Broadcast, PaymentReverts, Confirmed,
                    Fails, ParentSees
<1>6. CASE (\E s \in Swap : Reconcile(s)) \/ ParentCrashes \/ UNCHANGED vars
  BY <1>1, <1>6 DEF Reconcile, ParentCrashes, vars
<1>7. QED
  BY <1>2, <1>3, <1>4, <1>5, <1>6 DEF Next

\* The two invariants of the payout.
LEMMA BothInvariant == Spec => [](PayoutInv /\ Accounts!SolanaInv)
<1>1. Init => PayoutInv /\ Accounts!SolanaInv
  BY InitPayout, InitAccounts
<1>2. (PayoutInv /\ Accounts!SolanaInv) /\ [Next]_vars => (PayoutInv /\ Accounts!SolanaInv)'
  BY NextPayout, NextAccounts
<1>3. QED
  BY <1>1, <1>2, PTL DEF Spec

\* The program's accounts, the script's locals and the ledger's entries keep their types,
\* no parent has two children, and no child signs before its own escrow is confirmed
\* (settle_intent.js and runSolanaPayout).
THEOREM TypeCorrect == Spec => []TypeOK
<1>1. PayoutInv /\ Accounts!SolanaInv => TypeOK
  BY SameProgram DEF PayoutInv, ChildOK, Entry, Accounts!SolanaInv, TypeOK
<1>2. QED
  BY BothInvariant, <1>1, PTL

\* A swap is paid by one transaction at most and settled only if it landed: for any number
\* of swaps and children, any crashes of the parent, any lag of the nodes and whatever
\* becomes of the transactions (settle_intent.js and runSolanaPayout).
THEOREM SwapsArePaidOnce == Spec => []OnePayoutPerSwap
<1>1. PayoutInv => OnePayoutPerSwap
  BY SwapOfType, RecordType DEF PayoutInv, ChildOK, OnePayoutPerSwap
<1>2. QED
  BY BothInvariant, <1>1, PTL
----------------------------------------------------------------------------
(***************************************************************************)
(* The refinement of PayoutLeg.  What a wallet received is a sum over the  *)
(* program's intents; a payment changes one summand, everything else none. *)
(***************************************************************************)
ReceivedOK == \A w \in Wallet : Received(w) \in [Program!IntentId -> Int]

LEMMA ReceivedType == Accounts!SolanaInv => ReceivedOK
<1> SUFFICES ASSUME Accounts!SolanaInv, NEW w \in Wallet PROVE Received(w) \in [Program!IntentId -> Int]
  BY DEF ReceivedOK
<1>1. \A i \in Program!IntentId : intent[i].settled_amount \in Int
  BY SameProgram DEF Accounts!SolanaInv, Accounts!TypeOK, Accounts!IntentRecord
<1>2. \A i \in Program!IntentId :
        (IF i \in Mine("Settled") /\ intent[i].destination = w THEN intent[i].settled_amount ELSE 0) \in Int
  BY <1>1
<1>3. QED
  BY <1>2 DEF Received

\* No intent of the hot wallet is settled by the step: everybody keeps what they got.
LEMMA GotKept ==
    ASSUME \A i \in Program!IntentId :
                \/ intent'[i] = intent[i]
                \/ intent[i].status # "Settled" /\ intent'[i].status # "Settled"
    PROVE  Got' = Got
<1>1. ASSUME NEW w \in Wallet PROVE Received(w)' = Received(w)
  BY DEF Received, Mine
<1>2. QED
  BY <1>1 DEF Got

\* An intent of the hot wallet is settled for n: its destination gets n.
LEMMA GotMore ==
    ASSUME Accounts!SolanaInv, Accounts!SolanaInv', NEW i \in Program!IntentId, NEW n \in Nat,
           NEW d \in Wallet,
           intent[i].status = "Pending",
           intent'[i].status = "Settled", intent'[i].settled_amount = n,
           intent'[i].owner = Orchestrator, intent'[i].destination = d,
           \A j \in Program!IntentId \ {i} : intent'[j] = intent[j]
    PROVE  Got' = [Got EXCEPT ![d] = @ + n]
<1>1. ASSUME NEW w \in Wallet
      PROVE  /\ Program!Total(Received(w)') = Program!Total(Received(w)) + (IF w = d THEN n ELSE 0)
             /\ Program!Total(Received(w)) \in Int
  <2>1. Received(w) \in [Program!IntentId -> Int] /\ Received(w)' \in [Program!IntentId -> Int]
    <3>1. Accounts!SolanaInv' => ReceivedOK'
      BY ReceivedType, PTL
    <3>2. QED
      BY <3>1, ReceivedType DEF ReceivedOK
  <2>2. \A j \in Program!IntentId \ {i} : Received(w)'[j] = Received(w)[j]
    BY DEF Received, Mine
  <2>3. Received(w)[i] = 0 /\ Received(w)'[i] = IF w = d THEN n ELSE 0
    BY DEF Received, Mine
  <2> DEFINE f == Received(w)
             g == Received(w)'
  <2>4. /\ Accounts!Total(g) = Accounts!Total(f) + g[i] - f[i]
        /\ Accounts!Total(f) \in Int
    <3> HIDE DEF f, g
    <3>1. f \in [Accounts!IntentId -> Int] /\ g \in [Accounts!IntentId -> Int] /\ i \in Accounts!IntentId
          /\ \A j \in Accounts!IntentId \ {i} : g[j] = f[j]
      BY <2>1, <2>2, SameProgram DEF f, g
    <3>2. QED
      BY <3>1, ParametersFit, Accounts!TotalChanges, Accounts!TotalType
  <2>5. Program!Total(g) = Accounts!Total(g) /\ Program!Total(f) = Accounts!Total(f)
    BY DEF Program!Total, Accounts!Total
  <2>6. QED
    BY <2>3, <2>4, <2>5
<1>2. ASSUME NEW w \in Wallet PROVE Got'[w] = Got[w] + (IF w = d THEN n ELSE 0) /\ Got[w] \in Int
  <2>1. Got'[w] = Program!Total(Received(w)') /\ Got[w] = Program!Total(Received(w))
    BY DEF Got
  <2>2. QED
    BY <1>1, <2>1
<1>3. DOMAIN Got = Wallet /\ DOMAIN Got' = Wallet /\ Got = [w \in Wallet |-> Got[w]] /\ Got' = [w \in Wallet |-> Got'[w]]
  BY DEF Got
<1>4. QED
  BY <1>2, <1>3

\* Nothing was received at the start.
LEMMA GotNothing == Init => Got = [w \in Wallet |-> 0]
<1> SUFFICES ASSUME Init, NEW w \in Wallet PROVE Program!Total(Received(w)) = 0
  BY DEF Got
<1>1. Received(w) \in [Program!IntentId -> Int]
  BY InitAccounts, ReceivedType DEF ReceivedOK
<1>2. ASSUME NEW i \in Program!IntentId PROVE Received(w)[i] = 0
  BY DEF Init, Program!NoIntent, Received, Mine
<1> DEFINE f == Received(w)
<1>3. Accounts!Total(f) = 0
  <2> HIDE DEF f
  <2>1. f \in [Accounts!IntentId -> Int] /\ \A i \in Accounts!IntentId : f[i] = 0
    BY <1>1, <1>2, SameProgram DEF f
  <2>2. QED
    BY <2>1, ParametersFit, Accounts!TotalOfZeros
<1>4. QED
  BY <1>3 DEF Program!Total, Accounts!Total

\* How the child's and the ledger's steps look from outside.
LEMMA SigMoves ==
    ASSUME PayoutInv, NEW a \in Attempt, NEW new \in ChildRecord, Set(a, new)
    PROVE  SigOf' = [SigOf EXCEPT ![a] = IF new.pay = "reverted" THEN "sent" ELSE new.pay]
<1>1. child \in [Attempt -> ChildRecord] /\ child' = [child EXCEPT ![a] = new]
  BY DEF PayoutInv, Set
<1>2. QED
  BY <1>1 DEF SigOf

\* Only the pay of a child shows.
LEMMA PayKept ==
    ASSUME PayoutInv, NEW a \in Attempt, NEW new, Set(a, new), new.pay = child[a].pay
    PROVE  \A b \in Attempt : child'[b].pay = child[b].pay
<1>1. child \in [Attempt -> ChildRecord] /\ child' = [child EXCEPT ![a] = new]
  BY DEF PayoutInv, Set
<1>2. QED
  BY <1>1

LEMMA SigKept ==
    ASSUME \A a \in Attempt : child'[a].pay = child[a].pay
    PROVE  SigOf' = SigOf
BY DEF SigOf

LEMMA LedgerKept == ASSUME ledger' = ledger PROVE RecordOf' = RecordOf /\ IsSettled' = IsSettled
BY DEF RecordOf, IsSettled

\* Nothing of the leg moves.
LEMMA LegKept ==
    ASSUME \A a \in Attempt : child'[a].pay = child[a].pay, ledger' = ledger, Got' = Got
    PROVE  UNCHANGED Leg!vars
BY SigKept, LedgerKept DEF Leg!vars

\* The accounts are the program's.
LEMMA ProgramKept == ASSUME UNCHANGED programVars PROVE Got' = Got
BY GotKept DEF programVars

\* A landed payout is recorded as settled.
LEMMA SettlesLeg ==
    ASSUME PayoutInv, NEW s \in Swap, ledger' = [ledger EXCEPT ![s].status = "settled"],
           ledger[s].status # "none", child[ledger[s].by].pay = "landed", UNCHANGED programVars,
           \A a \in Attempt : child'[a].pay = child[a].pay
    PROVE  Leg!Next
<1>1. ledger[s] \in Entry /\ ledger \in [Swap -> Entry] /\ ledger[s].by \in Attempt
  BY RecordType DEF PayoutInv
<1>2. Leg!Settle(s)
  <2>1. RecordOf[s] # Nobody /\ SigOf[RecordOf[s]] = "landed"
    BY <1>1, SwapOfType DEF RecordOf, SigOf
  <2>2. \A t \in Swap : /\ ledger'[t].by = ledger[t].by
                        /\ t # s => ledger'[t] = ledger[t]
                        /\ t = s => ledger'[t].status = "settled"
    BY <1>1 DEF Entry
  <2>3. RecordOf' = RecordOf
    BY <2>2 DEF RecordOf
  <2>4. IsSettled' = [IsSettled EXCEPT ![s] = TRUE]
    <3>1. \A t \in Swap : (ledger'[t].status = "settled") <=> (t = s \/ ledger[t].status = "settled")
      BY <2>2
    <3>2. QED
      BY <3>1 DEF IsSettled
  <2>5. QED
    BY <2>1, <2>3, <2>4, SigKept, ProgramKept DEF Leg!Settle
<1>3. QED
  BY <1>2 DEF Leg!Next

\* The steps of a child that are not seen: before it signs, and its end.
LEMMA QuietLeg ==
    ASSUME PayoutInv, NEW a \in Attempt,
           Spawn(a) \/ Submit(a) \/ PaymentReverts(a) \/ Confirmed(a) \/ Fails(a)
    PROVE  UNCHANGED Leg!vars
<1>0. child[a] \in ChildRecord /\ ledger' = ledger /\ UNCHANGED programVars
  BY DEF PayoutInv, Spawn, Submit, PaymentReverts, Confirmed, Fails
<1>1. CASE PaymentReverts(a)
  <2>1. child[a].pay = "sent" /\ Set(a, [child[a] EXCEPT !.pay = "reverted"])
    BY <1>1 DEF PaymentReverts
  <2>2. child \in [Attempt -> ChildRecord]
    BY DEF PayoutInv
  <2>3. SigOf' = SigOf
    BY <1>0, <2>1, <2>2 DEF SigOf, Set, ChildRecord
  <2>4. QED
    BY <1>0, <2>3, LedgerKept, ProgramKept DEF Leg!vars
<1>2. CASE ~PaymentReverts(a)
  <2>1. PICK new : Set(a, new) /\ new.pay = child[a].pay
    <3>1. CASE Spawn(a)
      <4>1. /\ Set(a, [child[a] EXCEPT !.pc = "fetch", !.owned = TRUE])
            /\ [child[a] EXCEPT !.pc = "fetch", !.owned = TRUE].pay = child[a].pay
        BY <1>0, <3>1 DEF Spawn, ChildRecord
      <4>2. QED
        BY <4>1
    <3>2. CASE Submit(a)
      <4>1. PICK n \in ReadNonce :
                Set(a, [child[a] EXCEPT !.pc = "confirm", !.nonce = n, !.escrow = "sent"])
        BY <3>2 DEF Submit
      <4>2. [child[a] EXCEPT !.pc = "confirm", !.nonce = n, !.escrow = "sent"].pay = child[a].pay
        BY <1>0 DEF ChildRecord
      <4>3. QED
        BY <4>1, <4>2
    <3>3. CASE Confirmed(a)
      <4>1. Set(a, [child[a] EXCEPT !.pc = "ok"]) /\ [child[a] EXCEPT !.pc = "ok"].pay = child[a].pay
        BY <1>0, <3>3 DEF Confirmed, ChildRecord
      <4>2. QED
        BY <4>1
    <3>4. CASE Fails(a)
      <4>1. /\ Set(a, [child[a] EXCEPT !.pc = "failed"])
            /\ [child[a] EXCEPT !.pc = "failed"].pay = child[a].pay
        BY <1>0, <3>4 DEF Fails, ChildRecord
      <4>2. QED
        BY <4>1
    <3>5. QED
      BY <1>2, <3>1, <3>2, <3>3, <3>4
  <2>2. QED
    BY <1>0, <2>1, PayKept, ProgramKept, LegKept
<1>3. QED
  BY <1>1, <1>2

\* An escrow is nobody's income.
LEMMA EscrowLeg ==
    ASSUME PayoutInv, Accounts!SolanaInv, NEW a \in Attempt, EscrowLands(a)
    PROVE  UNCHANGED Leg!vars
<1>1. Program!submit_intent(Orchestrator, Price[SwapOf[a]], Dest[SwapOf[a]], clock + EscrowLife,
                            Slippage, ArbitrumSepolia)
  BY DEF EscrowLands
<1>2. /\ intent_nonce \in Program!IntentId
      /\ intent[intent_nonce].status = "Absent" /\ intent'[intent_nonce].status = "Pending"
      /\ \A i \in Program!IntentId \ {intent_nonce} : intent'[i] = intent[i]
  BY <1>1, SubmissionAccounts, PriceType, PayoutAssumption
<1>3. Got' = Got
  BY <1>2, GotKept
<1>4. Set(a, [child[a] EXCEPT !.escrow = "landed"]) /\ ledger' = ledger /\ child[a] \in ChildRecord
  BY DEF EscrowLands, PayoutInv
<1>5. [child[a] EXCEPT !.escrow = "landed"].pay = child[a].pay
  BY <1>4 DEF ChildRecord
<1>6. \A b \in Attempt : child'[b].pay = child[b].pay
  BY <1>4, <1>5, PayKept
<1>7. QED
  BY <1>3, <1>4, <1>6, LegKept

\* The steps of the handshake.
LEMMA SignLeg == ASSUME PayoutInv, Accounts!SolanaInv, NEW a \in Attempt, Sign(a) PROVE Leg!Next
<1>1. PICK n \in ReadNonce \ {0} :
        Set(a, [child[a] EXCEPT !.pc = "wait", !.used = n - 1, !.pay = "signed"])
  BY DEF Sign
<1>2. child[a] \in ChildRecord /\ child[a].pay = "none" /\ ledger' = ledger /\ UNCHANGED programVars
  BY DEF Sign, PayoutInv, ChildOK
<1> DEFINE new == [child[a] EXCEPT !.pc = "wait", !.used = n - 1, !.pay = "signed"]
<1>3. new \in ChildRecord /\ new.pay = "signed"
  BY <1>2, ReadNonceType DEF ChildRecord
<1>4. SigOf' = [SigOf EXCEPT ![a] = "signed"] /\ SigOf[a] = "none"
  <2>1. Set(a, new)
    BY <1>1
  <2> HIDE DEF new
  <2>2. SigOf' = [SigOf EXCEPT ![a] = "signed"]
    BY <1>3, <2>1, SigMoves
  <2>3. QED
    BY <1>2, <2>2 DEF SigOf
<1>5. Leg!Sign(a)
  BY <1>2, <1>4, LedgerKept, ProgramKept DEF Leg!Sign
<1>6. QED
  BY <1>5 DEF Leg!Next

LEMMA RecordLeg == ASSUME PayoutInv, NEW a \in Attempt, ParentRecords(a) PROVE Leg!Next
<1> DEFINE s == SwapOf[a]
<1>1. /\ child[a].owned /\ ~child[a].go /\ child[a].pay = "signed"
      /\ ledger' = [ledger EXCEPT ![s] = [status |-> "settling", by |-> a]]
      /\ Set(a, [child[a] EXCEPT !.go = TRUE])
      /\ UNCHANGED programVars
  BY DEF ParentRecords
<1>2. child[a] \in ChildRecord /\ ChildOK(a) /\ s \in Swap /\ ledger \in [Swap -> Entry]
  BY SwapOfType DEF PayoutInv
<1>3. ledger[s].status = "none" /\ ledger[s].by = Nobody
  BY <1>1, <1>2 DEF ChildOK, PayoutInv
<1>4. SigOf' = SigOf /\ SigOf[a] = "signed"
  <2>1. [child[a] EXCEPT !.go = TRUE].pay = child[a].pay
    BY <1>2 DEF ChildRecord
  <2>2. SigOf' = SigOf
    BY <1>1, <2>1, PayKept, SigKept
  <2>3. QED
    BY <1>1, <2>2 DEF SigOf
<1>5. RecordOf' = [RecordOf EXCEPT ![s] = a] /\ RecordOf[s] = Nobody
  BY <1>1, <1>2, <1>3 DEF RecordOf
<1>6. IsSettled' = IsSettled
  <2>1. \A t \in Swap : (ledger'[t].status = "settled") <=> (ledger[t].status = "settled")
    BY <1>1, <1>2, <1>3
  <2>2. QED
    BY <2>1 DEF IsSettled
<1>7. Leg!Record(a)
  BY <1>1, <1>4, <1>5, <1>6, ProgramKept DEF Leg!Record
<1>8. QED
  BY <1>7 DEF Leg!Next

LEMMA BroadcastLeg == ASSUME PayoutInv, NEW a \in Attempt, Broadcast(a) PROVE Leg!Next
<1>1. /\ child[a].pc = "wait" /\ child[a].go
      /\ Set(a, [child[a] EXCEPT !.pc = "poll", !.pay = "sent"])
      /\ UNCHANGED programVars /\ ledger' = ledger
  BY DEF Broadcast
<1>2. child[a] \in ChildRecord /\ ChildOK(a) /\ SwapOf[a] \in Swap
  BY SwapOfType DEF PayoutInv
<1>3. SigOf[a] = "signed" /\ RecordOf[SwapOf[a]] = a
  BY <1>1, <1>2 DEF ChildOK, SigOf, RecordOf
<1> DEFINE new == [child[a] EXCEPT !.pc = "poll", !.pay = "sent"]
<1>4. new \in ChildRecord /\ new.pay = "sent"
  BY <1>2 DEF ChildRecord
<1>5. SigOf' = [SigOf EXCEPT ![a] = "sent"]
  <2>1. Set(a, new)
    BY <1>1
  <2> HIDE DEF new
  <2>2. QED
    BY <1>4, <2>1, SigMoves
<1>6. Leg!Broadcast(a)
  BY <1>1, <1>3, <1>5, LedgerKept, ProgramKept DEF Leg!Broadcast
<1>7. QED
  BY <1>6 DEF Leg!Next

\* The payment brings the destination the price, be it from an escrow of another attempt.
LEMMA PaymentLeg ==
    ASSUME PayoutInv, Accounts!SolanaInv, NEW a \in Attempt, PaymentLands(a)
    PROVE  Leg!Next
<1> DEFINE d == Dest[SwapOf[a]]
           n == Price[SwapOf[a]]
<1>1. child[a] \in ChildRecord /\ n \in Nat /\ d \in Wallet
  BY PriceType DEF PayoutInv
<1>2. PICK i \in Program!IntentId : i = child[a].used
  BY <1>1 DEF ChildRecord, Program!IntentId
<1>3. /\ child[a].pay = "sent" /\ intent[i].owner = Orchestrator /\ intent[i].destination = d
      /\ Program!receive_settlement(i, n)
      /\ Set(a, [child[a] EXCEPT !.pay = "landed"])
      /\ ledger' = ledger
  BY <1>2 DEF PaymentLands
<1>4. Got' = [Got EXCEPT ![d] = @ + n]
  <2>1. /\ Accounts!SolanaInv' /\ intent[i].status = "Pending"
        /\ intent'[i].status = "Settled" /\ intent'[i].settled_amount = n
        /\ intent'[i].owner = Orchestrator /\ intent'[i].destination = d
        /\ \A j \in Program!IntentId \ {i} : intent'[j] = intent[j]
    <3> HIDE DEF d, n
    <3>1. QED
      BY <1>1, <1>3, PaymentAccounts
  <2> HIDE DEF d, n
  <2>2. QED
    BY <1>1, <2>1, GotMore
<1> DEFINE new == [child[a] EXCEPT !.pay = "landed"]
<1>5. new \in ChildRecord /\ new.pay = "landed"
  BY <1>1 DEF ChildRecord
<1>6. SigOf' = [SigOf EXCEPT ![a] = "landed"]
  <2>1. Set(a, new)
    BY <1>3
  <2> HIDE DEF new
  <2>2. QED
    BY <1>5, <2>1, SigMoves
<1>7. SigOf[a] = "sent"
  BY <1>3 DEF SigOf
<1>8. Leg!Land(a)
  BY <1>3, <1>4, <1>6, <1>7, LedgerKept DEF Leg!Land
<1>9. QED
  BY <1>8 DEF Leg!Next

\* The parent sees its child's end; only a successful one is recorded.
LEMMA SeesLeg == ASSUME PayoutInv, NEW a \in Attempt, ParentSees(a) PROVE Leg!Next \/ UNCHANGED Leg!vars
<1> DEFINE s == SwapOf[a]
<1>1. child[a] \in ChildRecord /\ ChildOK(a) /\ s \in Swap
  BY SwapOfType DEF PayoutInv
<1>2. /\ Set(a, [child[a] EXCEPT !.owned = FALSE]) /\ UNCHANGED programVars
      /\ ledger' = IF child[a].pc = "ok" THEN [ledger EXCEPT ![s].status = "settled"] ELSE ledger
  BY DEF ParentSees
<1>3. \A b \in Attempt : child'[b].pay = child[b].pay
  <2>1. [child[a] EXCEPT !.owned = FALSE].pay = child[a].pay
    BY <1>1 DEF ChildRecord
  <2>2. QED
    BY <1>2, <2>1, PayKept
<1>4. CASE child[a].pc = "ok"
  <2>1. child[a].pay = "landed" /\ ledger[s].by = a /\ ledger[s].status # "none"
    BY <1>1, <1>4 DEF ChildOK, Sent
  <2>2. QED
    BY <1>1, <1>2, <1>3, <1>4, <2>1, SettlesLeg
<1>5. CASE child[a].pc # "ok"
  BY <1>2, <1>3, <1>5, LegKept, ProgramKept
<1>6. QED
  BY <1>4, <1>5

\* Every step is a step of the leg or none.
LEMMA NextLeg == PayoutInv /\ Accounts!SolanaInv /\ [Next]_vars => [Leg!Next]_(Leg!vars)
<1> SUFFICES ASSUME PayoutInv, Accounts!SolanaInv, [Next]_vars PROVE [Leg!Next]_(Leg!vars)
  OBVIOUS
<1>1. ASSUME NEW s \in Swap, Reconcile(s) PROVE Leg!Next
  BY <1>1, SettlesLeg DEF Reconcile
<1>2. CASE ParentCrashes
  <2>1. \A a \in Attempt : child'[a].pay = child[a].pay
    BY <1>2 DEF ParentCrashes, PayoutInv, ChildRecord
  <2>2. QED
    BY <1>2, <2>1, LegKept, ProgramKept DEF ParentCrashes
<1>3. CASE Others
  <2>1. child' = child /\ ledger' = ledger
    BY <1>3 DEF Others
  <2>2. Got' = Got
    <3>1. CASE Program!submit_intent(Other, 1, Other, clock + EscrowLife, Slippage, ArbitrumSepolia)
      <4>1. /\ intent[intent_nonce].status = "Absent" /\ intent'[intent_nonce].status = "Pending"
            /\ \A i \in Program!IntentId \ {intent_nonce} : intent'[i] = intent[i]
        BY <3>1, SubmissionAccounts, PayoutAssumption
      <4>2. QED
        BY <4>1, GotKept
    <3>2. CASE Program!Tick
      BY <3>2, GotKept DEF Program!Tick
    <3>3. QED
      BY <1>3, <3>1, <3>2 DEF Others
  <2>3. QED
    BY <2>1, <2>2, LegKept
<1>4. CASE UNCHANGED vars
  BY <1>4, LegKept, ProgramKept DEF vars
<1>5. QED
  BY <1>1, <1>2, <1>3, <1>4, QuietLeg, EscrowLeg, SignLeg, RecordLeg, BroadcastLeg, PaymentLeg,
     SeesLeg DEF Next

\* The child and its parent implement the payout that the settlement sequence relies on:
\* each swap's recorded payout is the only one that can be sent, it brings the destination
\* exactly the swap's amount, and "settled" is said of a landed one only, for any number
\* of swaps, children, crashes, late transactions, stale nonces and other users' intents
\* (runSolanaPayout and settle_intent.js).
THEOREM PayoutIsALeg == Spec => ImplementsLeg
<1>1. Init => Leg!Init
  <2> SUFFICES ASSUME Init PROVE Leg!Init
    OBVIOUS
  <2>1. SigOf = [a \in Attempt |-> "none"]
    BY DEF Init, NoChild, SigOf
  <2>2. RecordOf = [s \in Swap |-> Nobody] /\ IsSettled = [s \in Swap |-> FALSE]
    BY DEF Init, RecordOf, IsSettled
  <2>3. QED
    BY <2>1, <2>2, GotNothing DEF Leg!Init
<1>2. QED
  BY <1>1, BothInvariant, NextLeg, PTL DEF Spec, ImplementsLeg, Leg!Spec

----------------------------------------------------------------------------
(***************************************************************************)
(* What stays locked in the escrow program.                                *)
(***************************************************************************)
\* The sums of the two instances are the same, and change with their summands.
LEMMA SumsOfIntents ==
    ASSUME NEW f \in [Program!IntentId -> Int], NEW g \in [Program!IntentId -> Int]
    PROVE  /\ Program!Total(f) \in Int
           /\ f = g => Program!Total(g) = Program!Total(f)
           /\ \A i \in Program!IntentId :
                (\A j \in Program!IntentId \ {i} : g[j] = f[j])
                    => Program!Total(g) = Program!Total(f) + g[i] - f[i]
           /\ (\A i \in Program!IntentId : f[i] <= g[i]) => Program!Total(f) <= Program!Total(g)
           /\ (\A i \in Program!IntentId : f[i] = 0) => Program!Total(f) = 0
<1>1. /\ Program!Total(f) = Accounts!Total(f) /\ Program!Total(g) = Accounts!Total(g)
      /\ f \in [Accounts!IntentId -> Int] /\ g \in [Accounts!IntentId -> Int]
  BY SameProgram DEF Program!Total, Accounts!Total
<1>2. Program!Total(f) \in Int
  BY <1>1, ParametersFit, Accounts!TotalType
<1>3. ASSUME NEW i \in Program!IntentId, \A j \in Program!IntentId \ {i} : g[j] = f[j]
      PROVE  Program!Total(g) = Program!Total(f) + g[i] - f[i]
  <2>1. i \in Accounts!IntentId /\ \A j \in Accounts!IntentId \ {i} : g[j] = f[j]
    BY <1>3, SameProgram
  <2>2. QED
    BY <1>1, <2>1, ParametersFit, Accounts!TotalChanges
<1>4. ASSUME \A i \in Program!IntentId : f[i] <= g[i] PROVE Program!Total(f) <= Program!Total(g)
  <2>1. \A i \in Accounts!IntentId : f[i] <= g[i]
    BY <1>4, SameProgram
  <2>2. QED
    BY <1>1, <2>1, ParametersFit, Accounts!TotalMonotone
<1>5. ASSUME \A i \in Program!IntentId : f[i] = 0 PROVE Program!Total(f) = 0
  <2>1. \A i \in Accounts!IntentId : f[i] = 0
    BY <1>5, SameProgram
  <2>2. QED
    BY <1>1, <2>1, ParametersFit, Accounts!TotalOfZeros
<1>6. QED
  BY <1>2, <1>3, <1>4, <1>5

\* The summands are numbers.
SummandsOK ==
    /\ Locked \in [Program!IntentId -> Int]
    /\ \A A \in SUBSET Attempt : EscrowedBy(A) \in [Program!IntentId -> Int]

LEMMA SummandTypes == Accounts!SolanaInv => SummandsOK
<1> SUFFICES ASSUME Accounts!SolanaInv, NEW i \in Program!IntentId
             PROVE  escrowed[i] \in Int /\ intent[i].amount \in Int
  BY DEF SummandsOK, Locked, EscrowedBy
<1>1. QED
  BY SameProgram DEF Accounts!SolanaInv, Accounts!TypeOK, Accounts!IntentRecord

\* What is locked in an intent account is its amount, if it is Pending.
LEMMA LockedAt ==
    ASSUME Accounts!SolanaInv, NEW i \in Program!IntentId
    PROVE  Locked[i] = IF intent[i].owner = Orchestrator /\ intent[i].status = "Pending"
                       THEN intent[i].amount ELSE 0
BY SameProgram DEF Locked, Mine, Accounts!SolanaInv, Accounts!EscrowIsWhole

\* Nobody escrowed anything yet.
LEMMA InitMaker == Init => MakerInv
<1> SUFFICES ASSUME Init PROVE MakerInv
  OBVIOUS
<1>1. Landed = {} /\ Unpaid = {}
  BY DEF Init, NoChild, Landed, Unpaid
<1>2. \A i \in Program!IntentId : Locked[i] = 0 /\ EscrowedBy(Unpaid)[i] = 0
  BY <1>1 DEF Init, Program!NoIntent, Locked, Mine, EscrowedBy
<1>3. Locked \in [Program!IntentId -> Int] /\ EscrowedBy(Unpaid) \in [Program!IntentId -> Int]
  <2>1. Unpaid \in SUBSET Attempt
    BY <1>1
  <2>2. QED
    BY <2>1, InitAccounts, SummandTypes DEF SummandsOK
<1>4. Program!Total(Locked) = 0 /\ Program!Total(EscrowedBy(Unpaid)) = 0
  BY <1>2, <1>3, SumsOfIntents
<1>5. QED
  BY <1>1, <1>4 DEF MakerInv

\* No escrow is made or released.
LEMMA MakerKept ==
    ASSUME MakerInv, UNCHANGED <<intent_nonce, intent, escrowed>>,
           \A a \in Attempt :
                /\ child'[a].escrow = "landed" <=> child[a].escrow = "landed"
                /\ child[a].escrow = "landed" =>
                    /\ child'[a].nonce = child[a].nonce
                    /\ child'[a].pay = "landed" <=> child[a].pay = "landed"
    PROVE  MakerInv'
<1>1. Landed' = Landed /\ Unpaid' = Unpaid
  BY DEF Landed, Unpaid
<1>2. \A a \in Landed : child'[a].nonce = child[a].nonce
  BY DEF Landed
<1>3. Locked' = Locked
  BY DEF Locked, Mine
<1>4. EscrowedBy(Unpaid)' = EscrowedBy(Unpaid)
  <2>1. \A i \in Program!IntentId :
            (\E a \in Unpaid' : child'[a].nonce = i) <=> (\E a \in Unpaid : child[a].nonce = i)
    BY <1>1, <1>2 DEF Unpaid
  <2>2. QED
    BY <2>1 DEF EscrowedBy
<1>5. QED
  BY <1>1, <1>2, <1>3, <1>4 DEF MakerInv

UnpaidEscrows == EscrowedBy(Unpaid)

LEMMA SummandInts ==
    ASSUME Accounts!SolanaInv, NEW i \in Program!IntentId
    PROVE  Locked[i] \in Int /\ UnpaidEscrows[i] \in Int
<1>1. Unpaid \in SUBSET Attempt
  BY DEF Unpaid, Landed
<1>2. QED
  BY <1>1, SummandTypes DEF SummandsOK, UnpaidEscrows

\* One summand of each sum changes, at most.
LEMMA SumsMove ==
    ASSUME Accounts!SolanaInv, Accounts!SolanaInv', NEW i \in Program!IntentId,
           NEW m \in Program!IntentId,
           \A j \in Program!IntentId \ {i} : Locked'[j] = Locked[j],
           \A j \in Program!IntentId \ {m} : UnpaidEscrows'[j] = UnpaidEscrows[j],
           Program!Total(Locked) <= Program!Total(UnpaidEscrows),
           Locked'[i] - Locked[i] <= UnpaidEscrows'[m] - UnpaidEscrows[m]
    PROVE  Program!Total(Locked') <= Program!Total(UnpaidEscrows')
<1>1. /\ Locked \in [Program!IntentId -> Int] /\ Locked' \in [Program!IntentId -> Int]
      /\ UnpaidEscrows \in [Program!IntentId -> Int] /\ UnpaidEscrows' \in [Program!IntentId -> Int]
  <2>1. SummandsOK /\ SummandsOK'
    <3>1. Accounts!SolanaInv' => SummandsOK'
      BY SummandTypes, PTL
    <3>2. QED
      BY <3>1, SummandTypes
  <2>2. Unpaid \in SUBSET Attempt /\ Unpaid' \in SUBSET Attempt
    BY DEF Unpaid, Landed
  <2>3. QED
    BY <2>1, <2>2 DEF SummandsOK, UnpaidEscrows
<1>2. Program!Total(Locked') = Program!Total(Locked) + Locked'[i] - Locked[i]
  BY <1>1, SumsOfIntents
<1>3. Program!Total(UnpaidEscrows') = Program!Total(UnpaidEscrows) + UnpaidEscrows'[m] - UnpaidEscrows[m]
  BY <1>1, SumsOfIntents
<1>4. /\ Program!Total(Locked) \in Int /\ Program!Total(UnpaidEscrows) \in Int
      /\ Locked[i] \in Int /\ Locked'[i] \in Int
      /\ UnpaidEscrows[m] \in Int /\ UnpaidEscrows'[m] \in Int
  BY <1>1, SumsOfIntents
<1>5. QED
  BY <1>2, <1>3, <1>4

LEMMA LockedAtNext ==
    ASSUME Accounts!SolanaInv', NEW i \in Program!IntentId
    PROVE  Locked'[i] = IF intent'[i].owner = Orchestrator /\ intent'[i].status = "Pending"
                        THEN intent'[i].amount ELSE 0
BY SameProgram DEF Locked, Mine, Accounts!SolanaInv, Accounts!EscrowIsWhole

\* An escrow lands: it is locked, and it is its child's.
LEMMA EscrowMaker ==
    ASSUME PayoutInv, Accounts!SolanaInv, MakerInv, NEW a \in Attempt, EscrowLands(a)
    PROVE  MakerInv'
<1> DEFINE n == Price[SwapOf[a]]
<1>0. n \in Nat /\ child[a] \in ChildRecord /\ ChildOK(a) /\ child \in [Attempt -> ChildRecord]
  BY PriceType DEF PayoutInv
<1>1. PICK k \in Program!IntentId : k = intent_nonce
  BY SubmissionAccounts, PriceType, PayoutAssumption DEF EscrowLands
<1>2. /\ Accounts!SolanaInv'
      /\ intent[k].status = "Absent"
      /\ intent'[k].status = "Pending" /\ intent'[k].owner = Orchestrator /\ intent'[k].amount = n
      /\ intent_nonce' = k + 1
      /\ \A i \in Program!IntentId \ {k} : intent'[i] = intent[i]
  BY <1>1, SubmissionAccounts, PriceType, PayoutAssumption DEF EscrowLands
<1>3. /\ child[a].escrow = "sent" /\ child[a].nonce = k
      /\ child' = [child EXCEPT ![a] = [child[a] EXCEPT !.escrow = "landed"]]
  BY <1>1 DEF EscrowLands, Set
<1>4. child[a].pay = "none" /\ a \notin Landed
  BY <1>0, <1>3 DEF ChildOK, ChildRecord, Landed
<1>5. /\ Landed' = Landed \cup {a} /\ Unpaid' = Unpaid \cup {a}
      /\ child'[a].nonce = k /\ \A b \in Landed : child'[b] = child[b]
  <2>1. /\ child'[a].escrow = "landed" /\ child'[a].pay = "none" /\ child'[a].nonce = k
        /\ \A b \in Attempt : b # a => child'[b] = child[b]
    BY <1>0, <1>3, <1>4 DEF ChildRecord
  <2>2. Landed' = Landed \cup {a}
    BY <2>1 DEF Landed
  <2>3. Unpaid' = Unpaid \cup {a}
    BY <1>4, <2>1, <2>2 DEF Unpaid, Landed
  <2>4. QED
    BY <1>4, <2>1, <2>2, <2>3 DEF Landed
<1>6. \A b \in Landed : child[b].nonce \in Nat /\ child[b].nonce < k /\ intent'[child[b].nonce] = intent[child[b].nonce]
  <2>1. \A b \in Landed : child[b].nonce \in Nat /\ child[b].nonce < k
    BY <1>0, <1>1, PayoutAssumption DEF MakerInv, Landed, ChildRecord
  <2>2. \A b \in Landed : child[b].nonce \in Program!IntentId \ {k}
    BY <1>1, <2>1, PayoutAssumption DEF Program!IntentId
  <2>3. QED
    BY <1>2, <2>1, <2>2
<1>7. k \in Nat
  BY PayoutAssumption DEF Program!IntentId
<1>8. \A b \in Landed' : child'[b].nonce < intent_nonce' /\ intent'[child'[b].nonce].amount = Price[SwapOf[b]]
  BY <1>2, <1>5, <1>6, <1>7 DEF MakerInv
<1>9. \A b, c \in Landed' : child'[b].nonce = child'[c].nonce => b = c
  BY <1>5, <1>6, <1>7 DEF MakerInv
<1>10. Program!Total(Locked') <= Program!Total(UnpaidEscrows')
  <2>1. \A j \in Program!IntentId \ {k} : Locked'[j] = Locked[j]
    BY <1>2, LockedAt, LockedAtNext
  <2>2. Locked'[k] = n /\ Locked[k] = 0
    BY <1>2, LockedAt, LockedAtNext
  <2>3. \A b \in Unpaid : b \in Landed
    BY DEF Unpaid
  <2>4. \A j \in Program!IntentId :
            (\E b \in Unpaid' : child'[b].nonce = j) <=> (j = k \/ \E b \in Unpaid : child[b].nonce = j)
    BY <1>5, <2>3
  <2>5. \A j \in Program!IntentId \ {k} : UnpaidEscrows'[j] = UnpaidEscrows[j]
    BY <1>2, <2>4 DEF UnpaidEscrows, EscrowedBy
  <2>6. ~(\E b \in Unpaid : child[b].nonce = k)
    BY <1>6, <1>7, <2>3
  <2>7. UnpaidEscrows'[k] = n /\ UnpaidEscrows[k] = 0
    BY <1>2, <2>4, <2>6 DEF UnpaidEscrows, EscrowedBy
  <2>8. Program!Total(Locked) <= Program!Total(UnpaidEscrows)
    BY DEF MakerInv, UnpaidEscrows
  <2>9. Locked'[k] - Locked[k] <= UnpaidEscrows'[k] - UnpaidEscrows[k]
    BY <1>0, <2>2, <2>7
  <2>10. QED
    BY <1>2, <2>1, <2>5, <2>8, <2>9, SumsMove
<1>11. QED
  BY <1>8, <1>9, <1>10 DEF MakerInv, UnpaidEscrows

\* Another user's escrow is locked in nobody's account.
LEMMA OthersMaker ==
    ASSUME PayoutInv, Accounts!SolanaInv, MakerInv,
           Program!submit_intent(Other, 1, Other, clock + EscrowLife, Slippage, ArbitrumSepolia),
           UNCHANGED child
    PROVE  MakerInv'
<1>1. PICK k \in Program!IntentId : k = intent_nonce
  BY SubmissionAccounts, PayoutAssumption
<1>2. /\ Accounts!SolanaInv'
      /\ intent[k].status = "Absent"
      /\ intent'[k].status = "Pending" /\ intent'[k].owner = Other
      /\ intent_nonce' = k + 1 /\ Other # Orchestrator
      /\ \A i \in Program!IntentId \ {k} : intent'[i] = intent[i]
  BY <1>1, SubmissionAccounts, PayoutAssumption
<1>3. Landed' = Landed /\ Unpaid' = Unpaid
  BY DEF Landed, Unpaid
<1>4. k \in Nat
  BY PayoutAssumption DEF Program!IntentId
<1>5. \A b \in Landed : child[b].nonce \in Nat /\ child[b].nonce < k /\ intent'[child[b].nonce] = intent[child[b].nonce]
  <2>1. \A b \in Landed : child[b].nonce \in Nat /\ child[b].nonce < k
    BY <1>1, PayoutAssumption DEF PayoutInv, MakerInv, Landed, ChildRecord
  <2>2. \A b \in Landed : child[b].nonce \in Program!IntentId \ {k}
    BY <1>4, <2>1, PayoutAssumption DEF Program!IntentId
  <2>3. QED
    BY <1>2, <2>1, <2>2
<1>6. Program!Total(Locked') <= Program!Total(UnpaidEscrows')
  <2>1. \A j \in Program!IntentId : Locked'[j] = Locked[j]
    BY <1>2, LockedAt, LockedAtNext
  <2>2. \A b \in Unpaid : b \in Landed
    BY DEF Unpaid
  <2>3. \A j \in Program!IntentId : (\E b \in Unpaid : child[b].nonce = j) => intent'[j] = intent[j]
    BY <1>5, <2>2
  <2>4. \A j \in Program!IntentId : UnpaidEscrows'[j] = UnpaidEscrows[j]
    BY <1>3, <2>3 DEF UnpaidEscrows, EscrowedBy
  <2>5. Program!Total(Locked) <= Program!Total(UnpaidEscrows)
    BY DEF MakerInv, UnpaidEscrows
  <2>6. Locked'[k] - Locked[k] <= UnpaidEscrows'[k] - UnpaidEscrows[k]
    BY <2>1, <2>4, SummandInts
  <2>7. QED
    BY <1>2, <2>1, <2>4, <2>5, <2>6, SumsMove
<1>7. QED
  BY <1>2, <1>3, <1>4, <1>5, <1>6 DEF MakerInv, UnpaidEscrows

\* A payment lands: it releases an escrow that is worth the price, its own or not.
LEMMA PaymentMaker ==
    ASSUME PayoutInv, Accounts!SolanaInv, MakerInv, NEW a \in Attempt, PaymentLands(a)
    PROVE  MakerInv'
<1> DEFINE n == Price[SwapOf[a]]
<1>0. n \in Nat /\ child[a] \in ChildRecord /\ ChildOK(a) /\ child \in [Attempt -> ChildRecord]
  BY PriceType DEF PayoutInv
<1>1. PICK i \in Program!IntentId : i = child[a].used
  BY <1>0 DEF ChildRecord, Program!IntentId
<1>2. /\ child[a].pay = "sent" /\ intent[i].owner = Orchestrator
      /\ Program!receive_settlement(i, n)
      /\ child' = [child EXCEPT ![a] = [child[a] EXCEPT !.pay = "landed"]]
  BY <1>1 DEF PaymentLands, Set
<1>3. /\ Accounts!SolanaInv'
      /\ intent[i].status = "Pending" /\ intent'[i].status = "Settled"
      /\ intent[i].amount >= n
      /\ \A j \in Program!IntentId : intent'[j].amount = intent[j].amount
      /\ \A j \in Program!IntentId \ {i} : intent'[j] = intent[j]
      /\ intent_nonce' = intent_nonce
  <2> HIDE DEF n
  <2>1. QED
    BY <1>0, <1>2, PaymentAccounts
<1>4. a \in Landed /\ a \in Unpaid
  BY <1>0, <1>2 DEF ChildOK, Landed, Unpaid
<1>5. /\ Landed' = Landed /\ Unpaid' = Unpaid \ {a}
      /\ \A b \in Attempt : child'[b].nonce = child[b].nonce
  <2>1. /\ child'[a].escrow = child[a].escrow /\ child'[a].pay = "landed" /\ child'[a].nonce = child[a].nonce
        /\ \A b \in Attempt : b # a => child'[b] = child[b]
    BY <1>0, <1>2 DEF ChildRecord
  <2>2. Landed' = Landed
    BY <2>1 DEF Landed
  <2>3. Unpaid' = Unpaid \ {a}
    BY <2>1, <2>2 DEF Unpaid, Landed
  <2>4. QED
    BY <2>1, <2>2, <2>3
<1>6. \A b \in Landed : child[b].nonce \in Program!IntentId
  <2>1. \A b \in Landed : child[b].nonce \in Nat /\ child[b].nonce < intent_nonce
    BY <1>0, PayoutAssumption DEF MakerInv, Landed, ChildRecord
  <2>2. intent_nonce \in 0 .. MaxIntents
    BY DEF Accounts!SolanaInv, Accounts!TypeOK
  <2>3. QED
    BY <2>1, <2>2, PayoutAssumption DEF Program!IntentId
<1>7. PICK m \in Program!IntentId : m = child[a].nonce
  BY <1>4, <1>6
<1>8. Program!Total(Locked') <= Program!Total(UnpaidEscrows')
  <2>1. \A j \in Program!IntentId \ {i} : Locked'[j] = Locked[j]
    BY <1>3, LockedAt, LockedAtNext
  <2>2. Locked'[i] = 0 /\ Locked[i] = intent[i].amount /\ Locked[i] \in Int
    BY <1>2, <1>3, LockedAt, LockedAtNext, SummandInts
  <2>3. \A j \in Program!IntentId \ {m} :
            (\E b \in Unpaid' : child'[b].nonce = j) <=> (\E b \in Unpaid : child[b].nonce = j)
    <3>1. \A b \in Unpaid : b \in Attempt
      BY DEF Unpaid, Landed
    <3>2. QED
      BY <1>5, <1>7, <3>1
  <2>4. \A j \in Program!IntentId \ {m} : UnpaidEscrows'[j] = UnpaidEscrows[j]
    BY <1>3, <2>3 DEF UnpaidEscrows, EscrowedBy
  <2>5. UnpaidEscrows[m] = n
    <3>1. intent[m].amount = n
      BY <1>4, <1>7 DEF MakerInv
    <3>2. QED
      BY <1>4, <1>7, <3>1 DEF UnpaidEscrows, EscrowedBy
  <2>6. UnpaidEscrows'[m] = 0
    <3>1. \A b \in Unpaid' : b \in Landed /\ b \in Attempt /\ b # a
      BY <1>5 DEF Unpaid, Landed
    <3>2. ~ \E b \in Unpaid' : child'[b].nonce = m
      BY <1>4, <1>5, <1>7, <3>1 DEF MakerInv
    <3>3. QED
      BY <3>2 DEF UnpaidEscrows, EscrowedBy
  <2>7. Locked'[i] - Locked[i] <= UnpaidEscrows'[m] - UnpaidEscrows[m]
    <3> HIDE DEF n
    <3>1. QED
      BY <1>0, <1>3, <2>2, <2>5, <2>6
  <2>8. Program!Total(Locked) <= Program!Total(UnpaidEscrows)
    BY DEF MakerInv, UnpaidEscrows
  <2>9. QED
    BY <1>3, <2>1, <2>4, <2>7, <2>8, SumsMove
<1>9. \A b \in Landed' : child'[b].nonce < intent_nonce' /\ intent'[child'[b].nonce].amount = Price[SwapOf[b]]
  <2>1. \A b \in Landed : b \in Attempt
    BY DEF Landed
  <2>2. QED
    BY <1>3, <1>5, <1>6, <2>1 DEF MakerInv
<1>10. \A b, c \in Landed' : child'[b].nonce = child'[c].nonce => b = c
  BY <1>5 DEF MakerInv, Landed
<1>11. QED
  BY <1>8, <1>9, <1>10 DEF MakerInv, UnpaidEscrows

\* The other steps.
LEMMA NextMaker == PayoutInv /\ Accounts!SolanaInv /\ MakerInv /\ [Next]_vars => MakerInv'
<1> SUFFICES ASSUME PayoutInv, Accounts!SolanaInv, MakerInv, [Next]_vars PROVE MakerInv'
  OBVIOUS
<1> DEFINE Same(new, a) ==
                /\ new.escrow = "landed" <=> child[a].escrow = "landed"
                /\ child[a].escrow = "landed" =>
                    /\ new.nonce = child[a].nonce
                    /\ new.pay = "landed" <=> child[a].pay = "landed"
<1>1. ASSUME NEW a \in Attempt, NEW new, Set(a, new), Same(new, a), UNCHANGED programVars
      PROVE  MakerInv'
  <2>1. child' = [child EXCEPT ![a] = new] /\ child \in [Attempt -> ChildRecord]
    BY <1>1 DEF Set, PayoutInv
  <2>2. \A b \in Attempt : child'[b] = IF b = a THEN new ELSE child[b]
    BY <2>1
  <2>3. UNCHANGED <<intent_nonce, intent, escrowed>>
    BY <1>1 DEF programVars
  <2>4. QED
    BY <1>1, <2>2, <2>3, MakerKept
<1>2. ASSUME NEW a \in Attempt,
             \/ Spawn(a) \/ Submit(a) \/ Sign(a) \/ ParentRecords(a) \/ Broadcast(a)
             \/ PaymentReverts(a) \/ Confirmed(a) \/ Fails(a) \/ ParentSees(a)
      PROVE  MakerInv'
  <2>0. child[a] \in ChildRecord /\ ChildOK(a)
    BY DEF PayoutInv
  <2>1. CASE Spawn(a)
    <3>1. Same([child[a] EXCEPT !.pc = "fetch", !.owned = TRUE], a)
      BY <2>0 DEF ChildRecord
    <3>2. QED
      BY <1>1, <2>1, <3>1 DEF Spawn
  <2>2. CASE Submit(a)
    <3>1. PICK k \in ReadNonce :
            Set(a, [child[a] EXCEPT !.pc = "confirm", !.nonce = k, !.escrow = "sent"])
      BY <2>2 DEF Submit
    <3>2. child[a].escrow # "landed"
      BY <2>0, <2>2 DEF Submit, ChildOK
    <3>3. Same([child[a] EXCEPT !.pc = "confirm", !.nonce = k, !.escrow = "sent"], a)
      BY <2>0, <3>2 DEF ChildRecord
    <3>4. QED
      BY <1>1, <2>2, <3>1, <3>3 DEF Submit
  <2>3. CASE Sign(a)
    <3>1. PICK k \in ReadNonce \ {0} :
            Set(a, [child[a] EXCEPT !.pc = "wait", !.used = k - 1, !.pay = "signed"])
      BY <2>3 DEF Sign
    <3>2. child[a].pay = "none"
      BY <2>0, <2>3 DEF Sign, ChildOK
    <3>3. Same([child[a] EXCEPT !.pc = "wait", !.used = k - 1, !.pay = "signed"], a)
      BY <2>0, <3>2 DEF ChildRecord
    <3>4. QED
      BY <1>1, <2>3, <3>1, <3>3 DEF Sign
  <2>4. CASE ParentRecords(a)
    <3>1. Same([child[a] EXCEPT !.go = TRUE], a)
      BY <2>0 DEF ChildRecord
    <3>2. QED
      BY <1>1, <2>4, <3>1 DEF ParentRecords
  <2>5. CASE Broadcast(a)
    <3>1. child[a].pay = "signed"
      BY <2>0, <2>5 DEF Broadcast, ChildOK
    <3>2. Same([child[a] EXCEPT !.pc = "poll", !.pay = "sent"], a)
      BY <2>0, <3>1 DEF ChildRecord
    <3>3. QED
      BY <1>1, <2>5, <3>2 DEF Broadcast
  <2>6. CASE PaymentReverts(a)
    <3>1. /\ child[a].pay = "sent" /\ UNCHANGED programVars
          /\ Set(a, [child[a] EXCEPT !.pay = "reverted"])
      BY <2>6 DEF PaymentReverts
    <3>2. Same([child[a] EXCEPT !.pay = "reverted"], a)
      BY <2>0, <3>1 DEF ChildRecord
    <3>3. QED
      BY <1>1, <3>1, <3>2
  <2>7. CASE Confirmed(a)
    <3>1. Same([child[a] EXCEPT !.pc = "ok"], a)
      BY <2>0 DEF ChildRecord
    <3>2. QED
      BY <1>1, <2>7, <3>1 DEF Confirmed
  <2>8. CASE Fails(a)
    <3>1. Same([child[a] EXCEPT !.pc = "failed"], a)
      BY <2>0 DEF ChildRecord
    <3>2. QED
      BY <1>1, <2>8, <3>1 DEF Fails
  <2>9. CASE ParentSees(a)
    <3>1. Same([child[a] EXCEPT !.owned = FALSE], a)
      BY <2>0 DEF ChildRecord
    <3>2. QED
      BY <1>1, <2>9, <3>1 DEF ParentSees
  <2>10. QED
    BY <1>2, <2>1, <2>2, <2>3, <2>4, <2>5, <2>6, <2>7, <2>8, <2>9
<1> HIDE DEF Same
<1>3. CASE ParentCrashes
  <2>1. \A a \in Attempt : child'[a].escrow = child[a].escrow /\ child'[a].nonce = child[a].nonce /\ child'[a].pay = child[a].pay
    BY <1>3 DEF ParentCrashes, PayoutInv, ChildRecord
  <2>2. QED
    BY <1>3, <2>1, MakerKept DEF ParentCrashes, programVars
<1>4. CASE Others
  <2>1. CASE Program!submit_intent(Other, 1, Other, clock + EscrowLife, Slippage, ArbitrumSepolia)
    BY <1>4, <2>1, OthersMaker DEF Others
  <2>2. CASE Program!Tick
    BY <1>4, <2>2, MakerKept DEF Others, Program!Tick
  <2>3. QED
    BY <1>4, <2>1, <2>2 DEF Others
<1>5. CASE (\E s \in Swap : Reconcile(s)) \/ UNCHANGED vars
  BY <1>5, MakerKept DEF Reconcile, vars, programVars
<1>6. QED
  BY <1>2, <1>3, <1>4, <1>5, EscrowMaker, PaymentMaker DEF Next

\* Lamports stay behind in the escrow program only for attempts that failed or still run,
\* and no more of them than those attempts escrowed, whichever escrow the payouts were
\* taken from (settle_intent.js escrows before it pays, and pays by the nonce it reads).
THEOREM OnlyFailuresLock == Spec => []LockedByFailuresOnly
<1>1. PayoutInv /\ Accounts!SolanaInv /\ MakerInv => LockedByFailuresOnly
  <2> SUFFICES ASSUME PayoutInv, Accounts!SolanaInv, MakerInv PROVE LockedByFailuresOnly
    OBVIOUS
  <2> DEFINE Failing == {a \in Landed : child[a].pc # "ok"}
  <2>1. Unpaid \subseteq Failing /\ Failing \in SUBSET Attempt /\ Unpaid \in SUBSET Attempt
    BY DEF Unpaid, Landed, PayoutInv, ChildOK
  <2>2. \A i \in Program!IntentId : intent[i].amount \in Nat
    BY SameProgram DEF Accounts!SolanaInv, Accounts!TypeOK, Accounts!IntentRecord
  <2>3. \A i \in Program!IntentId : EscrowedBy(Unpaid)[i] <= EscrowedBy(Failing)[i]
    <3> HIDE DEF Failing
    <3>1. QED
      BY <2>1, <2>2 DEF EscrowedBy
  <2>4. /\ Locked \in [Program!IntentId -> Int]
        /\ EscrowedBy(Unpaid) \in [Program!IntentId -> Int]
        /\ EscrowedBy(Failing) \in [Program!IntentId -> Int]
    BY <2>1, SummandTypes DEF SummandsOK
  <2>5. Program!Total(EscrowedBy(Unpaid)) <= Program!Total(EscrowedBy(Failing))
    <3> HIDE DEF Failing
    <3>1. QED
      BY <2>3, <2>4, SumsOfIntents
  <2>6. /\ Program!Total(Locked) \in Int /\ Program!Total(EscrowedBy(Unpaid)) \in Int
        /\ Program!Total(EscrowedBy(Failing)) \in Int
    BY <2>4, SumsOfIntents
  <2>7. QED
    BY <2>5, <2>6 DEF MakerInv, LockedByFailuresOnly
<1>2. QED
  BY BothInvariant, InitMaker, NextMaker, <1>1, PTL DEF Spec
=============================================================================
