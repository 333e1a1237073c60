------------------------ MODULE SolanaProgramProofs ------------------------
(***************************************************************************)
(* Proofs about the Solana program, for any wallets, channels, amounts,    *)
(* slippages and timing.                                                   *)
(***************************************************************************)
EXTENDS SolanaProgram, WellFoundedInduction, TLAPS

\* Unused nonces have untouched accounts, so submit_intent finds its account empty.
FreshAccounts == \A i \in IntentId : i >= intent_nonce => intent[i].status = "Absent"

SolanaInv == TypeOK /\ FreshAccounts /\ EscrowIsWhole /\ SlippageRespected

\* The deduction of receive_settlement, rounded down and cast to u64, is at most the
\* exact share: truncation only ever makes the floor higher.
LEMMA DeductionBound ==
    ASSUME NEW a \in Nat, NEW s \in Nat
    PROVE  /\ ((a * s) \div 10000) % U64 \in Nat
           /\ 10000 * (((a * s) \div 10000) % U64) <= a * s
<1>1. a * s \in Nat
  OBVIOUS
<1>2. ASSUME NEW p \in Nat
      PROVE  /\ (p \div 10000) % U64 \in Nat
             /\ 10000 * ((p \div 10000) % U64) <= p
  <2>1. p \div 10000 \in Nat /\ 10000 * (p \div 10000) <= p
    OBVIOUS
  <2>2. ASSUME NEW q \in Nat PROVE q % U64 \in Nat /\ q % U64 <= q
    BY SolanaAssumption
  <2>3. QED
    BY <2>1, <2>2
<1>3. QED
  BY <1>1, <1>2

\* submit_intent opens an account that was untouched.
LEMMA SubmitInv ==
    ASSUME SolanaInv, NEW w \in Wallet, NEW d \in Wallet, NEW a \in Nat, NEW e \in Nat,
           NEW s \in Nat, NEW c \in Channel, submit_intent(w, a, d, e, s, c)
    PROVE  SolanaInv'
<1> DEFINE rec == [owner |-> w, amount |-> a, destination |-> d, expiry |-> e,
                   slippage_bps |-> s, source_chain_id |-> c, status |-> "Pending",
                   settled_amount |-> 0]
<1>1. /\ intent_nonce \in IntentId
      /\ intent_nonce' = intent_nonce + 1
      /\ intent' = [intent EXCEPT ![intent_nonce] = rec]
      /\ escrowed' = [escrowed EXCEPT ![intent_nonce] = escrowed[intent_nonce] + a]
  BY SolanaAssumption DEF submit_intent, SolanaInv, TypeOK, IntentId
<1>2. rec \in IntentRecord
  BY DEF IntentRecord
<1>3. escrowed[intent_nonce] = 0
  BY <1>1 DEF SolanaInv, FreshAccounts, EscrowIsWhole, TypeOK
<1>4. TypeOK'
  <2>1. intent_nonce' \in 0 .. MaxIntents
    BY <1>1, SolanaAssumption DEF SolanaInv, TypeOK, IntentId
  <2>2. intent' \in [IntentId -> IntentRecord]
    BY <1>1, <1>2 DEF SolanaInv, TypeOK
  <2>3. escrowed' \in [IntentId -> Nat]
    BY <1>1 DEF SolanaInv, TypeOK
  <2>4. lamports' \in [Wallet -> Nat]
    <3>1. lamports \in [Wallet -> Nat] /\ a <= lamports[w] /\ lamports[w] - a \in Nat
      BY DEF SolanaInv, TypeOK, submit_intent
    <3>2. lamports' = [lamports EXCEPT ![w] = lamports[w] - a]
      BY DEF submit_intent
    <3>3. QED
      BY <3>1, <3>2
  <2>5. UNCHANGED <<clock, paused, breaker>>
    BY DEF submit_intent
  <2>6. QED
    BY <2>1, <2>2, <2>3, <2>4, <2>5 DEF SolanaInv, TypeOK
<1>5. ASSUME NEW i \in IntentId
      PROVE  /\ i = intent_nonce => intent'[i] = rec /\ escrowed'[i] = a
             /\ i # intent_nonce => intent'[i] = intent[i] /\ escrowed'[i] = escrowed[i]
  BY <1>1, <1>3 DEF SolanaInv, TypeOK
<1>6. rec.status = "Pending" /\ rec.amount = a
  OBVIOUS
<1>7. FreshAccounts'
  BY <1>1, <1>5 DEF SolanaInv, TypeOK, FreshAccounts, IntentId
<1>8. EscrowIsWhole'
  BY <1>5, <1>6 DEF SolanaInv, EscrowIsWhole
<1>9. SlippageRespected'
  BY <1>5, <1>6 DEF SolanaInv, SlippageRespected
<1>10. QED
  BY <1>4, <1>7, <1>8, <1>9 DEF SolanaInv

\* receive_settlement empties the account and keeps to the floor.
LEMMA ReceiveInv ==
    ASSUME SolanaInv, NEW j \in IntentId, NEW a \in Nat, receive_settlement(j, a)
    PROVE  SolanaInv'
<1> DEFINE rec == [intent[j] EXCEPT !.status = "Settled", !.settled_amount = a]
<1>1. /\ intent[j] \in IntentRecord
      /\ intent[j].status = "Pending"
      /\ escrowed[j] = intent[j].amount
      /\ intent[j].amount \in Nat /\ intent[j].slippage_bps \in Nat
  BY DEF receive_settlement, SolanaInv, TypeOK, EscrowIsWhole, IntentRecord
<1>2. /\ intent_nonce' = intent_nonce
      /\ intent' = [intent EXCEPT ![j] = rec]
      /\ escrowed' = [escrowed EXCEPT ![j] = 0]
  <2>1. escrowed' = [escrowed EXCEPT ![j] = escrowed[j] - a - (intent[j].amount - a)]
    BY DEF receive_settlement
  <2>2. escrowed[j] - a - (intent[j].amount - a) = 0
    BY <1>1
  <2>3. QED
    BY <2>1, <2>2 DEF receive_settlement, SolanaInv, TypeOK, IntentRecord
<1>3. /\ rec \in IntentRecord
      /\ rec.status = "Settled" /\ rec.settled_amount = a
      /\ rec.amount = intent[j].amount /\ rec.slippage_bps = intent[j].slippage_bps
  BY <1>1 DEF IntentRecord
<1>4. WithinSlippage(intent[j].amount, intent[j].slippage_bps, a)
  <2> DEFINE n == intent[j].amount
             p == intent[j].amount * intent[j].slippage_bps
             d == SlippageDeduction(j)
  <2>1. d \in Nat /\ 10000 * d <= p
    BY <1>1, DeductionBound DEF SlippageDeduction
  <2>2. n - d <= a /\ a <= n /\ n \in Nat /\ p \in Nat
    BY <1>1, <2>1 DEF receive_settlement, Acceptable
  <2> HIDE DEF n, p, d
  <2>3. 10000 * (n - a) <= p /\ a <= n
    BY <2>1, <2>2
  <2>4. QED
    BY <2>3 DEF n, p, WithinSlippage
<1>5. ASSUME NEW i \in IntentId
      PROVE  /\ i = j => intent'[i] = rec /\ escrowed'[i] = 0
             /\ i # j => intent'[i] = intent[i] /\ escrowed'[i] = escrowed[i]
  BY <1>2 DEF SolanaInv, TypeOK
<1>6. TypeOK'
  <2>1. intent' \in [IntentId -> IntentRecord]
    BY <1>2, <1>3 DEF SolanaInv, TypeOK
  <2>2. escrowed' \in [IntentId -> Nat]
    BY <1>2 DEF SolanaInv, TypeOK
  <2>3. lamports' \in [Wallet -> Nat]
    <3>1. lamports' = Credit(intent[j].destination, a, intent[j].owner, intent[j].amount - a)
      BY DEF receive_settlement
    <3>2. intent[j].amount - a \in Nat
      BY <1>1 DEF receive_settlement, Acceptable
    <3>3. QED
      BY <3>1, <3>2 DEF Credit, SolanaInv, TypeOK
  <2>4. UNCHANGED <<clock, paused, breaker>>
    BY DEF receive_settlement
  <2>5. QED
    BY <1>2, <2>1, <2>2, <2>3, <2>4 DEF SolanaInv, TypeOK
<1>7. FreshAccounts'
  BY <1>1, <1>2, <1>5 DEF SolanaInv, FreshAccounts
<1>8. EscrowIsWhole'
  BY <1>3, <1>5, ZenonT(60) DEF SolanaInv, EscrowIsWhole
<1>9. SlippageRespected'
  <2>1. ASSUME NEW i \in IntentId, intent'[i].status = "Settled"
        PROVE  WithinSlippage(intent'[i].amount, intent'[i].slippage_bps, intent'[i].settled_amount)
    <3>1. CASE i = j
      <4>1. /\ intent'[i].amount = intent[j].amount /\ intent'[i].settled_amount = a
            /\ intent'[i].slippage_bps = intent[j].slippage_bps
        BY <1>3, <1>5, <3>1
      <4>2. QED
        BY <1>4, <4>1
    <3>2. CASE i # j
      BY <1>5, <2>1, <3>2 DEF SolanaInv, SlippageRespected
    <3>3. QED
      BY <3>1, <3>2
  <2>2. QED
    BY <2>1 DEF SlippageRespected
<1>10. QED
  BY <1>6, <1>7, <1>8, <1>9 DEF SolanaInv

\* cancel_intent empties the account.
LEMMA CancelInv ==
    ASSUME SolanaInv, NEW j \in IntentId, cancel_intent(j)
    PROVE  SolanaInv'
<1> DEFINE rec == [intent[j] EXCEPT !.status = "Expired"]
<1>1. /\ intent[j] \in IntentRecord
      /\ intent[j].status = "Pending"
      /\ escrowed[j] = intent[j].amount
      /\ intent[j].amount \in Nat
  BY DEF cancel_intent, SolanaInv, TypeOK, EscrowIsWhole, IntentRecord
<1>2. /\ intent_nonce' = intent_nonce
      /\ intent' = [intent EXCEPT ![j] = rec]
      /\ escrowed' = [escrowed EXCEPT ![j] = 0]
  <2>1. escrowed' = [escrowed EXCEPT ![j] = escrowed[j] - intent[j].amount]
    BY DEF cancel_intent
  <2>2. escrowed[j] - intent[j].amount = 0
    BY <1>1
  <2>3. QED
    BY <2>1, <2>2 DEF cancel_intent, SolanaInv, TypeOK, IntentRecord
<1>3. rec \in IntentRecord /\ rec.status = "Expired"
  BY <1>1 DEF IntentRecord
<1>4. ASSUME NEW i \in IntentId
      PROVE  /\ i = j => intent'[i] = rec /\ escrowed'[i] = 0
             /\ i # j => intent'[i] = intent[i] /\ escrowed'[i] = escrowed[i]
  BY <1>2 DEF SolanaInv, TypeOK
<1>5. TypeOK'
  <2>1. intent' \in [IntentId -> IntentRecord]
    BY <1>2, <1>3 DEF SolanaInv, TypeOK
  <2>2. escrowed' \in [IntentId -> Nat]
    BY <1>2 DEF SolanaInv, TypeOK
  <2>3. lamports' \in [Wallet -> Nat]
    <3> DEFINE o == intent[j].owner
    <3>1. /\ lamports' = [lamports EXCEPT ![o] = lamports[o] + intent[j].amount]
          /\ o \in Wallet /\ lamports \in [Wallet -> Nat]
      BY <1>1 DEF cancel_intent, SolanaInv, TypeOK, IntentRecord
    <3> HIDE DEF o
    <3>2. QED
      BY <1>1, <3>1
  <2>4. UNCHANGED <<clock, paused, breaker>>
    BY DEF cancel_intent
  <2>5. QED
    BY <1>2, <2>1, <2>2, <2>3, <2>4 DEF SolanaInv, TypeOK
<1>6. FreshAccounts'
  BY <1>1, <1>2, <1>4 DEF SolanaInv, FreshAccounts
<1>7. EscrowIsWhole'
  BY <1>3, <1>4 DEF SolanaInv, EscrowIsWhole
<1>8. SlippageRespected'
  <2>1. ASSUME NEW i \in IntentId, intent'[i].status = "Settled"
        PROVE  intent'[i] = intent[i]
    BY <1>3, <1>4, <2>1
  <2>2. QED
    BY <2>1 DEF SolanaInv, SlippageRespected
<1>9. QED
  BY <1>5, <1>6, <1>7, <1>8 DEF SolanaInv

\* Every step preserves the invariant.
LEMMA NextInv == SolanaInv /\ [Next]_vars => SolanaInv'
<1> SUFFICES ASSUME SolanaInv, [Next]_vars PROVE SolanaInv'
  OBVIOUS
<1>1. ASSUME NEW w \in Wallet, NEW d \in Wallet, NEW a \in Amount, NEW e \in Expiry,
             NEW s \in Slippage, NEW c \in Channel, submit_intent(w, a, d, e, s, c)
      PROVE  SolanaInv'
  BY <1>1, SubmitInv, SolanaAssumption
<1>2. ASSUME NEW i \in IntentId, NEW a \in 0 .. Supply, receive_settlement(i, a)
      PROVE  SolanaInv'
  BY <1>2, ReceiveInv, SolanaAssumption
<1>3. ASSUME NEW i \in IntentId, cancel_intent(i) PROVE SolanaInv'
  BY <1>3, CancelInv
<1>4. ASSUME UNCHANGED <<intent_nonce, intent, escrowed, lamports>>,
             clock' \in 0 .. MaxTime, paused' \in BOOLEAN,
             breaker' \in [Channel -> {"absent", "open", "halted"}]
      PROVE  SolanaInv'
  BY <1>4 DEF SolanaInv, TypeOK, FreshAccounts, EscrowIsWhole, SlippageRespected
<1> DEFINE Kept == /\ clock \in 0 .. MaxTime /\ paused \in BOOLEAN
                   /\ breaker \in [Channel -> {"absent", "open", "halted"}]
<1>0. Kept
  BY DEF SolanaInv, TypeOK
<1>5. CASE \E c \in Channel, halted \in BOOLEAN : set_circuit_breaker(c, halted)
  <2>1. PICK c \in Channel, halted \in BOOLEAN : set_circuit_breaker(c, halted)
    BY <1>5
  <2> DEFINE new == IF halted THEN "halted" ELSE "open"
  <2>2. breaker' = [breaker EXCEPT ![c] = new] /\ new \in {"absent", "open", "halted"}
    BY <2>1 DEF set_circuit_breaker
  <2> HIDE DEF new
  <2>3. breaker' \in [Channel -> {"absent", "open", "halted"}]
    BY <1>0, <2>2
  <2>4. QED
    BY <1>0, <1>4, <2>1, <2>3 DEF set_circuit_breaker
<1>6. CASE pause \/ unpause \/ Tick
  <2>1. CASE pause \/ unpause
    <3>1. UNCHANGED <<clock, breaker, intent_nonce, intent, escrowed, lamports>> /\ paused' \in BOOLEAN
      BY <2>1 DEF pause, unpause
    <3>2. QED
      BY <1>0, <1>4, <3>1
  <2>2. CASE Tick
    <3>1. /\ UNCHANGED <<paused, breaker, intent_nonce, intent, escrowed, lamports>>
          /\ clock' \in 0 .. MaxTime
      BY <1>0, <2>2, SolanaAssumption DEF Tick
    <3>2. QED
      BY <1>0, <1>4, <3>1
  <2>3. QED
    BY <1>6, <2>1, <2>2
<1>7. CASE UNCHANGED vars
  BY <1>0, <1>4, <1>7 DEF vars
<1>8. QED
  BY <1>1, <1>2, <1>3, <1>5, <1>6, <1>7 DEF Next

\* initialize establishes it.
LEMMA InitInv == Init => SolanaInv
<1> SUFFICES ASSUME Init PROVE SolanaInv
  OBVIOUS
<1>1. NoIntent \in IntentRecord /\ NoIntent.status = "Absent"
  BY SolanaAssumption DEF NoIntent, IntentRecord
<1>2. TypeOK
  <2>1. breaker \in [Channel -> {"absent", "open", "halted"}]
    BY DEF Init
  <2>2. clock \in 0 .. MaxTime /\ paused \in BOOLEAN /\ intent_nonce \in 0 .. MaxIntents
    <3>1. clock \in 0 .. MaxTime /\ intent_nonce \in 0 .. MaxIntents
      BY SolanaAssumption DEF Init
    <3>2. paused \in BOOLEAN
      BY DEF Init
    <3>3. QED
      BY <3>1, <3>2
  <2>3. intent \in [IntentId -> IntentRecord] /\ escrowed \in [IntentId -> Nat] /\ lamports \in [Wallet -> Nat]
    <3>1. intent \in [IntentId -> IntentRecord]
      <4>1. intent = [i \in IntentId |-> NoIntent]
        BY DEF Init
      <4>2. QED
        BY <1>1, <4>1
    <3>2. escrowed \in [IntentId -> Nat] /\ lamports \in [Wallet -> Nat]
      BY SolanaAssumption DEF Init
    <3>3. QED
      BY <3>1, <3>2
  <2>4. QED
    BY <2>1, <2>2, <2>3 DEF TypeOK
<1>3. \A i \in IntentId : intent[i] = NoIntent /\ escrowed[i] = 0
  BY DEF Init
<1>4. FreshAccounts /\ EscrowIsWhole /\ SlippageRespected
  BY <1>1, <1>3 DEF FreshAccounts, EscrowIsWhole, SlippageRespected
<1>5. QED
  BY <1>2, <1>4 DEF SolanaInv

\* The intent account of a Pending intent holds its whole escrow and that of a closed one
\* nothing, under every sequence of submit_intent, receive_settlement, cancel_intent and
\* administration: no lamport is paid twice or left behind.
THEOREM EscrowStaysWhole == Spec => []EscrowIsWhole
<1>1. SolanaInv => EscrowIsWhole
  BY DEF SolanaInv
<1>2. QED
  BY <1>1, InitInv, NextInv, PTL DEF Spec

\* receive_settlement never settles below the owner's slippage floor, for every amount,
\* every slippage and every width of the cast.
THEOREM SlippageFloorHolds == Spec => []SlippageRespected
<1>1. SolanaInv => SlippageRespected
  BY DEF SolanaInv
<1>2. QED
  BY <1>1, InitInv, NextInv, PTL DEF Spec
----------------------------------------------------------------------------
(***************************************************************************)
(* What a wallet gained or lost is a sum over all intents: a recursive     *)
(* function of their number.  How it changes with one summand takes an     *)
(* induction over the nonces.                                              *)
(***************************************************************************)
\* The least-number principle, from the well-foundedness of < on the naturals.
LEMMA LeastNatural ==
    ASSUME NEW T \in SUBSET Nat, T # {}
    PROVE  \E m \in T : \A k \in T : m <= k
<1> DEFINE R == OpToRel(<, Nat)
<1>1. \E m \in T : \A k \in T : ~ (<<k, m>> \in R)
  <2> HIDE DEF R
  <2>1. IsWellFoundedOn(R, Nat)
    BY NatLessThanWellFounded DEF R
  <2>2. QED
    BY <2>1, WFMin
<1>2. \A k, m \in Nat : k < m => <<k, m>> \in R
  BY DEF OpToRel
<1> HIDE DEF R
<1>3. PICK m \in T : \A k \in T : ~ (<<k, m>> \in R)
  BY <1>1
<1>4. ASSUME NEW k \in T PROVE m <= k
  <2>1. k \in Nat /\ m \in Nat /\ ~ (k < m)
    BY <1>2, <1>3
  <2>2. QED
    BY <2>1
<1>5. QED
  BY <1>4

\* s holds the sums of the first 0, 1, ... n of the f's.
PartialSums(s, f, n) ==
    /\ s \in [0 .. n -> Int]
    /\ s[0] = 0
    /\ \A k \in 1 .. n : s[k] = s[k - 1] + f[k - 1]

\* The partial sums exist, up to any number of intents.
LEMMA PartialSumsExist ==
    ASSUME NEW f \in [IntentId -> Int]
    PROVE  \E s : PartialSums(s, f, MaxIntents)
<1> DEFINE Bad == {n \in 0 .. MaxIntents : ~ \E s : PartialSums(s, f, n)}
<1>1. MaxIntents \in Nat
  BY SolanaAssumption
<1>2. SUFFICES Bad = {}
  BY <1>1
<1>3. SUFFICES ASSUME Bad # {} PROVE FALSE
  OBVIOUS
<1>4. PICK m \in Bad : \A k \in Bad : m <= k
  <2>1. Bad \in SUBSET Nat
    BY <1>1
  <2> HIDE DEF Bad
  <2>2. QED
    BY <1>3, <2>1, LeastNatural
<1>5. CASE m = 0
  <2>1. PartialSums([n \in 0 .. 0 |-> 0], f, 0)
    BY DEF PartialSums
  <2>2. QED
    BY <1>4, <1>5, <2>1
<1>6. CASE m # 0
  <2>1. m \in 1 .. MaxIntents /\ m - 1 \in 0 .. MaxIntents /\ m - 1 \notin Bad
    BY <1>1, <1>4, <1>6
  <2>2. PICK s : PartialSums(s, f, m - 1)
    BY <2>1
  <2> DEFINE t == [n \in 0 .. m |-> IF n = m THEN s[m - 1] + f[m - 1] ELSE s[n]]
  <2>3. m - 1 \in IntentId /\ f[m - 1] \in Int
    BY <1>1, <2>1 DEF IntentId
  <2>4. /\ s \in [0 .. m - 1 -> Int] /\ s[0] = 0
        /\ \A k \in 1 .. m - 1 : s[k] = s[k - 1] + f[k - 1]
    BY <2>2 DEF PartialSums
  <2>5. t \in [0 .. m -> Int] /\ t[0] = 0
    BY <1>6, <2>1, <2>3, <2>4
  <2>6. ASSUME NEW k \in 1 .. m PROVE t[k] = t[k - 1] + f[k - 1]
    <3>1. CASE k = m
      BY <1>1, <2>1, <3>1
    <3>2. CASE k # m
      BY <1>1, <2>1, <2>4, <3>2
    <3>3. QED
      BY <3>1, <3>2
  <2> HIDE DEF t
  <2>7. PartialSums(t, f, m)
    BY <2>5, <2>6 DEF PartialSums
  <2>8. QED
    BY <1>4, <2>7
<1>7. QED
  BY <1>5, <1>6

\* Total is the last of them.
LEMMA TotalIsASum ==
    ASSUME NEW f \in [IntentId -> Int]
    PROVE  \E s : PartialSums(s, f, MaxIntents) /\ Total(f) = s[MaxIntents]
<1> DEFINE Step(s) == [n \in 0 .. MaxIntents |-> IF n = 0 THEN 0 ELSE s[n - 1] + f[n - 1]]
           upTo == CHOOSE s : s = Step(s)
<1>1. MaxIntents \in Nat
  BY SolanaAssumption
<1>2. PICK s : PartialSums(s, f, MaxIntents)
  BY PartialSumsExist
<1>3. s = Step(s)
  BY <1>1, <1>2 DEF PartialSums
<1>4. upTo = Step(upTo)
  BY <1>3
<1>5. Total(f) = upTo[MaxIntents]
  BY DEF Total
<1> HIDE DEF upTo
<1>6. /\ upTo[0] = 0
      /\ \A k \in 1 .. MaxIntents : upTo[k] = upTo[k - 1] + f[k - 1]
      /\ DOMAIN upTo = 0 .. MaxIntents
  BY <1>1, <1>4
<1>7. PartialSums(upTo, f, MaxIntents)
  <2> DEFINE Bad == {n \in 0 .. MaxIntents : upTo[n] \notin Int}
  <2>1. SUFFICES ASSUME Bad # {} PROVE FALSE
    BY <1>4, <1>6 DEF PartialSums
  <2>2. PICK m \in Bad : \A k \in Bad : m <= k
    <3>1. Bad \in SUBSET Nat
      BY <1>1
    <3> HIDE DEF Bad
    <3>2. QED
      BY <2>1, <3>1, LeastNatural
  <2>3. m # 0 /\ m \in 1 .. MaxIntents /\ m - 1 \in 0 .. MaxIntents
    BY <1>1, <1>6, <2>2
  <2>4. upTo[m - 1] \in Int
    BY <1>1, <2>2, <2>3
  <2>5. f[m - 1] \in Int
    BY <1>1, <2>3 DEF IntentId
  <2>6. QED
    BY <1>6, <2>2, <2>3, <2>4, <2>5
<1>8. QED
  BY <1>5, <1>7

\* A sum is a number, and 0 if all summands are.
LEMMA TotalType == ASSUME NEW f \in [IntentId -> Int] PROVE Total(f) \in Int
<1>1. PICK s : PartialSums(s, f, MaxIntents) /\ Total(f) = s[MaxIntents]
  BY TotalIsASum
<1>2. QED
  BY <1>1, SolanaAssumption DEF PartialSums

\* One summand changes: so does the sum, by as much.
LEMMA TotalChanges ==
    ASSUME NEW f \in [IntentId -> Int], NEW g \in [IntentId -> Int], NEW i \in IntentId,
           \A j \in IntentId \ {i} : g[j] = f[j]
    PROVE  Total(g) = Total(f) + g[i] - f[i]
<1>1. PICK s : PartialSums(s, f, MaxIntents) /\ Total(f) = s[MaxIntents]
  BY TotalIsASum
<1>2. PICK t : PartialSums(t, g, MaxIntents) /\ Total(g) = t[MaxIntents]
  BY TotalIsASum
<1> DEFINE Diff(n) == IF i < n THEN g[i] - f[i] ELSE 0
           Bad == {n \in 0 .. MaxIntents : t[n] # s[n] + Diff(n)}
<1>3. MaxIntents \in Nat /\ i \in 0 .. MaxIntents - 1 /\ f[i] \in Int /\ g[i] \in Int
  BY SolanaAssumption DEF IntentId
<1>4. /\ s \in [0 .. MaxIntents -> Int] /\ s[0] = 0
      /\ \A k \in 1 .. MaxIntents : s[k] = s[k - 1] + f[k - 1]
      /\ t \in [0 .. MaxIntents -> Int] /\ t[0] = 0
      /\ \A k \in 1 .. MaxIntents : t[k] = t[k - 1] + g[k - 1]
  BY <1>1, <1>2 DEF PartialSums
<1>5. Bad = {}
  <2>1. SUFFICES ASSUME Bad # {} PROVE FALSE
    OBVIOUS
  <2>2. PICK m \in Bad : \A k \in Bad : m <= k
    <3>1. Bad \in SUBSET Nat
      BY <1>3
    <3> HIDE DEF Bad
    <3>2. QED
      BY <2>1, <3>1, LeastNatural
  <2>3. m # 0
    BY <1>3, <1>4, <2>2
  <2>4. m \in 1 .. MaxIntents /\ m - 1 \in 0 .. MaxIntents /\ m - 1 \in IntentId
    BY <1>3, <2>2, <2>3 DEF IntentId
  <2>5. m - 1 \notin Bad
    BY <1>3, <2>2, <2>4
  <2>6. t[m - 1] = s[m - 1] + Diff(m - 1)
    BY <2>4, <2>5
  <2>7. /\ t[m] = t[m - 1] + g[m - 1]
        /\ s[m] = s[m - 1] + f[m - 1]
        /\ f[m - 1] \in Int /\ g[m - 1] \in Int
    BY <1>4, <2>4
  <2>8. CASE m - 1 = i
    BY <1>3, <1>4, <2>2, <2>4, <2>6, <2>7, <2>8
  <2>9. CASE m - 1 # i
    <3>1. g[m - 1] = f[m - 1]
      BY <2>4, <2>9
    <3>2. Diff(m) = Diff(m - 1)
      BY <1>3, <2>4, <2>9
    <3>3. Diff(m) \in Int
      BY <1>3
    <3> HIDE DEF Diff
    <3>4. QED
      BY <1>4, <2>2, <2>4, <2>6, <2>7, <3>1, <3>2, <3>3
  <2>10. QED
    BY <2>8, <2>9
<1>6. t[MaxIntents] = s[MaxIntents] + Diff(MaxIntents)
  BY <1>3, <1>5
<1>7. QED
  BY <1>1, <1>2, <1>3, <1>4, <1>6

\* Nothing to add up.
LEMMA TotalOfZeros ==
    ASSUME NEW f \in [IntentId -> Int], \A j \in IntentId : f[j] = 0
    PROVE  Total(f) = 0
<1>1. PICK s : PartialSums(s, f, MaxIntents) /\ Total(f) = s[MaxIntents]
  BY TotalIsASum
<1> DEFINE Bad == {n \in 0 .. MaxIntents : s[n] # 0}
<1>2. MaxIntents \in Nat
  BY SolanaAssumption
<1>3. Bad = {}
  <2>1. SUFFICES ASSUME Bad # {} PROVE FALSE
    OBVIOUS
  <2>2. PICK m \in Bad : \A k \in Bad : m <= k
    <3>1. Bad \in SUBSET Nat
      BY <1>2
    <3> HIDE DEF Bad
    <3>2. QED
      BY <2>1, <3>1, LeastNatural
  <2>3. m \in 1 .. MaxIntents /\ m - 1 \in 0 .. MaxIntents /\ m - 1 \in IntentId /\ m - 1 \notin Bad
    BY <1>1, <1>2, <2>2 DEF IntentId, PartialSums
  <2>4. QED
    BY <1>1, <2>2, <2>3 DEF PartialSums
<1>4. QED
  BY <1>1, <1>2, <1>3

\* Smaller summands have a smaller sum.
LEMMA TotalMonotone ==
    ASSUME NEW f \in [IntentId -> Int], NEW g \in [IntentId -> Int], \A i \in IntentId : f[i] <= g[i]
    PROVE  Total(f) <= Total(g)
<1>1. PICK s : PartialSums(s, f, MaxIntents) /\ Total(f) = s[MaxIntents]
  BY TotalIsASum
<1>2. PICK t : PartialSums(t, g, MaxIntents) /\ Total(g) = t[MaxIntents]
  BY TotalIsASum
<1> DEFINE Bad == {n \in 0 .. MaxIntents : ~(s[n] <= t[n])}
<1>3. MaxIntents \in Nat
  BY SolanaAssumption
<1>4. Bad = {}
  <2>1. SUFFICES ASSUME Bad # {} PROVE FALSE
    OBVIOUS
  <2>2. PICK m \in Bad : \A k \in Bad : m <= k
    <3>1. Bad \in SUBSET Nat
      BY <1>3
    <3> HIDE DEF Bad
    <3>2. QED
      BY <2>1, <3>1, LeastNatural
  <2>3. m \in 1 .. MaxIntents /\ m - 1 \in 0 .. MaxIntents /\ m - 1 \in IntentId /\ m - 1 \notin Bad
    BY <1>1, <1>2, <1>3, <2>2 DEF IntentId, PartialSums
  <2>4. /\ s[m] = s[m - 1] + f[m - 1] /\ t[m] = t[m - 1] + g[m - 1]
        /\ s[m - 1] \in Int /\ t[m - 1] \in Int
    BY <1>1, <1>2, <2>3 DEF PartialSums
  <2>5. s[m - 1] <= t[m - 1] /\ f[m - 1] <= g[m - 1] /\ f[m - 1] \in Int /\ g[m - 1] \in Int
    BY <2>3
  <2>6. s[m] <= t[m]
    BY <2>4, <2>5
  <2>7. QED
    BY <2>2, <2>6
<1>5. QED
  BY <1>1, <1>2, <1>3, <1>4

\* What the intents moved, at wallet w.
Moved(w) == [i \in IntentId |-> Flow(i, w)]

MovedOK == \A w \in Wallet : Moved(w) \in [IntentId -> Int]

LEMMA MovedType == TypeOK => MovedOK
<1> SUFFICES ASSUME TypeOK, NEW w \in Wallet, NEW i \in IntentId PROVE Flow(i, w) \in Int
  BY DEF MovedOK, Moved
<1>1. intent[i].amount \in Int /\ intent[i].settled_amount \in Int
  BY DEF TypeOK, IntentRecord
<1>2. QED
  BY <1>1 DEF Flow

\* A step that touches intent j only moves what it moves for j.
LEMMA OneMoves ==
    ASSUME TypeOK, TypeOK', WalletsAddUp, NEW j \in IntentId,
           \A i \in IntentId \ {j} : intent'[i] = intent[i],
           \A w \in Wallet : lamports'[w] = lamports[w] + Flow(j, w)' - Flow(j, w)
    PROVE  WalletsAddUp'
<1> SUFFICES ASSUME NEW w \in Wallet PROVE lamports'[w] = Supply + Total(Moved(w)')
  BY DEF WalletsAddUp, Moved
<1>1. Moved(w) \in [IntentId -> Int] /\ Moved(w)' \in [IntentId -> Int]
  <2>1. TypeOK' => MovedOK'
    BY MovedType, PTL
  <2>2. QED
    BY <2>1, MovedType DEF MovedOK
<1>2. ASSUME NEW i \in IntentId \ {j} PROVE Moved(w)'[i] = Moved(w)[i]
  BY DEF Moved, Flow
<1>3. Total(Moved(w)') = Total(Moved(w)) + Moved(w)'[j] - Moved(w)[j]
  BY <1>1, <1>2, TotalChanges
<1>4. Moved(w)'[j] = Flow(j, w)' /\ Moved(w)[j] = Flow(j, w)
  BY DEF Moved
<1>5. lamports[w] = Supply + Total(Moved(w))
  BY DEF WalletsAddUp, Moved
<1>6. Total(Moved(w)) \in Int /\ Moved(w)'[j] \in Int /\ Moved(w)[j] \in Int
  BY <1>1, TotalType
<1>7. lamports'[w] = lamports[w] + Flow(j, w)' - Flow(j, w)
  OBVIOUS
<1>8. QED
  BY <1>3, <1>4, <1>5, <1>6, <1>7, SolanaAssumption

\* submit_intent takes the amount from the owner.
LEMMA SubmitAddsUp ==
    ASSUME SolanaInv, TypeOK', WalletsAddUp, NEW o \in Wallet, NEW d \in Wallet, NEW a \in Nat,
           NEW e \in Nat, NEW s \in Nat, NEW c \in Channel, submit_intent(o, a, d, e, s, c)
    PROVE  WalletsAddUp'
<1>0. PICK j \in IntentId : j = intent_nonce
  BY SolanaAssumption DEF submit_intent, SolanaInv, TypeOK, IntentId
<1>1. /\ intent[j].status = "Absent"
      /\ intent \in [IntentId -> IntentRecord] /\ lamports \in [Wallet -> Nat]
  BY <1>0, SolanaAssumption DEF SolanaInv, TypeOK, FreshAccounts, IntentId
<1>2. /\ intent'[j].status = "Pending" /\ intent'[j].owner = o /\ intent'[j].amount = a
      /\ \A i \in IntentId \ {j} : intent'[i] = intent[i]
      /\ lamports' = [lamports EXCEPT ![o] = lamports[o] - a]
  BY <1>0, <1>1 DEF submit_intent
<1>3. ASSUME NEW w \in Wallet PROVE lamports'[w] = lamports[w] + Flow(j, w)' - Flow(j, w)
  <2>1. Flow(j, w) = 0
    BY <1>1 DEF Flow
  <2>2. Flow(j, w)' = IF w = o THEN 0 - a ELSE 0
    BY <1>2 DEF Flow
  <2>3. QED
    BY <1>1, <1>2, <2>1, <2>2
<1>4. QED
  BY <1>1, <1>2, <1>3, OneMoves DEF SolanaInv

\* receive_settlement gives the destination what it settles and the owner the remainder.
LEMMA ReceiveAddsUp ==
    ASSUME SolanaInv, TypeOK', WalletsAddUp, NEW j \in IntentId, NEW a \in Nat, receive_settlement(j, a)
    PROVE  WalletsAddUp'
<1> DEFINE o == intent[j].owner
           d == intent[j].destination
           n == intent[j].amount
<1>1. /\ intent[j].status = "Pending" /\ n \in Nat /\ o \in Wallet /\ d \in Wallet
      /\ intent \in [IntentId -> IntentRecord] /\ lamports \in [Wallet -> Nat]
      /\ intent[j] \in IntentRecord
  BY DEF receive_settlement, SolanaInv, TypeOK, IntentRecord
<1>2. /\ intent'[j].status = "Settled" /\ intent'[j].settled_amount = a
      /\ intent'[j].owner = o /\ intent'[j].destination = d
      /\ \A i \in IntentId \ {j} : intent'[i] = intent[i]
      /\ lamports' = Credit(d, a, o, n - a)
  BY <1>1 DEF receive_settlement, IntentRecord
<1>3. ASSUME NEW w \in Wallet PROVE lamports'[w] = lamports[w] + Flow(j, w)' - Flow(j, w)
  <2>1. Flow(j, w) = 0 - (IF w = o THEN n ELSE 0)
    BY <1>1 DEF Flow
  <2>2. Flow(j, w)' = (IF w = d THEN a ELSE 0) - (IF w = o THEN a ELSE 0)
    BY <1>2 DEF Flow
  <2>3. lamports'[w] = lamports[w] + (IF w = d THEN a ELSE 0) + (IF w = o THEN n - a ELSE 0)
    BY <1>2 DEF Credit
  <2>4. lamports[w] \in Nat
    BY <1>1
  <2> HIDE DEF o, d, n
  <2>5. QED
    BY <1>1, <2>1, <2>2, <2>3, <2>4
<1>4. QED
  BY <1>2, <1>3, OneMoves DEF SolanaInv

\* cancel_intent gives the owner everything back.
LEMMA CancelAddsUp ==
    ASSUME SolanaInv, TypeOK', WalletsAddUp, NEW j \in IntentId, cancel_intent(j)
    PROVE  WalletsAddUp'
<1> DEFINE o == intent[j].owner
           n == intent[j].amount
<1>1. /\ intent[j].status = "Pending" /\ n \in Nat /\ o \in Wallet
      /\ intent \in [IntentId -> IntentRecord] /\ lamports \in [Wallet -> Nat]
      /\ intent[j] \in IntentRecord
  BY DEF cancel_intent, SolanaInv, TypeOK, IntentRecord
<1>2. /\ intent'[j].status = "Expired"
      /\ \A i \in IntentId \ {j} : intent'[i] = intent[i]
      /\ lamports' = [lamports EXCEPT ![o] = lamports[o] + n]
  BY <1>1 DEF cancel_intent, IntentRecord
<1>3. ASSUME NEW w \in Wallet PROVE lamports'[w] = lamports[w] + Flow(j, w)' - Flow(j, w)
  <2>1. Flow(j, w) = 0 - (IF w = o THEN n ELSE 0)
    BY <1>1 DEF Flow
  <2>2. Flow(j, w)' = 0
    BY <1>2 DEF Flow
  <2> HIDE DEF o, n
  <2>3. QED
    BY <1>1, <1>2, <2>1, <2>2
<1>4. QED
  BY <1>2, <1>3, OneMoves DEF SolanaInv

\* Administration and time move no lamports.
LEMMA NextAddsUp == SolanaInv /\ WalletsAddUp /\ [Next]_vars => WalletsAddUp'
<1> SUFFICES ASSUME SolanaInv, WalletsAddUp, [Next]_vars PROVE WalletsAddUp'
  OBVIOUS
<1>0. TypeOK'
  BY NextInv DEF SolanaInv
<1>1. ASSUME NEW w \in Wallet, NEW d \in Wallet, NEW a \in Amount, NEW e \in Expiry,
             NEW s \in Slippage, NEW c \in Channel, submit_intent(w, a, d, e, s, c)
      PROVE  WalletsAddUp'
  BY <1>0, <1>1, SubmitAddsUp, SolanaAssumption
<1>2. ASSUME NEW i \in IntentId, NEW a \in 0 .. Supply, receive_settlement(i, a)
      PROVE  WalletsAddUp'
  BY <1>0, <1>2, ReceiveAddsUp, SolanaAssumption
<1>3. ASSUME NEW i \in IntentId, cancel_intent(i) PROVE WalletsAddUp'
  BY <1>0, <1>3, CancelAddsUp
<1>4. ASSUME UNCHANGED <<intent, lamports>> PROVE WalletsAddUp'
  BY <1>4 DEF WalletsAddUp, Flow
<1>5. QED
  BY <1>1, <1>2, <1>3, <1>4 DEF Next, set_circuit_breaker, pause, unpause, Tick, vars

\* Nothing has moved yet.
LEMMA InitAddsUp == Init => WalletsAddUp
<1> SUFFICES ASSUME Init, NEW w \in Wallet PROVE lamports[w] = Supply + Total(Moved(w))
  BY DEF WalletsAddUp, Moved
<1>1. Moved(w) \in [IntentId -> Int]
  BY InitInv, MovedType DEF SolanaInv, MovedOK
<1>2. ASSUME NEW i \in IntentId PROVE Moved(w)[i] = 0
  <2>1. intent[i].status = "Absent"
    BY DEF Init, NoIntent
  <2>2. Moved(w)[i] = Flow(i, w)
    BY DEF Moved
  <2>3. QED
    BY <2>1, <2>2 DEF Flow
<1>3. Total(Moved(w)) = 0
  BY <1>1, <1>2, TotalOfZeros
<1>4. QED
  BY <1>3, SolanaAssumption DEF Init

\* Every account stays within its type; lamports are unsigned, so no wallet and no intent
\* account ever pays out more than it holds (lib.rs's direct lamport arithmetic).
THEOREM TypeCorrect == Spec => []TypeOK
<1>1. SolanaInv => TypeOK
  BY DEF SolanaInv
<1>2. QED
  BY <1>1, InitInv, NextInv, PTL DEF Spec

\* Every lamport a wallet has more or less than it started with is accounted for by the
\* intents it owned or received, for any number of intents and wallets, an owner that is
\* its own destination included.
THEOREM WalletsAreExact == Spec => []WalletsAddUp
<1>1. QED
  BY InitInv, NextInv, InitAddsUp, NextAddsUp, PTL DEF Spec
=============================================================================
