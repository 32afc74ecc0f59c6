----------------------------- MODULE ConfigProofs ------------------------------
(***************************************************************************)
(* Proofs about Config, for every configuration length, value set and set  *)
(* of signatures.                                                          *)
(***************************************************************************)
EXTENDS Config, SequenceTheorems, TLAPS

(***************************************************************************)
(* The inductive invariant.  A save is durable because, call by call, each *)
(* bank has been read back: Verified says how much of the banks is known   *)
(* to hold the row being saved; Whole is what is left of it afterwards,    *)
(* when one bank may lose words.                                           *)
(***************************************************************************)
Typed ==
    /\ store = [b \in Bank |-> [w \in Word |-> store[b][w]]]
    /\ signature \in Signature
    /\ pc \in {"off", "running", "saving"}
    /\ step \in 0..3 * Words + 6
    /\ failing \in BOOLEAN

\* The save in progress is on record and nothing is settled meanwhile.
Saving ==
    pc = "saving" => /\ config \in Content
                     /\ <<signature, config>> \in attempted
                     /\ settled = <<>>

\* A hash in any bank is the hash of a configuration given to a save.
HashKnown ==
    \A b \in Bank : \/ store[b][2] = Junk
                    \/ \E s \in Signature : <<s, store[b][2]>> \in attempted

\* While no write has failed, the calls that have returned left their words right.
Verified ==
    pc = "saving" /\ ~failing =>
        \A b \in Bank :
            /\ step >= 2 * b => \A w \in 1..2 : store[b][w] = Row(signature, config)[w]
            /\ step >= 6 + b * Words =>
                   \A w \in 3..Words + 2 : store[b][w] = Row(signature, config)[w]

\* After a whole save banks 1 and 3 hold its row and bank 2 lacks at most some words.
Whole ==
    settled # <<>> =>
        /\ \E s \in Signature, c \in Content : settled = <<s, c>>
        /\ \A w \in Word :
            /\ store[1][w] = Row(settled[1], settled[2])[w]
            /\ store[3][w] = Row(settled[1], settled[2])[w]
            /\ store[2][w] \in {Junk, Row(settled[1], settled[2])[w]}

IInv == Typed /\ Saving /\ HashKnown /\ Verified /\ Whole

-------------------------------------------------------------------------------
\* The row a save programs: signature, hash, then the data.
LEMMA RowIs ==
    ASSUME NEW sig \in Signature, NEW c \in Content
    PROVE  /\ Row(sig, c) = [w \in Word |-> Row(sig, c)[w]]
           /\ Row(sig, c)[1] = Kept(sig) /\ Row(sig, c)[2] = c
           /\ \A k \in 1..Words : Row(sig, c)[k + 2] = c[k]
  <1> DEFINE D == UNION {Nat, Value, Content}
  <1>1. Kept(sig) \in Nat
      BY WordsAssumption, ContentAssumption DEF Kept
  <1>2. <<Kept(sig), c>> \in Seq(D) /\ Len(<<Kept(sig), c>>) = 2
      BY <1>1
  <1>3. Words \in Nat /\ c \in [1..Words -> Value]
      BY WordsAssumption DEF Content
  <1>4. c \in Seq(D) /\ Len(c) = Words
      BY <1>3
  <1> HIDE DEF D
  <1>5. Row(sig, c) \in Seq(D) /\ Len(Row(sig, c)) = Words + 2
      BY <1>2, <1>3, <1>4 DEF Row
  <1>6. Row(sig, c) = [w \in Word |-> Row(sig, c)[w]]
      BY <1>5, <1>3 DEF Word
  <1>7. \A k \in 1..Words : Row(sig, c)[k + 2] = c[k]
      BY <1>2, <1>3, <1>4 DEF Row
  <1>8. Row(sig, c)[1] = Kept(sig) /\ Row(sig, c)[2] = c
      BY <1>2, <1>3, <1>4 DEF Row
  <1> QED
      BY <1>6, <1>7, <1>8

\* The quotient and the rest of a position in rows of n words.
LEMMA Position ==
    ASSUME NEW n \in Nat \ {0}, NEW r \in 0..n - 1, NEW a \in Nat
    PROVE  /\ a = r => a \div n = 0 /\ a % n = r
           /\ a = n + r => a \div n = 1 /\ a % n = r
           /\ a = 2 * n + r => a \div n = 2 /\ a % n = r
  OBVIOUS

\* Where the steps of a save program: the headers bank by bank, then the data.
LEMMA OrderAt ==
    /\ Len(Order) = 3 * Words + 6 /\ DOMAIN Order = 1..3 * Words + 6
    /\ \A b \in Bank : /\ Order[2 * b - 1] = [bank |-> b, word |-> 1]
                       /\ Order[2 * b] = [bank |-> b, word |-> 2]
    /\ \A b \in Bank, r \in 1..Words :
          Order[6 + (b - 1) * Words + r] = [bank |-> b, word |-> r + 2]
  <1> DEFINE R == [bank : Nat, word : Nat]
  <1>1. Words \in Nat /\ Words > 0
      BY WordsAssumption
  <1>2. HeaderOrder \in Seq(R) /\ Len(HeaderOrder) = 6
      BY DEF HeaderOrder
  <1>3. \A k \in 1..3 * Words : (k - 1) \div Words \in Nat /\ (k - 1) % Words \in Nat
      BY <1>1
  <1>4. DataOrder \in Seq(R) /\ Len(DataOrder) = 3 * Words
      BY <1>1, <1>3 DEF DataOrder
  <1> HIDE DEF R
  <1>5. /\ Len(Order) = 3 * Words + 6 /\ DOMAIN Order = 1..3 * Words + 6
        /\ \A k \in 1..6 : Order[k] = HeaderOrder[k]
        /\ \A k \in 1..3 * Words : Order[6 + k] = DataOrder[k]
    <2>1. /\ Order \in Seq(R) /\ Len(Order) = 3 * Words + 6
          /\ \A k \in 1..3 * Words + 6 :
                Order[k] = IF k <= 6 THEN HeaderOrder[k] ELSE DataOrder[k - 6]
      <3>1. /\ Order \in Seq(R) /\ Len(Order) = Len(HeaderOrder) + Len(DataOrder)
            /\ \A k \in 1..Len(HeaderOrder) + Len(DataOrder) :
                  Order[k] = IF k <= Len(HeaderOrder) THEN HeaderOrder[k]
                             ELSE DataOrder[k - Len(HeaderOrder)]
          BY <1>2, <1>4, ConcatProperties DEF Order
      <3>2. Len(HeaderOrder) + Len(DataOrder) = 3 * Words + 6
          BY <1>1, <1>2, <1>4
      <3> QED
          BY <1>2, <3>1, <3>2
    <2> QED
        BY <1>1, <2>1
  <1>6. ASSUME NEW b \in Bank
        PROVE  /\ Order[2 * b - 1] = [bank |-> b, word |-> 1]
               /\ Order[2 * b] = [bank |-> b, word |-> 2]
    <2>1. 2 * b - 1 \in 1..6 /\ 2 * b \in 1..6
        BY DEF Bank
    <2> QED
        BY <1>5, <2>1 DEF HeaderOrder, Bank
  <1>7. ASSUME NEW b \in Bank, NEW r \in 1..Words
        PROVE  Order[6 + (b - 1) * Words + r] = [bank |-> b, word |-> r + 2]
    <2> DEFINE k == (b - 1) * Words + r
    <2>1. k \in 1..3 * Words
        BY <1>1 DEF Bank
    <2>2. Order[6 + k] = DataOrder[k]
        BY <1>5, <2>1
    <2>3. (k - 1) \div Words = b - 1 /\ (k - 1) % Words = r - 1
      <3>1. r - 1 \in 0..Words - 1 /\ k - 1 \in Nat /\ Words \in Nat \ {0}
          BY <1>1, <2>1
      <3>2. CASE b = 1
          BY <3>1, <3>2, Position
      <3>3. CASE b = 2
        <4>1. k - 1 = Words + (r - 1)
            BY <1>1, <3>3
        <4> QED
            BY <3>1, <3>3, <4>1, Position
      <3>4. CASE b = 3
        <4>1. k - 1 = 2 * Words + (r - 1)
            BY <1>1, <3>4
        <4> QED
            BY <3>1, <3>4, <4>1, Position
      <3> QED
          BY <3>2, <3>3, <3>4 DEF Bank
    <2>4. DataOrder[k] = [bank |-> 1 + (k - 1) \div Words, word |-> 3 + ((k - 1) % Words)]
        BY <2>1 DEF DataOrder
    <2> QED
        BY <2>2, <2>3, <2>4, <1>1 DEF Bank
  <1> QED
      BY <1>5, <1>6, <1>7

\* Every step of the order programs a header word or a data word of some bank.
LEMMA StepOfOrder ==
    ASSUME NEW k \in 1..3 * Words + 6
    PROVE  \/ \E b \in Bank : k = 2 * b - 1 /\ Order[k] = [bank |-> b, word |-> 1]
           \/ \E b \in Bank : k = 2 * b /\ Order[k] = [bank |-> b, word |-> 2]
           \/ \E b \in Bank, r \in 1..Words :
                  k = 6 + (b - 1) * Words + r /\ Order[k] = [bank |-> b, word |-> r + 2]
  <1>1. Words \in Nat /\ Words > 0
      BY WordsAssumption
  <1>2. CASE k <= 6
    <2>1. \E b \in Bank : k = 2 * b - 1 \/ k = 2 * b
        BY <1>2 DEF Bank
    <2> QED
        BY <2>1, OrderAt
  <1>3. CASE k > 6
    <2>1. PICK b \in Bank : 6 + (b - 1) * Words < k /\ k <= 6 + b * Words
      <3>1. CASE k <= 6 + Words
          BY <1>1, <1>3, <3>1 DEF Bank
      <3>2. CASE 6 + Words < k /\ k <= 6 + 2 * Words
          BY <1>1, <3>2 DEF Bank
      <3>3. CASE 6 + 2 * Words < k
          BY <1>1, <3>3 DEF Bank
      <3> QED
          BY <1>1, <3>1, <3>2, <3>3
    <2> DEFINE r == k - 6 - (b - 1) * Words
    <2>2. r \in 1..Words /\ k = 6 + (b - 1) * Words + r
        BY <1>1, <2>1 DEF Bank
    <2>3. Order[k] = [bank |-> b, word |-> r + 2]
        BY <2>2, OrderAt
    <2> QED
        BY <2>2, <2>3
  <1>4. k <= 6 \/ k > 6
      BY <1>1
  <1> QED
      BY <1>2, <1>3, <1>4, Zenon

\* Every step of the order stays within the banks.
LEMMA OrderInBanks ==
    ASSUME NEW k \in 1..3 * Words + 6
    PROVE  Order[k].bank \in Bank /\ Order[k].word \in Word
  <1>1. Word = 1..Words + 2 /\ Words \in Nat /\ Words > 0
      BY WordsAssumption DEF Word
  <1>2. CASE \E b \in Bank : k = 2 * b - 1 /\ Order[k] = [bank |-> b, word |-> 1]
      BY <1>1, <1>2
  <1>3. CASE \E b \in Bank : k = 2 * b /\ Order[k] = [bank |-> b, word |-> 2]
      BY <1>1, <1>3
  <1>4. CASE \E b \in Bank, r \in 1..Words :
                 k = 6 + (b - 1) * Words + r /\ Order[k] = [bank |-> b, word |-> r + 2]
      BY <1>1, <1>4
  <1> QED
      BY <1>2, <1>3, <1>4, StepOfOrder

\* The call that writes a header or the data of a bank ends with its last word.
LEMMA CallsEnd ==
    ASSUME NEW b \in Bank
    PROVE  /\ LastOfCall(2 * b) /\ LastOfCall(6 + b * Words)
           /\ Order[2 * b].bank = b /\ Order[6 + b * Words].bank = b
           /\ 6 + b * Words \in 7..3 * Words + 6
  <1>1. Words \in Nat /\ Words > 0
      BY WordsAssumption
  <1>2. 1 \in 1..Words /\ Words \in 1..Words
      BY <1>1
  <1>3. Order[2 * b].bank = b
    <2>1. Order[2 * b] = [bank |-> b, word |-> 2]
        BY OrderAt, Zenon
    <2> QED
        BY <2>1
  <1>4. 6 + b * Words = 6 + (b - 1) * Words + Words
      BY <1>1 DEF Bank
  <1>5. Order[6 + b * Words].bank = b
    <2>1. Order[6 + (b - 1) * Words + Words] = [bank |-> b, word |-> Words + 2]
        BY <1>2, OrderAt, Zenon
    <2> QED
        BY <1>4, <2>1
  <1>6. LastOfCall(2 * b)
    <2>1. CASE b = 3
      <3>1. Order[6 + (1 - 1) * Words + 1] = [bank |-> 1, word |-> 1 + 2]
          BY <1>2, OrderAt DEF Bank
      <3>2. 2 * b + 1 = 6 + (1 - 1) * Words + 1
          BY <1>1, <2>1
      <3> QED
          BY <2>1, <1>3, <3>1, <3>2 DEF LastOfCall
    <2>2. CASE b # 3
      <3>1. b + 1 \in Bank /\ 2 * b + 1 = 2 * (b + 1) - 1 /\ b + 1 # b
          BY <2>2 DEF Bank
      <3>2. Order[2 * (b + 1) - 1] = [bank |-> b + 1, word |-> 1]
          BY <3>1, OrderAt, Zenon
      <3> QED
          BY <1>3, <3>1, <3>2 DEF LastOfCall
    <2> QED
        BY <2>1, <2>2
  <1>7. LastOfCall(6 + b * Words)
    <2>1. CASE b = 3
        BY <2>1, OrderAt, <1>1 DEF LastOfCall
    <2>2. CASE b # 3
      <3>1. b + 1 \in Bank /\ b + 1 # b /\ (b + 1) - 1 = b
          BY <2>2 DEF Bank
      <3>2. Order[6 + ((b + 1) - 1) * Words + 1] = [bank |-> b + 1, word |-> 1 + 2]
          BY <3>1, <1>2, OrderAt, Zenon
      <3> QED
          BY <1>5, <3>1, <3>2 DEF LastOfCall
    <2> QED
        BY <2>1, <2>2
  <1>8. 6 + b * Words \in 7..3 * Words + 6
      BY <1>1 DEF Bank
  <1> QED
      BY <1>3, <1>5, <1>6, <1>7, <1>8

-------------------------------------------------------------------------------
\* Programming changes one word of one bank.
LEMMA OneWord ==
    ASSUME Typed, NEW b \in Bank, NEW w \in Word, NEW v,
           store' = [store EXCEPT ![b][w] = v]
    PROVE  /\ \A c \in Bank, x \in Word :
                 store'[c][x] = IF c = b /\ x = w THEN v ELSE store[c][x]
           /\ store' = [c \in Bank |-> [x \in Word |-> store'[c][x]]]
  <1>1. store = [c \in Bank |-> [x \in Word |-> store[c][x]]]
      BY DEF Typed
  <1>2. DOMAIN store = Bank /\ \A c \in Bank : store[c] = [x \in Word |-> store[c][x]]
      BY <1>1
  <1>3. \A c \in Bank, x \in Word : store'[c][x] = IF c = b /\ x = w THEN v ELSE store[c][x]
      BY <1>2
  <1>4. DOMAIN store' = Bank /\ \A c \in Bank : store'[c] = [x \in Word |-> store'[c][x]]
      BY <1>2
  <1>5. store' = [c \in Bank |-> store'[c]]
      BY <1>2
  <1> QED
      BY <1>3, <1>4, <1>5

LEMMA InitIInv == Init => IInv
  <1> SUFFICES ASSUME Init PROVE IInv
      OBVIOUS
  <1>1. Words \in Nat /\ Words > 0 /\ 2 \in Word
      BY WordsAssumption DEF Word
  <1>2. Typed
    <2>1. store = [b \in Bank |-> [w \in Word |-> store[b][w]]]
        BY DEF Init
    <2>2. 0 \in 0..3 * Words + 6
        BY <1>1
    <2> QED
        BY <2>1, <2>2 DEF Init, Typed
  <1>3. HashKnown
      BY <1>1 DEF Init, HashKnown
  <1> QED
      BY <1>2, <1>3 DEF Init, IInv, Saving, Verified, Whole

\* A save that begins has everything before it and nothing verified.
LEMMA BeginStep ==
    ASSUME IInv, NEW sig \in Signature, NEW c \in Content,
           BeginSave(sig, c), signature' = sig, config' = c, store' = store
    PROVE  IInv'
  <1>1. Words \in Nat /\ Words > 0
      BY WordsAssumption
  <1>2. Typed'
    <2>1. 0 \in 0..3 * Words + 6
        BY <1>1
    <2> QED
        BY <2>1 DEF IInv, Typed, BeginSave
  <1>3. Saving'
      BY DEF BeginSave, Saving
  <1>4. HashKnown'
      BY DEF IInv, HashKnown, BeginSave
  <1>5. Verified'
    <2>1. step' = 0
        BY DEF BeginSave
    <2>2. \A b \in Bank : ~(0 >= 2 * b) /\ ~(0 >= 6 + b * Words)
        BY <1>1 DEF Bank
    <2> QED
        BY <2>1, <2>2 DEF Verified
  <1>6. Whole'
      BY DEF Whole, BeginSave
  <1> QED
      BY <1>2, <1>3, <1>4, <1>5, <1>6 DEF IInv

LEMMA BootStep == ASSUME IInv, Boot PROVE IInv'
  <1>1. PICK sig \in Signature, img \in Reads :
            /\ signature' = sig
            /\ IF Accepts(img, sig)
               THEN /\ config' = img.data
                    /\ pc' = "running"
                    /\ UNCHANGED <<step, failing, history, saves>>
               ELSE /\ config' = Default
                    /\ BeginSave(sig, Default)
      BY DEF Boot
  <1>2. CASE Accepts(img, sig)
      BY <1>1, <1>2 DEF IInv, Typed, Saving, HashKnown, Verified, Whole, Boot, history
  <1>3. CASE ~Accepts(img, sig)
      BY <1>1, <1>3, BeginStep, ContentAssumption DEF Boot
  <1> QED
      BY <1>2, <1>3

LEMMA SaveStep == ASSUME IInv, Save PROVE IInv'
  <1>1. signature \in Signature
      BY DEF IInv, Typed
  <1> QED
      BY <1>1, BeginStep DEF Save

\* What changes only the configuration in RAM, outside a save, keeps it.
LEMMA QuietStep ==
    ASSUME IInv, Reset \/ Load \/ UNCHANGED vars
    PROVE  IInv'
  <1>1. /\ UNCHANGED <<store, signature, pc, step, failing, attempted, settled>>
        /\ pc = "running" \/ UNCHANGED config
      BY DEF Reset, Load, vars, ram, history
  <1> QED
      BY <1>1 DEF IInv, Typed, Saving, HashKnown, Verified, Whole

LEMMA RefusedStep == ASSUME IInv, Refused PROVE IInv'
  <1>1. /\ UNCHANGED <<store, signature, config, pc, attempted, settled>>
        /\ failing' = TRUE /\ pc = "saving"
        /\ step' = GiveUp(step + 1)
      BY DEF Refused, ram, history
  <1>2. step' \in 0..3 * Words + 6
    <2>1. Len(HeaderOrder) = 6
        BY DEF HeaderOrder
    <2> QED
        BY <1>1, <2>1, OrderAt, WordsAssumption DEF GiveUp, LastHeader
  <1> QED
      BY <1>1, <1>2 DEF IInv, Typed, Saving, HashKnown, Verified, Whole

\* A save that ends without a failed write has verified all three banks.
LEMMA EndStep == ASSUME IInv, EndSave PROVE IInv'
  <1>1. /\ UNCHANGED <<store, signature, config, attempted>>
        /\ pc = "saving" /\ step = 3 * Words + 6 /\ config \in Content /\ signature \in Signature
        /\ pc' = "running" /\ step' = 0 /\ failing' = FALSE
        /\ settled' = IF failing THEN <<>> ELSE <<signature, config>>
      BY OrderAt DEF EndSave, ram, IInv, Saving, Typed
  <1>2. Words \in Nat /\ Words > 0
      BY WordsAssumption
  <1>3. Whole'
    <2>1. CASE failing
        BY <1>1, <2>1 DEF Whole
    <2>2. CASE ~failing
      <3>1. \A b \in Bank : step >= 2 * b /\ step >= 6 + b * Words
          BY <1>1, <1>2 DEF Bank
      <3>2. \A b \in Bank : \A w \in 1..Words + 2 : store[b][w] = Row(signature, config)[w]
        <4> SUFFICES ASSUME NEW b \in Bank, NEW w \in 1..Words + 2
                     PROVE  store[b][w] = Row(signature, config)[w]
            OBVIOUS
        <4>1. w \in 1..2 \/ w \in 3..Words + 2
            BY <1>2
        <4> QED
            BY <1>1, <2>2, <3>1, <4>1 DEF IInv, Verified
      <3> QED
          BY <1>1, <2>2, <3>2 DEF Whole, Word, Bank
    <2> QED
        BY <2>1, <2>2
  <1>4. Typed'
    <2>1. 0 \in 0..3 * Words + 6
        BY <1>2
    <2> QED
        BY <1>1, <2>1 DEF IInv, Typed
  <1> QED
      BY <1>1, <1>3, <1>4 DEF IInv, Saving, HashKnown, Verified

-------------------------------------------------------------------------------
\* One programming operation.  A word that a finished call has verified is not
\* written again by this save, and a call is finished only by reading it back.
LEMMA ProgramStep == ASSUME IInv, Program PROVE IInv'
  <1> DEFINE k == step + 1
             at == Order[k]
             row == Row(signature, config)
             bad == LastOfCall(k) /\ ~ReadsBack(k, store')
  <1>1. Words \in Nat /\ Words > 0 /\ Word = 1..Words + 2 /\ Len(HeaderOrder) = 6
      BY WordsAssumption DEF Word, HeaderOrder
  <1>2. /\ pc = "saving" /\ UNCHANGED <<signature, config, pc, attempted, settled>>
        /\ step' = IF bad THEN GiveUp(k) ELSE k
        /\ failing' = (failing \/ bad)
        /\ k \in 1..3 * Words + 6
      BY <1>1, OrderAt DEF Program, ram, history, IInv, Typed
  <1>3. PICK v \in {row[at.word], Junk} : store' = [store EXCEPT ![at.bank][at.word] = v]
      BY DEF Program
  <1>4. at.bank \in Bank /\ at.word \in Word
      BY <1>2, OrderInBanks
  <1>5. /\ \A c \in Bank, x \in Word :
              store'[c][x] = IF c = at.bank /\ x = at.word THEN v ELSE store[c][x]
        /\ store' = [c \in Bank |-> [x \in Word |-> store'[c][x]]]
      BY <1>3, <1>4, OneWord DEF IInv
  <1>6. Typed'
    <2>1. step' \in 0..3 * Words + 6
        BY <1>1, <1>2, OrderAt DEF GiveUp, LastHeader
    <2>2. failing' \in BOOLEAN
        BY <1>2 DEF IInv, Typed
    <2> QED
        BY <1>2, <1>5, <2>1, <2>2 DEF IInv, Typed
  <1>7. Saving' /\ Whole'
      BY <1>2 DEF IInv, Saving, Whole
  <1>8. HashKnown'
    <2> SUFFICES ASSUME NEW b \in Bank
                 PROVE  \/ store'[b][2] = Junk
                        \/ \E s \in Signature : <<s, store'[b][2]>> \in attempted
        BY <1>2 DEF HashKnown
    <2>1. row[2] = config /\ <<signature, config>> \in attempted /\ signature \in Signature
        BY <1>2, RowIs DEF IInv, Saving, Typed
    <2>2. store'[b][2] = store[b][2] \/ store'[b][2] = Junk \/ store'[b][2] = row[2]
        BY <1>1, <1>5
    <2> QED
        BY <2>1, <2>2 DEF IInv, HashKnown
  <1>9. Verified'
    <2> SUFFICES ASSUME ~failing', NEW d \in Bank
                 PROVE  /\ k >= 2 * d => \A w \in 1..2 : store'[d][w] = row[w]
                        /\ k >= 6 + d * Words =>
                               \A w \in 3..Words + 2 : store'[d][w] = row[w]
        BY <1>2 DEF Verified
    <2>0. ~bad /\ ~failing /\ step \in Nat
      <3>1. ~bad /\ ~failing
          BY <1>2, Zenon
      <3>2. step \in Nat
          BY <1>1 DEF IInv, Typed
      <3> QED
          BY <3>1, <3>2
    <2>1. /\ step >= 2 * d => \A w \in 1..2 : store[d][w] = row[w]
          /\ step >= 6 + d * Words => \A w \in 3..Words + 2 : store[d][w] = row[w]
        BY <1>2, <2>0 DEF IInv, Verified
    <2>2. /\ step >= 2 * d => at.bank # d \/ at.word \notin 1..2
          /\ step >= 6 + d * Words => at.bank # d \/ at.word \notin 3..Words + 2
      <3>1. CASE \E b \in Bank : k = 2 * b - 1 /\ Order[k] = [bank |-> b, word |-> 1]
          BY <3>1, <2>0, <1>1 DEF Bank
      <3>2. CASE \E b \in Bank : k = 2 * b /\ Order[k] = [bank |-> b, word |-> 2]
          BY <3>2, <2>0, <1>1 DEF Bank
      <3>3. CASE \E b \in Bank, r \in 1..Words :
                     k = 6 + (b - 1) * Words + r /\ Order[k] = [bank |-> b, word |-> r + 2]
          BY <3>3, <2>0, <1>1 DEF Bank
      <3> QED
          BY <3>1, <3>2, <3>3, <1>2, StepOfOrder
    <2>3. ASSUME k = 2 * d \/ k = 6 + d * Words
          PROVE  \A w \in Word : (w \in 1..2 <=> k <= 6) => store'[d][w] = row[w]
      <3>1. ReadsBack(k, store') /\ at.bank = d
          BY <2>0, <2>3, CallsEnd
      <3> QED
          BY <3>1, <1>1 DEF ReadsBack, LastHeader
    <2>4. ASSUME k >= 2 * d PROVE \A w \in 1..2 : store'[d][w] = row[w]
      <3>1. CASE k = 2 * d
          BY <3>1, <2>3, <1>1 DEF Bank
      <3>2. CASE k # 2 * d
        <4>1. step >= 2 * d
            BY <2>0, <2>4, <3>2 DEF Bank
        <4> QED
            BY <4>1, <2>1, <2>2, <1>1, <1>5
      <3> QED
          BY <3>1, <3>2
    <2>5. ASSUME k >= 6 + d * Words PROVE \A w \in 3..Words + 2 : store'[d][w] = row[w]
      <3>1. CASE k = 6 + d * Words
        <4>1. ~(k <= 6) /\ \A w \in 3..Words + 2 : w \in Word /\ w \notin 1..2
            BY <3>1, <1>1 DEF Bank
        <4> QED
            BY <4>1, <3>1, <2>3
      <3>2. CASE k # 6 + d * Words
        <4>1. step >= 6 + d * Words
            BY <2>0, <2>5, <3>2, <1>1 DEF Bank
        <4> QED
            BY <4>1, <2>1, <2>2, <1>1, <1>5
      <3> QED
          BY <3>1, <3>2
    <2> QED
        BY <2>4, <2>5
  <1> QED
      BY <1>6, <1>7, <1>8, <1>9 DEF IInv

\* A power failure spoils a word only inside a save, when nothing is settled.
LEMMA PowerStep == ASSUME IInv, PowerFails PROVE IInv'
  <1>1. /\ UNCHANGED <<signature, config, attempted, settled>>
        /\ pc' = "off" /\ step' = 0 /\ failing' = FALSE
      BY DEF PowerFails, ram, history
  <1>2. Words \in Nat /\ Words > 0 /\ 0 \in 0..3 * Words + 6 /\ Word = 1..Words + 2
      BY WordsAssumption DEF Word
  <1>3. CASE UNCHANGED store
      BY <1>1, <1>2, <1>3 DEF IInv, Typed, Saving, HashKnown, Verified, Whole
  <1>4. ASSUME pc = "saving", step < Len(Order),
               store' = [store EXCEPT ![Order[step + 1].bank][Order[step + 1].word] = Junk]
        PROVE  IInv'
    <2> DEFINE k == step + 1
               at == Order[k]
    <2>1. k \in 1..3 * Words + 6
        BY <1>2, <1>4, OrderAt DEF IInv, Typed
    <2>2. at.bank \in Bank /\ at.word \in Word
        BY <2>1, OrderInBanks
    <2>3. /\ \A c \in Bank, x \in Word :
                store'[c][x] = IF c = at.bank /\ x = at.word THEN Junk ELSE store[c][x]
          /\ store' = [c \in Bank |-> [x \in Word |-> store'[c][x]]]
        BY <1>4, <2>2, OneWord DEF IInv
    <2>4. Typed'
        BY <1>1, <1>2, <2>3 DEF IInv, Typed
    <2>5. HashKnown'
      <3>1. \A b \in Bank : store'[b][2] = store[b][2] \/ store'[b][2] = Junk
          BY <1>2, <2>3
      <3> QED
          BY <1>1, <3>1 DEF IInv, HashKnown
    <2> QED
        BY <1>1, <1>4, <2>4, <2>5 DEF IInv, Saving, Verified, Whole
  <1> QED
      BY <1>3, <1>4 DEF PowerFails

\* One bank losing words leaves the other two to outvote it.
LEMMA BankStep == ASSUME IInv, OneBankFails PROVE IInv'
  <1>1. PICK lost \in SUBSET Word :
            store' = [store EXCEPT ![2] = [w \in Word |-> IF w \in lost THEN Junk ELSE store[2][w]]]
      BY DEF OneBankFails
  <1>2. /\ UNCHANGED <<signature, config, pc, step, failing, attempted, settled>>
        /\ pc # "saving"
      BY DEF OneBankFails, ram, history
  <1>3. store = [b \in Bank |-> [w \in Word |-> store[b][w]]] /\ 2 \in Bank
      BY DEF IInv, Typed, Bank
  <1>4. /\ store' = [c \in Bank |-> IF c = 2 THEN [w \in Word |-> IF w \in lost THEN Junk ELSE store[2][w]]
                                  ELSE store[c]]
        /\ \A c \in Bank : store[c] = [w \in Word |-> store[c][w]]
      BY <1>1, <1>3
  <1>5. /\ \A c \in Bank, x \in Word :
              store'[c][x] = IF c = 2 /\ x \in lost THEN Junk ELSE store[c][x]
        /\ store' = [c \in Bank |-> [x \in Word |-> store'[c][x]]]
      BY <1>4
  <1>6. Typed'
      BY <1>2, <1>5 DEF IInv, Typed
  <1>7. HashKnown'
    <2>1. 2 \in Word
        BY WordsAssumption DEF Word
    <2> QED
        BY <1>2, <1>5, <2>1 DEF IInv, HashKnown
  <1>8. Whole'
      BY <1>2, <1>5 DEF IInv, Whole, Bank
  <1> QED
      BY <1>2, <1>6, <1>7, <1>8 DEF IInv, Saving, Verified

LEMMA NextIInv == IInv /\ [Next]_vars => IInv'
  BY BootStep, SaveStep, QuietStep, ProgramStep, RefusedStep, EndStep, PowerStep, BankStep DEF Next

-------------------------------------------------------------------------------
\* What a power-up of the same firmware reads after a whole save: two equal banks win
\* every word.
LEMMA ReadsWhatWasSaved ==
    ASSUME IInv, settled # <<>>, NEW img \in Reads, signature' = settled[1]
    PROVE  img.data = settled[2] /\ Accepts(img, signature')
  <1>1. PICK s \in Signature, c \in Content : settled = <<s, c>>
      BY DEF IInv, Whole
  <1>2. /\ \A w \in Word : store[1][w] = Row(s, c)[w] /\ store[3][w] = Row(s, c)[w]
        /\ Words \in Nat /\ Words > 0 /\ Word = 1..Words + 2
      BY <1>1, WordsAssumption DEF IInv, Whole, Word
  <1>3. \A w \in Word : Read(w) = {Row(s, c)[w]}
      BY <1>2 DEF Read, Majority
  <1>4. PICK d \in [1..Words -> Value \cup {Junk}] :
            /\ img.data = d /\ img.sig \in Read(1) /\ img.hash \in Read(2)
            /\ \A k \in 1..Words : d[k] \in Read(k + 2)
      BY DEF Reads
  <1>5. 1 \in Word /\ 2 \in Word /\ \A k \in 1..Words : k + 2 \in Word
      BY <1>2
  <1>6. img.sig = Kept(s) /\ img.hash = c /\ \A k \in 1..Words : d[k] = c[k]
      BY <1>3, <1>4, <1>5, RowIs
  <1>7. d = c
    <2>1. d = [k \in 1..Words |-> d[k]]
        BY <1>4, Zenon
    <2>2. c = [k \in 1..Words |-> c[k]]
        BY <1>1 DEF Content
    <2> QED
        BY <1>6, <2>1, <2>2
  <1> QED
      BY <1>1, <1>4, <1>6, <1>7 DEF Accepts

\* For every configuration length, and wherever power fails, writes fail or one bank
\* loses words: a completed save is what the next power-up of that firmware loads.
THEOREM SavedIsDurable == Spec => Durable
  <1>1. IInv /\ [Next]_vars =>
            [pc = "off" /\ pc' # "off" /\ settled # <<>> /\ signature' = settled[1]
               => pc' = "running" /\ config' = settled[2]]_vars
    <2> SUFFICES ASSUME IInv, Next, pc = "off", pc' # "off", settled # <<>>,
                        signature' = settled[1]
                 PROVE  pc' = "running" /\ config' = settled[2]
        OBVIOUS
    <2>1. Boot
        BY DEF Next, Boot, Save, Reset, Load, Program, Refused, EndSave, PowerFails, OneBankFails
    <2>2. PICK img \in Reads :
              IF Accepts(img, signature')
              THEN config' = img.data /\ pc' = "running"
              ELSE BeginSave(signature', Default)
        BY <2>1 DEF Boot
    <2> QED
        BY <2>2, ReadsWhatWasSaved
  <1> QED
      BY InitIInv, NextIInv, <1>1, PTL DEF Spec, Durable

\* However power fails inside saves, what a power-up accepts was given to one save as
\* a whole: the hash it checks is the hash of one attempted configuration.
THEOREM LoadsNoMixture == Spec => NeverMixed
  <1>1. IInv /\ [Next]_vars =>
            [pc = "off" /\ pc' = "running" =>
                \E s \in Signature : <<s, config'>> \in attempted]_vars
    <2> SUFFICES ASSUME IInv, Next, pc = "off", pc' = "running"
                 PROVE  \E s \in Signature : <<s, config'>> \in attempted
        OBVIOUS
    <2>1. Boot
        BY DEF Next, Boot, Save, Reset, Load, Program, Refused, EndSave, PowerFails, OneBankFails
    <2>2. PICK img \in Reads : Accepts(img, signature') /\ config' = img.data
        BY <2>1 DEF Boot, BeginSave
    <2>3. /\ img.hash = img.data /\ img.hash \in Read(2)
          /\ img.data \in [1..Words -> Value \cup {Junk}]
        BY <2>2 DEF Accepts, Reads
    <2>4. PICK b \in Bank : img.hash = store[b][2]
        BY <2>3, JunkAssumption DEF Read, Majority, Bank
    <2> QED
        BY <2>2, <2>3, <2>4, JunkAssumption DEF IInv, HashKnown
  <1> QED
      BY InitIInv, NextIInv, <1>1, PTL DEF Spec, NeverMixed

\* For every configuration length: a save that ends without a refused or failed write
\* leaves the same row in all three banks, whatever they held before it.
THEOREM SaveRepairsBanks == Spec => []SaveRepairs
  <1>1. IInv => SaveRepairs
    <2> SUFFICES ASSUME IInv, settled # <<>>, \A w \in Word : store[2][w] # Junk, NEW b \in Bank
                 PROVE  store[b] = Row(settled[1], settled[2])
        BY DEF SaveRepairs
    <2>1. PICK s \in Signature, c \in Content : settled = <<s, c>>
        BY DEF IInv, Whole
    <2>2. \A w \in Word : store[b][w] = Row(s, c)[w]
        BY <2>1 DEF IInv, Whole, Bank
    <2>3. store[b] = [w \in Word |-> store[b][w]]
        BY DEF IInv, Typed
    <2>4. Row(s, c) = [w \in Word |-> Row(s, c)[w]]
        BY RowIs
    <2> QED
        BY <2>1, <2>2, <2>3, <2>4
  <1> QED
      BY InitIInv, NextIInv, <1>1, PTL DEF Spec
===============================================================================
