-------------------------------- MODULE Config --------------------------------
(***************************************************************************)
(* twr_config.c: a configuration kept in EEPROM as three identical banks,  *)
(* each a header (signature, length, hash) followed by the data, read back *)
(* by a bitwise majority of the three.  Power may fail between any two     *)
(* programming operations and spoils the word being programmed.            *)
(*                                                                         *)
(* A bank is a row of words: word 1 holds signature and length, word 2 the *)
(* hash, the others the data.  The hash is ideal: it stands for the data   *)
(* it was computed from.                                                   *)
(***************************************************************************)
EXTENDS Naturals, Sequences

CONSTANTS Value,       \* what a data word may hold
          Words,       \* data words of a configuration
          Default,     \* *init_config, a configuration
          Signature,   \* the 64-bit signatures firmware versions pass
          SigModulus,  \* 2^32: _twr_config.signature has 32 bits
          Junk,        \* what a spoiled or virgin word reads as
          MaxSaves,    \* bound: saves in a behaviour
          MaxFaults    \* bound: power failures, failed writes and lost words together

Bank == 1..3
Word == 1..Words + 2
Content == [1..Words -> Value]

ASSUME WordsAssumption == Words \in Nat \ {0} /\ SigModulus \in Nat \ {0}
ASSUME ContentAssumption == Default \in Content /\ Signature \subseteq Nat
ASSUME BoundsAssumption == MaxSaves \in Nat /\ MaxFaults \in Nat
\* The hash is ideal: what a spoiled word reads as is the hash of no data.
ASSUME JunkAssumption == Junk \notin [1..Words -> Value \cup {Junk}]

VARIABLES store,       \* the EEPROM: store[bank][word]
          signature,   \* what the running firmware passed to twr_config_init
          config,      \* the configuration in RAM
          pc,          \* "off", "running" or "saving"
          step,        \* programming operations of the save already done
          failing,     \* the save has met a write that did not succeed
          attempted,   \* history: <<signature, content>> pairs given to a save
          settled,     \* history: the pair of the last whole save, or <<>> if a
                       \* later save was cut short or refused by the EEPROM
          saves, faults

ram == <<signature, config>>
history == <<attempted, settled>>
vars == <<store, ram, pc, step, failing, history, saves, faults>>

\* A virgin EEPROM and no power.
Init ==
    /\ store = [b \in Bank |-> [w \in Word |-> Junk]]
    /\ signature \in Signature /\ config = Default
    /\ pc = "off" /\ step = 0 /\ failing = FALSE
    /\ attempted = {} /\ settled = <<>>
    /\ saves = 0 /\ faults = 0

-------------------------------------------------------------------------------
\* _twr_config.signature is a uint32_t.
Kept(sig) == sig % SigModulus

\* Mutant: one bank is read and the other two are not consulted.
OneBankOnly(a, b, c) == {b}

\* (a & b) | (a & c) | (b & c): two equal words win, three different ones mix.
Majority(a, b, c) ==
    IF a = b \/ a = c THEN {a} ELSE IF b = c THEN {b} ELSE {a, b, c, Junk}

\* _config_eeprom_read of the whole image; Read(w) is what word w may give.
Read(w) == Majority(store[1][w], store[2][w], store[3][w])
Reads == {[sig |-> s, hash |-> h, data |-> d] :
             s \in Read(1), h \in Read(2),
             d \in {f \in [1..Words -> Value \cup {Junk}] : \A k \in 1..Words : f[k] \in Read(k + 2)}}

\* Mutant: the hash is not compared.
AcceptsAnyHash(img, sig) == img.sig = Kept(sig)

\* twr_config_load accepts an image with the right signature and hash.
Accepts(img, sig) == img.sig = Kept(sig) /\ img.hash = img.data

\* The row of words a save programs into each bank.
Row(sig, content) == <<Kept(sig), content>> \o content

\* The order of a save: the header into every bank, then the data into every bank.
HeaderOrder == [k \in 1..6 |-> [bank |-> (k + 1) \div 2, word |-> 2 - (k % 2)]]
\* Mutant: the data never reaches the third bank.
DataOrderTwoBanks == [k \in 1..2 * Words |-> [bank |-> 1 + (k - 1) \div Words,
                                              word |-> 3 + ((k - 1) % Words)]]

DataOrder == [k \in 1..3 * Words |-> [bank |-> 1 + (k - 1) \div Words,
                                      word |-> 3 + ((k - 1) % Words)]]
Order == HeaderOrder \o DataOrder

BeginSave(sig, content) ==
    /\ saves < MaxSaves
    /\ saves' = saves + 1
    /\ pc' = "saving" /\ step' = 0 /\ failing' = FALSE
    /\ attempted' = attempted \cup {<<sig, content>>}
    /\ settled' = <<>>

-------------------------------------------------------------------------------
(***************************************************************************)
(* twr_config_init at power-up: load, or else reset and save.              *)
(***************************************************************************)
Boot ==
    /\ pc = "off"
    /\ \E sig \in Signature, img \in Reads :
        /\ signature' = sig
        /\ IF Accepts(img, sig)
           THEN /\ config' = img.data
                /\ pc' = "running"
                /\ UNCHANGED <<step, failing, history, saves>>
           ELSE /\ config' = Default
                /\ BeginSave(sig, Default)
    /\ UNCHANGED <<store, faults>>

\* The application fills in the configuration in RAM and saves it.
Save ==
    /\ pc = "running"
    /\ \E content \in Content :
        /\ config' = content
        /\ BeginSave(signature, content)
    /\ UNCHANGED <<store, signature, faults>>

\* twr_config_reset
Reset ==
    /\ pc = "running"
    /\ config' = Default
    /\ UNCHANGED <<store, signature, pc, step, failing, history, saves, faults>>

\* twr_config_load on its own: data that fails the hash stays in RAM.
Load ==
    /\ pc = "running"
    /\ \E img \in Reads :
        config' = IF img.sig = Kept(signature) THEN img.data ELSE config
    /\ UNCHANGED <<store, signature, pc, step, failing, history, saves, faults>>

\* Steps of the order that one twr_eeprom_write call covers end where the bank changes.
LastHeader == Len(HeaderOrder)
FirstOfCall == {k \in DOMAIN Order : k = 1 \/ Order[k - 1].bank # Order[k].bank}
LastOfCall(k) == k = Len(Order) \/ Order[k].bank # Order[k + 1].bank
\* The || of _config_eeprom_write: after a call that failed, the later banks are skipped.
GiveUp(k) == IF k <= LastHeader THEN LastHeader ELSE Len(Order)

\* What the memcmp of twr_eeprom_write reads back for the call that ends at step k.
ReadsBack(k, mem) ==
    \A w \in Word : (w \in 1..2 <=> k <= LastHeader)
        => mem[Order[k].bank][w] = Row(signature, config)[w]

\* One programming operation of _twr_eeprom_write; a worn word does not take it.
Program ==
    /\ pc = "saving" /\ step < Len(Order)
    /\ LET k == step + 1 IN
       /\ \E v \in {Row(signature, config)[Order[k].word], Junk} :
            /\ store' = [store EXCEPT ![Order[k].bank][Order[k].word] = v]
            /\ v = Junk => faults < MaxFaults
            /\ faults' = IF v = Junk THEN faults + 1 ELSE faults
       /\ LET bad == LastOfCall(k) /\ ~ReadsBack(k, store')
          IN /\ step' = IF bad THEN GiveUp(k) ELSE k
             /\ failing' = (failing \/ bad)
    /\ UNCHANGED <<ram, pc, history, saves>>

\* twr_eeprom_write returns false before it writes: the EEPROM is busy, or the bank
\* ends beyond the memory.
Refused ==
    /\ pc = "saving" /\ step + 1 \in FirstOfCall /\ faults < MaxFaults
    /\ faults' = faults + 1
    /\ step' = GiveUp(step + 1)
    /\ failing' = TRUE
    /\ UNCHANGED <<store, ram, pc, history, saves>>

\* twr_config_save ignores what the writes returned.
EndSave ==
    /\ pc = "saving" /\ step = Len(Order)
    /\ settled' = IF failing THEN <<>> ELSE <<signature, config>>
    /\ pc' = "running" /\ step' = 0 /\ failing' = FALSE
    /\ UNCHANGED <<store, ram, attempted, saves, faults>>

\* Power fails; a word being programmed may be left spoiled.
PowerFails ==
    /\ pc # "off" /\ faults < MaxFaults
    /\ faults' = faults + 1
    /\ pc' = "off" /\ step' = 0 /\ failing' = FALSE
    /\ \/ UNCHANGED store
       \/ /\ pc = "saving" /\ step < Len(Order)
          /\ LET at == Order[step + 1]
             IN store' = [store EXCEPT ![at.bank][at.word] = Junk]
    /\ UNCHANGED <<ram, history, saves>>

\* One bank loses some of its words on its own (wear, a stray write): bank 2, since
\* a majority treats the three alike.
OneBankFails ==
    /\ pc # "saving" /\ settled # <<>> /\ faults < MaxFaults
    /\ faults' = faults + 1
    /\ \E lost \in SUBSET Word \ {{}} :
          store' = [store EXCEPT ![2] = [w \in Word |-> IF w \in lost THEN Junk ELSE store[2][w]]]
    /\ UNCHANGED <<ram, pc, step, failing, history, saves>>

Next == \/ Boot \/ Save \/ Reset \/ Load \/ Program \/ Refused \/ EndSave
        \/ PowerFails \/ OneBankFails

Spec == Init /\ [][Next]_vars
-------------------------------------------------------------------------------
\* What a save has completed survives: until the next save begins, a power-up of
\* the same firmware loads exactly that configuration, even after one bank has
\* lost any of its words.
Durable ==
    [][pc = "off" /\ pc' # "off" /\ settled # <<>> /\ signature' = settled[1]
        => pc' = "running" /\ config' = settled[2]]_vars

\* However often power fails inside saves, a power-up never accepts a mixture: it
\* finds a configuration that was once given to a save, or starts from the
\* default and saves it.
NeverMixed ==
    [][pc = "off" /\ pc' = "running" => \E s \in Signature : <<s, config'>> \in attempted]_vars

\* Saving again repairs every bank: a save that ends without a refused write
\* leaves the three banks equal, whatever earlier failures left in them.
SaveRepairs ==
    settled # <<>> /\ pc = "running" /\ (\A w \in Word : store[2][w] # Junk)
        => \A b \in Bank : store[b] = Row(settled[1], settled[2])
===============================================================================
