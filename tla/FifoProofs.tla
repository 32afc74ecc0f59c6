------------------------------ MODULE FifoProofs ------------------------------
(***************************************************************************)
(* Proofs about Fifo, for every array size, byte set and call length: that *)
(* it stays inside its array, and that it implements BoundedQueue.         *)
(***************************************************************************)
EXTENDS Fifo, SequenceTheorems, TLAPS

(***************************************************************************)
(* The inductive invariant.  InBounds is not inductive alone: that a store *)
(* stays inside the array rests on the index having been wrapped, hence on *)
(* no other context being inside the loop (Exclusive), hence on the mask.  *)
(***************************************************************************)
\* Where each context is tells how far its transfer has come.
Progress ==
    \A c \in Context :
        /\ pc[c] = "purge" => c = "main"
        /\ pc[c] \in WriteSteps => length[c] = Len(bytes[c])
        /\ i[c] <= length[c]
        /\ pc[c] \in (WriteSteps \cup ReadSteps) \ {"wtest", "rtest"} => i[c] < length[c]

IInv == TypeOK /\ InBounds /\ Exclusive /\ Progress

-------------------------------------------------------------------------------
\* The buffers of the callers are sequences of bytes of a bounded length.
LEMMA BuffersAreSequences ==
    \A bs \in Buffers : bs \in Seq(Byte) /\ Len(bs) \in 0..MaxLen
  <1> SUFFICES ASSUME NEW bs \in Buffers
               PROVE  bs \in Seq(Byte) /\ Len(bs) \in 0..MaxLen
      OBVIOUS
  <1>1. PICK n \in 0..MaxLen : bs \in [1..n -> Byte]
      BY DEF Buffers
  <1>2. n \in Nat
      BY <1>1, LenAssumption
  <1> QED
      BY <1>1, <1>2

\* twr_fifo_init leaves the ring in a state that satisfies the invariant.
LEMMA InitIInv == Init => IInv
  <1> SUFFICES ASSUME Init PROVE IInv
      OBVIOUS
  <1> USE DEF Init
  <1>0. /\ Size \in Nat /\ Size > 0 /\ MaxLen \in Nat
        /\ \A c \in Context : pc[c] = "idle" /\ length[c] = 0 /\ i[c] = 0
      BY SizeAssumption, LenAssumption
  <1>1. TypeOK
    <2>1. buffer \in [0..Size - 1 -> Byte] /\ head \in 0..Size /\ tail \in 0..Size
        BY <1>0
    <2>2. pc \in [Context -> Steps]
        BY DEF Steps
    <2>3. bytes \in [Context -> Seq(Byte)]
        OBVIOUS
    <2>4. length \in [Context -> 0..MaxLen] /\ i \in [Context -> 0..MaxLen]
        BY <1>0
    <2>5. masked \in BOOLEAN /\ verdict \in BOOLEAN /\ DOMAIN reply = Context
        OBVIOUS
    <2> QED
        BY <2>1, <2>2, <2>3, <2>4, <2>5 DEF TypeOK
  <1>2. InBounds
      BY <1>0 DEF InBounds
  <1>3. Exclusive
      BY <1>0 DEF Exclusive, Writing, Reading, WriteSteps, ReadSteps
  <1>4. Progress
      BY <1>0 DEF Progress, WriteSteps, ReadSteps
  <1> QED
      BY <1>1, <1>2, <1>3, <1>4 DEF IInv

-------------------------------------------------------------------------------
\* Whoever may enter a call finds nobody inside one.
LEMMA NobodyInside ==
    ASSUME IInv, NEW c \in Context, MayEnter(c)
    PROVE  \A d \in Context : pc[d] = "idle"
  <1>0. Context \subseteq {"main", "irq"}
      BY ContextAssumption
  <1>1. CASE c = "main"
      BY <1>1 DEF MayEnter, MayRun
  <1>2. CASE c = "irq"
    <2>1. ~masked
        BY <1>2 DEF MayEnter
    <2>2. \A d \in Context : d = "main" => ~Writing(d) /\ ~Reading(d)
        BY <2>1 DEF IInv, Exclusive
    <2>3. \A d \in Context : d = "main" => pc[d] = "idle"
        BY <2>2, <1>2 DEF IInv, TypeOK, Steps, Writing, Reading, MayEnter, Purging
    <2> QED
        BY <2>3, <1>2, <1>0 DEF MayEnter
  <1> QED
      BY <1>0, <1>1, <1>2

\* A call begins: the context was outside any call and so was every other.
LEMMA EnterStep ==
    ASSUME IInv, NEW c \in Context, NEW bs \in Seq(Byte), NEW n \in 0..MaxLen,
           NEW step \in {"wtest", "rtest"}, step = "wtest" => n = Len(bs),
           Enter(c, bs, n, step)
    PROVE  IInv'
  <1> USE DEF Enter, Goto, ring, answers
  <1>0. /\ Size \in Nat /\ Size > 0 /\ MaxLen \in Nat
        /\ Context \subseteq {"main", "irq"}
      BY SizeAssumption, LenAssumption, ContextAssumption
  <1>1. \A d \in Context : pc[d] = "idle"
      BY NobodyInside
  <1>2. TypeOK'
      BY <1>0 DEF IInv, TypeOK, Steps, WriteSteps, ReadSteps, Mask
  <1>3. /\ pc' = [pc EXCEPT ![c] = step] 
        /\ \A d \in Context : pc'[d] = IF d = c THEN step ELSE "idle"
      BY <1>1 DEF IInv, TypeOK
  <1>4. InBounds'
      BY <1>0, <1>1, <1>3 DEF IInv, InBounds
  <1>5. Exclusive'
    <2>1. ~masked \/ ~("main" \in Context)
      BY <1>1 DEF IInv, Exclusive, Writing, Reading, WriteSteps, ReadSteps
    <2> QED
      BY <1>0, <1>1, <1>3, <2>1 DEF Exclusive, Writing, Reading, WriteSteps, ReadSteps, Mask, MayEnter
  <1>6. Progress'
      BY <1>0, <1>1, <1>3 DEF IInv, TypeOK, Progress, WriteSteps, ReadSteps
  <1> QED
      BY <1>2, <1>4, <1>5, <1>6 DEF IInv

\* A call takes one more step of its loop: the ring stays with its context.
LEMMA StayInside ==
    ASSUME IInv, NEW c \in Context, NEW step \in WriteSteps \cup ReadSteps,
           pc[c] \in WriteSteps \cup ReadSteps,
           Goto(c, step), masked' = masked
    PROVE  /\ Exclusive'
           /\ pc' \in [Context -> Steps]
           /\ pc'[c] = step
           /\ \A d \in Context \ {c} : pc[d] = "idle" /\ pc'[d] = "idle"
  <1> USE DEF Goto, WriteSteps, ReadSteps
  <1>1. pc \in [Context -> Steps] /\ masked \in BOOLEAN
      BY DEF IInv, TypeOK
  <1>2. \A d \in Context \ {c} : pc[d] = "idle"
      BY DEF IInv, Exclusive
  <1>3. \A d \in Context : pc'[d] = IF d = c THEN step ELSE "idle"
      BY <1>1, <1>2
  <1>4. Exclusive'
    <2>1. c = "main" => (masked <=> TRUE)
        BY DEF IInv, Exclusive, Writing, Reading
    <2>2. c # "main" /\ "main" \in Context => ~masked
        BY <1>2 DEF IInv, Exclusive, Writing, Reading
    <2>3. \A d \in Context : (Writing(d) \/ Reading(d))' <=> d = c
        BY <1>3 DEF Writing, Reading
    <2> QED
        BY <1>3, <2>1, <2>2, <2>3 DEF Exclusive
  <1> QED
      BY <1>1, <1>2, <1>3, <1>4 DEF Steps

\* The call returns: the ring is free again and interrupts are as before it.
LEMMA ReturnStep ==
    ASSUME IInv, NEW c \in Context, NEW bs,
           pc[c] \in {"wtest", "rtest"}, Return(c, bs)
    PROVE  IInv'
  <1> USE DEF Return, Goto, WriteSteps, ReadSteps, ring
  <1>0. Size \in Nat /\ Size > 0 /\ MaxLen \in Nat
      BY SizeAssumption, LenAssumption
  <1>1. \A d \in Context : pc'[d] = "idle"
      BY DEF IInv, Exclusive, TypeOK
  <1>2. TypeOK'
      BY <1>0, <1>1 DEF IInv, TypeOK, Steps, Unmask
  <1>3. InBounds'
    <2>1. \A d \in Context : pc[d] # "wwrap" /\ pc[d] # "rwrap"
        BY DEF IInv, Exclusive
    <2> QED
        BY <1>1, <2>1 DEF IInv, InBounds
  <1>4. Exclusive'
    <2>1. "main" \in Context => ~masked'
      <3>1. CASE c = "main"
          BY <3>1 DEF Unmask
      <3>2. CASE c # "main"
        <4>1. "main" \in Context => pc["main"] = "idle"
            BY <3>2 DEF IInv, Exclusive
        <4> QED
            BY <4>1, <3>2 DEF IInv, Exclusive, Writing, Reading, Unmask
      <3> QED
          BY <3>1, <3>2
    <2> QED
        BY <1>1, <2>1 DEF Exclusive, Writing, Reading
  <1>5. Progress'
    <2>1. \A d \in Context : i'[d] <= length'[d]
        BY <1>0 DEF IInv, TypeOK, Progress
    <2> QED
        BY <1>1, <2>1 DEF Progress
  <1> QED
      BY <1>2, <1>3, <1>4, <1>5 DEF IInv

-------------------------------------------------------------------------------
\* An index is one past the array only in the hands of the call that wraps it.
LEMMA Indices ==
    ASSUME IInv, NEW c \in Context, pc[c] # "idle"
    PROVE  /\ pc[c] # "wwrap" => head \in 0..Size - 1
           /\ pc[c] # "rwrap" => tail \in 0..Size - 1
  <1>1. \A d \in Context : pc[d] # "idle" => d = c
      BY DEF IInv, Exclusive
  <1>2. /\ pc[c] # "wwrap" => head # Size
        /\ pc[c] # "rwrap" => tail # Size
      BY <1>1 DEF IInv, InBounds
  <1>3. head \in 0..Size /\ tail \in 0..Size /\ Size \in Nat
      BY SizeAssumption DEF IInv, TypeOK
  <1> QED
      BY <1>2, <1>3

\* A step of the write loop keeps the invariant.
LEMMA WriteStep == ASSUME IInv, NEW c \in Context, Write(c) PROVE IInv'
  <1> USE DEF Goto, At
  <1>0. /\ Size \in Nat /\ Size > 0 /\ MaxLen \in Nat
        /\ {"wstore", "whead", "wwrap", "wtest"} \subseteq WriteSteps \cup ReadSteps
      BY SizeAssumption, LenAssumption DEF WriteSteps, ReadSteps
  <1>1. CASE WriteCall(c)
      BY <1>1, BuffersAreSequences, EnterStep DEF WriteCall
  <1>2. CASE WriteTest(c)
    <2>1. CASE i[c] = length[c] \/ Full
        BY <1>2, <2>1, ReturnStep DEF WriteTest
    <2>2. CASE ~(i[c] = length[c] \/ Full)
      <3>1. Goto(c, "wstore") /\ UNCHANGED <<ring, masked, call, answers>> /\ pc[c] = "wtest"
          BY <1>2, <2>2 DEF WriteTest
      <3>2. /\ Exclusive' /\ pc' \in [Context -> Steps] /\ pc'[c] = "wstore"
            /\ \A d \in Context \ {c} : pc[d] = "idle" /\ pc'[d] = "idle"
          BY <1>0, <3>1, StayInside
      <3>3. TypeOK'
          BY <3>1, <3>2 DEF IInv, TypeOK, ring, call, answers
      <3>4. head \in 0..Size - 1 /\ tail \in 0..Size - 1
          BY <3>1, Indices
      <3>5. InBounds'
          BY <1>0, <3>1, <3>2, <3>4 DEF InBounds, ring
      <3>6. Progress'
          BY <1>0, <3>1, <3>2, <2>2 DEF IInv, TypeOK, Progress, call, WriteSteps, ReadSteps
      <3> QED
          BY <3>2, <3>3, <3>5, <3>6 DEF IInv
    <2> QED
        BY <2>1, <2>2
  <1>3. CASE WriteStore(c)
    <2>1. /\ Exclusive' /\ pc' \in [Context -> Steps] /\ pc'[c] = "whead"
          /\ \A d \in Context \ {c} : pc[d] = "idle" /\ pc'[d] = "idle"
        BY <1>0, <1>3, StayInside DEF WriteStore
    <2>2. bytes[c][i[c] + 1] \in Byte
      <3>1. pc[c] \in WriteSteps /\ pc[c] # "wtest" /\ pc[c] # "rtest"
          BY <1>3 DEF WriteStore, WriteSteps
      <3>2. i[c] < Len(bytes[c]) /\ i[c] \in Nat /\ bytes[c] \in Seq(Byte)
          BY <1>0, <3>1 DEF IInv, TypeOK, Progress
      <3> QED
          BY <3>2
    <2>3. TypeOK'
        BY <1>0, <1>3, <2>1, <2>2 DEF IInv, TypeOK, WriteStore, call, answers
    <2>4. head \in 0..Size - 1 /\ tail \in 0..Size - 1
        BY <1>0, <1>3, <2>1, Indices DEF WriteStore
    <2>5. InBounds'
        BY <1>0, <1>3, <2>1, <2>4 DEF InBounds, WriteStore
    <2>6. Progress'
        BY <1>0, <1>3, <2>1 DEF IInv, TypeOK, Progress, WriteStore, call, WriteSteps, ReadSteps
    <2> QED
        BY <2>1, <2>3, <2>5, <2>6 DEF IInv
  <1>4. CASE WriteHead(c)
    <2>1. /\ Exclusive' /\ pc' \in [Context -> Steps] /\ pc'[c] = "wwrap"
          /\ \A d \in Context \ {c} : pc[d] = "idle" /\ pc'[d] = "idle"
        BY <1>0, <1>4, StayInside DEF WriteHead
    <2>2. head \in 0..Size - 1 /\ tail \in 0..Size - 1
        BY <1>0, <1>4, <2>1, Indices DEF WriteHead
    <2>3. TypeOK'
        BY <1>0, <1>4, <2>1, <2>2 DEF IInv, TypeOK, WriteHead, call, answers
    <2>4. InBounds'
        BY <1>0, <1>4, <2>1, <2>2 DEF InBounds, WriteHead
    <2>5. Progress'
        BY <1>0, <1>4, <2>1 DEF IInv, TypeOK, Progress, WriteHead, call, WriteSteps, ReadSteps
    <2> QED
        BY <2>1, <2>3, <2>4, <2>5 DEF IInv
  <1>5. CASE WriteWrap(c)
    <2>1. /\ Exclusive' /\ pc' \in [Context -> Steps] /\ pc'[c] = "wtest"
          /\ \A d \in Context \ {c} : pc[d] = "idle" /\ pc'[d] = "idle"
        BY <1>0, <1>5, StayInside DEF WriteWrap
    <2>2. tail \in 0..Size - 1 /\ head' \in 0..Size - 1
      <3>1. pc[c] = "wwrap" /\ head' = IF head = Size THEN 0 ELSE head
          BY <1>5 DEF WriteWrap
      <3>2. tail \in 0..Size - 1 /\ head \in 0..Size
          BY <3>1, Indices DEF IInv, TypeOK
      <3> QED
          BY <1>0, <3>1, <3>2
    <2>3. i[c] < length[c]
        BY <1>5 DEF IInv, Progress, WriteWrap, WriteSteps, ReadSteps
    <2>4. TypeOK'
        BY <1>0, <1>5, <2>1, <2>2, <2>3 DEF IInv, TypeOK, WriteWrap, answers
    <2>5. InBounds'
        BY <1>0, <1>5, <2>1, <2>2 DEF InBounds, WriteWrap
    <2>6. Progress'
        BY <1>0, <1>5, <2>1, <2>3 DEF IInv, TypeOK, Progress, WriteWrap, WriteSteps, ReadSteps
    <2> QED
        BY <2>1, <2>4, <2>5, <2>6 DEF IInv
  <1> QED
      BY <1>1, <1>2, <1>3, <1>4, <1>5 DEF Write

\* A step of the read loop keeps the invariant.
LEMMA ReadStep == ASSUME IInv, NEW c \in Context, Read(c) PROVE IInv'
  <1> USE DEF Goto, At
  <1>0. /\ Size \in Nat /\ Size > 0 /\ MaxLen \in Nat
        /\ {"rtest", "rcopy", "rtail", "rwrap"} \subseteq WriteSteps \cup ReadSteps
      BY SizeAssumption, LenAssumption DEF WriteSteps, ReadSteps
  <1>1. CASE ReadCall(c)
    <2>1. <<>> \in Seq(Byte)
        OBVIOUS
    <2> QED
        BY <1>1, <2>1, EnterStep DEF ReadCall
  <1>2. CASE ReadTest(c)
    <2>1. CASE i[c] = length[c] \/ tail = head
        BY <1>2, <2>1, ReturnStep DEF ReadTest
    <2>2. CASE ~(i[c] = length[c] \/ tail = head)
      <3>1. Goto(c, "rcopy") /\ UNCHANGED <<ring, masked, call, answers>> /\ pc[c] = "rtest"
          BY <1>2, <2>2 DEF ReadTest
      <3>2. /\ Exclusive' /\ pc' \in [Context -> Steps] /\ pc'[c] = "rcopy"
            /\ \A d \in Context \ {c} : pc[d] = "idle" /\ pc'[d] = "idle"
          BY <1>0, <3>1, StayInside
      <3>3. TypeOK'
          BY <3>1, <3>2 DEF IInv, TypeOK, ring, call, answers
      <3>4. head \in 0..Size - 1 /\ tail \in 0..Size - 1
          BY <3>1, Indices
      <3>5. InBounds'
          BY <1>0, <3>1, <3>2, <3>4 DEF InBounds, ring
      <3>6. Progress'
          BY <1>0, <3>1, <3>2, <2>2 DEF IInv, TypeOK, Progress, call, WriteSteps, ReadSteps
      <3> QED
          BY <3>2, <3>3, <3>5, <3>6 DEF IInv
    <2> QED
        BY <2>1, <2>2
  <1>3. CASE ReadCopy(c)
    <2>1. /\ Exclusive' /\ pc' \in [Context -> Steps] /\ pc'[c] = "rtail"
          /\ \A d \in Context \ {c} : pc[d] = "idle" /\ pc'[d] = "idle"
        BY <1>0, <1>3, StayInside DEF ReadCopy
    <2>2. head \in 0..Size - 1 /\ tail \in 0..Size - 1
        BY <1>0, <1>3, <2>1, Indices DEF ReadCopy
    <2>3. buffer[tail] \in Byte
        BY <1>0, <2>2 DEF IInv, TypeOK
    <2>4. TypeOK'
        BY <1>0, <1>3, <2>1, <2>3 DEF IInv, TypeOK, ReadCopy, ring, answers
    <2>5. InBounds'
        BY <1>0, <1>3, <2>1, <2>2 DEF InBounds, ReadCopy, ring
    <2>6. Progress'
        BY <1>0, <1>3, <2>1 DEF IInv, TypeOK, Progress, ReadCopy, WriteSteps, ReadSteps
    <2> QED
        BY <2>1, <2>4, <2>5, <2>6 DEF IInv
  <1>4. CASE ReadTail(c)
    <2>1. /\ Exclusive' /\ pc' \in [Context -> Steps] /\ pc'[c] = "rwrap"
          /\ \A d \in Context \ {c} : pc[d] = "idle" /\ pc'[d] = "idle"
        BY <1>0, <1>4, StayInside DEF ReadTail
    <2>2. head \in 0..Size - 1 /\ tail \in 0..Size - 1
        BY <1>0, <1>4, <2>1, Indices DEF ReadTail
    <2>3. TypeOK'
        BY <1>0, <1>4, <2>1, <2>2 DEF IInv, TypeOK, ReadTail, call, answers
    <2>4. InBounds'
        BY <1>0, <1>4, <2>1, <2>2 DEF InBounds, ReadTail
    <2>5. Progress'
        BY <1>0, <1>4, <2>1 DEF IInv, TypeOK, Progress, ReadTail, call, WriteSteps, ReadSteps
    <2> QED
        BY <2>1, <2>3, <2>4, <2>5 DEF IInv
  <1>5. CASE ReadWrap(c)
    <2>1. /\ Exclusive' /\ pc' \in [Context -> Steps] /\ pc'[c] = "rtest"
          /\ \A d \in Context \ {c} : pc[d] = "idle" /\ pc'[d] = "idle"
        BY <1>0, <1>5, StayInside DEF ReadWrap
    <2>2. head \in 0..Size - 1 /\ tail' \in 0..Size - 1
      <3>1. pc[c] = "rwrap" /\ tail' = IF tail = Size THEN 0 ELSE tail
          BY <1>5 DEF ReadWrap
      <3>2. head \in 0..Size - 1 /\ tail \in 0..Size
          BY <3>1, Indices DEF IInv, TypeOK
      <3> QED
          BY <1>0, <3>1, <3>2
    <2>3. i[c] < length[c]
        BY <1>5 DEF IInv, Progress, ReadWrap, WriteSteps, ReadSteps
    <2>4. TypeOK'
        BY <1>0, <1>5, <2>1, <2>2, <2>3 DEF IInv, TypeOK, ReadWrap, answers
    <2>5. InBounds'
        BY <1>0, <1>5, <2>1, <2>2 DEF InBounds, ReadWrap
    <2>6. Progress'
        BY <1>0, <1>5, <2>1, <2>3 DEF IInv, TypeOK, Progress, ReadWrap, WriteSteps, ReadSteps
    <2> QED
        BY <2>1, <2>4, <2>5, <2>6 DEF IInv
  <1> QED
      BY <1>1, <1>2, <1>3, <1>4, <1>5 DEF Read

\* twr_fifo_is_empty and a step of nothing keep it: neither touches the ring.
LEMMA QuietStep == ASSUME IInv, IsEmpty \/ UNCHANGED vars PROVE IInv'
  <1>1. /\ UNCHANGED <<ring, masked, pc, call, reply>>
        /\ verdict' \in BOOLEAN
      BY DEF IsEmpty, vars, answers, IInv, TypeOK
  <1>2. TypeOK'
      BY <1>1 DEF IInv, TypeOK, ring, call
  <1>3. InBounds' /\ Exclusive' /\ Progress'
      BY <1>1 DEF IInv, InBounds, Exclusive, Progress, Writing, Reading, ring, call
  <1> QED
      BY <1>2, <1>3 DEF IInv

\* The two stores of twr_fifo_purge keep it: the main program is in no transfer,
\* and the handler stays out.
LEMMA PurgeStep == ASSUME IInv, Purge PROVE IInv'
  <1>0. /\ Size \in Nat /\ Size > 0 /\ MaxLen \in Nat /\ "main" \in Context
        /\ pc \in [Context -> Steps]
        /\ pc["main"] \in {"idle", "purge"}
        /\ UNCHANGED <<buffer, masked, call, answers>>
      BY SizeAssumption, LenAssumption
      DEF Purge, PurgeHead, PurgeTail, MayEnter, Purging, IInv, TypeOK
  <1>1. \A d \in Context : d # "main" => pc[d] = "idle"
    <2>1. CASE PurgeHead
        BY <2>1 DEF PurgeHead, MayEnter, MayRun
    <2>2. CASE PurgeTail
        BY <2>2, <1>0 DEF PurgeTail, Purging, IInv, Exclusive
    <2> QED
        BY <2>1, <2>2 DEF Purge
  <1>2. PICK step \in {"idle", "purge"} : pc' = [pc EXCEPT !["main"] = step]
      BY DEF Purge, PurgeHead, PurgeTail, Goto
  <1>3. \A d \in Context : pc'[d] = IF d = "main" THEN step ELSE "idle"
      BY <1>0, <1>1, <1>2
  <1>4. head \in 0..Size - 1 /\ tail \in 0..Size - 1
    <2>1. \A d \in Context : pc[d] # "wwrap" /\ pc[d] # "rwrap"
        BY <1>0, <1>1
    <2>2. head # Size /\ tail # Size /\ head \in 0..Size /\ tail \in 0..Size
        BY <2>1 DEF IInv, TypeOK, InBounds
    <2> QED
        BY <1>0, <2>2
  <1>5. head' \in 0..Size - 1 /\ tail' \in 0..Size - 1
      BY <1>0, <1>4 DEF Purge, PurgeHead, PurgeTail
  <1>6. TypeOK'
    <2>1. pc' \in [Context -> Steps]
        BY <1>0, <1>2 DEF Steps
    <2> QED
        BY <1>0, <1>5, <2>1 DEF IInv, TypeOK, call, answers
  <1>7. InBounds'
      BY <1>0, <1>3, <1>5 DEF InBounds
  <1>8. Exclusive'
    <2>1. ~masked'
        BY <1>0 DEF IInv, Exclusive, Writing, Reading, WriteSteps, ReadSteps
    <2> QED
        BY <1>3, <2>1 DEF Exclusive, Writing, Reading, WriteSteps, ReadSteps
  <1>9. Progress'
      BY <1>0, <1>1, <1>3 DEF IInv, Progress, WriteSteps, ReadSteps, call
  <1> QED
      BY <1>6, <1>7, <1>8, <1>9 DEF IInv

LEMMA NextIInv == IInv /\ [Next]_vars => IInv'
  BY WriteStep, ReadStep, QuietStep, PurgeStep DEF Next

-------------------------------------------------------------------------------
\* For every array size the loops of twr_fifo.c stay inside the array, and the
\* ring is never in the hands of two contexts: masking in the two main-program
\* variants is enough for the two handler variants to need none.
THEOREM FifoSafe == Spec => [](TypeOK /\ InBounds /\ Exclusive)
  <1>1. IInv => TypeOK /\ InBounds /\ Exclusive
      BY DEF IInv
  <1> QED
      BY InitIInv, NextIInv, <1>1, PTL DEF Spec

-------------------------------------------------------------------------------
(***************************************************************************)
(* The ring as a sequence.  Fifo states what it holds with remainders and  *)
(* indices that may stand at Size; the proofs use this form without them.  *)
(***************************************************************************)
\* The index a loop leaves at Size until its next statement is 0.
Low(x) == IF x = Size THEN 0 ELSE x

\* The ring between two indices, and what it holds, without the remainders.
Gap(h, t) == IF t <= h THEN h - t ELSE h + Size - t
Slot(t, k) == IF t + k <= Size THEN t + k - 1 ELSE t + k - 1 - Size
Ring(b, h, t) == [k \in 1..Gap(h, t) |-> b[Slot(t, k)]]

Index == 0..Size - 1
Array == [Index -> Byte]

\* No index of the loops needs more than one subtraction to come back into the array.
LEMMA Remainder ==
    ASSUME NEW n \in Nat, n > 0, NEW x \in Nat, x <= 2 * n
    PROVE  x % n = IF x < n THEN x ELSE IF x < 2 * n THEN x - n ELSE 0
  OBVIOUS

\* What Fifo says is stored is the ring between the two wrapped indices.
LEMMA RingIsStored ==
    ASSUME NEW b, NEW h \in 0..Size, NEW t \in 0..Size
    PROVE  [k \in 1..((h + Size - t) % Size) |-> b[(t + k - 1) % Size]] = Ring(b, Low(h), Low(t))
  <1>0. Size \in Nat /\ Size > 0
      BY SizeAssumption
  <1>1. (h + Size - t) % Size = Gap(Low(h), Low(t))
    <2>1. h + Size - t \in Nat /\ h + Size - t <= 2 * Size
        BY <1>0
    <2>2. (h + Size - t) % Size =
            IF h + Size - t < Size THEN h + Size - t
            ELSE IF h + Size - t < 2 * Size THEN h + Size - t - Size ELSE 0
        BY <1>0, <2>1, Remainder
    <2> QED
        BY <1>0, <2>2 DEF Low, Gap
  <1>2. Gap(Low(h), Low(t)) \in 0..Size - 1
      BY <1>0 DEF Low, Gap
  <1>3. ASSUME NEW k \in 1..Gap(Low(h), Low(t))
        PROVE  (t + k - 1) % Size = Slot(Low(t), k)
    <2>1. k \in Nat /\ k >= 1 /\ k < Size
        BY <1>0, <1>2
    <2>2. t + k - 1 \in Nat /\ t + k - 1 < 2 * Size
        BY <1>0, <2>1
    <2>3. (t + k - 1) % Size = IF t + k - 1 < Size THEN t + k - 1 ELSE t + k - 1 - Size
        BY <1>0, <2>2, Remainder
    <2> QED
        BY <1>0, <2>1, <2>3 DEF Low, Slot
  <1> QED
      BY <1>1, <1>3 DEF Ring

\* The ring is a sequence of at most Size - 1 bytes: one slot tells full from empty.
LEMMA RingIsSequence ==
    ASSUME NEW b \in Array, NEW h \in Index, NEW t \in Index
    PROVE  /\ Ring(b, h, t) \in Seq(Byte)
           /\ Len(Ring(b, h, t)) = Gap(h, t) /\ Gap(h, t) \in Index
           /\ Ring(b, h, t) = <<>> <=> h = t
           /\ Gap(h, t) = Size - 1 <=> Low(h + 1) = t
  <1>0. Size \in Nat /\ Size > 0
      BY SizeAssumption
  <1>1. Gap(h, t) \in Index /\ (Gap(h, t) = 0 <=> h = t)
      BY <1>0 DEF Gap, Index
  <1>2. \A k \in 1..Gap(h, t) : Slot(t, k) \in Index
      BY <1>0, <1>1 DEF Slot, Index
  <1>3. Ring(b, h, t) \in [1..Gap(h, t) -> Byte]
      BY <1>2 DEF Ring, Array
  <1>4. Gap(h, t) \in Nat
      BY <1>0, <1>1 DEF Index
  <1>5. Ring(b, h, t) \in Seq(Byte) /\ Len(Ring(b, h, t)) = Gap(h, t)
      BY <1>3, <1>4
  <1>6. Gap(h, t) = Size - 1 <=> Low(h + 1) = t
      BY <1>0 DEF Gap, Low, Index
  <1>7. Ring(b, h, t) = <<>> <=> h = t
      BY <1>1, <1>5, EmptySeq
  <1> QED
      BY <1>1, <1>5, <1>6, <1>7

\* A store at head is not in the ring yet.
LEMMA RingStore ==
    ASSUME NEW b \in Array, NEW h \in Index, NEW t \in Index, NEW x
    PROVE  Ring([b EXCEPT ![h] = x], h, t) = Ring(b, h, t)
  <1>0. Size \in Nat /\ Size > 0
      BY SizeAssumption
  <1>1. ASSUME NEW k \in 1..Gap(h, t) 
        PROVE  [b EXCEPT ![h] = x][Slot(t, k)] = b[Slot(t, k)]
    <2>1. Slot(t, k) \in Index /\ Slot(t, k) # h
        BY <1>0 DEF Gap, Slot, Index
    <2> QED
        BY <2>1 DEF Array
  <1> QED
      BY <1>1 DEF Ring

\* Moving head over a stored byte appends it.
LEMMA RingPut ==
    ASSUME NEW b \in Array, NEW h \in Index, NEW t \in Index, Low(h + 1) # t
    PROVE  Ring(b, Low(h + 1), t) = Append(Ring(b, h, t), b[h])
  <1>0. Size \in Nat /\ Size > 0
      BY SizeAssumption
  <1>1. Low(h + 1) \in Index
      BY <1>0 DEF Low, Index
  <1>2. Gap(Low(h + 1), t) = Gap(h, t) + 1
      BY <1>0 DEF Low, Gap, Index
  <1>3. Slot(t, Gap(h, t) + 1) = h
      BY <1>0 DEF Gap, Slot, Index
  <1> DEFINE r == Ring(b, h, t)
             s == Ring(b, Low(h + 1), t)
             a == Append(r, b[h])
  <1>4. r \in Seq(Byte) /\ Len(r) = Gap(h, t) /\ Gap(h, t) \in Nat
    <2>1. Index \subseteq Nat
        BY <1>0 DEF Index
    <2> QED
        BY <2>1, RingIsSequence
  <1>5. s \in Seq(Byte) /\ Len(s) = Gap(h, t) + 1
      BY <1>1, <1>2, RingIsSequence
  <1>6. a \in Seq(Byte) /\ Len(a) = Gap(h, t) + 1
      BY <1>4 DEF Array
  <1>7. ASSUME NEW k \in 1..Gap(h, t) + 1 PROVE s[k] = a[k]
    <2>1. s[k] = b[Slot(t, k)]
        BY <1>2, <1>7 DEF Ring
    <2>2. CASE k = Gap(h, t) + 1
      <3>1. a[k] = b[h]
          BY <1>4, <2>2
      <3> QED
          BY <2>1, <2>2, <3>1, <1>3
    <2>3. CASE k # Gap(h, t) + 1
      <3>1. k \in 1..Gap(h, t)
          BY <1>4, <2>3
      <3>2. a[k] = r[k]
          BY <1>4, <3>1
      <3>3. r[k] = b[Slot(t, k)]
          BY <3>1 DEF Ring
      <3> QED
          BY <2>1, <3>2, <3>3
    <2> QED
        BY <2>2, <2>3
  <1> HIDE DEF r, s, a
  <1>8. s = a
      BY <1>4, <1>5, <1>6, <1>7, SeqEqual
  <1> QED
      BY <1>8 DEF s, a, r

\* Moving tail over a byte takes the oldest.
LEMMA RingTake ==
    ASSUME NEW b \in Array, NEW h \in Index, NEW t \in Index, h # t
    PROVE  Ring(b, h, t) = <<b[t]>> \o Ring(b, h, Low(t + 1))
  <1>0. Size \in Nat /\ Size > 0
      BY SizeAssumption
  <1>1. Low(t + 1) \in Index
      BY <1>0 DEF Low, Index
  <1>2. Gap(h, t) = Gap(h, Low(t + 1)) + 1
      BY <1>0 DEF Low, Gap, Index
  <1>3. Slot(t, 1) = t /\ \A k \in 1..Gap(h, Low(t + 1)) : Slot(t, k + 1) = Slot(Low(t + 1), k)
      BY <1>0 DEF Gap, Slot, Index, Low
  <1> DEFINE r == Ring(b, h, Low(t + 1))
             s == Ring(b, h, t)
             n == Gap(h, Low(t + 1))
             a == <<b[t]>> \o r
  <1>4. r \in Seq(Byte) /\ Len(r) = n /\ n \in Nat
    <2>1. Index \subseteq Nat
        BY <1>0 DEF Index
    <2>2. \A u \in Index : /\ Ring(b, h, u) \in Seq(Byte)
                           /\ Len(Ring(b, h, u)) = Gap(h, u) /\ Gap(h, u) \in Index
        BY RingIsSequence
    <2> QED
        BY <1>1, <2>1, <2>2
  <1>5. s \in Seq(Byte) /\ Len(s) = n + 1
      BY <1>2, RingIsSequence
  <1>6. <<b[t]>> \in Seq(Byte) /\ Len(<<b[t]>>) = 1 /\ <<b[t]>>[1] = b[t]
      BY DEF Array
  <1>7. a \in Seq(Byte) /\ Len(a) = n + 1 
      BY <1>4, <1>6
  <1>8. ASSUME NEW k \in 1..n + 1 PROVE s[k] = a[k]
    <2>1. s[k] = b[Slot(t, k)]
        BY <1>2, <1>8 DEF Ring
    <2>2. CASE k = 1
      <3>1. a[k] = b[t]
          BY <1>4, <1>6, <2>2
      <3> QED
          BY <2>1, <2>2, <3>1, <1>3
    <2>3. CASE k # 1
      <3>1. k - 1 \in 1..n /\ k = (k - 1) + 1
          BY <1>4, <2>3
      <3>2. a[k] = r[k - 1]
          BY <1>4, <1>6, <3>1
      <3>3. r[k - 1] = b[Slot(Low(t + 1), k - 1)]
          BY <3>1 DEF Ring
      <3>4. Slot(t, k) = Slot(Low(t + 1), k - 1)
          BY <1>3, <3>1
      <3> QED
          BY <2>1, <3>2, <3>3, <3>4
    <2> QED
        BY <2>2, <2>3
  <1> HIDE DEF r, s, a, n
  <1>9. s = a
      BY <1>4, <1>5, <1>7, <1>8, SeqEqual
  <1> QED
      BY <1>9 DEF s, a, r

\* A concatenation taken apart again.
LEMMA TakenApart ==
    ASSUME NEW S, NEW s \in Seq(S), NEW t \in Seq(S)
    PROVE  /\ SubSeq(s \o t, 1, Len(s)) = s
           /\ SubSeq(s \o t, Len(s) + 1, Len(s \o t)) = t
  <1>0. /\ Len(s) \in Nat /\ Len(t) \in Nat
        /\ s \o t \in Seq(S) /\ Len(s \o t) = Len(s) + Len(t)
      BY ConcatProperties, LenProperties
  <1>1. SubSeq(s \o t, 1, Len(s)) = s
    <2>1. CASE Len(s) = 0
      <3>1. s = <<>>
          BY <2>1, EmptySeq
      <3> QED
          BY <2>1, <3>1, SubSeqEmpty
    <2>2. CASE Len(s) # 0
      <3>1. 1 \in 1..Len(s) /\ Len(s) \in 1..Len(s)
          BY <1>0, <2>2
      <3>2. SubSeq(s \o t, 1, Len(s)) = SubSeq(s, 1, Len(s))
          BY <3>1, SubSeqOfConcat1
      <3> QED
          BY <3>2, SubSeqFull
    <2> QED
        BY <2>1, <2>2
  <1>2. SubSeq(s \o t, Len(s) + 1, Len(s) + Len(t)) = t
    <2>1. CASE Len(t) = 0
      <3>1. t = <<>>
          BY <2>1, EmptySeq
      <3>2. Len(s) + Len(t) < Len(s) + 1 /\ Len(s) + Len(t) \in Int /\ Len(s) + 1 \in Int
          BY <1>0, <2>1
      <3> QED
          BY <3>1, <3>2, SubSeqEmpty
    <2>2. CASE Len(t) # 0
      <3>1. /\ Len(s) + 1 \in Len(s) + 1..Len(s) + Len(t)
            /\ Len(s) + Len(t) \in Len(s) + 1..Len(s) + Len(t)
            /\ Len(s) + 1 - Len(s) = 1 /\ Len(s) + Len(t) - Len(s) = Len(t)
          BY <1>0, <2>2
      <3>2. SubSeq(s \o t, Len(s) + 1, Len(s) + Len(t)) = SubSeq(t, 1, Len(t))
          BY <3>1, SubSeqOfConcat2
      <3> QED
          BY <3>2, SubSeqFull
    <2> QED
        BY <2>1, <2>2
  <1> QED
      BY <1>0, <1>1, <1>2

\* A prefix and the element after it.
LEMMA OneMoreOf ==
    ASSUME NEW S, NEW s \in Seq(S), NEW n \in Nat, n < Len(s)
    PROVE  /\ SubSeq(s, 1, n) \in Seq(S) /\ SubSeq(s, 1, n + 1) \in Seq(S)
           /\ Len(SubSeq(s, 1, n)) = n
           /\ <<s[n + 1]>> \in Seq(S)
           /\ SubSeq(s, 1, n + 1) = SubSeq(s, 1, n) \o <<s[n + 1]>>
  <1>0. Len(s) \in Nat /\ \A k \in 1..Len(s) : s[k] \in S
      BY LenProperties, ElementOfSeq
  <1>1. n + 1 \in 1..Len(s) /\ 1 \in 1..Len(s) /\ n + 1 \in 1..Len(s) /\ n + 1 - 1 = n
      BY <1>0
  <1>2. SubSeq(s, 1, n + 1) = SubSeq(s, 1, n) \o <<s[n + 1]>>
    <2>1. 1 \in 1..Len(s) /\ n + 1 \in 1..Len(s)
        BY <1>1
    <2> QED
        BY <2>1, <1>1, SubSeqRecursiveSecond
  <1>3. SubSeq(s, 1, n) \in Seq(S) /\ Len(SubSeq(s, 1, n)) = n
    <2>1. \A k \in 1..n : s[k] \in S
        BY <1>0
    <2>2. /\ SubSeq(s, 1, n) \in Seq(S)
          /\ Len(SubSeq(s, 1, n)) = IF 1 <= n THEN n - 1 + 1 ELSE 0
        BY <2>1, SubSeqProperties
    <2> QED
        BY <2>2
  <1>4. SubSeq(s, 1, n + 1) \in Seq(S)
    <2>1. \A k \in 1..n + 1 : s[k] \in S
        BY <1>0
    <2> QED
        BY <2>1, SubSeqProperties
  <1>5. <<s[n + 1]>> \in Seq(S)
    <2>1. s[n + 1] \in S
        BY <1>0, <1>1
    <2> QED
        BY <2>1
  <1> QED
      BY <1>2, <1>3, <1>4, <1>5
-------------------------------------------------------------------------------
\* What the ring holds now.
Held == Ring(buffer, Low(head), Low(tail))

\* What it held when the write of a context began, and what has passed an index since.
Kept(c) == SubSeq(Held, 1, Len(Held) - Moved(c))
Passed(c) == SubSeq(bytes[c], 1, Moved(c))

\* A transfer is half done: a write has appended what it passed to what the ring held,
\* a read still has in hand what it took from it.
Transfer ==
    /\ \A c \in Context : Writing(c) =>
        /\ Moved(c) <= Len(Held) /\ Held = Kept(c) \o Passed(c)
        /\ pc[c] \in {"wstore", "whead"} => Low(head + 1) # tail
        /\ pc[c] = "whead" => buffer[head] = bytes[c][i[c] + 1]
    /\ \A c \in Context : Reading(c) =>
        /\ Len(bytes[c]) = IF pc[c] \in {"rtail", "rwrap"} THEN i[c] + 1 ELSE i[c]
        /\ pc[c] \in {"rcopy", "rtail"} => head # tail
        /\ pc[c] = "rtail" => bytes[c][i[c] + 1] = buffer[tail]
    /\ Purging => head = 0

TInv == IInv /\ Transfer

-------------------------------------------------------------------------------
(***************************************************************************)
(* The steps of Fifo as steps of BoundedQueue.                             *)
(***************************************************************************)
\* What the mapping gives, in each phase of a call.
HeldMeans ==
    /\ Stored = Held /\ Span = Len(Held)
    /\ Low(head) \in Index /\ Low(tail) \in Index /\ buffer \in Array
    /\ Held \in Seq(Byte) /\ Len(Held) \in Index
    /\ Held = <<>> <=> Low(head) = Low(tail)
    /\ Len(Held) = Size - 1 <=> Low(Low(head) + 1) = Low(tail)

ItemsMean ==
    /\ Purging => Items = <<>>
    /\ \A c \in Context : Writing(c) => Items = Kept(c)
    /\ \A c \in Context : Reading(c) => Items = Passed(c) \o Held
    /\ (\A c \in Context : pc[c] = "idle") => Items = Held

\* The mapping, case by case, in every state of the invariant.
LEMMA Meaning == IInv => HeldMeans /\ ItemsMean
  <1> SUFFICES ASSUME IInv PROVE HeldMeans /\ ItemsMean
      OBVIOUS
  <1>0. Size \in Nat /\ Size > 0
      BY SizeAssumption
  <1>1. /\ head \in 0..Size /\ tail \in 0..Size /\ buffer \in Array
        /\ Low(head) \in Index /\ Low(tail) \in Index
      BY <1>0 DEF IInv, TypeOK, Low, Index, Array
  <1>2. Stored = Held
      BY <1>1, RingIsStored DEF Stored, Span, Held
  <1>3. /\ Held \in Seq(Byte) /\ Len(Held) \in Index
        /\ Held = <<>> <=> Low(head) = Low(tail)
        /\ Len(Held) = Size - 1 <=> Low(Low(head) + 1) = Low(tail)
      BY <1>1, RingIsSequence DEF Held
  <1>4. Span = Len(Held)
    <2>1. Span \in Int /\ Span >= 0
        BY <1>0, <1>1 DEF Span
    <2>2. Len(Stored) = Span
        BY <2>1 DEF Stored
    <2> QED
        BY <1>2, <2>2
  <1>5. HeldMeans
      BY <1>1, <1>2, <1>3, <1>4 DEF HeldMeans
  <1>6. \A c, d \in Context : pc[c] # "idle" /\ pc[d] # "idle" => c = d
      BY DEF IInv, Exclusive
  <1>7. \A c \in Context : Writing(c) => pc[c] # "idle" /\ ~Reading(c) /\ pc[c] # "purge"
      BY DEF Writing, Reading, WriteSteps, ReadSteps
  <1>8. \A c \in Context : Reading(c) => pc[c] # "idle" /\ ~Writing(c) /\ pc[c] # "purge"
      BY DEF Writing, Reading, WriteSteps, ReadSteps
  <1>9. ASSUME NEW c \in Context, Writing(c) PROVE Items = Kept(c)
    <2>1. ~Purging
        BY <1>6, <1>7, <1>9 DEF Purging
    <2>2. (CHOOSE d \in Context : Writing(d)) = c
        BY <1>6, <1>7, <1>9
    <2> QED
        BY <1>2, <1>4, <1>9, <2>1, <2>2 DEF Items, Kept
  <1>10. ASSUME NEW c \in Context, Reading(c) PROVE Items = Passed(c) \o Held
    <2>1. ~Purging
        BY <1>6, <1>8, <1>10 DEF Purging
    <2>2. (CHOOSE d \in Context : Reading(d)) = c
        BY <1>6, <1>8, <1>10
    <2>3. ~ \E d \in Context : Writing(d)
        BY <1>6, <1>7, <1>8, <1>10
    <2> QED
        BY <1>2, <1>10, <2>1, <2>2, <2>3 DEF Items, Passed
  <1>11. (\A c \in Context : pc[c] = "idle") => Items = Held
      BY <1>2, <1>7, <1>8 DEF Items, Purging
  <1>12. Purging => Items = <<>>
      BY DEF Items
  <1>13. ItemsMean
      BY <1>9, <1>10, <1>11, <1>12 DEF ItemsMean
  <1> QED
      BY <1>5, <1>13

\* The same of the state after a step.
LEMMA MeaningAfter == ASSUME IInv' PROVE HeldMeans' /\ ItemsMean'
  BY Meaning, PTL

\* When a call is under way in one context, nothing else is.
LEMMA Alone ==
    ASSUME Exclusive, NEW c \in Context, pc[c] # "idle"
    PROVE  \A d \in Context : d # c => ~Writing(d) /\ ~Reading(d) /\ pc[d] # "purge"
  BY DEF Exclusive, Writing, Reading, WriteSteps, ReadSteps

\* The same of the state after a step.
LEMMA AloneAfter ==
    ASSUME Exclusive', NEW c \in Context, pc'[c] # "idle"
    PROVE  \A d \in Context : d # c => ~Writing(d)' /\ ~Reading(d)' /\ pc'[d] # "purge"
  BY DEF Exclusive, Writing, Reading, WriteSteps, ReadSteps

\* twr_fifo_write: what each statement does to the mapped queue.
LEMMA StoreMapped ==
    ASSUME TInv, IInv', NEW c \in Context, WriteStore(c)
    PROVE  Transfer' /\ UNCHANGED Abstract!qvars
  <1>1. /\ pc[c] = "wstore" /\ pc'[c] = "whead" 
        /\ buffer' = [buffer EXCEPT ![head] = bytes[c][i[c] + 1]]
        /\ UNCHANGED <<head, tail, bytes, length, i, reply, verdict>>
      BY DEF WriteStore, At, Goto, TInv, IInv, TypeOK, call, answers
  <1>2. HeldMeans /\ ItemsMean /\ HeldMeans' /\ ItemsMean'
      BY Meaning, MeaningAfter DEF TInv
  <1>3. head \in Index /\ tail \in Index /\ Low(head) = head /\ Low(tail) = tail
    <2>1. head \in Index /\ tail \in Index
        BY <1>1, Indices DEF TInv, Index
    <2> QED
        BY <2>1, SizeAssumption DEF Low, Index
  <1>4. Held' = Held
    <2>1. buffer \in Array
        BY <1>2 DEF HeldMeans
    <2>2. \A x : Ring([buffer EXCEPT ![head] = x], head, tail) = Ring(buffer, head, tail)
        BY <1>3, <2>1, RingStore
    <2>3. Held' = Ring(buffer', head, tail)
        BY <1>1, <1>3 DEF Held, Low
    <2> QED
        BY <1>1, <1>3, <2>2, <2>3 DEF Held
  <1>5. /\ Writing(c) /\ Writing(c)' /\ ~Reading(c)' /\ Moved(c)' = Moved(c)
        /\ Kept(c)' = Kept(c) /\ Passed(c)' = Passed(c) 
      BY <1>1, <1>4 DEF Writing, Reading, WriteSteps, ReadSteps, Moved, Kept, Passed
  <1>6. Items' = Items
      BY <1>2, <1>4, <1>5 DEF ItemsMean
  <1>7. buffer'[head'] = bytes'[c][i'[c] + 1]
      BY <1>1, <1>2, <1>3 DEF HeldMeans, Array
  <1>8. Transfer'
    <2>1. \A d \in Context : d # c => ~Writing(d)' /\ ~Reading(d)' /\ pc'[d] # "purge"
        BY <1>1, AloneAfter DEF IInv
    <2>2. ~Purging'
        BY <1>1, <2>1 DEF Purging
    <2>3. Moved(c)' <= Len(Held') /\ Held' = Kept(c)' \o Passed(c)'
        BY <1>4, <1>5 DEF TInv, Transfer
    <2>4. Low(head' + 1) # tail'
        BY <1>1, <1>5 DEF TInv, Transfer
    <2> QED
        BY <1>1, <1>5, <1>7, <2>1, <2>2, <2>3, <2>4 DEF Transfer, Low
  <1> QED
      BY <1>1, <1>6, <1>8 DEF Abstract!qvars

\* During a call there is only that call's share of Transfer to establish.
LEMMA TransferOfWrite ==
    ASSUME Exclusive', NEW c \in Context, Writing(c)',
           Moved(c)' <= Len(Held'), Held' = Kept(c)' \o Passed(c)',
           pc'[c] \in {"wstore", "whead"} => Low(head' + 1) # tail',
           pc'[c] = "whead" => buffer'[head'] = bytes'[c][i'[c] + 1]
    PROVE  Transfer'
  <1>1. pc'[c] # "idle" /\ ~Reading(c)' /\ pc'[c] # "purge"
      BY DEF Writing, Reading, WriteSteps, ReadSteps
  <1>2. \A d \in Context : d # c => ~Writing(d)' /\ ~Reading(d)' /\ pc'[d] # "purge"
      BY <1>1, AloneAfter
  <1> QED
      BY <1>1, <1>2 DEF Transfer, Purging, Low

\* The same of a read.
LEMMA TransferOfRead ==
    ASSUME Exclusive', NEW c \in Context, Reading(c)',
           Len(bytes'[c]) = IF pc'[c] \in {"rtail", "rwrap"} THEN i'[c] + 1 ELSE i'[c],
           pc'[c] \in {"rcopy", "rtail"} => head' # tail',
           pc'[c] = "rtail" => bytes'[c][i'[c] + 1] = buffer'[tail']
    PROVE  Transfer'
  <1>1. pc'[c] # "idle" /\ ~Writing(c)' /\ pc'[c] # "purge"
      BY DEF Writing, Reading, WriteSteps, ReadSteps
  <1>2. \A d \in Context : d # c => ~Writing(d)' /\ ~Reading(d)' /\ pc'[d] # "purge"
      BY <1>1, AloneAfter
  <1> QED
      BY <1>1, <1>2 DEF Transfer, Purging

\* Outside any call there is nothing to establish.
LEMMA TransferOfNone ==
    ASSUME \A d \in Context : pc'[d] = "idle"
    PROVE  Transfer'
  BY DEF Transfer, Writing, Reading, Purging, WriteSteps, ReadSteps

\* A write that begins leaves the queue alone.
LEMMA WriteCallMapped ==
    ASSUME TInv, IInv', NEW c \in Context, WriteCall(c)
    PROVE  Transfer' /\ UNCHANGED Abstract!qvars
  <1>0. Size \in Nat /\ Size > 0
      BY SizeAssumption
  <1>1. PICK bs \in Buffers : Enter(c, bs, Len(bs), "wtest")
      BY DEF WriteCall
  <1>2. /\ pc'[c] = "wtest" /\ i'[c] = 0 /\ bytes'[c] = bs
        /\ UNCHANGED <<buffer, head, tail, reply, verdict>>
      BY <1>1 DEF Enter, Goto, TInv, IInv, TypeOK, ring, answers
  <1>3. \A d \in Context : pc[d] = "idle"
      BY <1>1, NobodyInside DEF Enter, TInv
  <1>4. HeldMeans /\ ItemsMean /\ HeldMeans' /\ ItemsMean'
      BY Meaning, MeaningAfter DEF TInv
  <1>5. Held' = Held /\ Held \in Seq(Byte) /\ Len(Held) \in Nat /\ Items = Held
    <2>1. Len(Held) \in Index /\ Held \in Seq(Byte) /\ Items = Held
        BY <1>3, <1>4 DEF HeldMeans, ItemsMean
    <2>2. Held' = Held
        BY <1>2 DEF Held, Low
    <2> QED
        BY <2>1, <2>2, <1>0 DEF Index
  <1>6. Writing(c)' /\ Moved(c)' = 0
      BY <1>2 DEF Writing, WriteSteps, Moved
  <1>7. Kept(c)' = Held
    <2>1. SubSeq(Held, 1, Len(Held)) = Held /\ Len(Held) - 0 = Len(Held)
        BY <1>5, SubSeqFull
    <2> QED
        BY <1>5, <1>6, <2>1 DEF Kept
  <1>8. Passed(c)' = <<>>
      BY <1>6, SubSeqEmpty DEF Passed
  <1>9. Held \o <<>> = Held
      BY <1>5, ConcatEmptySeq
  <1>10. Transfer'
    <2>1. Exclusive'
        BY DEF IInv
    <2>2. Moved(c)' <= Len(Held')
        BY <1>5, <1>6
    <2> QED
        BY <1>2, <1>5, <1>6, <1>7, <1>8, <1>9, <2>1, <2>2, TransferOfWrite
  <1>11. Items' = Items
      BY <1>4, <1>5, <1>6, <1>7 DEF ItemsMean
  <1> QED
      BY <1>2, <1>10, <1>11 DEF Abstract!qvars

\* The test of the loop, when it goes on.
LEMMA WriteGoesOnMapped ==
    ASSUME TInv, IInv', NEW c \in Context, WriteTest(c), ~(i[c] = length[c] \/ Full)
    PROVE  Transfer' /\ UNCHANGED Abstract!qvars
  <1>0. Size \in Nat /\ Size > 0
      BY SizeAssumption
  <1>1. /\ pc[c] = "wtest" /\ pc'[c] = "wstore"
        /\ UNCHANGED <<buffer, head, tail, bytes, i, reply, verdict>>
      BY DEF WriteTest, At, Goto, TInv, IInv, TypeOK, ring, call, answers
  <1>2. HeldMeans /\ ItemsMean /\ HeldMeans' /\ ItemsMean'
      BY Meaning, MeaningAfter DEF TInv
  <1>3. /\ Writing(c) /\ Writing(c)' /\ Held' = Held /\ Moved(c)' = Moved(c)
        /\ Kept(c)' = Kept(c) /\ Passed(c)' = Passed(c)
      BY <1>1 DEF Writing, WriteSteps, Moved, Kept, Passed, Held, Low
  <1>4. Low(head + 1) # tail
    <2>1. head \in 0..Size - 1 /\ tail \in 0..Size - 1
        BY <1>1, Indices DEF TInv
    <2>2. head + 1 # tail /\ ~(head + 1 = Size /\ tail = 0)
        BY DEF Full
    <2> QED
        BY <1>0, <2>1, <2>2 DEF Low
  <1>5. Transfer'
    <2>1. Exclusive' /\ Moved(c)' <= Len(Held') /\ Held' = Kept(c)' \o Passed(c)'
        BY <1>3 DEF IInv, TInv, Transfer
    <2>2. Low(head' + 1) # tail'
        BY <1>1, <1>4
    <2> QED
        BY <1>1, <1>3, <2>1, <2>2, TransferOfWrite
  <1>6. Items' = Items
      BY <1>2, <1>3 DEF ItemsMean
  <1> QED
      BY <1>1, <1>5, <1>6 DEF Abstract!qvars

\* An element appended leaves every prefix what it was.
LEMMA KeptByAppend ==
    ASSUME NEW S, NEW s \in Seq(S), NEW e \in S, NEW n \in Nat, n <= Len(s)
    PROVE  SubSeq(Append(s, e), 1, n) = SubSeq(s, 1, n) /\ SubSeq(s, 1, n) \in Seq(S)
  <1> DEFINE a == Append(s, e)
             p == SubSeq(a, 1, n)
             q == SubSeq(s, 1, n)
  <1>0. /\ Len(s) \in Nat /\ a \in Seq(S) /\ Len(a) = Len(s) + 1
        /\ \A k \in 1..Len(s) : a[k] = s[k] /\ s[k] \in S
      BY AppendProperties, LenProperties, ElementOfSeq
  <1>1. \A k \in 1..n : k \in 1..Len(s) /\ n - 1 + 1 = n /\ 1 + k - 1 = k
      BY <1>0
  <1>2. q \in Seq(S) /\ Len(q) = n /\ \A k \in 1..n : q[k] = s[k]
    <2>1. \A k \in 1..n : s[k] \in S
        BY <1>0, <1>1
    <2> QED
        BY <1>1, <2>1, SubSeqProperties
  <1>3. p \in Seq(S) /\ Len(p) = n /\ \A k \in 1..n : p[k] = a[k]
    <2>1. \A k \in 1..n : a[k] \in S
        BY <1>0, <1>1
    <2> HIDE DEF a
    <2> QED
        BY <1>1, <2>1, SubSeqProperties
  <1>4. \A k \in 1..n : p[k] = q[k]
      BY <1>0, <1>1, <1>2, <1>3
  <1> HIDE DEF p, q
  <1>5. p = q
      BY <1>2, <1>3, <1>4, SeqEqual
  <1> QED
      BY <1>2, <1>5 DEF p, q, a

\* Moving head over the stored byte adds it to the ring and to what the call has passed.
LEMMA HeadMapped ==
    ASSUME TInv, IInv', NEW c \in Context, WriteHead(c)
    PROVE  Transfer' /\ UNCHANGED Abstract!qvars
  <1>0. Size \in Nat /\ Size > 0
      BY SizeAssumption
  <1>1. /\ pc[c] = "whead" /\ pc'[c] = "wwrap" /\ head' = head + 1
        /\ UNCHANGED <<buffer, tail, bytes, length, i, reply, verdict>>
      BY DEF WriteHead, At, Goto, TInv, IInv, TypeOK, call, answers
  <1>2. HeldMeans /\ ItemsMean /\ HeldMeans' /\ ItemsMean'
      BY Meaning, MeaningAfter DEF TInv
  <1>3. head \in Index /\ tail \in Index /\ Low(head) = head /\ Low(tail) = tail
    <2>1. head \in Index /\ tail \in Index
        BY <1>1, Indices DEF TInv, Index
    <2> QED
        BY <2>1, SizeAssumption DEF Low, Index
  <1>4. Writing(c) /\ Writing(c)' /\ Moved(c) = i[c] /\ Moved(c)' = i[c] + 1
      BY <1>1 DEF Writing, WriteSteps, Moved
  <1>5. /\ Low(head + 1) # tail /\ buffer[head] = bytes[c][i[c] + 1]
        /\ i[c] <= Len(Held) /\ Held = Kept(c) \o Passed(c)
      BY <1>1, <1>4 DEF TInv, Transfer
  <1>6. i[c] \in Nat /\ i[c] < Len(bytes[c]) /\ bytes[c] \in Seq(Byte)
    <2>1. pc[c] \in WriteSteps /\ pc[c] # "wtest" /\ pc[c] # "rtest"
        BY <1>1 DEF WriteSteps
    <2> QED
        BY <1>0, <2>1, LenAssumption DEF TInv, IInv, TypeOK, Progress
  <1>7. buffer \in Array /\ Held \in Seq(Byte) /\ Len(Held) \in Nat
    <2>1. Len(Held) \in Index /\ Held \in Seq(Byte) /\ buffer \in Array
        BY <1>2 DEF HeldMeans
    <2> QED
        BY <1>0, <2>1 DEF Index
  <1>8. /\ Held' = Append(Held, buffer[head]) /\ buffer[head] \in Byte
        /\ Len(Held') = Len(Held) + 1
    <2>1. Held = Ring(buffer, head, tail)
        BY <1>3 DEF Held
    <2>2. Low(head') = Low(head + 1) /\ Low(tail') = tail
        BY <1>1, <1>3 DEF Low
    <2>3. Held' = Ring(buffer, Low(head + 1), tail)
        BY <1>1, <2>2 DEF Held
    <2>4. Ring(buffer, Low(head + 1), tail) = Append(Ring(buffer, head, tail), buffer[head])
        BY <1>3, <1>5, <1>7, RingPut
    <2>5. buffer[head] \in Byte
        BY <1>3, <1>7 DEF Array
    <2> QED
        BY <1>7, <2>1, <2>3, <2>4, <2>5, AppendProperties, SMTT(40)
  <1>9. Held' = Held \o <<buffer[head]>>
      BY <1>7, <1>8, AppendIsConcat, SMTT(40)
  <1>10. Len(Held') - Moved(c)' = Len(Held) - Moved(c)
      BY <1>4, <1>6, <1>7, <1>8
  <1> DEFINE n == Len(Held) - i[c]
  <1>11. n \in Nat /\ n <= Len(Held)
      BY <1>5, <1>6, <1>7
  <1>12. Kept(c) = SubSeq(Held, 1, n) /\ Kept(c)' = SubSeq(Held', 1, n)
      BY <1>4, <1>10 DEF Kept
  <1>13. Kept(c)' = Kept(c) /\ Kept(c) \in Seq(Byte)
      BY <1>7, <1>8, <1>11, <1>12, KeptByAppend
  <1>14. /\ Passed(c)' = Passed(c) \o <<buffer[head]>>
         /\ Passed(c) \in Seq(Byte) /\ <<buffer[head]>> \in Seq(Byte)
    <2>1. Passed(c) = SubSeq(bytes[c], 1, i[c]) /\ Passed(c)' = SubSeq(bytes[c], 1, i[c] + 1)
        BY <1>1, <1>4 DEF Passed
    <2> QED
        BY <1>5, <1>6, <2>1, OneMoreOf
  <1>15. Held' = Kept(c)' \o Passed(c)'
    <2>1. (Kept(c) \o Passed(c)) \o <<buffer[head]>> = Kept(c) \o (Passed(c) \o <<buffer[head]>>)
        BY <1>13, <1>14, ConcatAssociative
    <2> QED
        BY <1>5, <1>9, <1>13, <1>14, <2>1
  <1>16. Transfer'
    <2>1. Exclusive'
        BY DEF IInv
    <2>2. Moved(c)' <= Len(Held')
        BY <1>4, <1>5, <1>6, <1>7, <1>8
    <2> QED
        BY <1>1, <1>4, <1>15, <2>1, <2>2, TransferOfWrite
  <1>17. Items' = Items
      BY <1>2, <1>4, <1>13 DEF ItemsMean
  <1> QED
      BY <1>1, <1>16, <1>17 DEF Abstract!qvars

\* Wrapping head changes no byte of the ring.
LEMMA WriteWrapMapped ==
    ASSUME TInv, IInv', NEW c \in Context, WriteWrap(c)
    PROVE  Transfer' /\ UNCHANGED Abstract!qvars
  <1>0. Size \in Nat /\ Size > 0
      BY SizeAssumption
  <1>1. /\ pc[c] = "wwrap" /\ pc'[c] = "wtest" /\ head' = Low(head) /\ i'[c] = i[c] + 1
        /\ UNCHANGED <<buffer, tail, bytes, reply, verdict>>
      BY DEF WriteWrap, At, Goto, TInv, IInv, TypeOK, answers, Low
  <1>2. HeldMeans /\ ItemsMean /\ HeldMeans' /\ ItemsMean'
      BY Meaning, MeaningAfter DEF TInv
  <1>3. Held' = Held
    <2>1. Low(Low(head)) = Low(head)
        BY <1>0 DEF Low
    <2> QED
        BY <1>1, <2>1 DEF Held, Low
  <1>4. /\ Writing(c) /\ Writing(c)' /\ Moved(c)' = Moved(c)
        /\ Kept(c)' = Kept(c) /\ Passed(c)' = Passed(c)
      BY <1>1, <1>3 DEF Writing, WriteSteps, Moved, Kept, Passed
  <1>5. Transfer'
    <2>1. Exclusive' /\ Moved(c)' <= Len(Held') /\ Held' = Kept(c)' \o Passed(c)'
        BY <1>3, <1>4 DEF IInv, TInv, Transfer
    <2> QED
        BY <1>1, <1>4, <2>1, TransferOfWrite
  <1>6. Items' = Items
      BY <1>2, <1>4 DEF ItemsMean
  <1> QED
      BY <1>1, <1>5, <1>6 DEF Abstract!qvars

\* The write returns: its bytes are in the queue at once, as many as there was room for.
LEMMA WriteReturnMapped ==
    ASSUME TInv, IInv', NEW c \in Context, WriteTest(c), i[c] = length[c] \/ Full
    PROVE  Transfer' /\ \E bs \in Buffers : Abstract!Put(c, bs)
  <1>0. Size \in Nat /\ Size > 0 /\ MaxLen \in Nat
      BY SizeAssumption, LenAssumption
  <1>1. /\ pc[c] = "wtest" /\ pc' = [pc EXCEPT ![c] = "idle"]
        /\ reply' = [reply EXCEPT ![c] = [count |-> i[c], bytes |-> <<>>]]
        /\ UNCHANGED <<buffer, head, tail, verdict>>
      BY DEF WriteTest, At, Return, Goto, ring
  <1>2. \A d \in Context : pc'[d] = "idle"
      BY <1>1 DEF TInv, IInv, TypeOK, Exclusive
  <1>3. HeldMeans /\ ItemsMean /\ HeldMeans' /\ ItemsMean'
      BY Meaning, MeaningAfter DEF TInv
  <1>4. Held' = Held /\ Writing(c) /\ Moved(c) = i[c]
      BY <1>1 DEF Held, Low, Writing, WriteSteps, Moved
  <1>5. Items = Kept(c) /\ Items' = Held
      BY <1>2, <1>3, <1>4 DEF ItemsMean
  <1>6. i[c] <= Len(Held) /\ Held = Kept(c) \o Passed(c)
      BY <1>4 DEF TInv, Transfer
  <1>7. /\ i[c] \in Nat /\ i[c] <= Len(bytes[c])
        /\ bytes[c] \in Seq(Byte) /\ length[c] = Len(bytes[c])
        /\ Len(bytes[c]) \in 0..MaxLen
      BY <1>0, <1>1 DEF TInv, IInv, TypeOK, Progress, WriteSteps
  <1>8. Held \in Seq(Byte) /\ Len(Held) \in 0..Size - 1
      BY <1>3 DEF HeldMeans, Index
  <1>9. Len(Items) = Len(Held) - i[c]
    <2>1. \A k \in 1..Len(Held) - i[c] : Held[k] \in Byte
        BY <1>0, <1>7, <1>8
    <2>2. Len(Held) - i[c] \in Int /\ Len(Held) - i[c] >= 0
        BY <1>0, <1>6, <1>7, <1>8
    <2>3. Len(SubSeq(Held, 1, Len(Held) - i[c])) =
            IF 1 <= Len(Held) - i[c] THEN Len(Held) - i[c] - 1 + 1 ELSE 0
        BY <2>1, <2>2, SubSeqProperties
    <2>4. Len(SubSeq(Held, 1, Len(Held) - i[c])) = Len(Held) - i[c]
        BY <1>0, <1>7, <1>8, <2>2, <2>3
    <2> QED
        BY <1>4, <1>5, <2>4 DEF Kept
  <1>10. Full => Len(Held) = Size - 1
    <2>1. head \in 0..Size - 1 /\ tail \in 0..Size - 1
        BY <1>1, Indices DEF TInv
    <2>2. Low(head) = head /\ Low(tail) = tail /\ (Full => Low(head + 1) = tail)
        BY <1>0, <2>1 DEF Low, Full
    <2> QED
        BY <1>3, <2>2 DEF HeldMeans
  <1>11. Abstract!Least(Len(bytes[c]), Size - 1 - Len(Items)) = i[c]
      BY <1>0, <1>7, <1>8, <1>9, <1>10 DEF Abstract!Least
  <1>12. Items' = Items \o SubSeq(bytes[c], 1, i[c])
      BY <1>4, <1>5, <1>6 DEF Passed
  <1>13. bytes[c] \in Buffers
    <2>1. bytes[c] \in [1..Len(bytes[c]) -> Byte]
        BY <1>7, LenProperties
    <2> QED
        BY <1>7, <2>1 DEF Buffers
  <1>14. Abstract!Put(c, bytes[c])
      BY <1>1, <1>11, <1>12 DEF Abstract!Put
  <1> QED
      BY <1>2, <1>13, <1>14, TransferOfNone

\* A read that begins leaves the queue alone.
LEMMA ReadCallMapped ==
    ASSUME TInv, IInv', NEW c \in Context, ReadCall(c)
    PROVE  Transfer' /\ UNCHANGED Abstract!qvars
  <1>1. PICK n \in 0..MaxLen : Enter(c, <<>>, n, "rtest")
      BY DEF ReadCall
  <1>2. /\ pc'[c] = "rtest" /\ i'[c] = 0 /\ bytes'[c] = <<>>
        /\ UNCHANGED <<buffer, head, tail, reply, verdict>>
      BY <1>1 DEF Enter, Goto, TInv, IInv, TypeOK, ring, answers
  <1>3. \A d \in Context : pc[d] = "idle"
      BY <1>1, NobodyInside DEF Enter, TInv
  <1>4. HeldMeans /\ ItemsMean /\ HeldMeans' /\ ItemsMean'
      BY Meaning, MeaningAfter DEF TInv
  <1>5. Held' = Held /\ Held \in Seq(Byte) /\ Items = Held
    <2>1. Held \in Seq(Byte) /\ Items = Held
        BY <1>3, <1>4 DEF HeldMeans, ItemsMean
    <2>2. Held' = Held
        BY <1>2 DEF Held, Low
    <2> QED
        BY <2>1, <2>2
  <1>6. Reading(c)' /\ Moved(c)' = 0
      BY <1>2 DEF Reading, ReadSteps, Moved
  <1>7. Passed(c)' = <<>>
      BY <1>6, SubSeqEmpty DEF Passed
  <1>8. <<>> \o Held = Held
      BY <1>5, ConcatEmptySeq
  <1>9. Transfer'
    <2>1. Exclusive' /\ Len(<<>>) = 0
        BY DEF IInv
    <2> QED
        BY <1>2, <1>6, <2>1, TransferOfRead
  <1>10. Items' = Items
      BY <1>4, <1>5, <1>6, <1>7, <1>8 DEF ItemsMean
  <1> QED
      BY <1>2, <1>9, <1>10 DEF Abstract!qvars

\* Its loop goes on only while there is a byte to take.
LEMMA ReadGoesOnMapped ==
    ASSUME TInv, IInv', NEW c \in Context, ReadTest(c), ~(i[c] = length[c] \/ tail = head)
    PROVE  Transfer' /\ UNCHANGED Abstract!qvars
  <1>1. /\ pc[c] = "rtest" /\ pc'[c] = "rcopy" /\ head # tail
        /\ UNCHANGED <<buffer, head, tail, bytes, i, reply, verdict>>
      BY DEF ReadTest, At, Goto, TInv, IInv, TypeOK, ring, call, answers
  <1>2. HeldMeans /\ ItemsMean /\ HeldMeans' /\ ItemsMean'
      BY Meaning, MeaningAfter DEF TInv
  <1>3. /\ Reading(c) /\ Reading(c)' /\ Held' = Held /\ Passed(c)' = Passed(c)
      BY <1>1 DEF Reading, ReadSteps, Moved, Passed, Held, Low
  <1>4. Transfer'
    <2>1. Exclusive' /\ Len(bytes[c]) = i[c]
        BY <1>1, <1>3 DEF IInv, TInv, Transfer
    <2> QED
        BY <1>1, <1>3, <2>1, TransferOfRead
  <1>5. Items' = Items
      BY <1>2, <1>3 DEF ItemsMean
  <1> QED
      BY <1>1, <1>4, <1>5 DEF Abstract!qvars

\* Copying a byte takes nothing from the ring.
LEMMA CopyMapped ==
    ASSUME TInv, IInv', NEW c \in Context, ReadCopy(c)
    PROVE  Transfer' /\ UNCHANGED Abstract!qvars
  <1>0. Size \in Nat /\ Size > 0
      BY SizeAssumption
  <1>1. /\ pc[c] = "rcopy" /\ pc'[c] = "rtail" /\ bytes'[c] = Append(bytes[c], buffer[tail])
        /\ UNCHANGED <<buffer, head, tail, length, i, reply, verdict>>
      BY DEF ReadCopy, At, Goto, TInv, IInv, TypeOK, ring, answers
  <1>2. HeldMeans /\ ItemsMean /\ HeldMeans' /\ ItemsMean'
      BY Meaning, MeaningAfter DEF TInv
  <1>3. Reading(c) /\ Reading(c)' /\ Held' = Held /\ Moved(c) = i[c] /\ Moved(c)' = i[c]
      BY <1>1 DEF Reading, ReadSteps, Moved, Held, Low
  <1>4. Len(bytes[c]) = i[c] /\ head # tail /\ bytes[c] \in Seq(Byte) /\ i[c] \in Nat
    <2>1. bytes[c] \in Seq(Byte) /\ i[c] \in Nat
        BY LenAssumption DEF TInv, IInv, TypeOK
    <2> QED
        BY <1>1, <1>3, <2>1 DEF TInv, Transfer
  <1>5. buffer[tail] \in Byte
    <2>1. tail \in Index
        BY <1>1, Indices DEF TInv, Index
    <2>2. buffer \in Array
        BY <1>2 DEF HeldMeans
    <2> QED
        BY <2>1, <2>2 DEF Array
  <1>6. Len(bytes'[c]) = i[c] + 1 /\ bytes'[c][i[c] + 1] = buffer[tail]
      BY <1>1, <1>4, <1>5, AppendProperties
  <1>7. Passed(c)' = Passed(c)
    <2>1. SubSeq(Append(bytes[c], buffer[tail]), 1, i[c]) = SubSeq(bytes[c], 1, i[c])
        BY <1>4, <1>5, KeptByAppend
    <2> QED
        BY <1>1, <1>3, <2>1 DEF Passed
  <1>8. Transfer'
    <2>1. Exclusive'
        BY DEF IInv
    <2> QED
        BY <1>1, <1>3, <1>4, <1>6, <2>1, TransferOfRead
  <1>9. Items' = Items
      BY <1>2, <1>3, <1>7 DEF ItemsMean
  <1> QED
      BY <1>1, <1>8, <1>9 DEF Abstract!qvars

\* Moving tail over the copied byte hands it from the ring to the call.
LEMMA TailMapped ==
    ASSUME TInv, IInv', NEW c \in Context, ReadTail(c)
    PROVE  Transfer' /\ UNCHANGED Abstract!qvars
  <1>0. Size \in Nat /\ Size > 0
      BY SizeAssumption
  <1>1. /\ pc[c] = "rtail" /\ pc'[c] = "rwrap" /\ tail' = tail + 1
        /\ UNCHANGED <<buffer, head, bytes, length, i, reply, verdict>>
      BY DEF ReadTail, At, Goto, TInv, IInv, TypeOK, call, answers
  <1>2. HeldMeans /\ ItemsMean /\ HeldMeans' /\ ItemsMean'
      BY Meaning, MeaningAfter DEF TInv
  <1>3. Reading(c) /\ Reading(c)' /\ Moved(c) = i[c] /\ Moved(c)' = i[c] + 1
      BY <1>1 DEF Reading, ReadSteps, Moved
  <1>4. /\ Len(bytes[c]) = i[c] + 1 /\ head # tail /\ bytes[c] \in Seq(Byte) /\ i[c] \in Nat
        /\ bytes[c][i[c] + 1] = buffer[tail]
    <2>1. bytes[c] \in Seq(Byte) /\ i[c] \in Nat
        BY LenAssumption DEF TInv, IInv, TypeOK
    <2> QED
        BY <1>1, <1>3, <2>1 DEF TInv, Transfer
  <1>5. head \in Index /\ tail \in Index /\ Low(head) = head /\ Low(tail) = tail
    <2>1. head \in Index /\ tail \in Index
        BY <1>1, Indices DEF TInv, Index
    <2> QED
        BY <2>1, <1>0 DEF Low, Index
  <1>6. Held = <<buffer[tail]>> \o Held' 
    <2>1. Held = Ring(buffer, head, tail)
        BY <1>5 DEF Held
    <2>2. Low(tail') = Low(tail + 1) /\ Low(head') = head
        BY <1>1, <1>5 DEF Low
    <2>3. Held' = Ring(buffer, head, Low(tail + 1))
        BY <1>1, <2>2 DEF Held
    <2>4. buffer \in Array
        BY <1>2 DEF HeldMeans
    <2> QED
        BY <1>4, <1>5, <2>1, <2>3, <2>4, RingTake
  <1>7. /\ Passed(c)' = Passed(c) \o <<buffer[tail]>>
        /\ Passed(c) \in Seq(Byte) /\ <<buffer[tail]>> \in Seq(Byte) /\ Held' \in Seq(Byte)
    <2>1. Passed(c) = SubSeq(bytes[c], 1, i[c]) /\ Passed(c)' = SubSeq(bytes[c], 1, i[c] + 1)
        BY <1>1, <1>3 DEF Passed
    <2>2. i[c] < Len(bytes[c])
        BY <1>4
    <2>3. Held' \in Seq(Byte)
        BY <1>2 DEF HeldMeans
    <2> QED
        BY <1>4, <2>1, <2>2, <2>3, OneMoreOf
  <1>8. Passed(c)' \o Held' = Passed(c) \o Held
      BY <1>6, <1>7, ConcatAssociative
  <1>9. Transfer'
    <2>1. Exclusive'
        BY DEF IInv
    <2> QED
        BY <1>1, <1>3, <1>4, <2>1, TransferOfRead
  <1>10. Items' = Items
    <2>1. Items = Passed(c) \o Held
        BY <1>2, <1>3 DEF ItemsMean
    <2>2. Items' = Passed(c)' \o Held'
        BY <1>2, <1>3 DEF ItemsMean
    <2> QED
        BY <1>8, <2>1, <2>2
  <1> QED
      BY <1>1, <1>9, <1>10 DEF Abstract!qvars

\* Wrapping tail changes no byte of the ring.
LEMMA ReadWrapMapped ==
    ASSUME TInv, IInv', NEW c \in Context, ReadWrap(c)
    PROVE  Transfer' /\ UNCHANGED Abstract!qvars
  <1>0. Size \in Nat /\ Size > 0
      BY SizeAssumption
  <1>1. /\ pc[c] = "rwrap" /\ pc'[c] = "rtest" /\ tail' = Low(tail) /\ i'[c] = i[c] + 1
        /\ UNCHANGED <<buffer, head, bytes, reply, verdict>>
      BY DEF ReadWrap, At, Goto, TInv, IInv, TypeOK, answers, Low
  <1>2. HeldMeans /\ ItemsMean /\ HeldMeans' /\ ItemsMean'
      BY Meaning, MeaningAfter DEF TInv
  <1>3. Held' = Held
    <2>1. Low(Low(tail)) = Low(tail)
        BY <1>0 DEF Low
    <2> QED
        BY <1>1, <2>1 DEF Held, Low
  <1>4. Reading(c) /\ Reading(c)' /\ Passed(c)' = Passed(c)
      BY <1>1 DEF Reading, ReadSteps, Moved, Passed
  <1>5. Transfer'
    <2>1. Exclusive' /\ Len(bytes[c]) = i[c] + 1
        BY <1>1, <1>4 DEF IInv, TInv, Transfer
    <2> QED
        BY <1>1, <1>4, <2>1, TransferOfRead
  <1>6. Items' = Items
      BY <1>2, <1>3, <1>4 DEF ItemsMean
  <1> QED
      BY <1>1, <1>5, <1>6 DEF Abstract!qvars

\* The read returns: it took the oldest bytes at once.
LEMMA ReadReturnMapped ==
    ASSUME TInv, IInv', NEW c \in Context, ReadTest(c), i[c] = length[c] \/ tail = head
    PROVE  Transfer' /\ \E n \in 0..MaxLen : Abstract!Get(c, n)
  <1>0. Size \in Nat /\ Size > 0 /\ MaxLen \in Nat
      BY SizeAssumption, LenAssumption
  <1>1. /\ pc[c] = "rtest" /\ pc' = [pc EXCEPT ![c] = "idle"]
        /\ reply' = [reply EXCEPT ![c] = [count |-> i[c], bytes |-> bytes[c]]]
        /\ UNCHANGED <<buffer, head, tail, verdict>>
      BY DEF ReadTest, At, Return, Goto, ring
  <1>2. \A d \in Context : pc'[d] = "idle"
      BY <1>1 DEF TInv, IInv, TypeOK, Exclusive
  <1>3. HeldMeans /\ ItemsMean /\ HeldMeans' /\ ItemsMean'
      BY Meaning, MeaningAfter DEF TInv
  <1>4. Held' = Held /\ Reading(c) /\ Moved(c) = i[c]
      BY <1>1 DEF Held, Low, Reading, ReadSteps, Moved
  <1>5. Items = Passed(c) \o Held /\ Items' = Held
      BY <1>2, <1>3, <1>4 DEF ItemsMean
  <1>6. /\ Len(bytes[c]) = i[c] /\ bytes[c] \in Seq(Byte)
        /\ i[c] \in Nat /\ i[c] <= length[c] /\ length[c] \in 0..MaxLen
    <2>1. /\ bytes[c] \in Seq(Byte) /\ i[c] \in Nat
          /\ i[c] <= length[c] /\ length[c] \in 0..MaxLen
        BY LenAssumption DEF TInv, IInv, TypeOK, Progress
    <2> QED
        BY <1>1, <1>4, <2>1 DEF TInv, Transfer
  <1>7. Held \in Seq(Byte) /\ Len(Held) \in Nat
    <2>1. Len(Held) \in Index /\ Held \in Seq(Byte)
        BY <1>3 DEF HeldMeans
    <2> QED
        BY <1>0, <2>1 DEF Index
  <1>8. Passed(c) = bytes[c]
      BY <1>4, <1>6, SubSeqFull DEF Passed
  <1>9. /\ SubSeq(Items, 1, i[c]) = bytes[c]
        /\ SubSeq(Items, i[c] + 1, Len(Items)) = Held
        /\ Len(Items) = i[c] + Len(Held)
      BY <1>5, <1>6, <1>7, <1>8, TakenApart, ConcatProperties, SMTT(40)
  <1>10. tail = head => Len(Held) = 0
    <2>1. tail = head => Held = <<>>
        BY <1>3 DEF HeldMeans
    <2> QED
        BY <2>1
  <1>11. Abstract!Least(length[c], Len(Items)) = i[c]
    <2>1. length[c] \in Nat /\ i[c] \in Nat /\ Len(Held) \in Nat
        BY <1>0, <1>6, <1>7
    <2>2. i[c] = length[c] \/ Len(Held) = 0
        BY <1>10
    <2> QED
        BY <1>6, <1>9, <2>1, <2>2 DEF Abstract!Least
  <1>12. Abstract!Get(c, length[c])
      BY <1>1, <1>5, <1>9, <1>11 DEF Abstract!Get
  <1> QED
      BY <1>2, <1>6, <1>12, TransferOfNone

\* twr_fifo_is_empty answers about the queue: no call is half done under it.
LEMMA EmptyMapped ==
    ASSUME TInv, IInv', IsEmpty
    PROVE  Transfer' /\ Abstract!AskEmpty
  <1>1. \A d \in Context : pc[d] = "idle"
      BY NobodyInside DEF IsEmpty, TInv
  <1>2. pc' = pc /\ verdict' = (tail = head) /\ UNCHANGED <<buffer, head, tail, reply>>
      BY DEF IsEmpty, ring
  <1>3. HeldMeans /\ ItemsMean /\ HeldMeans' /\ ItemsMean'
      BY Meaning, MeaningAfter DEF TInv
  <1>4. Held' = Held
      BY <1>2 DEF Held, Low
  <1>5. Items = Held /\ Items' = Held
      BY <1>1, <1>2, <1>3, <1>4 DEF ItemsMean
  <1>6. Low(head) = head /\ Low(tail) = tail
      BY <1>1 DEF TInv, IInv, InBounds, Low
  <1>7. Held = <<>> <=> head = tail
      BY <1>3, <1>6 DEF HeldMeans
  <1>8. verdict' = (Items = <<>>)
      BY <1>2, <1>5, <1>7, Zenon
  <1> QED
      BY <1>1, <1>2, <1>5, <1>8, TransferOfNone DEF Abstract!AskEmpty

\* twr_fifo_purge empties the queue with its first store ...
LEMMA PurgeHeadMapped ==
    ASSUME TInv, IInv', PurgeHead
    PROVE  Transfer' /\ Abstract!Drop
  <1>1. /\ pc'["main"] = "purge" /\ "main" \in Context /\ head' = 0
        /\ UNCHANGED <<reply, verdict>>
      BY DEF PurgeHead, Goto, TInv, IInv, TypeOK, answers
  <1>2. \A d \in Context : ~Writing(d)' /\ ~Reading(d)'
    <2>1. ~Writing("main")' /\ ~Reading("main")'
        BY <1>1 DEF Writing, Reading, WriteSteps, ReadSteps
    <2> QED
        BY <1>1, <2>1, AloneAfter DEF IInv
  <1>3. Transfer'
      BY <1>1, <1>2 DEF Transfer
  <1>4. Items' = <<>>
      BY <1>1 DEF Items, Purging
  <1> QED
      BY <1>1, <1>3, <1>4 DEF Abstract!Drop

\* ... and its second completes the ring that is empty already.
LEMMA PurgeTailMapped ==
    ASSUME TInv, IInv', PurgeTail
    PROVE  Transfer' /\ UNCHANGED Abstract!qvars
  <1>1. /\ Purging /\ tail' = 0 /\ head' = head /\ pc' = [pc EXCEPT !["main"] = "idle"]
        /\ UNCHANGED <<reply, verdict>>
      BY DEF PurgeTail, Goto, answers
  <1>2. \A d \in Context : pc'[d] = "idle"
      BY <1>1 DEF TInv, IInv, TypeOK, Exclusive, Purging
  <1>3. ItemsMean /\ HeldMeans' /\ ItemsMean'
      BY Meaning, MeaningAfter DEF TInv
  <1>4. head' = tail'
      BY <1>1 DEF TInv, Transfer
  <1>5. Items = <<>> /\ Items' = <<>>
      BY <1>1, <1>2, <1>3, <1>4 DEF HeldMeans, ItemsMean
  <1> QED
      BY <1>1, <1>2, <1>5, TransferOfNone DEF Abstract!qvars

\* A step of nothing.
LEMMA StutterMapped ==
    ASSUME TInv, UNCHANGED vars
    PROVE  Transfer' /\ UNCHANGED Abstract!qvars
  <1>1. UNCHANGED <<buffer, head, tail, pc, bytes, length, i, reply, verdict>>
      BY DEF vars, ring, call, answers
  <1>2. Items' = Items
      BY <1>1 DEF Items, Purging, Writing, Reading, Moved, Stored, Span
  <1>3. Transfer'
      BY <1>1 DEF TInv, Transfer, Writing, Reading, Moved, Kept, Passed, Held, Low, Purging
  <1> QED
      BY <1>1, <1>2, <1>3 DEF Abstract!qvars

\* Every step of the loops is a whole call of the queue or nothing of it.
LEMMA StepMapped == TInv /\ [Next]_vars => TInv' /\ [Abstract!QNext]_(Abstract!qvars)
  <1> SUFFICES ASSUME TInv, [Next]_vars
               PROVE  TInv' /\ [Abstract!QNext]_(Abstract!qvars)
      OBVIOUS
  <1>1. IInv'
      BY NextIInv DEF TInv
  <1>2. CASE UNCHANGED vars
      BY <1>1, <1>2, StutterMapped DEF TInv
  <1>3. ASSUME NEW c \in Context, Write(c)
        PROVE  TInv' /\ [Abstract!QNext]_(Abstract!qvars)
    <2>1. CASE WriteTest(c) /\ (i[c] = length[c] \/ Full)
      <3>1. PICK bs \in Buffers : Abstract!Put(c, bs)
          BY <1>1, <2>1, WriteReturnMapped
      <3>2. bs \in Abstract!Buffers
          BY DEF Buffers, Abstract!Buffers
      <3> QED
          BY <1>1, <2>1, <3>1, <3>2, WriteReturnMapped DEF TInv, Abstract!QNext
    <2>2. CASE WriteTest(c) /\ ~(i[c] = length[c] \/ Full)
        BY <1>1, <2>2, WriteGoesOnMapped DEF TInv
    <2> QED
        BY <1>1, <1>3, <2>1, <2>2, WriteCallMapped, StoreMapped, HeadMapped, WriteWrapMapped
        DEF TInv, Write
  <1>4. ASSUME NEW c \in Context, Read(c)
        PROVE  TInv' /\ [Abstract!QNext]_(Abstract!qvars)
    <2>1. CASE ReadTest(c) /\ (i[c] = length[c] \/ tail = head)
        BY <1>1, <2>1, ReadReturnMapped DEF TInv, Abstract!QNext
    <2>2. CASE ReadTest(c) /\ ~(i[c] = length[c] \/ tail = head)
        BY <1>1, <2>2, ReadGoesOnMapped DEF TInv
    <2> QED
        BY <1>1, <1>4, <2>1, <2>2, ReadCallMapped, CopyMapped, TailMapped, ReadWrapMapped
        DEF TInv, Read
  <1>5. CASE IsEmpty
      BY <1>1, <1>5, EmptyMapped DEF TInv, Abstract!QNext
  <1>6. CASE Purge
      BY <1>1, <1>6, PurgeHeadMapped, PurgeTailMapped DEF TInv, Abstract!QNext, Purge
  <1> QED
      BY <1>2, <1>3, <1>4, <1>5, <1>6 DEF Next

\* The ring of twr_fifo_init is the empty queue.
LEMMA InitMapped == Init => TInv /\ Abstract!QInit
  <1> SUFFICES ASSUME Init PROVE TInv /\ Abstract!QInit
      OBVIOUS
  <1>1. IInv
      BY InitIInv
  <1>2. \A c \in Context : pc[c] = "idle"
      BY DEF Init
  <1>3. Transfer
      BY <1>2 DEF Transfer, Writing, Reading, Purging, WriteSteps, ReadSteps
  <1>4. HeldMeans /\ ItemsMean
      BY <1>1, Meaning
  <1>5. Items = <<>>
      BY <1>2, <1>4 DEF Init, HeldMeans, ItemsMean
  <1> QED
      BY <1>1, <1>3, <1>5 DEF TInv, Init, Abstract!QInit

\* For every array size, byte set, call length and interleaving of the main program with
\* the handler: each call of twr_fifo.c takes effect at once, whole or up to what the ring
\* has room for or holds, and returns the count of exactly the bytes it moved.
THEOREM CallsAreAtomic == Spec => AtomicQueue
  BY InitMapped, StepMapped, PTL DEF Spec, AtomicQueue, Abstract!QSpec
===============================================================================
