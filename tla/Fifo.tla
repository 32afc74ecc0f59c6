--------------------------------- MODULE Fifo ---------------------------------
(***************************************************************************)
(* twr_fifo.c: the byte ring shared by the main program and an interrupt   *)
(* handler.  The loops of the four transfer functions are modelled one     *)
(* memory access at a time; twr_fifo_write and twr_fifo_read mask          *)
(* interrupts for the whole call, the irq_ variants run inside the handler *)
(* and rely on the handler never being preempted by the main program.      *)
(***************************************************************************)
EXTENDS Naturals, Sequences

CONSTANTS Size,       \* fifo->size, the length of the caller's array
          Byte,       \* the values a byte takes
          MaxLen,     \* bound: the longest buffer passed to one call
          Context     \* the execution contexts that use this FIFO

ASSUME SizeAssumption == Size \in Nat /\ Size > 0
ASSUME LenAssumption == MaxLen \in Nat
ASSUME ContextAssumption == Context \subseteq {"main", "irq"}

VARIABLES buffer,     \* fifo->buffer
          head, tail, \* fifo->head, fifo->tail
          masked,     \* interrupts are disabled (PRIMASK)
          pc,         \* where each context is in its call
          bytes,      \* the call's buffer: given to a write, filled by a read
          length,     \* the call's length argument
          i,          \* the loop index of the call
          reply,      \* what the last finished call of the context returned
          verdict     \* the last value twr_fifo_is_empty returned

ring == <<buffer, head, tail>>
call == <<bytes, length, i>>
answers == <<reply, verdict>>
vars == <<ring, masked, pc, call, answers>>

WriteSteps == {"wtest", "wstore", "whead", "wwrap"}
ReadSteps == {"rtest", "rcopy", "rtail", "rwrap"}
Steps == {"idle"} \cup WriteSteps \cup ReadSteps \cup {"purge"}

Buffers == UNION {[1..n -> Byte] : n \in 0..MaxLen}

(***************************************************************************)
(* twr_fifo_init.  The array is the caller's: any content.                 *)
(***************************************************************************)
Init ==
    /\ buffer \in [0..Size - 1 -> Byte]
    /\ head = 0 /\ tail = 0
    /\ masked = FALSE
    /\ pc = [c \in Context |-> "idle"]
    /\ bytes = [c \in Context |-> <<>>]
    /\ length = [c \in Context |-> 0]
    /\ i = [c \in Context |-> 0]
    /\ reply = [c \in Context |-> [count |-> 0, bytes |-> <<>>]]
    /\ verdict = TRUE

-------------------------------------------------------------------------------
(***************************************************************************)
(* The processor: a handler starts only while interrupts are enabled and   *)
(* runs to its end before the main program takes another step.             *)
(***************************************************************************)
MayRun(c) == c = "main" => \A d \in Context : d # c => pc[d] = "idle"

\* twr_fifo_purge masks nothing: whoever purges keeps the handler from this
\* FIFO meanwhile (the SDK itself never purges).
Purging == "main" \in Context /\ pc["main"] = "purge"

MayEnter(c) == /\ pc[c] = "idle"
               /\ c = "irq" => ~masked /\ ~Purging
               /\ MayRun(c)

\* Mutant: the main program's variants forget to disable interrupts.
MaskForgotten(c) == UNCHANGED masked

\* twr_irq_disable on the way in, in the main program's variants only.
Mask(c) == masked' = (masked \/ c = "main")

\* twr_irq_enable on the way out, in the main program's variants only.
Unmask(c) == masked' = (masked /\ c # "main")

At(c, step) == pc[c] = step /\ MayRun(c)
Goto(c, step) == pc' = [pc EXCEPT ![c] = step]

Enter(c, bs, n, step) ==
    /\ MayEnter(c)
    /\ Mask(c)
    /\ bytes' = [bytes EXCEPT ![c] = bs]
    /\ length' = [length EXCEPT ![c] = n]
    /\ i' = [i EXCEPT ![c] = 0]
    /\ Goto(c, step)
    /\ UNCHANGED <<ring, answers>>

\* return i (or length, which i has reached); the call's locals are gone
Return(c, bs) ==
    /\ Unmask(c)
    /\ reply' = [reply EXCEPT ![c] = [count |-> i[c], bytes |-> bs]]
    /\ bytes' = [bytes EXCEPT ![c] = <<>>]
    /\ length' = [length EXCEPT ![c] = 0]
    /\ i' = [i EXCEPT ![c] = 0]
    /\ Goto(c, "idle")
    /\ UNCHANGED <<ring, verdict>>

-------------------------------------------------------------------------------
\* Mutant: the full test forgets that head is about to wrap.
FullMissesWrap == head + 1 = tail

(***************************************************************************)
(* twr_fifo_write and twr_fifo_irq_write.                                  *)
(***************************************************************************)
Full == head + 1 = tail \/ (head + 1 = Size /\ tail = 0)

WriteCall(c) == \E bs \in Buffers : Enter(c, bs, Len(bs), "wtest")

WriteTest(c) ==
    /\ At(c, "wtest")
    /\ IF i[c] = length[c] \/ Full
       THEN Return(c, <<>>)
       ELSE Goto(c, "wstore") /\ UNCHANGED <<ring, masked, call, answers>>

WriteStore(c) ==
    /\ At(c, "wstore")
    /\ buffer' = [buffer EXCEPT ![head] = bytes[c][i[c] + 1]]
    /\ Goto(c, "whead")
    /\ UNCHANGED <<head, tail, masked, call, answers>>

WriteHead(c) ==
    /\ At(c, "whead")
    /\ head' = head + 1
    /\ Goto(c, "wwrap")
    /\ UNCHANGED <<buffer, tail, masked, call, answers>>

WriteWrap(c) ==
    /\ At(c, "wwrap")
    /\ head' = IF head = Size THEN 0 ELSE head
    /\ i' = [i EXCEPT ![c] = @ + 1]
    /\ Goto(c, "wtest")
    /\ UNCHANGED <<buffer, tail, masked, bytes, length, answers>>

(***************************************************************************)
(* twr_fifo_read and twr_fifo_irq_read.                                    *)
(***************************************************************************)
ReadCall(c) == \E n \in 0..MaxLen : Enter(c, <<>>, n, "rtest")

ReadTest(c) ==
    /\ At(c, "rtest")
    /\ IF i[c] = length[c] \/ tail = head
       THEN Return(c, bytes[c])
       ELSE Goto(c, "rcopy") /\ UNCHANGED <<ring, masked, call, answers>>

ReadCopy(c) ==
    /\ At(c, "rcopy")
    /\ bytes' = [bytes EXCEPT ![c] = Append(@, buffer[tail])]
    /\ Goto(c, "rtail")
    /\ UNCHANGED <<ring, masked, length, i, answers>>

ReadTail(c) ==
    /\ At(c, "rtail")
    /\ tail' = tail + 1
    /\ Goto(c, "rwrap")
    /\ UNCHANGED <<buffer, head, masked, call, answers>>

ReadWrap(c) ==
    /\ At(c, "rwrap")
    /\ tail' = IF tail = Size THEN 0 ELSE tail
    /\ i' = [i EXCEPT ![c] = @ + 1]
    /\ Goto(c, "rtest")
    /\ UNCHANGED <<buffer, head, masked, bytes, length, answers>>

(***************************************************************************)
(* twr_fifo_is_empty masks around its single comparison.                   *)
(***************************************************************************)
IsEmpty ==
    /\ "main" \in Context /\ MayEnter("main")
    /\ verdict' = (tail = head)
    /\ UNCHANGED <<ring, masked, pc, call, reply>>

(***************************************************************************)
(* twr_fifo_purge: two stores, and nothing is masked between them.         *)
(***************************************************************************)
PurgeHead ==
    /\ "main" \in Context /\ MayEnter("main")
    /\ head' = 0
    /\ Goto("main", "purge")
    /\ UNCHANGED <<buffer, tail, masked, call, answers>>

PurgeTail ==
    /\ Purging
    /\ tail' = 0
    /\ Goto("main", "idle")
    /\ UNCHANGED <<buffer, head, masked, call, answers>>

-------------------------------------------------------------------------------
Write(c) == WriteCall(c) \/ WriteTest(c) \/ WriteStore(c) \/ WriteHead(c) \/ WriteWrap(c)
Read(c) == ReadCall(c) \/ ReadTest(c) \/ ReadCopy(c) \/ ReadTail(c) \/ ReadWrap(c)
Purge == PurgeHead \/ PurgeTail

Next == (\E c \in Context : Write(c) \/ Read(c)) \/ IsEmpty \/ Purge

Spec == Init /\ [][Next]_vars
-------------------------------------------------------------------------------
(***************************************************************************)
(* The refinement mapping: the bytes between tail and head, oldest first,  *)
(* with the transfer in progress not yet having happened.                  *)
(***************************************************************************)
Span == (head + Size - tail) % Size

Stored == [k \in 1..Span |-> buffer[(tail + k - 1) % Size]]

Writing(c) == pc[c] \in WriteSteps
Reading(c) == pc[c] \in ReadSteps

\* Bytes of the call in progress that have already moved past an index.
Moved(c) == IF pc[c] \in {"wwrap", "rwrap"} THEN i[c] + 1 ELSE i[c]

Items ==
    IF Purging THEN <<>>
    ELSE IF \E c \in Context : Writing(c)
    THEN LET c == CHOOSE d \in Context : Writing(d)
         IN SubSeq(Stored, 1, Span - Moved(c))
    ELSE IF \E c \in Context : Reading(c)
    THEN LET c == CHOOSE d \in Context : Reading(d)
         IN SubSeq(bytes[c], 1, Moved(c)) \o Stored
    ELSE Stored

Abstract == INSTANCE BoundedQueue WITH Capacity <- Size - 1, items <- Items

\* Every call of twr_fifo_write, _read, _irq_write, _irq_read, _is_empty and _purge is
\* one step of a queue of Size - 1 bytes: whatever the handler does between the
\* main program's accesses, no byte is lost, repeated, reordered or split from
\* the other bytes of its call, and every count returned is exact.
AtomicQueue == Abstract!QSpec

-------------------------------------------------------------------------------
TypeOK ==
    /\ buffer \in [0..Size - 1 -> Byte]
    /\ head \in 0..Size /\ tail \in 0..Size
    /\ masked \in BOOLEAN
    /\ pc \in [Context -> Steps]
    /\ bytes \in [Context -> Seq(Byte)]
    /\ length \in [Context -> 0..MaxLen]
    /\ i \in [Context -> 0..MaxLen]
    /\ verdict \in BOOLEAN
    /\ DOMAIN reply = Context

\* No access of the loops falls outside the caller's array: an index equals
\* Size only between its increment and the test that wraps it, and in that
\* window no context is about to use it.
InBounds ==
    /\ head = Size => \E c \in Context : pc[c] = "wwrap"
    /\ tail = Size => \E c \in Context : pc[c] = "rwrap"
    /\ \A c \in Context : /\ pc[c] = "wstore" => head < Size
                          /\ pc[c] = "rcopy" => tail < Size

\* The ring belongs to one call at a time: the handler never finds the main
\* program inside a transfer, which is what lets the irq_ variants skip the
\* masking.
Exclusive ==
    /\ \A c, d \in Context : pc[c] # "idle" /\ pc[d] # "idle" => c = d
    /\ \A c \in Context : c = "main" => (masked <=> Writing(c) \/ Reading(c))
===============================================================================
