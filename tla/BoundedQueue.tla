----------------------------- MODULE BoundedQueue -----------------------------
(***************************************************************************)
(* What the FIFO of the SDK promises its callers: a queue of at most       *)
(* Capacity bytes on which a whole multi-byte call takes effect at once.   *)
(* The contexts (the main program and the interrupt handler) see nothing   *)
(* of the loops, the indices and the interrupt masking of twr_fifo.c.      *)
(***************************************************************************)
EXTENDS Naturals, Sequences

CONSTANTS Capacity,   \* bytes the queue can hold
          Byte,       \* the bytes
          MaxLen,     \* the longest buffer a caller passes
          Context     \* who calls

VARIABLES items,      \* the bytes in the queue, oldest first
          reply,      \* what the last finished call of each context returned
          verdict     \* the last answer to "is it empty?"

qvars == <<items, reply, verdict>>

Buffers == UNION {[1..n -> Byte] : n \in 0..MaxLen}

Least(a, b) == IF a < b THEN a ELSE b

QInit == /\ items = <<>>
         /\ reply = [c \in Context |-> [count |-> 0, bytes |-> <<>>]]
         /\ verdict = TRUE

\* The call takes as many leading bytes as there is room for and says how many.
Put(c, bs) ==
    LET n == Least(Len(bs), Capacity - Len(items)) IN
    /\ items' = items \o SubSeq(bs, 1, n)
    /\ reply' = [reply EXCEPT ![c] = [count |-> n, bytes |-> <<>>]]
    /\ UNCHANGED verdict

\* The call hands over the oldest bytes, as many as asked for and present.
Get(c, length) ==
    LET n == Least(length, Len(items)) IN
    /\ items' = SubSeq(items, n + 1, Len(items))
    /\ reply' = [reply EXCEPT ![c] = [count |-> n, bytes |-> SubSeq(items, 1, n)]]
    /\ UNCHANGED verdict

AskEmpty == /\ verdict' = (items = <<>>)
            /\ UNCHANGED <<items, reply>>

Drop == /\ items' = <<>>
        /\ UNCHANGED <<reply, verdict>>

QNext == \/ \E c \in Context : \/ \E bs \in Buffers : Put(c, bs)
                               \/ \E n \in 0..MaxLen : Get(c, n)
         \/ AskEmpty
         \/ Drop

QSpec == QInit /\ [][QNext]_qvars
===============================================================================
