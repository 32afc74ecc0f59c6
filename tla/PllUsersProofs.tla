---------------------------- MODULE PllUsersProofs ----------------------------
(***************************************************************************)
(* Proofs about PllUsers, for every FIFO size, chunk and call length and   *)
(* every bound: first the UART channel on its own, whose invariant no      *)
(* other holder of the clocks touches, then the counts of the clocks.      *)
(***************************************************************************)
EXTENDS PllUsers, SequenceTheorems, TLAPS

-------------------------------------------------------------------------------
(***************************************************************************)
(* The UART channel.                                                       *)
(***************************************************************************)
Number == Nat \ {SyncByte}
Register(r) == r \in Seq(Nat) /\ Len(r) \in {0, 1}

UartTyped ==
    /\ lpuart \in BOOLEAN /\ style \in {"patient", "appending"}
    /\ initialized \in BOOLEAN /\ in_progress \in BOOLEAN
    /\ txeie \in BOOLEAN /\ tcie \in BOOLEAN /\ tc \in BOOLEAN /\ done \in BOOLEAN
    /\ pc \in {"idle", "fill", "enable", "flag", "poll"}
    /\ task \in {"none", "parked", "planned"}
    /\ locks \in Int /\ todo \in Nat /\ took \in Nat /\ accepted \in Nat
    /\ sent \in Seq(Number) /\ fifo \in Seq(Number) /\ Len(fifo) \in 0..Capacity
    /\ Register(tdr) /\ Register(shift)

\* A channel is given up and taken over only when nothing is left in its FIFO.
Dormant == ~initialized => pc = "idle" /\ ~in_progress /\ fifo = <<>>

\* The write task is registered from the first write of a transfer to its end.
Registered ==
    /\ pc \in {"idle", "fill", "poll"} => (in_progress <=> task # "none")
    /\ pc \in {"enable", "flag"} => task # "none"
    /\ pc = "poll" => style = "patient" /\ ~in_progress

\* The channel holds one lock for its write task and one for a blocking write.
Counted == locks = UartLocks

\* TC is set only over empty registers.
TcTells == tc => tdr = <<>> /\ shift = <<>>

(***************************************************************************)
(* A patient application finds every phase of the channel clean.  At rest  *)
(* no interrupt is enabled and nothing is left to send; from the flag to   *)
(* the report one of the two interrupts is on until the task is planned,   *)
(* and TC takes over only when the FIFO is dry.                            *)
(***************************************************************************)
AtRest ==
    /\ ~txeie /\ ~tcie
    /\ pc # "enable" => task = "none"
    /\ pc # "poll" => tc
    /\ Numbered(tdr) = <<>> /\ Numbered(shift) = <<>>
    /\ pc \in {"idle", "poll"} => fifo = <<>>
    /\ pc = "fill" => took = Len(fifo) /\ (done => fifo = <<>>)
    /\ pc = "enable" => task = "parked" /\ ~done

Transferring ==
    /\ ~done /\ initialized /\ pc \in {"idle", "flag"}
    /\ task \in {"parked", "planned"}
    /\ tcie => ~txeie /\ fifo = <<>>
    /\ task = "planned" => ~txeie /\ ~tcie /\ fifo = <<>> /\ tc

Patient ==
    style = "patient" => IF in_progress \/ pc = "flag" THEN Transferring ELSE AtRest

UInv == UartTyped /\ Dormant /\ Registered /\ Counted /\ TcTells /\ Patient /\ InOrder

-------------------------------------------------------------------------------
(***************************************************************************)
(* The clocks.                                                             *)
(***************************************************************************)
Holders == UartHolds + OokHolds + CallHolds + AsyncHolds

ClocksTyped ==
    /\ pll \in Int /\ hsi16 \in Int /\ disable_sleep \in Int /\ register \in Int /\ deep_sleep \in Int
    /\ stray \in Nat /\ raced \in BOOLEAN /\ sending \in BOOLEAN /\ sleepdeep \in BOOLEAN
    /\ call \in {"none", "load", "store", "hsi", "pll", "off"}
    /\ caller_is \in {"nobody", "uart", "transfer", "refused", "async", "task", "ook"}
    /\ step \in {1, -1}
    /\ spi_in_progress \in BOOLEAN /\ pending_event_done \in BOOLEAN /\ spi_planned \in BOOLEAN
    /\ event_handler \in BOOLEAN
    /\ channel5 \in {"off", "first", "second"}
    /\ scene \in {"uart", "spi"}

\* Whom the main program's call belongs to.
Calling ==
    /\ call # "none" => caller_is # "nobody"
    /\ caller_is = "ook" => ~sending /\ step = 1 /\ pc = "idle"
    /\ caller_is = "async" => step = 1 /\ SpiReady
    /\ caller_is = "refused" => SpiReady
    /\ caller_is = "transfer" => spi_in_progress
    /\ caller_is = "task" => step = -1 /\ pending_event_done /\ ~spi_planned
    /\ caller_is = "uart" => ~lpuart /\ (step = 1 => UartLocks > 0)
    /\ call \in {"hsi", "pll"} => step = 1
    /\ call = "off" => step = -1

\* One transfer of the SPI at a time: it is on the channel, or its DONE is in the
\* FIFO (or got lost), or it waits for the task of the driver.
OneTransfer ==
    /\ spi_planned => pending_event_done
    /\ pending_event_done /\ spi_in_progress => caller_is = "transfer"
    /\ channel5 # "off" \/ (\E k \in DOMAIN fifo_pending : fifo_pending[k] = "done")
          => spi_in_progress /\ ~pending_event_done /\ caller_is # "transfer"
    /\ channel5 # "off" => ~\E k \in DOMAIN fifo_pending : fifo_pending[k] = "done"
    /\ fifo_pending \in Seq(Events)

\* The count is off its holders by what the call in progress has yet to store; the
\* handler's decrement between load and store is the lock that goes astray.
Count ==
    /\ call = "load" => pll + step = Holders + stray
    /\ call = "store" => /\ register + step = Holders + stray
                         /\ pll = register \/ (pll = register - 1 /\ ~sending /\ stray > 0)
    /\ call \notin {"load", "store"} => pll = Holders + stray

\* Until the handler has switched the PLL off under a caller, the source follows
\* the count, and inside a call it is as far as the call has come.
Clocked(s, n) == source = s /\ hsi16 = n /\ disable_sleep = n

Source ==
    ~raced =>
        /\ call \in {"none", "load", "store"} =>
               IF pll > 0 THEN Clocked("PLL", 1) ELSE Clocked("MSI", 0)
        /\ call = "store" => (pll > 0 <=> register > 0)
        /\ call = "hsi" => pll = 1 /\ Clocked("MSI", 0)
        /\ call = "pll" => pll = 1 /\ Clocked("HSI", 1)
        /\ call = "off" => pll = 0 /\ Clocked("PLL", 1)

\* Deep sleep is counted off by the writes of the LPUART.
Deep == deep_sleep = DeepHolds /\ (sleepdeep <=> deep_sleep = 0)

\* A patient application's channel loads nothing while it changes its lock.
LocksQuietly ==
    caller_is = "uart" /\ style = "patient" =>
        tdr = <<>> /\ shift = <<>> /\ ~txeie /\ ~tcie

PInv == UInv /\ ClocksTyped /\ Calling /\ OneTransfer /\ Count /\ Source /\ Deep /\ LocksQuietly

\* A DONE that the channel has not sent makes the driver give its lock back twice: from
\* then on the PLL follows nobody, but a UART is not in use beside the SPI.
Alone == scene = "spi" => ~initialized /\ deep_sleep = 0 /\ sleepdeep

Either ==
    /\ UInv /\ Alone
    /\ spurious => scene = "spi"
    /\ spurious \/ PInv

-------------------------------------------------------------------------------
(***************************************************************************)
(* The registers and the line, as sequences.                               *)
(***************************************************************************)
Numbers(n) == [k \in 1..n |-> k]
Line == sent \o InFlight \o fifo

LEMMA Bounds ==
    /\ Capacity \in Nat /\ Capacity > 0 /\ Chunk \in Nat /\ Chunk > 0
    /\ MaxLen \in Nat /\ MaxBytes \in Nat /\ MaxStray \in Nat
  BY ChunkAssumption, BoundAssumption, StrayAssumption

\* A register is empty or holds one byte.
LEMMA OneByte ==
    ASSUME NEW r, Register(r)
    PROVE  /\ r # <<>> => Head(r) \in Nat /\ r = <<Head(r)>>
           /\ Numbered(r) \in Seq(Number)
           /\ r # <<>> => Numbered(r) = IF Head(r) = SyncByte THEN <<>> ELSE <<Head(r)>>
           /\ r = <<>> => Numbered(r) = <<>>
  <1>1. CASE r = <<>>
    <2>1. r # <<SyncByte>>
        BY <1>1
    <2> QED
        BY <1>1, <2>1 DEF Numbered
  <1>2. CASE r # <<>>
    <2>1. r \in Seq(Nat) /\ Len(r) = 1
      <3>1. r \in Seq(Nat) /\ Len(r) \in {0, 1}
          BY DEF Register
      <3>2. Len(r) # 0
          BY <1>2, <3>1, EmptySeq
      <3> QED
          BY <3>1, <3>2, Zenon
    <2>2. Head(r) \in Nat /\ r = <<Head(r)>>
      <3>1. Head(r) = r[1] /\ r[1] \in Nat
          BY <2>1
      <3>2. <<r[1]>> \in Seq(Nat) /\ Len(<<r[1]>>) = 1 /\ <<r[1]>>[1] = r[1]
          BY <3>1
      <3>3. \A i \in 1..Len(r) : r[i] = <<r[1]>>[i]
          BY <2>1, <3>2
      <3>4. r = <<r[1]>>
          BY <2>1, <3>2, <3>3, SeqEqual
      <3> QED
          BY <3>1, <3>4
    <2>3. Numbered(r) = IF Head(r) = SyncByte THEN <<>> ELSE <<Head(r)>>
      <3>1. r = <<SyncByte>> <=> Head(r) = SyncByte
          BY <2>2
      <3> QED
          BY <2>2, <3>1 DEF Numbered
    <2>4. Numbered(r) \in Seq(Number)
      <3>1. CASE Head(r) = SyncByte
          BY <2>3, <3>1, EmptySeq
      <3>2. CASE Head(r) # SyncByte
        <4>1. Head(r) \in Number
            BY <2>2, <3>2 DEF Number
        <4> QED
            BY <2>3, <3>2, <4>1
      <3> QED
          BY <3>1, <3>2
    <2> QED
        BY <1>2, <2>2, <2>3, <2>4
  <1> QED
      BY <1>1, <1>2

LEMMA NoByte ==
    /\ Register(<<>>) /\ <<>> \in Seq(Number) /\ Numbered(<<>>) = <<>>
    /\ Len(<<>>) \in 0..Capacity
  <1>1. <<>> \in Seq(Nat) /\ Len(<<>>) = 0 /\ <<>> \in Seq(Number)
      BY EmptySeq
  <1>2. Register(<<>>)
      BY <1>1 DEF Register
  <1>3. Len(<<>>) \in 0..Capacity
      BY <1>1, Bounds
  <1> QED
      BY <1>1, <1>2, <1>3, OneByte

\* The line begins with what has been sent and ends with the FIFO.
LEMMA LineIs ==
    ASSUME UartTyped
    PROVE  /\ Numbered(shift) \in Seq(Number) /\ Numbered(tdr) \in Seq(Number)
           /\ InFlight \in Seq(Number)
           /\ Line = sent \o (Numbered(shift) \o (Numbered(tdr) \o fifo))
  <1>1. Numbered(shift) \in Seq(Number) /\ Numbered(tdr) \in Seq(Number)
      BY OneByte DEF UartTyped
  <1>2. sent \in Seq(Number) /\ fifo \in Seq(Number)
      BY DEF UartTyped
  <1> DEFINE a == Numbered(shift)
             b == Numbered(tdr)
  <1> HIDE DEF a, b
  <1>3. a \in Seq(Number) /\ b \in Seq(Number) /\ InFlight = a \o b
      BY <1>1 DEF a, b, InFlight
  <1>4. a \o b \in Seq(Number) /\ b \o fifo \in Seq(Number)
      BY <1>2, <1>3, ConcatProperties
  <1>5. (sent \o (a \o b)) \o fifo = sent \o ((a \o b) \o fifo)
    <2> DEFINE c == a \o b
    <2>1. c \in Seq(Number)
        BY <1>4
    <2> HIDE DEF c
    <2>2. (sent \o c) \o fifo = sent \o (c \o fifo)
        BY <1>2, <2>1, ConcatAssociative, SMTT(40)
    <2> QED
        BY <2>2 DEF c
  <1>6. (a \o b) \o fifo = a \o (b \o fifo)
      BY <1>2, <1>3, ConcatAssociative, SMTT(40)
  <1> QED
      BY <1>1, <1>3, <1>4, <1>5, <1>6 DEF Line, a, b

\* Appending the next numbers to a line of numbers.
LEMMA NextNumbers ==
    ASSUME NEW s \in Seq(Number), NEW n \in Nat, NEW m \in Nat, s = Numbers(n)
    PROVE  s \o [k \in 1..m |-> n + k] = Numbers(n + m)
  <1> DEFINE t == [k \in 1..m |-> n + k]
  <1>1. t \in Seq(Nat) /\ s \in Seq(Nat) /\ Len(t) = m /\ Len(s) = n
      BY DEF Numbers, Number
  <1>2. Numbers(n + m) \in Seq(Nat) /\ Len(Numbers(n + m)) = n + m
      BY DEF Numbers
  <1>3. /\ s \o t \in Seq(Nat) /\ Len(s \o t) = n + m
        /\ \A i \in 1..n + m : (s \o t)[i] = IF i <= n THEN s[i] ELSE t[i - n]
    <2> HIDE DEF t
    <2>1. /\ s \o t \in Seq(Nat) /\ Len(s \o t) = Len(s) + Len(t)
          /\ \A i \in 1..Len(s) + Len(t) :
                (s \o t)[i] = IF i <= Len(s) THEN s[i] ELSE t[i - Len(s)]
        BY <1>1, ConcatProperties
    <2> QED
        BY <1>1, <2>1
  <1>4. \A i \in 1..n + m : (s \o t)[i] = Numbers(n + m)[i]
    <2> SUFFICES ASSUME NEW i \in 1..n + m PROVE (s \o t)[i] = i
        BY DEF Numbers
    <2>1. i <= n => s[i] = i
        BY DEF Numbers
    <2>2. i > n => t[i - n] = i
        OBVIOUS
    <2> HIDE DEF t
    <2>3. (s \o t)[i] = IF i <= n THEN s[i] ELSE t[i - n]
        BY <1>3
    <2> QED
        BY <2>1, <2>2, <2>3
  <1> HIDE DEF t
  <1>5. s \o t = Numbers(n + m)
      BY <1>2, <1>3, <1>4, SeqEqual
  <1> QED
      BY <1>5 DEF t

-------------------------------------------------------------------------------
\* Pieces of the line.
LEMMA Associates ==
    \A s, t, u \in Seq(Number) : (s \o t) \o u = s \o (t \o u)
  BY ConcatAssociative, SMTT(40)

\* What the steps that move no byte leave alone.
Still == UNCHANGED <<sent, shift, tdr, fifo, accepted>>

LEMMA StillInOrder == ASSUME InOrder, Still PROVE InOrder'
  BY DEF Still, InOrder, InFlight, Numbered

LEMMA UInit == Init => UInv
  <1> SUFFICES ASSUME Init PROVE UInv
      OBVIOUS
  <1>1. UartTyped
    <2>1. /\ sent \in Seq(Number) /\ fifo \in Seq(Number) /\ Len(fifo) \in 0..Capacity
          /\ Register(tdr) /\ Register(shift)
        BY NoByte DEF Init
    <2>2. locks \in Int /\ todo \in Nat /\ took \in Nat /\ accepted \in Nat
        BY DEF Init
    <2> QED
        BY <2>1, <2>2, Zenon DEF Init, UartTyped
  <1>2. <<>> # <<SyncByte>>
      OBVIOUS
  <1>3. InOrder
    <2>1. Numbered(<<>>) = <<>>
        BY <1>2 DEF Numbered
    <2>2. InFlight = <<>> \o <<>>
        BY <2>1 DEF Init, InFlight
    <2>3. <<>> \o <<>> = <<>>
        OBVIOUS
    <2>4. [k \in 1..accepted |-> k] = <<>>
        BY DEF Init
    <2> QED
        BY <2>2, <2>3, <2>4 DEF Init, InOrder
  <1>4. Patient
      BY <1>2 DEF Init, Patient, AtRest, Numbered
  <1> QED
      BY <1>1, <1>3, <1>4
      DEF Init, UInv, Dormant, Registered, Counted, UartLocks, TcTells

\* Taking the channel over finds it as giving it up has left it: nothing is lost with
\* the FIFO it clears.
LEMMA UartInitStep == ASSUME UInv, UartInit PROVE UInv'
  <1> USE DEF UartInit, mode, caller, history
  <1>1. fifo = <<>> /\ ~in_progress /\ UNCHANGED <<sent, shift, tdr, fifo, accepted>>
      BY DEF UInv, Dormant
  <1>2. UartTyped'
      BY NoByte DEF UInv, UartTyped, Register
  <1>3. InOrder'
      BY <1>1, StillInOrder DEF UInv, Still
  <1>4. Dormant' /\ Registered' /\ Counted' /\ TcTells'
      BY <1>1 DEF UInv, Dormant, Registered, Counted, UartLocks, TcTells
  <1>5. Patient'
      BY <1>1 DEF UInv, Patient, AtRest, Transferring, Numbered
  <1> QED
      BY <1>2, <1>3, <1>4, <1>5 DEF UInv

\* The steps of the main program that move no byte.
LEMMA CallStep ==
    ASSUME UInv,
           \/ style = "patient" /\ ~in_progress /\ (AsyncCall \/ SyncCall \/ Deinit)
           \/ style = "appending" /\ AsyncCall
           \/ NothingTaken \/ Park \/ EnableTxe \/ SetInProgress \/ SyncReturn \/ WriteTask
    PROVE  UInv'
  <1> USE DEF AsyncCall, SyncCall, Deinit, NothingTaken, Park, EnableTxe, SetInProgress,
              SyncReturn, WriteTask, mode, caller, history, usart
  <1>1. Still
      BY DEF Still
  <1>2. InOrder'
      BY <1>1, StillInOrder DEF UInv
  <1>3. UartTyped'
    <2>1. /\ accepted' \in Nat /\ sent' \in Seq(Number) /\ fifo' \in Seq(Number)
          /\ Len(fifo') \in 0..Capacity /\ Register(tdr)' /\ Register(shift)'
        BY <1>1 DEF Still, UInv, UartTyped, Register
    <2>2. locks' \in Int /\ todo' \in Nat /\ took' \in Nat
        BY Bounds DEF UInv, UartTyped
    <2>3. /\ lpuart' \in BOOLEAN /\ style' \in {"patient", "appending"}
          /\ initialized' \in BOOLEAN /\ in_progress' \in BOOLEAN
          /\ txeie' \in BOOLEAN /\ tcie' \in BOOLEAN /\ tc' \in BOOLEAN /\ done' \in BOOLEAN
        BY Zenon DEF UInv, UartTyped
    <2>4. /\ pc' \in {"idle", "fill", "enable", "flag", "poll"}
          /\ task' \in {"none", "parked", "planned"}
        BY DEF UInv, UartTyped
    <2> QED
        BY <2>1, <2>2, <2>3, <2>4 DEF UartTyped
  <1>4. Dormant' /\ TcTells'
      BY <1>1 DEF UInv, Dormant, TcTells, Still, Registered, Patient, AtRest, UartTyped
  <1>5. Registered' /\ Counted'
      BY DEF UInv, Registered, Counted, UartLocks, UartTyped
  <1>6. Patient'
      BY <1>1, Bounds DEF UInv, UartTyped, Dormant, Registered, TcTells, Patient, AtRest, Transferring, Numbered, Still
  <1> QED
      BY <1>2, <1>3, <1>4, <1>5, <1>6 DEF UInv

\* A chunk joins the FIFO behind everything accepted before it.
LEMMA FillStep == ASSUME UInv, Fill PROVE UInv'
  <1> DEFINE chunk == Least(todo, Chunk)
             fits == Least(chunk, Capacity - Len(fifo))
             new == [k \in 1..fits |-> accepted + k]
  <1>0. /\ todo \in Nat /\ took \in Nat /\ accepted \in Nat /\ fifo \in Seq(Number)
        /\ sent \in Seq(Number) /\ Len(fifo) \in 0..Capacity /\ UartTyped
      BY DEF UInv, UartTyped
  <1>1. /\ fifo' = fifo \o new /\ accepted' = accepted + fits /\ took' = took + fits
        /\ todo' = todo - chunk /\ done' = (done /\ fits = 0)
        /\ pc = "fill" /\ pc' = "fill"
        /\ UNCHANGED <<lpuart, style, initialized, in_progress, task, locks, txeie, tcie, tdr,
                       shift, tc, sent>>
      BY DEF Fill, mode, usart
  <1>2. /\ chunk \in Nat /\ chunk <= todo
        /\ fits \in Nat /\ fits <= Capacity - Len(fifo)
      BY <1>0, Bounds DEF Fill, Least
  <1> HIDE DEF chunk, fits
  <1>3. new \in Seq(Number) /\ Len(new) = fits
    <2>1. \A k \in 1..fits : accepted + k \in Number
        BY <1>0, <1>2 DEF Number, SyncByte
    <2> QED
        BY <1>2, <2>1
  <1> HIDE DEF new
  <1>4. fifo' \in Seq(Number) /\ Len(fifo') = Len(fifo) + fits
      BY <1>0, <1>1, <1>3, ConcatProperties
  <1>5. UartTyped'
    <2>1. /\ accepted' \in Nat /\ took' \in Nat /\ todo' \in Nat /\ sent' \in Seq(Number)
          /\ Len(fifo') \in 0..Capacity
        BY <1>0, <1>1, <1>2, <1>4, Bounds
    <2>2. Register(tdr)' /\ Register(shift)' /\ locks' \in Int
        BY <1>0, <1>1 DEF UartTyped, Register
    <2> QED
        BY <1>0, <1>1, <1>4, <2>1, <2>2, Zenon DEF UartTyped
  <1>6. InOrder'
    <2>1. Line \in Seq(Number) /\ Line = Numbers(accepted)
      <3>1. InFlight \in Seq(Number)
          BY <1>0, LineIs
      <3> QED
          BY <1>0, <3>1, ConcatProperties DEF UInv, InOrder, Line, Numbers
    <2>2. InFlight' = InFlight /\ InFlight \in Seq(Number)
        BY <1>0, <1>1, LineIs DEF InFlight, Numbered
    <2> DEFINE before == sent \o InFlight
    <2>3. before \in Seq(Number)
        BY <1>0, <2>2, ConcatProperties
    <2>4. Line = before \o fifo /\ Line' = before \o (fifo \o new)
        BY <1>1, <2>2 DEF Line
    <2> HIDE DEF before
    <2>5. Line' = Line \o new
      <3>1. (before \o fifo) \o new = before \o (fifo \o new)
          BY <1>0, <1>3, <2>3, Associates, SMTT(40) DEF UartTyped
      <3> QED
          BY <2>4, <3>1, Zenon
    <2>6. Line \o new = Numbers(accepted + fits)
        BY <1>0, <1>2, <2>1, NextNumbers DEF new
    <2> QED
        BY <1>1, <2>5, <2>6 DEF InOrder, Line, Numbers
  <1>7. Dormant' /\ Registered' /\ Counted' /\ TcTells'
      BY <1>1 DEF UInv, Dormant, Registered, Counted, UartLocks, TcTells
  <1>8. Patient'
    <2>1. Len(fifo) = took => Len(fifo') = took'
        BY <1>0, <1>1, <1>2, <1>4
    <2>2. done' /\ fifo = <<>> => fifo' = <<>>
      <3> SUFFICES ASSUME done', fifo = <<>> PROVE fifo' = <<>>
          OBVIOUS
      <3>1. fits = 0 /\ Len(fifo) = 0
          BY <1>1, EmptySeq
      <3>2. Len(fifo') = 0
          BY <1>4, <3>1
      <3> QED
          BY <1>4, <3>2, EmptySeq
    <2>3. done' => done
        BY <1>1
    <2> QED
        BY <1>1, <2>1, <2>2, <2>3 DEF UInv, Patient, AtRest, Transferring, Numbered
  <1> QED
      BY <1>5, <1>6, <1>7, <1>8 DEF UInv

\* A byte of a blocking write enters an empty data register: no numbered byte moves.
LEMMA SyncLoadStep == ASSUME UInv, SyncLoad PROVE UInv'
  <1>1. /\ tdr = <<>> /\ tdr' = <<SyncByte>> /\ ~tc' /\ todo' = todo - 1 /\ todo > 0 /\ pc = "poll"
        /\ UNCHANGED <<lpuart, style, initialized, in_progress, fifo, task, locks, txeie, tcie, shift,
                       pc, took, accepted, sent, done>>
      BY DEF SyncLoad, mode, history
  <1>2. Numbered(tdr') = Numbered(tdr) /\ Register(tdr)'
    <2>1. <<SyncByte>> \in Seq(Nat) /\ Len(<<SyncByte>>) = 1
        BY DEF SyncByte
    <2> QED
        BY <1>1, <2>1, NoByte DEF Numbered, Register
  <1>3. InOrder'
      BY <1>1, <1>2 DEF UInv, InOrder, InFlight, Numbered
  <1>4. UartTyped'
    <2>1. todo' \in Nat
        BY <1>1 DEF UInv, UartTyped
    <2>2. Register(shift)'
        BY <1>1 DEF UInv, UartTyped, Register
    <2>3. tc' \in BOOLEAN
        BY DEF SyncLoad
    <2> QED
        BY <1>1, <1>2, <2>1, <2>2, <2>3, Zenon DEF UInv, UartTyped
  <1>5. Dormant' /\ Registered' /\ Counted' /\ TcTells'
      BY <1>1 DEF UInv, Dormant, Registered, Counted, UartLocks, TcTells
  <1>6. Patient'
      BY <1>1, <1>2 DEF UInv, Patient, AtRest, Transferring, Registered, Numbered
  <1> QED
      BY <1>3, <1>4, <1>5, <1>6 DEF UInv

\* The data register moves to the shift register: the line stays.
LEMMA LoadStep == ASSUME UInv, Load PROVE UInv'
  <1>1. /\ shift = <<>> /\ tdr # <<>> /\ shift' = tdr /\ tdr' = <<>>
        /\ UNCHANGED <<lpuart, style, initialized, in_progress, fifo, task, locks, txeie, tcie, tc,
                       pc, todo, took, accepted, sent, done>>
      BY DEF Load, caller, mode, history
  <1>2. /\ Numbered(shift') = Numbered(tdr) /\ Numbered(tdr') = <<>> /\ Numbered(shift) = <<>>
        /\ Numbered(tdr) \in Seq(Number) /\ Register(tdr)' /\ Register(shift)'
      BY <1>1, NoByte, LineIs DEF UInv, UartTyped, Register, Numbered
  <1>3. InOrder'
    <2>1. InFlight = <<>> \o Numbered(tdr) /\ InFlight' = Numbered(tdr) \o <<>>
        BY <1>2 DEF InFlight, Numbered
    <2>2. InFlight' = InFlight
        BY <1>2, <2>1, ConcatEmptySeq
    <2> QED
        BY <1>1, <2>2 DEF UInv, InOrder
  <1>4. UartTyped'
      BY <1>1, <1>2, ZenonT(60) DEF UInv, UartTyped
  <1>5. Dormant' /\ Registered' /\ Counted' /\ TcTells'
      BY <1>1 DEF UInv, Dormant, Registered, Counted, UartLocks, TcTells
  <1>6. Patient'
      BY <1>1, <1>2 DEF UInv, Patient, AtRest, Transferring, Registered, TcTells
  <1> QED
      BY <1>3, <1>4, <1>5, <1>6 DEF UInv

\* A frame ends: its byte goes from the shift register to the wire.
LEMMA FrameEndsStep == ASSUME UInv, FrameEnds PROVE UInv'
  <1>0. UartTyped
      BY DEF UInv
  <1>1. /\ shift # <<>> /\ shift' = <<>> /\ sent' = Leaves /\ tc' = (tdr = <<>>)
        /\ UNCHANGED <<lpuart, style, initialized, in_progress, fifo, task, locks, txeie, tcie, tdr,
                       pc, todo, took, accepted, done>>
      BY DEF FrameEnds, caller, mode
  <1>2. /\ Head(shift) \in Nat
        /\ Numbered(shift) = IF Head(shift) = SyncByte THEN <<>> ELSE <<Head(shift)>>
      BY <1>0, <1>1, OneByte DEF UartTyped
  <1>3. sent' = sent \o Numbered(shift) /\ sent' \in Seq(Number)
    <2>0. sent \in Seq(Number)
        BY <1>0 DEF UartTyped
    <2>1. CASE Head(shift) = SyncByte
        BY <1>1, <1>2, <2>0, <2>1, ConcatEmptySeq DEF Leaves
    <2>2. CASE Head(shift) # SyncByte
      <3>1. Head(shift) \in Number
          BY <1>2, <2>2 DEF Number
      <3>2. sent' = Append(sent, Head(shift))
          BY <1>1, <2>2 DEF Leaves
      <3> QED
          BY <1>2, <2>0, <2>2, <3>1, <3>2, AppendProperties, AppendIsConcat
    <2> QED
        BY <2>1, <2>2
  <1>4. InOrder'
    <2> DEFINE rest == Numbered(tdr) \o fifo
    <2>1. /\ Line = sent \o (Numbered(shift) \o rest) /\ Numbered(shift) \in Seq(Number)
          /\ sent \in Seq(Number) /\ rest \in Seq(Number) /\ Numbered(tdr) \in Seq(Number)
          /\ fifo \in Seq(Number)
      <3>1. /\ Line = sent \o (Numbered(shift) \o rest) /\ Numbered(shift) \in Seq(Number)
            /\ sent \in Seq(Number) /\ Numbered(tdr) \in Seq(Number) /\ fifo \in Seq(Number)
          BY <1>0, LineIs DEF UartTyped
      <3> QED
          BY <3>1, ConcatProperties
    <2>2. InFlight' = Numbered(tdr)
      <3>1. InFlight' = Numbered(<<>>) \o Numbered(tdr)
          BY <1>1 DEF InFlight, Numbered
      <3> QED
          BY <2>1, <3>1, NoByte, ConcatEmptySeq
    <2>3. Line' = (sent' \o Numbered(tdr)) \o fifo
        BY <1>1, <2>2 DEF Line
    <2>4. Line' = sent' \o rest
      <3>1. \A s \in Seq(Number) : (s \o Numbered(tdr)) \o fifo = s \o rest
          BY <2>1, Associates, SMTT(40)
      <3>2. sent' \in Seq(Number)
          BY <1>3
      <3> QED
          BY <2>3, <3>1, <3>2, Zenon
    <2> HIDE DEF rest
    <2>5. (sent \o Numbered(shift)) \o rest = sent \o (Numbered(shift) \o rest)
        BY <2>1, ConcatAssociative, SMTT(40)
    <2>6. Line' = Line
        BY <1>3, <2>1, <2>4, <2>5, Zenon
    <2> QED
        BY <1>1, <2>6 DEF UInv, InOrder, Line
  <1>5. Register(shift)' /\ Register(tdr)'
      BY <1>0, <1>1, NoByte DEF UartTyped, Register
  <1>6. UartTyped'
      BY <1>0, <1>1, <1>3, <1>5, ZenonT(60) DEF UartTyped
  <1>7. Dormant' /\ Registered' /\ Counted' /\ TcTells'
      BY <1>1 DEF UInv, Dormant, Registered, Counted, UartLocks, TcTells
  <1>8. Patient'
    <2>1. ~tc
        BY <1>1 DEF UInv, TcTells
    <2>2. Numbered(shift)' = <<>> /\ Numbered(tdr)' = Numbered(tdr)
        BY <1>1, NoByte DEF Numbered
    <2> QED
        BY <1>1, <2>1, <2>2 DEF UInv, Patient, AtRest, Transferring, Registered
  <1> QED
      BY <1>4, <1>6, <1>7, <1>8 DEF UInv

\* The handler moves the oldest byte of the FIFO into an empty data register, hands
\* over from TXE to TC when the FIFO is dry, and plans the task when TC has come.
LEMMA HandlerStep == ASSUME UInv, Handler PROVE UInv'
  <1> DEFINE feed == TxePending /\ fifo # <<>>
             drained == TxePending /\ fifo = <<>>
             complete == Completes(feed, drained)
  <1>0. UartTyped /\ sent \in Seq(Number) /\ fifo \in Seq(Number) /\ Len(fifo) \in 0..Capacity
      BY DEF UInv, UartTyped
  <1>1. /\ fifo' = IF feed THEN Tail(fifo) ELSE fifo
        /\ tdr' = IF feed THEN <<Head(fifo)>> ELSE tdr
        /\ tc' = (tc /\ ~feed)
        /\ txeie' = (txeie /\ ~drained)
        /\ tcie' = ((tcie \/ drained) /\ ~complete)
        /\ task' = IF complete /\ task # "none" THEN "planned" ELSE task
        /\ initialized /\ (TxePending \/ TcPending)
        /\ UNCHANGED <<lpuart, style, initialized, in_progress, locks, shift, pc, todo, took,
                       accepted, sent, done>>
      BY DEF Handler, caller, mode, history
  <1>2. /\ feed => txeie /\ tdr = <<>> /\ fifo # <<>>
        /\ drained => txeie /\ tdr = <<>> /\ fifo = <<>>
        /\ complete => (tcie \/ drained) /\ tc /\ ~feed
        /\ ~feed /\ ~drained => ~(txeie /\ tdr = <<>>) /\ tcie /\ tc
        /\ ~feed /\ (tcie \/ drained) /\ tc => complete
      BY <1>1, Zenon DEF TxePending, TcPending, Completes
  <1> HIDE DEF feed, drained, complete
  <1>3. ASSUME feed
        PROVE  /\ Head(fifo) \in Number /\ Tail(fifo) \in Seq(Number)
               /\ Len(Tail(fifo)) \in 0..Capacity
               /\ fifo = <<Head(fifo)>> \o Tail(fifo)
               /\ Register(<<Head(fifo)>>) /\ Numbered(<<Head(fifo)>>) = <<Head(fifo)>>
    <2>1. fifo # <<>>
        BY <1>2, <1>3
    <2>2. /\ Head(fifo) \in Number /\ Tail(fifo) \in Seq(Number) /\ Len(Tail(fifo)) = Len(fifo) - 1
          /\ Len(fifo) # 0
        BY <1>0, <2>1, HeadTailProperties, EmptySeq
    <2>3. Len(Tail(fifo)) \in 0..Capacity
        BY <1>0, <2>2, Bounds
    <2>4. fifo = <<Head(fifo)>> \o Tail(fifo)
        BY <1>0, <2>1
    <2>5. Register(<<Head(fifo)>>) /\ Numbered(<<Head(fifo)>>) = <<Head(fifo)>>
        BY <2>2 DEF Register, Numbered, Number
    <2> QED
        BY <2>2, <2>3, <2>4, <2>5
  <1>4. UartTyped'
    <2>1. fifo' \in Seq(Number) /\ Len(fifo') \in 0..Capacity /\ Register(tdr)'
      <3>1. CASE feed
        <4>1. fifo' = Tail(fifo) /\ tdr' = <<Head(fifo)>>
            BY <1>1, <3>1
        <4> QED
            BY <1>3, <3>1, <4>1 DEF Register
      <3>2. CASE ~feed
          BY <1>0, <1>1, <3>2 DEF UartTyped, Register
      <3> QED
          BY <3>1, <3>2
    <2>2. Register(shift)'
        BY <1>0, <1>1 DEF UartTyped, Register
    <2>3. task' \in {"none", "parked", "planned"}
        BY <1>0, <1>1 DEF UartTyped
    <2>4. tc' \in BOOLEAN /\ txeie' \in BOOLEAN /\ tcie' \in BOOLEAN
        BY <1>1
    <2> QED
        BY <1>0, <1>1, <2>1, <2>2, <2>3, <2>4, Zenon DEF UartTyped
  <1>5. InOrder'
    <2>1. CASE ~feed
        BY <1>1, <2>1 DEF UInv, InOrder, InFlight, Numbered
    <2>2. CASE feed
      <3> DEFINE a == Numbered(shift)
                 h == <<Head(fifo)>>
                 t == Tail(fifo)
      <3>1. a \in Seq(Number) /\ h \in Seq(Number) /\ t \in Seq(Number)
          BY <1>0, <1>3, <2>2, LineIs
      <3>2. fifo' = t /\ tdr' = h /\ fifo = h \o t /\ Numbered(h) = h /\ Numbered(tdr) = <<>>
          BY <1>1, <1>2, <1>3, <2>2, NoByte
      <3>3. InFlight = a \o <<>> /\ InFlight' = a \o h
          BY <1>1, <3>2 DEF InFlight, Numbered
      <3> HIDE DEF a, h, t
      <3>4. a \o <<>> = a /\ a \o h \in Seq(Number) /\ h \o t \in Seq(Number)
          BY <3>1, ConcatEmptySeq, ConcatProperties
      <3>5. Line = (sent \o a) \o (h \o t) /\ Line' = (sent \o (a \o h)) \o t
          BY <1>1, <3>2, <3>3, <3>4 DEF Line
      <3>6. (sent \o a) \o (h \o t) = sent \o (a \o (h \o t))
        <4> DEFINE u == h \o t
        <4>1. sent \in Seq(Number) /\ a \in Seq(Number) /\ u \in Seq(Number)
            BY <1>0, <3>1, <3>4
        <4> HIDE DEF u
        <4>2. (sent \o a) \o u = sent \o (a \o u)
            BY <4>1, ConcatAssociative, SMTT(40)
        <4> QED
            BY <4>2 DEF u
      <3>7. a \o (h \o t) = (a \o h) \o t
          BY <3>1, ConcatAssociative, SMTT(40)
      <3> DEFINE c == a \o h
      <3>8. sent \in Seq(Number) /\ c \in Seq(Number) /\ t \in Seq(Number)
          BY <1>0, <3>1, <3>4
      <3> HIDE DEF c
      <3>9. (sent \o c) \o t = sent \o (c \o t)
          BY <3>8, ConcatAssociative, SMTT(40)
      <3>10. Line' = Line
          BY <3>5, <3>6, <3>7, <3>9, Zenon DEF c
      <3> QED
          BY <1>1, <3>10 DEF UInv, InOrder, Line
    <2> QED
        BY <2>1, <2>2
  <1>6. Dormant' /\ Registered' /\ Counted'
      BY <1>1 DEF UInv, Dormant, Registered, Counted, UartLocks
  <1>7. TcTells'
      BY <1>1 DEF UInv, TcTells
  <1>8. Patient'
    <2>1. CASE in_progress \/ pc = "flag"
      <3> SUFFICES ASSUME style = "patient" PROVE Transferring'
          BY <1>1, <2>1 DEF Patient
      <3>1. Transferring
          BY <2>1 DEF UInv, Patient
      <3>2. task' \in {"parked", "planned"} /\ ~done' /\ initialized' /\ pc' \in {"idle", "flag"}
          BY <1>1, <3>1 DEF Transferring
      <3>3. tcie' => ~txeie' /\ fifo' = <<>>
          BY <1>1, <1>2, <3>1 DEF Transferring
      <3>4. task' = "planned" => ~txeie' /\ ~tcie' /\ fifo' = <<>> /\ tc'
        <4>1. CASE complete
            BY <1>1, <1>2, <3>1, <4>1 DEF Transferring
        <4>2. CASE ~complete
            BY <1>1, <1>2, <3>1, <4>2 DEF Transferring
        <4> QED
            BY <4>1, <4>2
      <3> QED
          BY <3>2, <3>3, <3>4 DEF Transferring
    <2>2. CASE ~(in_progress \/ pc = "flag")
      <3> SUFFICES ASSUME style = "patient" PROVE FALSE
          BY <1>1 DEF Patient
      <3>1. ~txeie /\ ~tcie
          BY <2>2 DEF UInv, Patient, AtRest
      <3> QED
          BY <1>1, <3>1 DEF TxePending, TcPending
    <2> QED
        BY <2>1, <2>2
  <1> QED
      BY <1>4, <1>5, <1>6, <1>7, <1>8 DEF UInv

\* Every step of the channel keeps its invariant.
LEMMA UartStep == ASSUME UInv, [Next]_vars PROVE UInv'
  <1>1. CASE Application
      BY <1>1, UartInitStep, CallStep DEF Application
  <1>2. CASE Main
      BY <1>2, CallStep, FillStep, SyncLoadStep DEF Main, AsyncSteps, SyncSteps
  <1>3. CASE Peripheral
      BY <1>3, LoadStep, FrameEndsStep DEF Peripheral
  <1>4. CASE UNCHANGED vars
    <2> USE <1>4 DEF vars, usart, caller, mode, history
    <2>1. InOrder'
        BY StillInOrder DEF UInv, Still
    <2>2. UartTyped'
      <3>1. Register(tdr)' /\ Register(shift)'
          BY DEF UInv, UartTyped, Register
      <3>2. /\ lpuart' = lpuart /\ style' = style /\ initialized' = initialized
            /\ in_progress' = in_progress /\ txeie' = txeie /\ tcie' = tcie /\ tc' = tc
            /\ done' = done /\ pc' = pc /\ task' = task /\ locks' = locks /\ todo' = todo
            /\ took' = took /\ accepted' = accepted /\ sent' = sent /\ fifo' = fifo
          OBVIOUS
      <3> QED
          BY <3>1, <3>2, ZenonT(60) DEF UInv, UartTyped
    <2>3. Dormant' /\ Registered' /\ Counted' /\ TcTells'
        BY DEF UInv, Dormant, Registered, Counted, UartLocks, TcTells
    <2>4. Patient'
        BY DEF UInv, Patient, Transferring, AtRest, Numbered
    <2> QED
        BY <2>1, <2>2, <2>3, <2>4 DEF UInv
  <1> QED
      BY <1>1, <1>2, <1>3, <1>4, HandlerStep DEF Next

-------------------------------------------------------------------------------
(***************************************************************************)
(* The holders.                                                            *)
(***************************************************************************)
LEMMA HoldsAre ==
    /\ UartLocks \in 0..2 /\ UartHolds \in 0..2 /\ DeepHolds \in 0..2
    /\ OokHolds \in 0..1 /\ CallHolds \in 0..1 /\ AsyncHolds \in 0..1
    /\ Holders \in Nat
  <1>1. UartLocks \in 0..2
      BY DEF UartLocks
  <1>2. UartHolds \in 0..2 /\ DeepHolds \in 0..2
      BY <1>1 DEF UartHolds, DeepHolds
  <1>3. OokHolds \in 0..1 /\ CallHolds \in 0..1 /\ AsyncHolds \in 0..1
      BY DEF OokHolds, CallHolds, AsyncHolds
  <1> QED
      BY <1>1, <1>2, <1>3 DEF Holders

LEMMA SumOfHolds ==
    ASSUME NEW a \in 0..2, NEW b \in 0..1, NEW c \in 0..1, NEW d \in 0..1
    PROVE  a + b + c + d \in Nat
  OBVIOUS

LEMMA HoldsAreNext ==
    /\ UartLocks' \in 0..2 /\ UartHolds' \in 0..2 /\ DeepHolds' \in 0..2
    /\ OokHolds' \in 0..1 /\ CallHolds' \in 0..1 /\ AsyncHolds' \in 0..1
    /\ Holders' \in Nat
  <1>1. UartLocks' \in 0..2
      BY DEF UartLocks
  <1>2. UartHolds' \in 0..2 /\ DeepHolds' \in 0..2
      BY <1>1 DEF UartHolds, DeepHolds
  <1>3. OokHolds' \in 0..1 /\ CallHolds' \in 0..1 /\ AsyncHolds' \in 0..1
      BY DEF OokHolds, CallHolds, AsyncHolds
  <1>4. Holders' = UartHolds' + OokHolds' + CallHolds' + AsyncHolds'
      BY DEF Holders
  <1>5. Holders' \in Nat
      BY <1>2, <1>3, <1>4, SumOfHolds
  <1> QED
      BY <1>1, <1>2, <1>3, <1>5, Zenon

\* A caller that enables the PLL holds it from the beginning of its call.
LEMMA CallerHolds ==
    ASSUME ClocksTyped, Calling, caller_is # "nobody", step = 1
    PROVE  /\ caller_is = "uart" => UartHolds >= 1
           /\ caller_is = "ook" => OokHolds = 1
           /\ caller_is \notin {"uart", "ook"} => CallHolds + AsyncHolds >= 1
  <1>1. CASE caller_is = "uart"
      BY <1>1, HoldsAre DEF Calling, UartHolds
  <1>2. CASE caller_is = "ook"
      BY <1>2, HoldsAre DEF OokHolds
  <1>3. CASE caller_is \in {"transfer", "refused"}
      BY <1>3, HoldsAre DEF CallHolds
  <1>4. CASE caller_is = "async"
      BY <1>4, HoldsAre DEF AsyncHolds
  <1>5. caller_is # "task"
      BY DEF Calling
  <1> QED
      BY <1>1, <1>2, <1>3, <1>4, <1>5 DEF ClocksTyped

LEMMA PInitInv == PInit => PInv
  <1> SUFFICES ASSUME PInit PROVE PInv
      OBVIOUS
  <1> USE DEF PInit, ClocksInit, SpiInit
  <1>1. UInv
      BY UInit
  <1>2. UartHolds = 0 /\ DeepHolds = 0
      BY DEF Init, UartHolds, DeepHolds, UartLocks
  <1>3. OokHolds = 0 /\ CallHolds = 0 /\ AsyncHolds = 0
      BY DEF OokHolds, CallHolds, AsyncHolds
  <1>4. Count /\ Source /\ Deep
      BY <1>2, <1>3 DEF Count, Source, Clocked, Deep, Holders
  <1>5. ClocksTyped /\ Calling /\ LocksQuietly
    <2>1. /\ pll \in Int /\ hsi16 \in Int /\ disable_sleep \in Int /\ register \in Int
          /\ deep_sleep \in Int /\ stray \in Nat
        OBVIOUS
    <2>2. ClocksTyped
        BY <2>1, Zenon DEF ClocksTyped
    <2>3. Calling /\ LocksQuietly
        BY DEF Calling, LocksQuietly
    <2> QED
        BY <2>2, <2>3
  <1>6. OneTransfer
      BY EmptySeq DEF OneTransfer
  <1> QED
      BY <1>1, <1>4, <1>5, <1>6 DEF PInv

-------------------------------------------------------------------------------
\* The channel changes its lock by one, and a patient one does so at a quiet moment.
LEMMA LockChanges ==
    ASSUME UInv, Application \/ Main
    PROVE  /\ locks' \in {locks - 1, locks, locks + 1} /\ locks \in Int
           /\ lpuart' = lpuart
           /\ locks' # locks /\ style' = "patient" =>
                  tdr' = <<>> /\ shift' = <<>> /\ ~txeie' /\ ~tcie'
  <1>1. locks \in Int
      BY DEF UInv, UartTyped
  <1>2. CASE Application
    <2>1. CASE locks' = locks
        BY <1>1, <1>2, <2>1 DEF Application, UartInit, AsyncCall, SyncCall, Deinit, mode, caller
    <2>2. CASE locks' # locks
      <3>1. SyncCall /\ style = "patient" /\ ~in_progress
          BY <1>2, <2>2 DEF Application, UartInit, AsyncCall, Deinit
      <3> QED
          BY <1>1, <3>1 DEF UInv, Patient, AtRest, TcTells, SyncCall, mode, usart
    <2> QED
        BY <2>1, <2>2
  <1>3. CASE Main
    <2>1. CASE Park
      <3>1. locks' # locks => ~in_progress /\ pc = "fill"
          BY <2>1 DEF Park
      <3> QED
          BY <1>1, <2>1, <3>1 DEF UInv, Patient, AtRest, TcTells, Park, mode, usart
    <2>2. CASE SyncReturn
        BY <1>1, <2>2 DEF UInv, Patient, AtRest, Registered, TcTells, SyncReturn, mode, usart
    <2>3. CASE WriteTask
      <3>1. in_progress
          BY <2>3 DEF UInv, Registered, WriteTask
      <3> QED
          BY <1>1, <2>3, <3>1 DEF UInv, Patient, Transferring, TcTells, WriteTask, caller, mode, usart
    <2>4. CASE Fill \/ NothingTaken \/ EnableTxe \/ SetInProgress \/ SyncLoad
        BY <1>1, <2>4 DEF Fill, NothingTaken, EnableTxe, SetInProgress, SyncLoad, mode
    <2> QED
        BY <1>3, <2>1, <2>2, <2>3, <2>4 DEF Main, AsyncSteps, SyncSteps
  <1> QED
      BY <1>2, <1>3

LEMMA ByOne ==
    ASSUME NEW a \in Int, NEW b \in Int, b = a - 1 \/ b = a \/ b = a + 1
    PROVE  b - a \in Int /\ b = a + (b - a) /\ (b # a => b - a = 1 \/ b - a = -1)
  OBVIOUS

\* A step of the channel that changes its lock begins one call for the PLL, or counts
\* deep sleep at once.
LEMMA WithLockStep == ASSUME PInv, UartAsked \/ UartRuns PROVE PInv'
  <1>1. /\ WithLock /\ (Application \/ Main) /\ UInv /\ UInv'
        /\ scene = "uart" /\ call = "none" /\ caller_is = "nobody"
        /\ UNCHANGED <<spi, dma, scene>>
      BY UartStep DEF UartAsked, UartRuns, WithLock, MainFree, PInv, Next
  <1>2. /\ locks \in Int /\ locks' \in {locks - 1, locks, locks + 1} /\ lpuart' = lpuart
        /\ locks = UartLocks /\ locks' = UartLocks' /\ lpuart \in BOOLEAN
        /\ UartLocks \in 0..2 /\ UartLocks' \in 0..2
    <2>1. UartLocks \in 0..2 /\ UartLocks' \in 0..2
        BY DEF UartLocks
    <2> QED
        BY <1>1, <2>1, LockChanges DEF UInv, Counted, UartTyped
  <1> DEFINE d == locks' - locks
  <1>a. /\ d \in Int /\ UartLocks' = UartLocks + d /\ (locks' # locks => d = 1 \/ d = -1)
        /\ UartLocks' \in Int /\ UartLocks \in Int
    <2>1. UartLocks' \in Int /\ UartLocks \in Int /\ locks = UartLocks /\ locks' = UartLocks'
        BY <1>2
    <2>2. locks' \in Int /\ locks \in Int
        BY <2>1, Zenon
    <2>3. locks' = locks - 1 \/ locks' = locks \/ locks' = locks + 1
        BY <1>2
    <2>4. d \in Int /\ locks' = locks + d /\ (locks' # locks => d = 1 \/ d = -1)
        BY <2>2, <2>3, ByOne
    <2>5. UartLocks' = UartLocks + d
        BY <2>1, <2>4, Zenon
    <2> QED
        BY <2>1, <2>4, <2>5
  <1>3. CallHolds = 0 /\ (caller_is' \in {"nobody", "uart"} => CallHolds' = 0)
      BY <1>1 DEF CallHolds
  <1>4. AsyncHolds \in 0..1 /\ (caller_is' \in {"nobody", "uart"} => AsyncHolds' = AsyncHolds)
      BY <1>1, HoldsAre DEF AsyncHolds, spi
  <1>5. /\ OokHolds \in 0..1
        /\ caller_is' \in {"nobody", "uart"} /\ sending' = sending => OokHolds' = OokHolds
      BY <1>1, HoldsAre DEF OokHolds
  <1>6. /\ ClocksTyped /\ Calling /\ OneTransfer /\ Count /\ Source /\ Deep /\ LocksQuietly
      BY DEF PInv
  <1>7. CASE locks' = locks
    <2>1. UNCHANGED clocks
        BY <1>1, <1>7 DEF WithLock
    <2>2. /\ UNCHANGED <<pll, hsi16, disable_sleep, source, deep_sleep, sleepdeep, call, caller_is,
                         step, register, sending, stray, raced>>
        BY <2>1 DEF clocks, counts, deep, calling
    <2>3. UartHolds' = UartHolds /\ DeepHolds' = DeepHolds
        BY <1>2, <1>7 DEF UartHolds, DeepHolds
    <2>4. Holders' = Holders
        BY <1>1, <1>3, <1>4, <1>5, <2>2, <2>3 DEF Holders
    <2>5. ClocksTyped' /\ Calling' /\ OneTransfer'
        BY <1>1, <1>6, <2>2 DEF ClocksTyped, Calling, OneTransfer, spi, dma
    <2>6. Count' /\ Source' /\ Deep' /\ LocksQuietly'
        BY <1>1, <1>6, <2>2, <2>3, <2>4 DEF Count, Source, Clocked, Deep, LocksQuietly
    <2> QED
        BY <1>1, <2>5, <2>6 DEF PInv
  <1>8. CASE locks' # locks /\ lpuart
    <2>1. DeepSleep(locks' - locks)
        BY <1>1, <1>8 DEF WithLock
    <2>2. /\ UNCHANGED <<pll, hsi16, disable_sleep, source, call, caller_is, step, register, sending,
                         stray, raced>>
          /\ deep_sleep' = deep_sleep + d
          /\ sleepdeep' = IF d = 1 THEN sleepdeep /\ deep_sleep # 0
                                                ELSE sleepdeep \/ deep_sleep' = 0
        BY <2>1 DEF DeepSleep, counts, calling
    <2>3. UartHolds' = 0 /\ UartHolds = 0 /\ DeepHolds' = UartLocks' /\ DeepHolds = UartLocks
        BY <1>2, <1>8 DEF UartHolds, DeepHolds
    <2>4. Holders' = Holders
        BY <1>1, <1>3, <1>4, <1>5, <2>2, <2>3 DEF Holders
    <2>5. Deep'
      <3>1. deep_sleep = UartLocks /\ (sleepdeep <=> deep_sleep = 0)
          BY <1>6, <2>3 DEF Deep
      <3>2. deep_sleep' = UartLocks' /\ deep_sleep' = deep_sleep + d
          BY <1>a, <2>2, <3>1
      <3>3. sleepdeep' <=> deep_sleep' = 0
        <4>1. CASE d = 1
          <5>1. deep_sleep' # 0
            <6>1. deep_sleep \in 0..2 /\ deep_sleep' = deep_sleep + 1
                BY <1>2, <3>1, <3>2, <4>1, Zenon
            <6> QED
                BY <6>1
          <5> QED
              BY <2>2, <3>1, <4>1, <5>1
        <4>2. CASE d = -1
          <5>1. d # 1 /\ deep_sleep # 0
            <6>1. deep_sleep' \in 0..2 /\ deep_sleep' = deep_sleep + (-1) /\ d = -1
                BY <1>2, <3>1, <3>2, <4>2, Zenon
            <6> QED
                BY <6>1
          <5> QED
              BY <2>2, <3>1, <5>1
        <4> QED
            BY <1>a, <1>8, <4>1, <4>2
      <3> QED
          BY <2>3, <3>2, <3>3 DEF Deep
    <2>6. ClocksTyped'
      <3>1. deep_sleep' \in Int
          BY <1>a, <1>6, <2>2 DEF ClocksTyped
      <3>2. sleepdeep' \in BOOLEAN
          BY <2>2, Zenon
      <3> QED
          BY <1>1, <1>6, <2>2, <3>1, <3>2 DEF ClocksTyped, spi, dma
    <2>7. Calling' /\ OneTransfer'
        BY <1>1, <1>6, <2>2 DEF Calling, OneTransfer, spi, dma
    <2>8. Count' /\ Source' /\ LocksQuietly'
        BY <1>1, <1>6, <2>2, <2>4 DEF Count, Source, Clocked, LocksQuietly
    <2> QED
        BY <1>1, <2>5, <2>6, <2>7, <2>8 DEF PInv
  <1>9. CASE locks' # locks /\ ~lpuart
    <2>1. PllCall(locks' - locks, "uart")
        BY <1>1, <1>9 DEF WithLock
    <2>2. /\ UNCHANGED <<pll, hsi16, disable_sleep, source, deep_sleep, sleepdeep, register, sending,
                         stray, raced>>
          /\ call' = "load" /\ caller_is' = "uart" /\ step' = d
        BY <2>1 DEF PllCall, counts, deep
    <2>3. /\ step' \in {1, -1} /\ (step' = 1 => UartLocks' > 0)
          /\ UartHolds' = UartHolds + step' /\ UartHolds \in 0..2
          /\ DeepHolds' = 0 /\ DeepHolds = 0
      <3>1. step' = 1 \/ step' = -1
          BY <1>a, <1>9, <2>2
      <3>2. UartHolds' = UartLocks' /\ UartHolds = UartLocks /\ DeepHolds' = 0 /\ DeepHolds = 0
          BY <1>2, <1>9 DEF UartHolds, DeepHolds
      <3>3. UartLocks' = UartLocks + step'
          BY <1>a, <2>2
      <3> HIDE DEF d
      <3> QED
          BY <1>2, <3>1, <3>2, <3>3
    <2>4. Holders' = Holders + step'
        BY <1>1, <1>3, <1>4, <1>5, <2>2, <2>3 DEF Holders
    <2>5. Count'
      <3>1. pll = Holders + stray /\ stray \in Nat /\ Holders \in Nat
          BY <1>1, <1>6, HoldsAre DEF Count, ClocksTyped
      <3> QED
          BY <2>2, <2>3, <2>4, <3>1 DEF Count
    <2>6. Source' /\ Deep'
        BY <1>1, <1>6, <2>2, <2>3 DEF Source, Clocked, Deep
    <2>7. ClocksTyped'
        BY <1>1, <1>6, <2>2, <2>3 DEF ClocksTyped, spi, dma
    <2>8. Calling' /\ OneTransfer'
        BY <1>1, <1>2, <1>6, <1>9, <2>2, <2>3 DEF Calling, OneTransfer, spi, dma
    <2>9. LocksQuietly'
        BY <1>1, <1>9, LockChanges DEF LocksQuietly
    <2> QED
        BY <1>1, <2>5, <2>6, <2>7, <2>8, <2>9 DEF PInv
  <1> QED
      BY <1>7, <1>8, <1>9

\* What a step of the others leaves of the channel.
LEMMA UartSame ==
    ASSUME PInv, UNCHANGED vars
    PROVE  /\ UInv'
           /\ UNCHANGED <<lpuart, style, pc, tdr, shift, txeie, tcie>>
           /\ UartLocks' = UartLocks /\ UartHolds' = UartHolds /\ DeepHolds' = DeepHolds
  <1>1. UInv'
      BY UartStep DEF PInv
  <1> QED
      BY <1>1 DEF vars, usart, caller, mode, UartLocks, UartHolds, DeepHolds

\* The handler and the peripheral do not touch the locks, and have nothing to do while
\* a patient application's channel changes its own.
LEMMA UartRunsOn == ASSUME PInv, UartHandler \/ UartPeripheral PROVE PInv'
  <1>1. UNCHANGED <<clocks, spi, dma, scene>> /\ (Handler \/ Peripheral) /\ UInv'
      BY UartStep DEF UartHandler, UartPeripheral, PInv, Next
  <1>2. UNCHANGED <<pll, hsi16, disable_sleep, source, deep_sleep, sleepdeep, call, caller_is,
                    step, register, sending, stray, raced>>
      BY <1>1 DEF clocks, counts, deep, calling
  <1>3. ClocksTyped /\ Calling /\ OneTransfer /\ Count /\ Source /\ Deep /\ LocksQuietly /\ UInv
      BY DEF PInv
  <1>4. UNCHANGED <<lpuart, style, pc>> /\ (task' # "none" <=> task # "none")
    <2>1. CASE Handler
        BY <2>1 DEF Handler, caller, mode
    <2>2. CASE Peripheral
        BY <2>2 DEF Peripheral, Load, FrameEnds, caller, mode
    <2> QED
        BY <1>1, <2>1, <2>2
  <1>5. UartLocks' = UartLocks
      BY <1>4 DEF UartLocks
  <1>6. UartHolds' = UartHolds /\ DeepHolds' = DeepHolds
      BY <1>4, <1>5 DEF UartHolds, DeepHolds
  <1>7. OokHolds' = OokHolds /\ CallHolds' = CallHolds /\ AsyncHolds' = AsyncHolds
      BY <1>1, <1>2 DEF OokHolds, CallHolds, AsyncHolds, spi
  <1>8. Holders' = Holders
      BY <1>6, <1>7 DEF Holders
  <1>9. ClocksTyped' /\ Calling' /\ OneTransfer'
      BY <1>1, <1>2, <1>3, <1>4, <1>5 DEF ClocksTyped, Calling, OneTransfer, SpiReady, spi, dma
  <1>10. Count' /\ Source' /\ Deep'
      BY <1>2, <1>3, <1>6, <1>8 DEF Count, Source, Clocked, Deep
  <1>11. LocksQuietly'
    <2> SUFFICES ASSUME caller_is = "uart", style = "patient" PROVE FALSE
        BY <1>2, <1>4 DEF LocksQuietly
    <2>1. tdr = <<>> /\ shift = <<>> /\ ~txeie /\ ~tcie
        BY <1>3 DEF LocksQuietly
    <2> QED
        BY <1>1, <2>1 DEF Handler, TxePending, TcPending, Peripheral, Load, FrameEnds
  <1> QED
      BY <1>1, <1>9, <1>10, <1>11 DEF PInv

LEMMA UartReturnsStep == ASSUME PInv, UartReturns PROVE PInv'
  <1>1. /\ caller_is = "uart" /\ caller_is' = "nobody" /\ call = "none"
        /\ UNCHANGED <<pll, hsi16, disable_sleep, source, deep_sleep, sleepdeep, call,
                       step, register, sending, stray, raced>>
        /\ UNCHANGED <<spi_in_progress, pending_event_done, event_handler, spi_planned,
                       channel5, fifo_pending, scene>>
        /\ UNCHANGED vars
      BY DEF UartReturns, counts, deep, spi, dma
  <1>2. ClocksTyped /\ Calling /\ OneTransfer /\ Count /\ Source /\ Deep
      BY DEF PInv
  <1>3. /\ UInv' /\ UNCHANGED <<lpuart, style, pc, tdr, shift, txeie, tcie>>
        /\ UartLocks' = UartLocks /\ UartHolds' = UartHolds /\ DeepHolds' = DeepHolds
      BY <1>1, UartSame
  <1>4. OokHolds' = OokHolds /\ CallHolds' = CallHolds /\ AsyncHolds' = AsyncHolds
      BY <1>1 DEF OokHolds, CallHolds, AsyncHolds
  <1>5. Holders' = Holders
      BY <1>3, <1>4 DEF Holders
  <1>6. ClocksTyped' /\ Calling' /\ OneTransfer' /\ LocksQuietly'
      BY <1>1, <1>2, <1>3 DEF ClocksTyped, Calling, OneTransfer, LocksQuietly, SpiReady
  <1>7. Count' /\ Source' /\ Deep'
      BY <1>1, <1>2, <1>3, <1>5 DEF Count, Source, Clocked, Deep
  <1> QED
      BY <1>3, <1>6, <1>7 DEF PInv

\* The call for the PLL itself, up to its return.
LEMMA InCallStep == ASSUME PInv, InCall PROVE PInv'
  <1>1. /\ UNCHANGED <<deep_sleep, sleepdeep, caller_is, step, sending, stray, raced>>
        /\ UNCHANGED <<spi_in_progress, pending_event_done, event_handler, spi_planned,
                       channel5, fifo_pending, scene>>
        /\ UNCHANGED vars /\ call # "none"
      BY DEF InCall, PllSteps, CallLoad, CallStore, CallHsi16, CallPll, CallOff, counts, deep,
             spi, dma
  <1>2. ClocksTyped /\ Calling /\ OneTransfer /\ Count /\ Source /\ Deep /\ LocksQuietly
      BY DEF PInv
  <1>3. /\ UInv' /\ UNCHANGED <<lpuart, style, pc, tdr, shift, txeie, tcie>>
        /\ UartLocks' = UartLocks /\ UartHolds' = UartHolds /\ DeepHolds' = DeepHolds
      BY <1>1, UartSame
  <1>4. OokHolds' = OokHolds /\ CallHolds' = CallHolds /\ AsyncHolds' = AsyncHolds
      BY <1>1 DEF OokHolds, CallHolds, AsyncHolds
  <1>5. Holders' = Holders /\ Holders \in Nat /\ stray \in Nat
      BY <1>2, <1>3, <1>4, HoldsAre DEF Holders, ClocksTyped
  <1>6. step = 1 => Holders >= 1
      BY <1>1, <1>2, CallerHolds, HoldsAre DEF Holders, Calling
  <1>7. step \in {1, -1} /\ pll \in Int /\ register \in Int /\ hsi16 \in Int /\ disable_sleep \in Int
      BY <1>2 DEF ClocksTyped
  <1>8. Deep' /\ OneTransfer' /\ LocksQuietly'
      BY <1>1, <1>2, <1>3 DEF Deep, OneTransfer, LocksQuietly
  <1>9. (call' \in {"hsi", "pll"} => step = 1) /\ (call' = "off" => step = -1) => Calling'
      BY <1>1, <1>2, <1>3 DEF Calling, SpiReady
  <1>10. /\ pll' \in Int /\ register' \in Int /\ hsi16' \in Int /\ disable_sleep' \in Int
         /\ call' \in {"none", "load", "store", "hsi", "pll", "off"}
         => ClocksTyped'
      BY <1>1, <1>2 DEF ClocksTyped
  <1>11. CASE CallLoad
    <2>1. call = "load" /\ call' = "store" /\ register' = pll /\ UNCHANGED <<pll, hsi16, disable_sleep, source>>
        BY <1>11 DEF CallLoad, counts
    <2>2. Count'
        BY <1>1, <1>2, <1>5, <2>1 DEF Count
    <2>3. Source'
        BY <1>1, <1>2, <2>1 DEF Source, Clocked
    <2>4. ClocksTyped' /\ Calling'
        BY <1>7, <1>9, <1>10, <2>1
    <2> QED
        BY <1>3, <1>8, <2>2, <2>3, <2>4 DEF PInv
  <1>12. CASE CallStore
    <2>1. /\ call = "store" /\ pll' = register + step
          /\ call' = CASE step = 1 /\ pll' = 1 -> "hsi"
                       [] step = -1 /\ pll' = 0 -> "off"
                       [] OTHER -> "none"
          /\ UNCHANGED <<hsi16, disable_sleep, source, register>>
        BY <1>12 DEF CallStore
    <2>2. pll' = Holders + stray /\ pll' \in Int
        BY <1>2, <1>5, <1>7, <2>1 DEF Count
    <2>3. \/ call' = "hsi" /\ step = 1 /\ pll' = 1
          \/ call' = "off" /\ step = -1 /\ pll' = 0
          \/ call' = "none" /\ ~(step = 1 /\ pll' = 1) /\ ~(step = -1 /\ pll' = 0)
        BY <2>1
    <2>4. Count'
        BY <1>1, <1>5, <2>2, <2>3 DEF Count
    <2>5. Source'
      <3> SUFFICES ASSUME ~raced PROVE Source'
          BY <1>1 DEF Source
      <3>1. /\ register > 0 => Clocked("PLL", 1)
            /\ ~(register > 0) => Clocked("MSI", 0)
          BY <1>2, <2>1 DEF Source
      <3>2. /\ Clocked("PLL", 1) => Clocked("PLL", 1)'
            /\ Clocked("MSI", 0) => Clocked("MSI", 0)'
          BY <2>1 DEF Clocked
      <3>3. CASE call' = "hsi"
        <4>1. register = 0 /\ pll' = 1
            BY <1>7, <2>1, <2>3, <3>3
        <4> QED
            BY <3>1, <3>2, <3>3, <4>1 DEF Source
      <3>4. CASE call' = "off"
        <4>1. register = 1 /\ pll' = 0
            BY <1>7, <2>1, <2>3, <3>4
        <4> QED
            BY <3>1, <3>2, <3>4, <4>1 DEF Source
      <3>5. CASE call' = "none"
        <4>1. pll' > 0 /\ register > 0
          <5>1. CASE step = 1
              BY <1>5, <1>6, <1>7, <2>1, <2>2, <2>3, <3>5, <5>1
          <5>2. CASE step = -1
              BY <1>5, <1>7, <2>1, <2>2, <2>3, <3>5, <5>2
          <5> QED
              BY <1>7, <5>1, <5>2
        <4> QED
            BY <3>1, <3>2, <3>5, <4>1 DEF Source
      <3> QED
          BY <2>3, <3>3, <3>4, <3>5
    <2>6. ClocksTyped' /\ Calling'
        BY <1>7, <1>9, <1>10, <2>1, <2>2, <2>3
    <2> QED
        BY <1>3, <1>8, <2>4, <2>5, <2>6 DEF PInv
  <1>13. CASE CallHsi16
    <2>1. /\ call = "hsi" /\ call' = "pll" /\ hsi16' = hsi16 + 1 /\ disable_sleep' = disable_sleep + 1
          /\ source' = IF hsi16' = 1 THEN "HSI" ELSE source
          /\ UNCHANGED <<pll, register>>
        BY <1>13 DEF CallHsi16, TakesHsi16
    <2>2. Count'
        BY <1>1, <1>2, <1>5, <2>1 DEF Count
    <2>3. Source'
        BY <1>1, <1>2, <2>1 DEF Source, Clocked
    <2>4. ClocksTyped' /\ Calling'
        BY <1>2, <1>7, <1>9, <1>10, <2>1 DEF Calling
    <2> QED
        BY <1>3, <1>8, <2>2, <2>3, <2>4 DEF PInv
  <1>14. CASE CallPll
    <2>1. call = "pll" /\ call' = "none" /\ source' = "PLL" /\ UNCHANGED <<pll, hsi16, disable_sleep, register>>
        BY <1>14 DEF CallPll, Returns
    <2>2. Count'
        BY <1>1, <1>2, <1>5, <2>1 DEF Count
    <2>3. Source'
        BY <1>1, <1>2, <2>1 DEF Source, Clocked
    <2>4. ClocksTyped' /\ Calling'
        BY <1>7, <1>9, <1>10, <2>1
    <2> QED
        BY <1>3, <1>8, <2>2, <2>3, <2>4 DEF PInv
  <1>15. CASE CallOff
    <2>1. /\ call = "off" /\ call' = "none" /\ hsi16' = hsi16 - 1 /\ disable_sleep' = disable_sleep - 1
          /\ source' = IF hsi16' = 0 THEN "MSI" ELSE "HSI"
          /\ UNCHANGED <<pll, register>>
        BY <1>15 DEF CallOff, Returns, LeavesHsi16
    <2>2. Count'
        BY <1>1, <1>2, <1>5, <2>1 DEF Count
    <2>3. Source'
        BY <1>1, <1>2, <2>1 DEF Source, Clocked
    <2>4. ClocksTyped' /\ Calling'
        BY <1>7, <1>9, <1>10, <2>1
    <2> QED
        BY <1>3, <1>8, <2>2, <2>3, <2>4 DEF PInv
  <1> QED
      BY <1>11, <1>12, <1>13, <1>14, <1>15 DEF InCall, PllSteps

-------------------------------------------------------------------------------
(***************************************************************************)
(* The SPI, its DMA channel and its tasks.                                 *)
(***************************************************************************)
Counts == <<pll, hsi16, disable_sleep, source, deep_sleep, sleepdeep, register, raced>>

\* A call begins: the count is off by what it has yet to store.
LEMMA CallBegins ==
    ASSUME PInv, call = "none", call' = "load", step' \in {1, -1}, UNCHANGED Counts, stray' = stray,
           Holders' = Holders + step'
    PROVE  Count' /\ Source'
  <1>1. pll = Holders + stray /\ stray \in Nat /\ Holders \in Nat
      BY HoldsAre DEF PInv, Count, ClocksTyped
  <1>2. pll + step' = (Holders + step') + stray
      BY <1>1
  <1>3. Count'
      BY <1>2 DEF Count, Counts
  <1>4. Source'
      BY DEF PInv, Source, Clocked, Counts
  <1> QED
      BY <1>3, <1>4

\* A holder changes hands, or gets lost: the count stays.
LEMMA CountStays ==
    ASSUME PInv, call = "none", call' = "none", UNCHANGED Counts, Holders' + stray' = Holders + stray
    PROVE  Count' /\ Source'
  <1>1. Count'
      BY DEF PInv, Count, Counts
  <1>2. Source'
      BY DEF PInv, Source, Clocked, Counts
  <1> QED
      BY <1>1, <1>2

LEMMA OneMore ==
    ASSUME NEW u \in 0..2, NEW o \in 0..1, NEW a \in 0..1, NEW b \in 0..1, NEW c \in 0..1,
           c + b = a + 1
    PROVE  u + o + c + b = (u + o + 0 + a) + 1
  OBVIOUS

LEMMA SpiAskedStep == ASSUME PInv, SpiAsked PROVE PInv'
  <1>1. /\ call = "none" /\ caller_is = "nobody" /\ ~spi_in_progress
        /\ UNCHANGED Counts /\ UNCHANGED <<deep_sleep, sleepdeep, sending, stray>>
        /\ UNCHANGED <<pending_event_done, spi_planned, channel5, fifo_pending, scene>>
        /\ UNCHANGED vars
        /\ call' = "load" /\ step' = 1
      BY DEF SpiAsked, MainFree, Transfer, AsyncTransfer, SpiReady, PllCall, counts, deep, dma, Counts
  <1>2. \/ caller_is' = "transfer" /\ spi_in_progress' = TRUE /\ event_handler' = event_handler
        \/ caller_is' \in {"async", "refused"} /\ ~pending_event_done
           /\ spi_in_progress' = spi_in_progress /\ event_handler' \in BOOLEAN
      BY DEF SpiAsked, Transfer, AsyncTransfer, SpiReady, PllCall
  <1>3. ClocksTyped /\ Calling /\ OneTransfer /\ Deep
      BY DEF PInv
  <1>4. /\ UInv' /\ UNCHANGED <<lpuart, style, pc, tdr, shift, txeie, tcie>>
        /\ UartLocks' = UartLocks /\ UartHolds' = UartHolds /\ DeepHolds' = DeepHolds
      BY <1>1, UartSame
  <1>5. OokHolds' = OokHolds
      BY <1>1, <1>2 DEF OokHolds
  <1>6. CallHolds = 0 /\ CallHolds' + AsyncHolds' = AsyncHolds + 1
    <2>1. CallHolds = 0
        BY <1>1 DEF CallHolds
    <2>2. CASE caller_is' = "transfer" /\ spi_in_progress'
      <3>1. CallHolds' = 1 /\ AsyncHolds' = AsyncHolds
          BY <1>1, <2>2 DEF CallHolds, AsyncHolds
      <3> QED
          BY <2>1, <3>1, HoldsAre
    <2>3. CASE caller_is' = "async" /\ ~pending_event_done /\ ~spi_in_progress'
      <3>1. CallHolds' = 0 /\ AsyncHolds = 0 /\ AsyncHolds' = 1
          BY <1>1, <2>3 DEF CallHolds, AsyncHolds
      <3> QED
          BY <2>1, <3>1
    <2>4. CASE caller_is' = "refused" /\ ~pending_event_done /\ ~spi_in_progress'
      <3>1. CallHolds' = 1 /\ AsyncHolds = 0 /\ AsyncHolds' = 0
          BY <1>1, <2>4 DEF CallHolds, AsyncHolds
      <3> QED
          BY <2>1, <3>1
    <2> QED
        BY <1>1, <1>2, <2>2, <2>3, <2>4
  <1>7. Holders' = Holders + step'
    <2>1. /\ Holders = UartHolds + OokHolds + 0 + AsyncHolds
          /\ Holders' = UartHolds + OokHolds + CallHolds' + AsyncHolds'
        BY <1>4, <1>5, <1>6 DEF Holders
    <2>2. /\ UartHolds \in 0..2 /\ OokHolds \in 0..1 /\ AsyncHolds \in 0..1
          /\ CallHolds' \in 0..1 /\ AsyncHolds' \in 0..1
        BY HoldsAre, HoldsAreNext, Zenon
    <2>3. CallHolds' + AsyncHolds' = AsyncHolds + 1
        BY <1>6
    <2>4. UartHolds + OokHolds + CallHolds' + AsyncHolds'
             = (UartHolds + OokHolds + 0 + AsyncHolds) + 1
      <3> DEFINE c == CallHolds'
                 b == AsyncHolds'
      <3>1. c \in 0..1 /\ b \in 0..1 /\ c + b = AsyncHolds + 1
          BY <2>2, <2>3, Zenon
      <3> HIDE DEF c, b
      <3>2. UartHolds + OokHolds + c + b = (UartHolds + OokHolds + 0 + AsyncHolds) + 1
          BY <2>2, <3>1, OneMore, SMT
      <3> QED
          BY <3>2 DEF c, b
    <2> QED
        BY <1>1, <2>1, <2>4, Zenon
  <1>8. Count' /\ Source'
      BY <1>1, <1>7, CallBegins
  <1>9. ClocksTyped'
    <2>1. event_handler' \in BOOLEAN /\ spi_in_progress' \in BOOLEAN
        BY <1>1, <1>2, <1>3 DEF ClocksTyped
    <2> QED
        BY <1>1, <1>2, <1>3, <2>1 DEF ClocksTyped, Counts
  <1>10. Calling' /\ OneTransfer'
      BY <1>1, <1>2, <1>3 DEF Calling, OneTransfer, SpiReady, ClocksTyped
  <1>11. Deep' /\ LocksQuietly'
      BY <1>1, <1>2, <1>3, <1>4 DEF Deep, LocksQuietly
  <1> QED
      BY <1>4, <1>8, <1>9, <1>10, <1>11 DEF PInv

HasDone == \E k \in DOMAIN fifo_pending : fifo_pending[k] = "done"

\* The two tasks: the DONE goes from the FIFO to the driver, and from there back.
LEMMA SpiTasksStep == ASSUME PInv, SpiTasks PROVE PInv'
  <1>1. /\ call = "none" /\ caller_is = "nobody" /\ (DmaTask \/ SpiTask)
        /\ UNCHANGED Counts /\ UNCHANGED <<deep_sleep, sleepdeep, sending>>
        /\ UNCHANGED <<event_handler, channel5, scene>>
        /\ UNCHANGED vars
      BY DEF SpiTasks, MainFree, DmaTask, SpiTask, PllCall, clocks, counts, deep, calling, dma, Counts
  <1>2. ClocksTyped /\ Calling /\ OneTransfer /\ Deep
      BY DEF PInv
  <1>3. /\ UInv' /\ UNCHANGED <<lpuart, style, pc, tdr, shift, txeie, tcie>>
        /\ UartLocks' = UartLocks /\ UartHolds' = UartHolds /\ DeepHolds' = DeepHolds
      BY <1>1, UartSame
  <1>4. Deep'
      BY <1>1, <1>2, <1>3 DEF Deep
  <1>5. pending_event_done => ~spi_in_progress
      BY <1>1, <1>2 DEF OneTransfer
  <1>6. CASE DmaTask
    <2>1. UNCHANGED <<call, caller_is, step, stray>> /\ fifo_pending' = <<>>
        BY <1>6 DEF DmaTask, clocks, calling
    <2>2. \/ /\ spi_in_progress /\ ~pending_event_done /\ channel5 = "off"
             /\ spi_in_progress' = FALSE /\ pending_event_done' = TRUE /\ spi_planned' = TRUE
          \/ UNCHANGED <<spi_in_progress, pending_event_done, spi_planned>>
        BY <1>2, <1>6 DEF DmaTask, DoneIn, OneTransfer
    <2>3. UNCHANGED <<OokHolds, CallHolds, AsyncHolds>>
        BY <1>1, <2>1, <2>2 DEF OokHolds, CallHolds, AsyncHolds
    <2>4. Holders' = Holders
        BY <1>3, <2>3 DEF Holders
    <2>5. Count' /\ Source'
        BY <1>1, <2>1, <2>4, CountStays
    <2>6. DOMAIN fifo_pending' = {} /\ fifo_pending' \in Seq(Events)
        BY <2>1, EmptySeq
    <2>7. ClocksTyped' /\ Calling' /\ LocksQuietly'
      <3>1. /\ spi_in_progress' \in BOOLEAN /\ pending_event_done' \in BOOLEAN
            /\ spi_planned' \in BOOLEAN
          BY <1>2, <2>2 DEF ClocksTyped
      <3>2. ClocksTyped'
          BY <1>1, <1>2, <2>1, <3>1 DEF ClocksTyped, Counts
      <3>3. Calling' /\ LocksQuietly'
          BY <1>1, <2>1 DEF Calling, LocksQuietly
      <3> QED
          BY <3>2, <3>3
    <2>8. OneTransfer'
        BY <1>1, <1>2, <2>1, <2>2, <2>6 DEF OneTransfer
    <2> QED
        BY <1>3, <1>4, <2>5, <2>7, <2>8 DEF PInv
  <1>7. CASE SpiTask
    <2>1. /\ UNCHANGED <<spi_in_progress, fifo_pending>> /\ spi_planned' = FALSE
          /\ pending_event_done /\ ~spi_in_progress
        BY <1>2, <1>5, <1>7 DEF SpiTask, dma, OneTransfer
    <2>2. ~(channel5 # "off" \/ HasDone)
        BY <1>2, <2>1 DEF OneTransfer, HasDone
    <2>3. AsyncHolds = 1 /\ CallHolds = 0 /\ CallHolds' = 0
      <3>1. caller_is' \in {"nobody", "task"}
          BY <1>1, <1>7 DEF SpiTask, PllCall, calling
      <3> QED
          BY <1>1, <2>1, <3>1 DEF AsyncHolds, CallHolds
    <2>4. CASE event_handler
      <3>1. /\ call' = "load" /\ caller_is' = "task" /\ step' = -1 /\ stray' = stray
            /\ UNCHANGED pending_event_done
          BY <1>7, <2>4 DEF SpiTask, PllCall
      <3>2. AsyncHolds' = 0 /\ OokHolds' = OokHolds
          BY <1>1, <2>1, <3>1 DEF AsyncHolds, OokHolds
      <3>3. Holders' = Holders + step'
        <4>1. Holders = UartHolds + OokHolds + 0 + 1 /\ Holders' = UartHolds + OokHolds + 0 + 0
            BY <1>3, <2>3, <3>2 DEF Holders
        <4> QED
            BY <3>1, <4>1, HoldsAre
      <3>4. Count' /\ Source'
          BY <1>1, <3>1, <3>3, CallBegins
      <3>5. ClocksTyped' /\ Calling' /\ LocksQuietly'
        <4>1. ClocksTyped'
            BY <1>1, <1>2, <2>1, <3>1 DEF ClocksTyped, Counts
        <4>2. Calling' /\ LocksQuietly'
            BY <1>1, <2>1, <3>1 DEF Calling, LocksQuietly
        <4> QED
            BY <4>1, <4>2
      <3>6. OneTransfer'
          BY <1>1, <1>2, <2>1, <2>2, <3>1 DEF OneTransfer, HasDone
      <3> QED
          BY <1>3, <1>4, <3>4, <3>5, <3>6 DEF PInv
    <2>5. CASE ~event_handler
      <3>1. /\ UNCHANGED <<call, caller_is, step>> /\ stray' = stray + 1
            /\ pending_event_done' = FALSE
          BY <1>7, <2>5 DEF SpiTask, calling
      <3>2. AsyncHolds' = 0 /\ OokHolds' = OokHolds
          BY <1>1, <2>1, <3>1 DEF AsyncHolds, OokHolds
      <3>3. Holders' + stray' = Holders + stray
        <4>1. Holders = UartHolds + OokHolds + 0 + 1 /\ Holders' = UartHolds + OokHolds + 0 + 0
            BY <1>3, <2>3, <3>2 DEF Holders
        <4>2. stray \in Nat
            BY <1>2 DEF ClocksTyped
        <4> QED
            BY <3>1, <4>1, <4>2, HoldsAre
      <3>4. Count' /\ Source'
          BY <1>1, <3>1, <3>3, CountStays
      <3>5. ClocksTyped' /\ Calling' /\ LocksQuietly'
        <4>1. stray' \in Nat
            BY <1>2, <3>1 DEF ClocksTyped
        <4>2. ClocksTyped'
            BY <1>1, <1>2, <2>1, <3>1, <4>1 DEF ClocksTyped, Counts
        <4>3. Calling' /\ LocksQuietly'
            BY <1>1, <3>1 DEF Calling, LocksQuietly
        <4> QED
            BY <4>2, <4>3
      <3>6. OneTransfer'
          BY <1>1, <1>2, <2>1, <2>2, <3>1 DEF OneTransfer, HasDone
      <3> QED
          BY <1>3, <1>4, <3>4, <3>5, <3>6 DEF PInv
    <2> QED
        BY <2>4, <2>5
  <1> QED
      BY <1>1, <1>6, <1>7

\* The driver gives the PLL back, starts its channel, and is done with its task.
LEMMA SpiReturnsStep == ASSUME PInv, SpiReturns PROVE PInv'
  <1>1. /\ call = "none" /\ (GivesBack \/ AsyncStarts \/ SpiTaskEnds)
        /\ UNCHANGED Counts /\ UNCHANGED <<deep_sleep, sleepdeep, sending, stray>>
        /\ UNCHANGED <<event_handler, spi_planned, fifo_pending, scene>>
        /\ UNCHANGED vars
      BY DEF SpiReturns, GivesBack, AsyncStarts, SpiTaskEnds, PllCall, counts, deep, dma, Counts
  <1>2. ClocksTyped /\ Calling /\ OneTransfer /\ Deep
      BY DEF PInv
  <1>3. /\ UInv' /\ UNCHANGED <<lpuart, style, pc, tdr, shift, txeie, tcie>>
        /\ UartLocks' = UartLocks /\ UartHolds' = UartHolds /\ DeepHolds' = DeepHolds
      BY <1>1, UartSame
  <1>4. Deep'
      BY <1>1, <1>2, <1>3 DEF Deep
  <1>5. ASSUME call' = "none", UNCHANGED <<OokHolds, CallHolds, AsyncHolds>>
        PROVE  Count' /\ Source'
    <2>1. Holders' = Holders
        BY <1>3, <1>5 DEF Holders
    <2> QED
        BY <1>1, <1>5, <2>1, CountStays
  <1>6. CASE GivesBack
    <2>1. /\ caller_is \in {"transfer", "refused"}
          /\ UNCHANGED <<pending_event_done, channel5>>
        BY <1>6 DEF GivesBack, dma
    <2>2. CASE step = 1
      <3>1. /\ call' = "load" /\ caller_is' = caller_is /\ step' = -1
            /\ UNCHANGED spi_in_progress
          BY <1>6, <2>2 DEF GivesBack, PllCall
      <3>2. CallHolds = 1 /\ CallHolds' = 0 /\ UNCHANGED <<OokHolds, AsyncHolds>>
          BY <1>1, <2>1, <2>2, <3>1 DEF CallHolds, OokHolds, AsyncHolds
      <3>3. Holders' = Holders + step'
        <4>1. /\ Holders = UartHolds + OokHolds + 1 + AsyncHolds
              /\ Holders' = UartHolds + OokHolds + 0 + AsyncHolds
            BY <1>3, <3>2 DEF Holders
        <4> QED
            BY <3>1, <4>1, HoldsAre
      <3>4. Count' /\ Source'
          BY <1>1, <3>1, <3>3, CallBegins
      <3>5. ClocksTyped' /\ Calling' /\ OneTransfer' /\ LocksQuietly'
        <4>1. ClocksTyped'
            BY <1>1, <1>2, <2>1, <3>1 DEF ClocksTyped, Counts
        <4>2. Calling' /\ OneTransfer'
            BY <1>1, <1>2, <2>1, <3>1 DEF Calling, OneTransfer, SpiReady
        <4>3. LocksQuietly'
            BY <2>1, <3>1 DEF LocksQuietly
        <4> QED
            BY <4>1, <4>2, <4>3
      <3> QED
          BY <1>3, <1>4, <3>4, <3>5 DEF PInv
    <2>3. CASE step # 1
      <3>1. /\ UNCHANGED <<call, step>> /\ caller_is' = "nobody"
            /\ spi_in_progress' = (spi_in_progress /\ caller_is = "refused")
          BY <1>6, <2>3 DEF GivesBack
      <3>2. spi_in_progress' = FALSE
        <4>1. caller_is = "refused" => ~spi_in_progress
            BY <1>2 DEF Calling, SpiReady
        <4> QED
            BY <3>1, <4>1
      <3>3. UNCHANGED <<OokHolds, CallHolds, AsyncHolds>>
        <4>1. caller_is # "transfer" => ~spi_in_progress
            BY <1>2, <2>1 DEF Calling, SpiReady
        <4> QED
            BY <1>1, <2>1, <2>3, <3>1, <3>2, <4>1 DEF CallHolds, OokHolds, AsyncHolds
      <3>4. Count' /\ Source'
          BY <1>1, <1>5, <3>1, <3>3
      <3>5. ClocksTyped' /\ Calling' /\ OneTransfer' /\ LocksQuietly'
        <4>1. ClocksTyped'
            BY <1>1, <1>2, <2>1, <3>1, <3>2 DEF ClocksTyped, Counts
        <4>2. ~(channel5 # "off" \/ HasDone)
            BY <1>2, <2>1 DEF Calling, OneTransfer, SpiReady, HasDone
        <4>3. Calling' /\ OneTransfer'
            BY <1>1, <1>2, <2>1, <3>1, <3>2, <4>2 DEF Calling, OneTransfer, HasDone
        <4>4. LocksQuietly'
            BY <3>1 DEF LocksQuietly
        <4> QED
            BY <4>1, <4>3, <4>4
      <3> QED
          BY <1>3, <1>4, <3>4, <3>5 DEF PInv
    <2> QED
        BY <2>2, <2>3
  <1>7. CASE AsyncStarts
    <2>1. /\ caller_is = "async" /\ caller_is' = "nobody" /\ UNCHANGED <<call, step, pending_event_done>>
          /\ spi_in_progress' = TRUE /\ channel5' = "first"
      <3>1. caller_is = "async"
          BY <1>7 DEF AsyncStarts
      <3>2. channel5 = "off"
          BY <1>2, <3>1 DEF Calling, OneTransfer, SpiReady
      <3> QED
          BY <1>7, <3>2 DEF AsyncStarts
    <2>2. ~spi_in_progress /\ ~pending_event_done
        BY <1>2, <2>1 DEF Calling, SpiReady
    <2>3. UNCHANGED <<OokHolds, CallHolds, AsyncHolds>>
        BY <1>1, <2>1, <2>2 DEF CallHolds, OokHolds, AsyncHolds
    <2>4. Count' /\ Source'
        BY <1>1, <1>5, <2>1, <2>3
    <2>5. ClocksTyped' /\ Calling' /\ LocksQuietly'
      <3>1. ClocksTyped'
          BY <1>1, <1>2, <2>1 DEF ClocksTyped, Counts
      <3>2. Calling' /\ LocksQuietly'
          BY <1>1, <2>1 DEF Calling, LocksQuietly
      <3> QED
          BY <3>1, <3>2
    <2>6. OneTransfer'
      <3>1. ~HasDone /\ ~spi_planned
          BY <1>2, <2>2 DEF OneTransfer, HasDone
      <3> QED
          BY <1>1, <1>2, <2>1, <2>2, <3>1 DEF OneTransfer, HasDone
    <2> QED
        BY <1>3, <1>4, <2>4, <2>5, <2>6 DEF PInv
  <1>8. CASE SpiTaskEnds
    <2>1. /\ caller_is = "task" /\ caller_is' = "nobody"
          /\ UNCHANGED <<call, step, spi_in_progress, channel5>> /\ pending_event_done' = FALSE
        BY <1>8 DEF SpiTaskEnds, dma
    <2>2. pending_event_done /\ ~spi_in_progress /\ ~spi_planned
        BY <1>2, <2>1 DEF Calling, OneTransfer
    <2>3. UNCHANGED <<OokHolds, CallHolds, AsyncHolds>>
        BY <1>1, <2>1, <2>2 DEF CallHolds, OokHolds, AsyncHolds
    <2>4. Count' /\ Source'
        BY <1>1, <1>5, <2>1, <2>3
    <2>5. ClocksTyped' /\ Calling' /\ LocksQuietly'
      <3>1. ClocksTyped'
          BY <1>1, <1>2, <2>1 DEF ClocksTyped, Counts
      <3>2. Calling' /\ LocksQuietly'
          BY <1>1, <2>1 DEF Calling, LocksQuietly
      <3> QED
          BY <3>1, <3>2
    <2>6. OneTransfer'
      <3>1. ~(channel5 # "off" \/ HasDone)
          BY <1>2, <2>2 DEF OneTransfer, HasDone
      <3> QED
          BY <1>1, <1>2, <2>1, <2>2, <3>1 DEF OneTransfer, HasDone
    <2> QED
        BY <1>3, <1>4, <2>4, <2>5, <2>6 DEF PInv
  <1> QED
      BY <1>1, <1>6, <1>7, <1>8

\* The DMA channel moves on: whatever two handlers leave in the FIFO, as long as it is
\* not a DONE of an earlier round, the driver waits for its own, with its lock.
LEMMA DmaStep == ASSUME PInv, Channel5 \/ OtherChannels, ~spurious' PROVE PInv'
  <1>1. /\ UNCHANGED <<vars, clocks, spi, scene>>
        /\ UNCHANGED <<deep_sleep, sleepdeep, sending, stray, call, caller_is, step>>
        /\ UNCHANGED Counts
        /\ UNCHANGED <<spi_in_progress, pending_event_done, event_handler, spi_planned>>
      BY DEF Channel5, OtherChannels, DmaHalf, DmaDone, DmaOther, clocks, counts, deep, calling, spi,
             Counts
  <1>2. ClocksTyped /\ Calling /\ OneTransfer /\ Deep /\ LocksQuietly /\ Count /\ Source
      BY DEF PInv
  <1>3. /\ UInv' /\ UNCHANGED <<lpuart, style, pc, tdr, shift, txeie, tcie>>
        /\ UartLocks' = UartLocks /\ UartHolds' = UartHolds /\ DeepHolds' = DeepHolds
      BY <1>1, UartSame
  <1>4. UNCHANGED <<OokHolds, CallHolds, AsyncHolds>>
      BY <1>1 DEF OokHolds, CallHolds, AsyncHolds
  <1>5. Holders' = Holders
      BY <1>3, <1>4 DEF Holders
  <1>6. Deep' /\ LocksQuietly' /\ Count' /\ Source'
      BY <1>1, <1>2, <1>3, <1>5 DEF Deep, LocksQuietly, Count, Source, Clocked, Counts
  <1>7. /\ fifo_pending' \in Seq(Events)
        /\ channel5' \in {"off", "first", "second"}
        /\ (channel5' # "off" \/ HasDone') => channel5 # "off" \/ HasDone
        /\ channel5' # "off" => ~HasDone'
    <2>1. fifo_pending \in Seq(Events) /\ channel5 \in {"off", "first", "second"}
        BY <1>2 DEF OneTransfer, ClocksTyped
    <2>2. channel5 # "off" => ~HasDone
        BY <1>2 DEF OneTransfer, HasDone
    <2>7. OthersPend => (HasDone' => HasDone)
      <3>1. (DoneIn(fifo_pending') <=> HasDone') /\ (DoneIn(fifo_pending) <=> HasDone)
          BY DEF DoneIn, HasDone
      <3> QED
          BY <3>1 DEF OthersPend
    <2>3. ASSUME NEW e \in Events, Pends(e)
          PROVE  fifo_pending' \in Seq(Events)
      <3>1. \A q \in Seq(Events), x \in Events : Append(q, x) \in Seq(Events)
          OBVIOUS
      <3>2. <<>> \in Seq(Events)
          BY EmptySeq
      <3>3. CASE fifo_pending' = Put(fifo_pending, e)
          BY <2>1, <3>1, <3>3 DEF Put
      <3>4. CASE fifo_pending' \in Preempted(fifo_pending, e)
        <4>1. CASE fifo_pending' = Append(fifo_pending, "other")
            BY <2>1, <3>1, <4>1 DEF Events
        <4>2. CASE \E first \in {e, "other"}, second \in Events :
                       fifo_pending' = MovesOn(Append(fifo_pending, first), second)
          <5>1. PICK first \in {e, "other"}, second \in Events :
                    fifo_pending' = MovesOn(Append(fifo_pending, first), second)
              BY <4>2
          <5>2. Append(fifo_pending, first) \in Seq(Events)
            <6>1. first \in Events
                BY DEF Events
            <6> QED
                BY <2>1, <3>1, <6>1
          <5>3. Append(Append(fifo_pending, first), second) \in Seq(Events)
              BY <3>1, <5>2
          <5> QED
              BY <3>2, <5>1, <5>3 DEF MovesOn
        <4> QED
            BY <3>4, <4>1, <4>2 DEF Preempted
      <3> QED
          BY <2>3, <3>3, <3>4 DEF Pends
    <2>4. CASE DmaHalf
      <3>1. fifo_pending' \in Seq(Events) /\ channel5 = "first" /\ channel5' = "second"
          BY <2>3, <2>4 DEF DmaHalf, Events
      <3> QED
          BY <2>2, <2>4, <2>7, <3>1 DEF DmaHalf
    <2>5. CASE DmaDone
      <3>1. fifo_pending' \in Seq(Events) /\ channel5 = "second" /\ channel5' = "off"
          BY <2>3, <2>5 DEF DmaDone, Events
      <3> QED
          BY <3>1
    <2>6. CASE DmaOther
      <3>1. fifo_pending' \in Seq(Events) /\ channel5' = channel5
          BY <2>3, <2>6 DEF DmaOther, Events
      <3> QED
          BY <2>1, <2>2, <2>6, <2>7, <3>1 DEF DmaOther
    <2> QED
        BY <2>4, <2>5, <2>6 DEF Channel5, OtherChannels
  <1>8. OneTransfer'
      BY <1>1, <1>2, <1>7 DEF OneTransfer, HasDone
  <1>9. ClocksTyped' /\ Calling'
      BY <1>1, <1>2, <1>3, <1>7 DEF ClocksTyped, Calling, SpiReady, Counts
  <1> QED
      BY <1>3, <1>6, <1>8, <1>9 DEF PInv

-------------------------------------------------------------------------------
(***************************************************************************)
(* The transmitter.                                                        *)
(***************************************************************************)
LEMMA OokAskedStep == ASSUME PInv, OokAsked PROVE PInv'
  <1>1. /\ call = "none" /\ caller_is = "nobody" /\ ~sending /\ pc = "idle"
        /\ call' = "load" /\ caller_is' = "ook" /\ step' = 1
        /\ UNCHANGED Counts /\ UNCHANGED <<deep_sleep, sleepdeep, sending, stray>>
        /\ UNCHANGED <<spi_in_progress, pending_event_done, event_handler, spi_planned,
                       channel5, fifo_pending, scene>>
        /\ UNCHANGED vars
      BY DEF OokAsked, MainFree, OokSend, PllCall, counts, deep, spi, dma, Counts
  <1>2. ClocksTyped /\ Calling /\ OneTransfer /\ Deep
      BY DEF PInv
  <1>3. /\ UInv' /\ UNCHANGED <<lpuart, style, pc, tdr, shift, txeie, tcie>>
        /\ UartLocks' = UartLocks /\ UartHolds' = UartHolds /\ DeepHolds' = DeepHolds
      BY <1>1, UartSame
  <1>4. OokHolds = 0 /\ OokHolds' = 1 /\ UNCHANGED <<CallHolds, AsyncHolds>>
      BY <1>1 DEF OokHolds, CallHolds, AsyncHolds
  <1>5. Holders' = Holders + step'
    <2>1. /\ Holders = UartHolds + 0 + CallHolds + AsyncHolds
          /\ Holders' = UartHolds + 1 + CallHolds + AsyncHolds
        BY <1>3, <1>4 DEF Holders
    <2> QED
        BY <1>1, <2>1, HoldsAre
  <1>6. Count' /\ Source'
      BY <1>1, <1>5, CallBegins
  <1>7. ClocksTyped'
      BY <1>1, <1>2 DEF ClocksTyped, Counts
  <1>8. Calling' /\ OneTransfer' /\ Deep' /\ LocksQuietly'
      BY <1>1, <1>2, <1>3 DEF Calling, OneTransfer, Deep, LocksQuietly
  <1> QED
      BY <1>3, <1>6, <1>7, <1>8 DEF PInv

LEMMA OokReturnsStep == ASSUME PInv, OokReturns PROVE PInv'
  <1>1. /\ call = "none" /\ caller_is = "ook" /\ ~sending
        /\ sending' = TRUE /\ caller_is' = "nobody"
        /\ UNCHANGED Counts /\ UNCHANGED <<deep_sleep, sleepdeep, call, step, stray>>
        /\ UNCHANGED <<spi_in_progress, pending_event_done, event_handler, spi_planned,
                       channel5, fifo_pending, scene>>
        /\ UNCHANGED vars
      BY DEF OokReturns, OokStarts, counts, deep, spi, dma, Counts
  <1>2. ClocksTyped /\ Calling /\ OneTransfer /\ Deep
      BY DEF PInv
  <1>3. /\ UInv' /\ UNCHANGED <<lpuart, style, pc, tdr, shift, txeie, tcie>>
        /\ UartLocks' = UartLocks /\ UartHolds' = UartHolds /\ DeepHolds' = DeepHolds
      BY <1>1, UartSame
  <1>4. UNCHANGED <<OokHolds, CallHolds, AsyncHolds>>
      BY <1>1 DEF OokHolds, CallHolds, AsyncHolds
  <1>5. Holders' = Holders
      BY <1>3, <1>4 DEF Holders
  <1>6. Count' /\ Source'
      BY <1>1, <1>5, CountStays
  <1>7. ClocksTyped'
      BY <1>1, <1>2 DEF ClocksTyped, Counts
  <1>8. Calling' /\ OneTransfer' /\ Deep' /\ LocksQuietly'
      BY <1>1, <1>2, <1>3 DEF Calling, OneTransfer, Deep, LocksQuietly
  <1> QED
      BY <1>3, <1>6, <1>7, <1>8 DEF PInv

\* The end of a transmission, at any moment of a call: the holder goes and its lock with
\* it, or astray; switching the PLL off under a caller that enables it is the one way in
\* which the source stops following the count.
LEMMA OokEndsStep == ASSUME PInv, OokHandler PROVE PInv'
  <1>1. /\ sending /\ sending' = FALSE /\ pll' = pll - 1
        /\ IF pll' = 0 THEN LeavesHsi16 ELSE UNCHANGED <<hsi16, disable_sleep, source>>
        /\ IF call = "store"
              THEN stray' = stray + 1 /\ raced' = (raced \/ (step = 1 /\ pll' = 0))
              ELSE UNCHANGED <<stray, raced>>
        /\ UNCHANGED <<deep_sleep, sleepdeep, call, caller_is, step, register>>
        /\ UNCHANGED <<spi_in_progress, pending_event_done, event_handler, spi_planned,
                       channel5, fifo_pending, scene>>
        /\ UNCHANGED vars
      BY DEF OokHandler, OokEnds, deep, calling, spi, dma
  <1>2. ClocksTyped /\ Calling /\ OneTransfer /\ Deep /\ LocksQuietly /\ Count /\ Source
      BY DEF PInv
  <1>3. /\ UInv' /\ UNCHANGED <<lpuart, style, pc, tdr, shift, txeie, tcie>>
        /\ UartLocks' = UartLocks /\ UartHolds' = UartHolds /\ DeepHolds' = DeepHolds
      BY <1>1, UartSame
  <1>4. caller_is # "ook"
      BY <1>1, <1>2 DEF Calling
  <1>5. OokHolds = 1 /\ OokHolds' = 0 /\ UNCHANGED <<CallHolds, AsyncHolds>>
      BY <1>1, <1>4 DEF OokHolds, CallHolds, AsyncHolds
  <1>6. /\ pll \in Int /\ register \in Int /\ hsi16 \in Int /\ disable_sleep \in Int
        /\ stray \in Nat /\ step \in {1, -1} /\ raced \in BOOLEAN
      BY <1>2 DEF ClocksTyped
  <1>7. /\ Holders \in Nat /\ Holders >= 1 /\ Holders' = Holders - 1
        /\ caller_is # "nobody" /\ step = 1 => Holders >= 2
    <2>1. /\ Holders = UartHolds + 1 + CallHolds + AsyncHolds
          /\ Holders' = UartHolds + 0 + CallHolds + AsyncHolds
        BY <1>3, <1>5 DEF Holders
    <2>2. Holders \in Nat /\ Holders >= 1 /\ Holders' = Holders - 1
        BY <2>1, HoldsAre
    <2>3. caller_is # "nobody" /\ step = 1 => UartHolds >= 1 \/ CallHolds + AsyncHolds >= 1
        BY <1>2, <1>4, CallerHolds
    <2>4. UartHolds >= 1 \/ CallHolds + AsyncHolds >= 1 => Holders >= 2
        BY <2>1, HoldsAre
    <2> QED
        BY <2>2, <2>3, <2>4
  <1>8. call # "none" /\ step = 1 => Holders >= 2
      BY <1>2, <1>7 DEF Calling
  <1>9. Count'
    <2>1. CASE call = "store"
      <3>1. /\ register + step = Holders + stray /\ pll = register /\ stray' = stray + 1
          BY <1>1, <1>2, <2>1 DEF Count
      <3>2. register + step = Holders' + stray' /\ pll' = register - 1 /\ stray' > 0
          BY <1>1, <1>6, <1>7, <3>1
      <3> QED
          BY <1>1, <2>1, <3>2 DEF Count
    <2>2. CASE call = "load"
      <3>1. pll + step = Holders + stray /\ stray' = stray
          BY <1>1, <1>2, <2>2 DEF Count
      <3>2. pll' + step = Holders' + stray'
          BY <1>1, <1>6, <1>7, <3>1
      <3> QED
          BY <1>1, <2>2, <3>2 DEF Count
    <2>3. CASE call \notin {"load", "store"}
      <3>1. pll = Holders + stray /\ stray' = stray
          BY <1>1, <1>2, <2>3 DEF Count
      <3>2. pll' = Holders' + stray'
          BY <1>1, <1>6, <1>7, <3>1
      <3> QED
          BY <1>1, <2>3, <3>2 DEF Count
    <2> QED
        BY <2>1, <2>2, <2>3
  <1>10. Source'
    <2> SUFFICES ASSUME ~raced' PROVE Source'
        BY DEF Source
    <2>1. ~raced
        BY <1>1
    <2>2. call \notin {"hsi", "pll", "off"}
      <3>1. ASSUME call \in {"hsi", "pll"} PROVE FALSE
        <4>1. pll = 1 /\ step = 1 /\ pll = Holders + stray
            BY <1>2, <2>1, <3>1 DEF Source, Calling, Count
        <4>2. Holders >= 2
            BY <1>8, <3>1, <4>1
        <4> QED
            BY <1>6, <1>7, <4>1, <4>2
      <3>2. ASSUME call = "off" PROVE FALSE
        <4>1. pll = 0 /\ pll = Holders + stray
            BY <1>2, <2>1, <3>2 DEF Source, Count
        <4> QED
            BY <1>6, <1>7, <4>1
      <3> QED
          BY <3>1, <3>2
    <2>3. call \in {"none", "load", "store"}
        BY <1>2, <2>2 DEF ClocksTyped
    <2>4. pll >= 1
      <3>1. CASE call = "none"
        <4>1. pll = Holders + stray
            BY <1>2, <3>1 DEF Count
        <4> QED
            BY <1>6, <1>7, <4>1
      <3>2. CASE call = "load"
        <4>1. pll + step = Holders + stray
            BY <1>2, <3>2 DEF Count
        <4>2. CASE step = 1
          <5>1. Holders >= 2
              BY <1>8, <3>2, <4>2
          <5> QED
              BY <1>6, <1>7, <4>1, <4>2, <5>1
        <4>3. CASE step = -1
            BY <1>6, <1>7, <4>1, <4>3
        <4> QED
            BY <1>6, <4>2, <4>3
      <3>3. CASE call = "store"
        <4>1. pll + step = Holders + stray
            BY <1>1, <1>2, <3>3 DEF Count
        <4>2. CASE step = 1
          <5>1. Holders >= 2
              BY <1>8, <3>3, <4>2
          <5> QED
              BY <1>6, <1>7, <4>1, <4>2, <5>1
        <4>3. CASE step = -1
            BY <1>6, <1>7, <4>1, <4>3
        <4> QED
            BY <1>6, <4>2, <4>3
      <3> QED
          BY <2>3, <3>1, <3>2, <3>3
    <2>5. Clocked("PLL", 1)
      <3>1. pll > 0
          BY <1>6, <2>4
      <3> QED
          BY <1>2, <2>1, <2>3, <3>1 DEF Source
    <2>6. CASE pll' = 0
      <3>1. Clocked("MSI", 0)' /\ ~(pll' > 0)
        <4>1. hsi16 = 1 /\ disable_sleep = 1
            BY <2>5 DEF Clocked
        <4>2. /\ hsi16' = hsi16 - 1 /\ disable_sleep' = disable_sleep - 1
              /\ source' = IF hsi16' = 0 THEN "MSI" ELSE "HSI"
            BY <1>1, <2>6 DEF LeavesHsi16
        <4>3. hsi16' = 0 /\ disable_sleep' = 0
            BY <4>1, <4>2
        <4>4. source' = "MSI"
            BY <4>2, <4>3, Zenon
        <4>5. ~(pll' > 0)
            BY <2>6
        <4> QED
            BY <4>3, <4>4, <4>5 DEF Clocked
      <3>2. call # "store"
        <4> SUFFICES ASSUME call = "store" PROVE FALSE
            OBVIOUS
        <4>1. step # 1 /\ pll = 1
          <5>1. raced' = (raced \/ (step = 1 /\ pll' = 0))
              BY <1>1
          <5>2. step # 1
              BY <2>6, <5>1, Zenon
          <5>3. pll - 1 = 0 /\ pll \in Int
              BY <1>1, <1>6, <2>6
          <5> QED
              BY <5>2, <5>3
        <4>2. register = 1 /\ step = -1 /\ register + step = Holders + stray
            BY <1>1, <1>2, <1>6, <4>1 DEF Count
        <4> QED
            BY <1>6, <1>7, <4>2
      <3> QED
          BY <1>1, <2>3, <3>1, <3>2 DEF Source
    <2>7. CASE pll' # 0
      <3>1. pll' > 0
          BY <1>1, <1>6, <2>4, <2>7
      <3>2. Clocked("PLL", 1)'
          BY <1>1, <2>5, <2>7 DEF Clocked
      <3>3. call = "store" => register > 0
          BY <1>1, <1>2, <1>6, <2>4 DEF Count
      <3> QED
          BY <1>1, <2>3, <3>1, <3>2, <3>3 DEF Source
    <2> QED
        BY <2>6, <2>7
  <1>11. ClocksTyped'
    <2>1. pll' \in Int /\ hsi16' \in Int /\ disable_sleep' \in Int
      <3>1. pll' \in Int
          BY <1>1, <1>6
      <3>2. CASE pll' = 0
          BY <1>1, <1>6, <3>1, <3>2 DEF LeavesHsi16
      <3>3. CASE pll' # 0
          BY <1>1, <1>6, <3>1, <3>3
      <3> QED
          BY <3>2, <3>3
    <2>2. stray' \in Nat
        BY <1>1, <1>6
    <2>3. raced' \in BOOLEAN
        BY <1>1, <1>6, Zenon
    <2>4. UNCHANGED <<register, deep_sleep, sleepdeep, call, caller_is, step, spi_in_progress,
                      pending_event_done, spi_planned, event_handler, channel5, scene>>
        BY <1>1
    <2>5. sending' \in BOOLEAN
        BY <1>1
    <2> QED
        BY <1>2, <2>1, <2>2, <2>3, <2>4, <2>5 DEF ClocksTyped
  <1>12. Calling' /\ OneTransfer' /\ Deep' /\ LocksQuietly'
      BY <1>1, <1>2, <1>3, <1>4 DEF Calling, OneTransfer, Deep, LocksQuietly, SpiReady
  <1> QED
      BY <1>3, <1>9, <1>10, <1>11, <1>12 DEF PInv

LEMMA PNextInv == PInv /\ [PNext]_pvars /\ ~spurious' => PInv'
  <1> SUFFICES ASSUME PInv, [PNext]_pvars, ~spurious' PROVE PInv'
      OBVIOUS
  <1>1. CASE UNCHANGED pvars
    <2>1. /\ UNCHANGED vars
          /\ UNCHANGED Counts /\ UNCHANGED <<deep_sleep, sleepdeep, call, caller_is, step, sending, stray>>
          /\ UNCHANGED <<spi_in_progress, pending_event_done, event_handler, spi_planned,
                         channel5, fifo_pending, scene>>
        BY <1>1 DEF pvars, clocks, counts, deep, calling, spi, dma, Counts
    <2>2. /\ UInv' /\ UNCHANGED <<lpuart, style, pc, tdr, shift, txeie, tcie>>
          /\ UartLocks' = UartLocks /\ UartHolds' = UartHolds /\ DeepHolds' = DeepHolds
        BY <2>1, UartSame
    <2>3. Holders' = Holders
        BY <2>1, <2>2 DEF Holders, OokHolds, CallHolds, AsyncHolds
    <2>4. ClocksTyped' /\ Calling' /\ OneTransfer' /\ LocksQuietly'
        BY <2>1, <2>2 DEF PInv, ClocksTyped, Calling, OneTransfer, LocksQuietly, SpiReady, Counts
    <2>5. Count' /\ Source' /\ Deep'
        BY <2>1, <2>2, <2>3 DEF PInv, Count, Source, Clocked, Deep, Counts
    <2> QED
        BY <2>2, <2>4, <2>5 DEF PInv
  <1>2. CASE PNext
      BY <1>2, WithLockStep, UartRunsOn, UartReturnsStep, InCallStep, SpiAskedStep, SpiTasksStep,
         SpiReturnsStep, DmaStep, OokAskedStep, OokReturnsStep, OokEndsStep
      DEF PNext, Continues
  <1> QED
      BY <1>1, <1>2

-------------------------------------------------------------------------------
(***************************************************************************)
(* What follows.                                                           *)
(***************************************************************************)
\* A step of the channel or none, and once there has been a DONE too many there is always.
LEMMA PNextTaken ==
    ASSUME [PNext]_pvars
    PROVE  /\ [Next]_vars
           /\ spurious => spurious'
           /\ scene' = scene
           /\ spurious' => spurious \/ scene = "spi"
           /\ scene = "spi" => UNCHANGED <<initialized, deep_sleep, sleepdeep>>
  <1>1. CASE UartAsked \/ UartRuns
      BY <1>1 DEF UartAsked, UartRuns, WithLock, Next, dma
  <1>2. CASE UartHandler \/ UartPeripheral
    <2>1. CASE Handler
        BY <1>2, <2>1 DEF UartHandler, UartPeripheral, Handler, Next, dma, clocks, deep, mode, caller
    <2>2. CASE Peripheral
        BY <1>2, <2>2 DEF UartHandler, UartPeripheral, Peripheral, Load, FrameEnds, Next, dma,
                          clocks, deep, mode, caller
    <2> QED
        BY <1>2, <2>1, <2>2 DEF UartHandler, UartPeripheral
  <1>3. CASE SpiAsked \/ SpiTasks \/ SpiReturns
      BY <1>3 DEF SpiAsked, SpiTasks, SpiReturns, Transfer, AsyncTransfer, DmaTask, SpiTask,
                  GivesBack, AsyncStarts, SpiTaskEnds, PllCall, dma, clocks, deep, vars, mode, caller
  <1>4. CASE Channel5 \/ OtherChannels
    <2>1. UNCHANGED <<vars, clocks, scene>> /\ scene = "spi"
        BY <1>4 DEF Channel5, OtherChannels, DmaHalf, DmaDone, DmaOther
    <2>2. UNCHANGED <<initialized, deep_sleep, sleepdeep>>
        BY <2>1 DEF clocks, deep, vars
    <2>3. spurious => spurious'
      <3>1. CASE OthersPend
          BY <3>1 DEF OthersPend
      <3>2. CASE spurious' = spurious
          BY <3>2
      <3> QED
          BY <1>4, <3>1, <3>2 DEF Channel5, OtherChannels, DmaHalf, DmaDone, DmaOther
    <2> QED
        BY <2>1, <2>2, <2>3
  <1>5. CASE OokAsked \/ OokHandler \/ OokReturns
      BY <1>5 DEF OokAsked, OokHandler, OokReturns, OokSend, OokStarts, OokEnds, PllCall, dma,
                  deep, vars, mode, caller
  <1>6. CASE InCall
      BY <1>6 DEF InCall, PllSteps, CallLoad, CallStore, CallHsi16, CallPll, CallOff, dma, deep,
                  vars, mode, caller
  <1>7. CASE UartReturns
      BY <1>7 DEF UartReturns, dma, deep, vars, mode, caller
  <1>8. CASE UNCHANGED pvars
      BY <1>8 DEF pvars, dma, clocks, deep, vars, mode, caller
  <1> QED
      BY <1>1, <1>2, <1>3, <1>4, <1>5, <1>6, <1>7, <1>8 DEF PNext, Continues

\* The invariant of the channel and the clocks together, until a DONE too many.
THEOREM Inductive == PSpec => []Either
  <1>1. PInit => Either
    <2> SUFFICES ASSUME PInit PROVE Either
        OBVIOUS
    <2>1. PInv /\ ~initialized /\ deep_sleep = 0 /\ sleepdeep /\ ~spurious
        BY PInitInv DEF PInit, Init, ClocksInit, SpiInit
    <2> QED
        BY <2>1 DEF Either, Alone, PInv
  <1>2. Either /\ [PNext]_pvars => Either'
    <2> SUFFICES ASSUME Either, [PNext]_pvars PROVE Either'
        OBVIOUS
    <2>1. UInv' /\ Alone' /\ (spurious' => scene' = "spi")
        BY PNextTaken, UartStep DEF Either, Alone
    <2>2. spurious' \/ PInv'
        BY PNextTaken, PNextInv DEF Either
    <2> QED
        BY <2>1, <2>2 DEF Either
  <1> QED
      BY <1>1, <1>2, PTL DEF PSpec

\* Beside an SPI with a DONE too many the UART has nothing in its registers and no lock.
LEMMA UartUnused ==
    ASSUME Either, spurious
    PROVE  /\ deep_sleep = DeepHolds /\ sleepdeep
           /\ style = "patient" => tdr = <<>> /\ shift = <<>>
  <1>1. ~initialized /\ deep_sleep = 0 /\ sleepdeep
      BY DEF Either, Alone
  <1>2. pc = "idle" /\ ~in_progress /\ task = "none"
      BY <1>1 DEF Either, UInv, Dormant, Registered
  <1>3. UartLocks = 0 /\ DeepHolds = 0
      BY <1>2 DEF UartLocks, DeepHolds
  <1>4. style = "patient" => tc
      BY <1>2 DEF Either, UInv, Patient, AtRest
  <1> QED
      BY <1>1, <1>3, <1>4 DEF Either, UInv, TcTells

\* The line of twr_uart.c: whatever the handler, the blocking write and the application
\* do, every byte the asynchronous write accepted is on the wire, in a register or in the
\* FIFO, in the order of acceptance.
THEOREM LineKeepsOrder == PSpec => []InOrder
  <1>1. Either => InOrder
      BY DEF Either, UInv
  <1> QED
      BY Inductive, <1>1, PTL

\* ASYNC_WRITE_DONE of twr_uart.c, to an application that waits for it, means that every
\* byte accepted before has left on the wire.
THEOREM DoneIsTrue == PSpec => []PatientDoneMeansSent
  <1>1. ASSUME Either PROVE PatientDoneMeansSent
    <2> SUFFICES ASSUME style = "patient", done PROVE Len(sent) = accepted
        BY DEF PatientDoneMeansSent, DoneMeansSent
    <2>1. UartTyped /\ Registered /\ Patient /\ InOrder
        BY <1>1 DEF Either, UInv
    <2>2. AtRest
        BY <2>1 DEF Patient, Transferring
    <2>3. fifo = <<>> /\ Numbered(tdr) = <<>> /\ Numbered(shift) = <<>>
      <3>1. pc \in {"idle", "fill", "enable", "flag", "poll"}
          BY <2>1 DEF UartTyped
      <3>2. pc # "flag"
          BY <2>1, <2>2 DEF Patient, Transferring
      <3> QED
          BY <2>2, <3>1, <3>2 DEF AtRest
    <2>4. Line = sent
      <3>1. Line = sent \o (<<>> \o (<<>> \o <<>>)) /\ sent \in Seq(Number)
          BY <2>1, <2>3, LineIs DEF UartTyped
      <3> QED
          BY <3>1, ConcatEmptySeq, EmptySeq
    <2>5. sent = Numbers(accepted) /\ accepted \in Nat
        BY <2>1, <2>4 DEF InOrder, Line, Numbers, UartTyped
    <2> QED
        BY <2>5 DEF Numbers
  <1> QED
      BY Inductive, <1>1, PTL

\* The locks of twr_system.c: between two calls the count of the PLL is its holders and
\* the locks known to be lost, the clock of the core and the sleep lock follow it, and
\* deep sleep is counted off exactly while a write of the LPUART is on.
THEOREM ClocksFollowHolders == PSpec => []ClockFollows
  <1>1. ASSUME Either, spurious PROVE ClockFollows
      BY <1>1, UartUnused DEF ClockFollows
  <1>2. ASSUME PInv PROVE ClockFollows
    <2>1. Count /\ Source /\ Deep
        BY <1>2 DEF PInv
    <2>2. ASSUME call = "none", ~raced
          PROVE  /\ pll = Holders + stray
                 /\ source = IF pll > 0 THEN "PLL" ELSE "MSI"
                 /\ disable_sleep = IF pll > 0 THEN 1 ELSE 0
        BY <2>1, <2>2 DEF Count, Source, Clocked
    <2>3. ClockFollowsHolders(Holders)
        BY <2>2 DEF ClockFollowsHolders
    <2>4. deep_sleep = DeepHolds /\ (deep_sleep = 0 => sleepdeep)
        BY <2>1 DEF Deep
    <2> QED
        BY <2>3, <2>4 DEF ClockFollows, Holders
  <1>3. Either => ClockFollows
      BY <1>1, <1>2 DEF Either
  <1> QED
      BY Inductive, <1>3, PTL

\* The frames of twr_uart.c: while a patient application has a byte in the registers of
\* its channel, whoever else takes and gives back the PLL, the clock of that channel runs.
THEOREM FramesKeepTheirClock == PSpec => []FramesClocked
  <1>2. ASSUME Either, spurious PROVE FramesClocked
    <2>1. <<>> \o <<>> = <<>>
        BY EmptySeq, ConcatEmptySeq
    <2> QED
        BY <1>2, <2>1, UartUnused DEF FramesClocked
  <1>1. ASSUME PInv PROVE FramesClocked
    <2> SUFFICES ASSUME style = "patient", tdr \o shift # <<>>
                 PROVE  IF lpuart THEN pc = "idle" => ~sleepdeep
                        ELSE raced \/ (source = "PLL" /\ disable_sleep > 0)
        BY DEF FramesClocked
    <2>1. ~(tdr = <<>> /\ shift = <<>>)
      <3>1. <<>> \o <<>> = <<>>
          BY EmptySeq, ConcatEmptySeq
      <3> QED
          BY <3>1
    <2>2. UartTyped /\ Registered /\ TcTells /\ Patient
        BY <1>1 DEF PInv, UInv
    <2>3. ClocksTyped /\ Calling /\ Count /\ Source /\ Deep /\ LocksQuietly
        BY <1>1 DEF PInv
    <2>4. \/ task # "none"
          \/ pc = "poll"
      <3>1. CASE Transferring
          BY <3>1 DEF Transferring
      <3>2. CASE AtRest
          BY <2>1, <2>2, <3>2 DEF AtRest, TcTells
      <3> QED
          BY <2>2, <3>1, <3>2 DEF Patient
    <2>5. CASE lpuart
      <3> SUFFICES ASSUME pc = "idle" PROVE ~sleepdeep
          BY <2>5
      <3>1. UartLocks = 1
          BY <2>4 DEF UartLocks
      <3>2. deep_sleep = 1
          BY <2>3, <2>5, <3>1 DEF Deep, DeepHolds
      <3> QED
          BY <2>3, <3>2 DEF Deep
    <2>6. CASE ~lpuart
      <3> SUFFICES ASSUME ~raced PROVE source = "PLL" /\ disable_sleep > 0
          BY <2>6
      <3>1. UartHolds >= 1
        <4>1. UartLocks >= 1
            BY <2>4, <2>6 DEF UartLocks
        <4> QED
            BY <2>6, <4>1 DEF UartHolds
      <3>2. caller_is # "uart"
          BY <2>1, <2>3 DEF LocksQuietly
      <3>3. Holders \in Nat /\ Holders >= 1 /\ (call # "none" /\ step = 1 => Holders >= 2)
        <4>1. Holders \in Nat /\ Holders >= 1
            BY <3>1, HoldsAre DEF Holders
        <4>2. call # "none" /\ step = 1 => OokHolds + CallHolds + AsyncHolds >= 1
          <5> SUFFICES ASSUME call # "none", step = 1 PROVE OokHolds + CallHolds + AsyncHolds >= 1
              OBVIOUS
          <5>1. caller_is # "nobody"
              BY <2>3 DEF Calling
          <5>2. OokHolds = 1 \/ CallHolds + AsyncHolds >= 1
              BY <2>3, <3>2, <5>1, CallerHolds
          <5> QED
              BY <5>2, HoldsAre
        <4>3. OokHolds + CallHolds + AsyncHolds >= 1 => Holders >= 2
            BY <3>1, HoldsAre DEF Holders
        <4> QED
            BY <4>1, <4>2, <4>3
      <3>4. /\ pll \in Int /\ register \in Int /\ stray \in Nat /\ step \in {1, -1}
            /\ call \in {"none", "load", "store", "hsi", "pll", "off"}
          BY <2>3 DEF ClocksTyped
      <3>5. CASE call = "store"
        <4>1. register + step = Holders + stray
            BY <2>3, <3>5 DEF Count
        <4>2. register > 0
          <5>1. CASE step = 1
            <6>1. Holders >= 2
                BY <3>3, <3>5, <5>1
            <6> QED
                BY <3>3, <3>4, <4>1, <5>1, <6>1
          <5>2. CASE step = -1
              BY <3>3, <3>4, <4>1, <5>2
          <5> QED
              BY <3>4, <5>1, <5>2
        <4> QED
            BY <2>3, <3>5, <4>2 DEF Source, Clocked
      <3>6. CASE call = "load"
        <4>1. pll + step = Holders + stray
            BY <2>3, <3>6 DEF Count
        <4>2. pll > 0
          <5>1. CASE step = 1
            <6>1. Holders >= 2
                BY <3>3, <3>6, <5>1
            <6> QED
                BY <3>3, <3>4, <4>1, <5>1, <6>1
          <5>2. CASE step = -1
              BY <3>3, <3>4, <4>1, <5>2
          <5> QED
              BY <3>4, <5>1, <5>2
        <4> QED
            BY <2>3, <3>6, <4>2 DEF Source, Clocked
      <3>7. CASE call \in {"none", "hsi", "pll", "off"}
        <4>1. pll = Holders + stray
            BY <2>3, <3>7 DEF Count
        <4>2. pll > 0
            BY <3>3, <3>4, <4>1
        <4>3. call \notin {"hsi", "pll"}
          <5> SUFFICES ASSUME call \in {"hsi", "pll"} PROVE FALSE
              OBVIOUS
          <5>1. step = 1 /\ pll = 1
              BY <2>3 DEF Calling, Source
          <5>2. Holders >= 2
              BY <3>3, <5>1
          <5> QED
              BY <3>3, <3>4, <4>1, <5>1, <5>2
        <4>4. call # "off"
            BY <2>3, <4>2 DEF Source
        <4> QED
            BY <2>3, <3>7, <4>2, <4>3, <4>4 DEF Source, Clocked
      <3> QED
          BY <3>4, <3>5, <3>6, <3>7
    <2> QED
        BY <2>2, <2>5, <2>6 DEF UartTyped
  <1>3. Either => FramesClocked
      BY <1>1, <1>2 DEF Either
  <1> QED
      BY Inductive, <1>3, PTL
===============================================================================
