----------------------------- MODULE LoraProofs -------------------------------
(***************************************************************************)
(* Proofs about Lora, for any number of items and any bounds: a message    *)
(* reported DONE has been accepted as it was passed, and an item that is   *)
(* neither marked nor doubtful has the value the application set last, in  *)
(* the driver and in the modem. Both rest on how far the two sides of the  *)
(* dialogue can be apart. In step, there is one command without an answer  *)
(* and no answer in the FIFO, or no command, and then whatever answer is   *)
(* in the FIFO is true.                                                    *)
(***************************************************************************)
EXTENDS Lora, SequenceTheorems, FiniteSetTheorems, WellFoundedInduction, TLAPS

\* What a command, a line and the message buffer may carry.
Contents == Value \cup Message \cup {NONE, Received}
Commands ==
    {c \in [kind : {"set up", "query", "save", "message", "confirmed", "join"},
            item : Nat, content : Contents] :
        /\ c.kind \in {"query", "save"} => c.item \in Item
        /\ c.kind = "save" => c.content \in Value}
Lines ==
    {l \in [kind : {"ok", "value", "error", "payload", "junk", "joined", "status",
                    "recv", "recv_cut"}, content : Contents] :
        l.kind = "value" => l.content \in Value}

\* The answers of the modem among the lines received.
Oks(s) == {l \in {s[i] : i \in 1..Len(s)} : IsOk(l)}

TypeOK ==
    /\ tx \in Seq(Commands) /\ rx \in Seq(Lines)
    /\ telling \in {"joined", "status", NONE}
    /\ mask \subseteq Item /\ index \in Nat /\ save_index \in Item
    /\ config \in [Item -> Value] /\ stored \in [Item -> Value]
    /\ user \in [Item -> Value \cup {NONE}]
    /\ buffer \in Contents

\* A message waits in the buffer; an answer is waited for.
SendCommands == {"SEND_MESSAGE_COMMAND", "SEND_MESSAGE_CONFIRMED_COMMAND"}
Responses == {"INITIALIZE_COMMAND_RESPONSE", "CONFIG_SAVE_RESPONSE", "SEND_MESSAGE_RESPONSE"}

\* The command whose answer is awaited ...
Asked(c) ==
    /\ state = "INITIALIZE_COMMAND_RESPONSE" =>
         /\ c.kind = IF index = 0 THEN "set up" ELSE "query"
         /\ c.item = index /\ index <= ItemCount
    /\ state = "CONFIG_SAVE_RESPONSE" =>
         /\ c.kind = "save" /\ c.item = save_index
         /\ save_index \notin doubtful => c.content = config[save_index]
    /\ state = "SEND_MESSAGE_RESPONSE" =>
         /\ c.kind \in {"message", "confirmed"}
         /\ ~nested => c.content = accepted

\* ... and what its answer tells.
Told(l) ==
    /\ state = "INITIALIZE_COMMAND_RESPONSE" =>
         (l.kind = "value" => index \in Item /\ l.content = stored[index])
    /\ state = "CONFIG_SAVE_RESPONSE" =>
         (save_index \notin doubtful => stored[save_index] = config[save_index])
    /\ state = "SEND_MESSAGE_RESPONSE" => (~nested => aired = accepted)

\* In step, the one answer there can be is that to the last command.
Dialogue ==
    in_step /\ state \in Responses =>
        \/ Len(tx) = 1 /\ Asked(tx[1]) /\ Oks(rx) = {}
        \/ tx = <<>> /\ \A l \in Oks(rx) : Told(l)

\* What send_message was passed is in the buffer until it is written, and aired when
\* DONE is reported.
Passed ==
    /\ state \in SendCommands /\ ~nested => buffer = accepted /\ pc \notin {"lines", "received"}
    /\ pc = "done" => state = "READY"
    /\ pc = "done" /\ in_step /\ ~nested => aired = accepted /\ tx = <<>>

\* The driver has what the application set last of a marked item.
Marked == \A i \in mask : config[i] = user[i]

\* Of the others, both sides have it, and no older save is on its way.
Kept ==
    \A i \in Item \ (mask \cup doubtful) :
        user[i] # NONE => /\ config[i] = user[i] /\ stored[i] = user[i]
                          /\ \A k \in 1..Len(tx) : ~(tx[k].kind = "save" /\ tx[k].item = i)

\* The queries end with the last item.
Queried == state = "INITIALIZE_COMMAND_SEND" => index <= ItemCount

IInv == TypeOK /\ Dialogue /\ Passed /\ Marked /\ Kept /\ Queried

-------------------------------------------------------------------------------
(***************************************************************************)
(* What the lines in the FIFO tell, as they are read and as they arrive.   *)
(***************************************************************************)
\* Fewer lines tell no more.
LEMMA OksWithin ==
    ASSUME NEW s, NEW t, \A i \in 1..Len(t) : IsOk(t[i]) => \E j \in 1..Len(s) : t[i] = s[j]
    PROVE  Oks(t) \subseteq Oks(s)
  BY DEF Oks

\* A part of the FIFO.
LEMMA PartOfLines ==
    ASSUME NEW s \in Seq(Lines), NEW m \in Nat, NEW n \in Nat,
           1 <= m, m <= n + 1, n <= Len(s)
    PROVE  /\ SubSeq(s, m, n) \in Seq(Lines) /\ Len(SubSeq(s, m, n)) = n - m + 1
           /\ \A i \in 1..(n - m + 1) : SubSeq(s, m, n)[i] = s[m + i - 1]
  <1>1. m \in Int /\ n \in Int /\ Len(s) \in Nat
      OBVIOUS
  <1>2. \A i \in m..n : s[i] \in Lines
    <2>1. \A i \in m..n : i \in 1..Len(s)
        BY <1>1
    <2> QED
        BY <2>1, ElementOfSeq
  <1>3. /\ SubSeq(s, m, n) \in Seq(Lines)
        /\ Len(SubSeq(s, m, n)) = IF m <= n THEN n - m + 1 ELSE 0
        /\ \A i \in 1..(n - m + 1) : SubSeq(s, m, n)[i] = s[m + i - 1]
      BY <1>1, <1>2, SubSeqProperties
  <1> QED
      BY <1>1, <1>3

\* What a line that is read leaves behind tells nothing new.
LEMMA RestTells ==
    ASSUME rx \in Seq(Lines)
    PROVE  /\ Rest \in Seq(Lines) /\ Oks(Rest) \subseteq Oks(rx)
           /\ IsOk(Answer) => Answer \in Oks(rx)
  <1> DEFINE payload == Line("payload", NONE)
             junk == Line("junk", NONE)
  <1>1. payload \in Lines /\ junk \in Lines /\ ~IsOk(payload) /\ ~IsOk(junk)
      BY DEF Line, Lines, Contents, IsOk
  <1> HIDE DEF payload, junk
  <1>2. CASE rx = <<>>
    <2>1. Rest = <<>> /\ ~IsOk(Answer)
        BY <1>2 DEF Rest, Answer, Line, IsOk
    <2>2. Len(Rest) = 0
        BY <2>1
    <2>3. Oks(Rest) \subseteq Oks(rx)
        BY <2>2, OksWithin
    <2> QED
        BY <2>1, <2>3
  <1>3. CASE rx # <<>>
    <2>1. Len(rx) \in Nat /\ Len(rx) >= 1
        BY <1>3, EmptySeq, LenProperties
    <2>2. Answer = rx[1]
        BY <1>3 DEF Answer
    <2>3. IsOk(Answer) => Answer \in Oks(rx)
        BY <2>1, <2>2 DEF Oks
    <2>4. CASE Head(rx).kind \notin {"recv", "recv_cut"}
      <3>1. Rest = Tail(rx)
          BY <1>3, <2>4 DEF Rest
      <3>2. Tail(rx) \in Seq(Lines) /\ Len(Tail(rx)) = Len(rx) - 1
            /\ \A i \in 1..Len(Tail(rx)) : Tail(rx)[i] = rx[i + 1]
          BY <1>3, HeadTailProperties
      <3>3. \A i \in 1..Len(Rest) : i + 1 \in 1..Len(rx) /\ Rest[i] = rx[i + 1]
          BY <2>1, <3>1, <3>2
      <3>4. Oks(Rest) \subseteq Oks(rx)
          BY <3>3, OksWithin
      <3> QED
          BY <2>3, <3>1, <3>2, <3>4
    <2>5. CASE Head(rx).kind \in {"recv", "recv_cut"} /\ Len(rx) = 1
      <3>1. Rest = <<payload>>
          BY <1>3, <2>5 DEF Rest, payload
      <3>2. Len(Rest) = 1 /\ Rest[1] = payload /\ Rest \in Seq(Lines)
          BY <1>1, <3>1
      <3>3. \A i \in 1..Len(Rest) : ~IsOk(Rest[i])
          BY <1>1, <3>2
      <3> QED
          BY <2>3, <3>2, <3>3, OksWithin
    <2>6. CASE Head(rx).kind \in {"recv", "recv_cut"} /\ Len(rx) # 1
      <3> DEFINE r == SubSeq(rx, 3, Len(rx))
      <3>1. Rest = <<junk>> \o r
          BY <1>3, <2>6 DEF Rest, junk
      <3>2. /\ r \in Seq(Lines) /\ Len(r) = Len(rx) - 2
            /\ \A i \in 1..Len(r) : r[i] = rx[i + 2]
        <4>1. Len(rx) # 1
            BY <2>6
        <4> DEFINE n == Len(rx)
        <4>2. n \in Nat /\ n >= 1 /\ n # 1
            BY <2>1, <4>1
        <4> HIDE DEF n
        <4>3. 3 \in Nat /\ n \in Nat /\ 1 <= 3 /\ 3 <= n + 1 /\ n <= n
            BY <4>2
        <4>4. 3 \in Nat /\ Len(rx) \in Nat /\ 1 <= 3 /\ 3 <= Len(rx) + 1 /\ Len(rx) <= Len(rx)
            BY <4>3 DEF n
        <4>5. /\ r \in Seq(Lines) /\ Len(r) = Len(rx) - 3 + 1
              /\ \A i \in 1..(Len(rx) - 3 + 1) : r[i] = rx[3 + i - 1]
            BY <4>4, PartOfLines, Zenon
        <4> HIDE DEF r
        <4> QED
            BY <2>1, <4>5
      <3> HIDE DEF r
      <3>3. /\ <<junk>> \in Seq(Lines) /\ Len(<<junk>>) = 1 /\ <<junk>>[1] = junk
          BY <1>1
      <3>4. /\ Rest \in Seq(Lines) /\ Len(Rest) = Len(rx) - 1
            /\ \A i \in 1..Len(Rest) : Rest[i] = IF i = 1 THEN junk ELSE r[i - 1]
          BY <2>1, <3>1, <3>2, <3>3, ConcatProperties
      <3>5. \A i \in 1..Len(Rest) : IsOk(Rest[i]) => i + 1 \in 1..Len(rx) /\ Rest[i] = rx[i + 1]
        <4> SUFFICES ASSUME NEW i \in 1..Len(Rest), IsOk(Rest[i])
                     PROVE  i + 1 \in 1..Len(rx) /\ Rest[i] = rx[i + 1]
            OBVIOUS
        <4>1. i # 1
            BY <1>1, <3>4
        <4>2. i - 1 \in 1..Len(r) /\ i + 1 \in 1..Len(rx) /\ (i - 1) + 2 = i + 1
            BY <2>1, <3>2, <3>4, <4>1
        <4> QED
            BY <3>2, <3>4, <4>1, <4>2
      <3> QED
          BY <2>3, <3>4, <3>5, OksWithin
    <2> QED
        BY <2>4, <2>5, <2>6
  <1> QED
      BY <1>2, <1>3

\* A line that arrives adds at most itself.
LEMMA ArrivalTells ==
    ASSUME rx \in Seq(Lines), NEW l \in Lines, Arrives(l)
    PROVE  /\ rx' \in Seq(Lines)
           /\ Oks(rx') \subseteq Oks(rx) \cup {l}
           /\ ~IsOk(l) => Oks(rx') \subseteq Oks(rx)
  <1> DEFINE junk == Line("junk", NONE)
  <1>1. junk \in Lines /\ ~IsOk(junk)
      BY DEF Line, Lines, Contents, IsOk
  <1>2. CASE rx # <<>> /\ Last(rx).kind = "payload"
    <2> DEFINE f == SubSeq(rx, 1, Len(rx) - 1)
    <2>1. rx' = Append(f, junk)
        BY <1>2 DEF Arrives, Front
    <2>2. Len(rx) \in Nat /\ Len(rx) >= 1
        BY <1>2, EmptySeq, LenProperties
    <2>3. f \in Seq(Lines) /\ Len(f) = Len(rx) - 1 /\ \A i \in 1..Len(f) : f[i] = rx[i]
      <3>1. 1 \in Nat /\ Len(rx) - 1 \in Nat /\ 1 <= 1
            /\ 1 <= (Len(rx) - 1) + 1 /\ Len(rx) - 1 <= Len(rx)
          BY <2>2
      <3>2. /\ f \in Seq(Lines) /\ Len(f) = (Len(rx) - 1) - 1 + 1
            /\ \A i \in 1..((Len(rx) - 1) - 1 + 1) : f[i] = rx[1 + i - 1]
          BY <3>1, PartOfLines, Zenon
      <3> HIDE DEF f
      <3> QED
          BY <2>2, <3>2
    <2> HIDE DEF f, junk
    <2>4. /\ rx' \in Seq(Lines) /\ Len(rx') = Len(f) + 1
          /\ \A i \in 1..Len(f) + 1 : rx'[i] = IF i <= Len(f) THEN f[i] ELSE junk
        BY <1>1, <2>1, <2>3, AppendProperties
    <2>5. \A i \in 1..Len(rx') : IsOk(rx'[i]) => i \in 1..Len(rx) /\ rx'[i] = rx[i]
        BY <1>1, <2>2, <2>3, <2>4
    <2>6. Oks(rx') \subseteq Oks(rx)
        BY <2>5, OksWithin
    <2> QED
        BY <2>4, <2>6
  <1>3. CASE ~(rx # <<>> /\ Last(rx).kind = "payload")
    <2>1. rx' = Append(rx, l)
        BY <1>3 DEF Arrives
    <2>2. /\ rx' \in Seq(Lines) /\ Len(rx') = Len(rx) + 1
          /\ \A i \in 1..Len(rx) + 1 : rx'[i] = IF i <= Len(rx) THEN rx[i] ELSE l
        BY <2>1, AppendProperties
    <2>3. Len(rx) \in Nat
        OBVIOUS
    <2>4. \A i \in 1..Len(rx') : rx'[i] = l \/ (i \in 1..Len(rx) /\ rx'[i] = rx[i])
        BY <2>2, <2>3
    <2>5. \A m \in Oks(rx') : m = l \/ m \in Oks(rx)
      <3> SUFFICES ASSUME NEW i \in 1..Len(rx'), IsOk(rx'[i])
                   PROVE  rx'[i] = l \/ rx'[i] \in Oks(rx)
          BY DEF Oks
      <3> QED
          BY <2>4 DEF Oks
    <2>6. \A m \in Oks(rx') : IsOk(m)
        BY DEF Oks
    <2> QED
        BY <2>2, <2>5, <2>6
  <1> QED
      BY <1>2, <1>3

\* A purged FIFO tells nothing.
LEMMA EmptyTells == <<>> \in Seq(Lines) /\ Oks(<<>>) = {}
  BY DEF Oks

\* Numbers have a least one.
LEMMA LeastOf ==
    ASSUME NEW T \in SUBSET Nat, T # {}
    PROVE  \E m \in T : \A i \in T : m <= i
  <1>1. PICK m \in T : \A i \in T : ~(<<i, m>> \in OpToRel(<, Nat))
      BY NatLessThanWellFounded, WFMin
  <1>2. ASSUME NEW i \in T PROVE ~(i < m)
      BY <1>1 DEF OpToRel
  <1> QED
      BY <1>2

\* The item saved next is a marked one.
LEMMA MinOfMask ==
    ASSUME mask \subseteq Item, mask # {}
    PROVE  Min(mask) \in mask
  <1>1. mask \in SUBSET Nat
      BY DEF Item
  <1>2. \E m \in mask : \A i \in mask : m <= i
      BY <1>1, LeastOf
  <1> QED
      BY <1>2 DEF Min

-------------------------------------------------------------------------------
(***************************************************************************)
(* The steps that leave the dialogue and the items alone, and those that   *)
(* only pass the message on.                                               *)
(***************************************************************************)
\* A step that saves nothing, asks nothing and lets no answer arrive.
LEMMA QuietStep ==
    ASSUME IInv,
           UNCHANGED <<mask, config, stored, user, doubtful, save_index, index, tx>>,
           rx' \in Seq(Lines), Oks(rx') \subseteq Oks(rx),
           buffer' \in Contents, telling' \in {"joined", "status", NONE},
           \/ state' = state /\ UNCHANGED <<in_step, aired, accepted, nested>>
           \/ state' \notin Responses \cup {"INITIALIZE_COMMAND_SEND"},
           Passed'
    PROVE  IInv'
  <1>1. TypeOK'
      BY DEF IInv, TypeOK
  <1>2. Dialogue'
    <2>1. CASE state' \notin Responses
        BY <2>1 DEF Dialogue
    <2>2. CASE state' = state /\ UNCHANGED <<in_step, aired, accepted, nested>>
      <3>1. Dialogue
          BY DEF IInv
      <3>2. Asked(tx[1]) => Asked(tx[1])'
          BY <2>2 DEF Asked
      <3>3. \A l : Told(l) => Told(l)'
          BY <2>2 DEF Told
      <3> QED
          BY <2>2, <3>1, <3>2, <3>3 DEF Dialogue
    <2> QED
        BY <2>1, <2>2
  <1>3. Marked' /\ Kept'
      BY DEF IInv, Marked, Kept
  <1>4. Queried'
      BY DEF IInv, Queried
  <1> QED
      BY <1>1, <1>2, <1>3, <1>4 DEF IInv

\* Nothing happens.
LEMMA StutterStep ==
    ASSUME IInv, UNCHANGED vars
    PROVE  IInv'
  <1>1. TypeOK /\ Passed
      BY DEF IInv
  <1>2. Passed'
      BY <1>1 DEF Passed, vars
  <1>3. rx \in Seq(Lines) /\ buffer \in Contents /\ telling \in {"joined", "status", NONE}
      BY <1>1 DEF TypeOK
  <1> QED
      BY <1>2, <1>3, QuietStep DEF vars

\* A message is passed to send_message.
LEMMA SendStep ==
    ASSUME IInv, NEW m \in Message,
           NEW command \in {"SEND_MESSAGE_COMMAND", "SEND_MESSAGE_CONFIRMED_COMMAND"},
           Send(m, command)
    PROVE  IInv'
  <1>1. TypeOK /\ Passed
      BY DEF IInv
  <1>2. Passed'
    <2>1. pc # "done"
        BY <1>1 DEF Send, Passed
    <2>2. pc # "lines"
        BY DEF Send, Application, Handlers
    <2> QED
        BY <2>1, <2>2 DEF Send, Passed
  <1>3. rx \in Seq(Lines) /\ telling \in {"joined", "status", NONE} /\ buffer' \in Contents
      BY <1>1 DEF TypeOK, Send, Contents
  <1>4. state' \notin Responses \cup {"INITIALIZE_COMMAND_SEND"}
      BY DEF Send, Responses
  <1> QED
      BY <1>2, <1>3, <1>4, QuietStep DEF Send

\* A join is asked for.
LEMMA JoinStep == ASSUME IInv, Join PROVE IInv'
  <1>1. TypeOK /\ Passed
      BY DEF IInv
  <1>2. Passed'
      BY <1>1 DEF Passed, Join, modem
  <1>3. rx \in Seq(Lines) /\ buffer \in Contents /\ telling \in {"joined", "status", NONE}
      BY <1>1 DEF TypeOK
  <1> QED
      BY <1>2, <1>3, QuietStep DEF Join, modem

\* Lines nobody asked for.
LEMMA TellsStep == ASSUME IInv, ModemTells PROVE IInv'
  <1>1. TypeOK /\ Passed
      BY DEF IInv
  <1>2. Passed'
      BY <1>1 DEF Passed, ModemTells, driver, calls, requests
  <1>3. rx \in Seq(Lines) /\ buffer \in Contents /\ telling \in {"joined", "status"}
      BY <1>1 DEF TypeOK, ModemTells
  <1>4. Line(telling, NONE) \in Lines /\ ~IsOk(Line(telling, NONE))
      BY <1>3 DEF Line, Lines, Contents, IsOk
  <1>5. rx' \in Seq(Lines) /\ Oks(rx') \subseteq Oks(rx)
      BY <1>3, <1>4, ArrivalTells DEF ModemTells
  <1> QED
      BY <1>2, <1>3, <1>5, QuietStep DEF ModemTells, driver, calls, requests

\* A message from the network.
LEMMA DownlinkStep == ASSUME IInv, Downlink PROVE IInv'
  <1>1. TypeOK /\ Passed
      BY DEF IInv
  <1>2. Passed'
      BY <1>1 DEF Passed, Downlink, driver, modem, calls, requests
  <1>3. rx \in Seq(Lines) /\ buffer \in Contents /\ telling \in {"joined", "status", NONE}
      BY <1>1 DEF TypeOK
  <1>4. PICK kind \in {"recv", "recv_cut"} : Arrives(Line(kind, NONE))
      BY DEF Downlink
  <1>5. Line(kind, NONE) \in Lines /\ ~IsOk(Line(kind, NONE))
      BY DEF Line, Lines, Contents, IsOk
  <1>6. rx' \in Seq(Lines) /\ Oks(rx') \subseteq Oks(rx)
      BY <1>3, <1>4, <1>5, ArrivalTells
  <1> QED
      BY <1>2, <1>3, <1>6, QuietStep DEF Downlink, driver, modem, calls, requests

\* The receptions, the starts and ends of the task, and its rounds that neither
\* write a command nor read the answer to one.
LEMMA QuietRounds ==
    ASSUME IInv, UartEvent \/ TaskStarts \/ Ready \/ Idle \/ Receive \/ Error \/ HandlerReturns
    PROVE  IInv'
  <1>1. TypeOK /\ Passed
      BY DEF IInv
  <1>2. rx \in Seq(Lines) /\ buffer \in Contents /\ telling \in {"joined", "status", NONE}
      BY <1>1 DEF TypeOK
  <1>3. CASE UartEvent
    <2>1. Passed' /\ state' \notin Responses \cup {"INITIALIZE_COMMAND_SEND"}
        BY <1>1, <1>3 DEF Passed, UartEvent, Responses, SendCommands
    <2> QED
        BY <1>2, <1>3, <2>1, QuietStep DEF UartEvent, modem
  <1>4. CASE TaskStarts
    <2>1. Passed'
        BY <1>1, <1>4 DEF Passed, TaskStarts, driver, modem, calls, requests
    <2> QED
        BY <1>2, <1>4, <2>1, QuietStep DEF TaskStarts, driver, modem, calls, requests
  <1>5. CASE Ready
    <2>1. Passed' /\ state' \notin Responses \cup {"INITIALIZE_COMMAND_SEND"}
        BY <1>1, <1>5 DEF Passed, Ready, Responses, SendCommands
    <2> QED
        BY <1>2, <1>5, <2>1, QuietStep DEF Ready, modem, calls, requests
  <1>6. CASE Idle
    <2>1. Passed' /\ state' \notin Responses \cup {"INITIALIZE_COMMAND_SEND"}
        BY <1>1, <1>6 DEF Passed, Idle, Responses, SendCommands
    <2> QED
        BY <1>2, <1>6, <2>1, QuietStep DEF Idle, modem
  <1>7. CASE Receive
    <2>1. Passed' /\ state' \notin Responses \cup {"INITIALIZE_COMMAND_SEND"}
        BY <1>1, <1>7 DEF Passed, Receive, Responses, SendCommands
    <2> QED
        BY <1>2, <1>7, <2>1, QuietStep DEF Receive, modem, calls, requests
  <1>8. CASE Error
    <2>1. Passed'
        BY <1>1, <1>8 DEF Passed, Error, driver, modem, calls, requests, SendCommands
    <2> QED
        BY <1>2, <1>8, <2>1, QuietStep DEF Error, driver, modem, calls, requests
  <1>9. CASE HandlerReturns
    <2>1. \/ state' = state
          \/ state' \in {"INITIALIZE", "READY", "IDLE"}
        BY <1>9 DEF HandlerReturns
    <2>2. pc' \in {"out", "lines", "loop"} /\ (pc' = "lines" => pc = "received" /\ state' = state)
        BY <1>9 DEF HandlerReturns
    <2>3. Passed'
        BY <1>1, <1>9, <2>1, <2>2 DEF Passed, HandlerReturns, modem, calls, requests, SendCommands
    <2>4. state' = state \/ state' \notin Responses \cup {"INITIALIZE_COMMAND_SEND"}
        BY <2>1 DEF Responses
    <2> QED
        BY <1>2, <1>9, <2>3, <2>4, QuietStep DEF HandlerReturns, modem, calls, requests
  <1> QED
      BY <1>3, <1>4, <1>5, <1>6, <1>7, <1>8, <1>9

\* A line of a reception only overwrites a buffer that no message waits in.
LEMMA ReceiveLineStep == ASSUME IInv, ReceiveLine PROVE IInv'
  <1>1. TypeOK /\ Passed
      BY DEF IInv
  <1>2. rx \in Seq(Lines) /\ telling \in {"joined", "status", NONE} /\ buffer' \in Contents
      BY <1>1 DEF TypeOK, ReceiveLine, Contents
  <1>3. pc' \in {"out", "received", "lines"}
      BY DEF ReceiveLine
  <1>4. ~(state \in SendCommands /\ ~nested)
      BY <1>1 DEF ReceiveLine, Passed
  <1>5. Passed'
      BY <1>3, <1>4 DEF ReceiveLine, Passed, modem, calls, requests
  <1>6. rx' \in Seq(Lines) /\ Oks(rx') \subseteq Oks(rx)
    <2>1. CASE rx = <<>>
      <3>1. rx' = <<>>
          BY <2>1 DEF ReceiveLine
      <3> QED
          BY <3>1, EmptyTells
    <2>2. CASE rx # <<>>
      <3>1. rx' = Tail(rx) /\ Len(rx) \in Nat
          BY <1>2, <2>2 DEF ReceiveLine
      <3>2. /\ Tail(rx) \in Seq(Lines) /\ Len(Tail(rx)) = Len(rx) - 1
            /\ \A i \in 1..Len(Tail(rx)) : Tail(rx)[i] = rx[i + 1]
          BY <1>2, <2>2, HeadTailProperties
      <3>3. \A i \in 1..Len(rx') : i + 1 \in 1..Len(rx) /\ rx'[i] = rx[i + 1]
          BY <3>1, <3>2
      <3> QED
          BY <3>1, <3>2, <3>3, OksWithin
    <2> QED
        BY <2>1, <2>2
  <1> QED
      BY <1>2, <1>5, <1>6, QuietStep DEF ReceiveLine, modem, calls, requests

\* A round of the wait for the result of a join.
LEMMA JoinResponseStep == ASSUME IInv, JoinResponse PROVE IInv'
  <1>1. TypeOK /\ Passed
      BY DEF IInv
  <1>2. rx \in Seq(Lines) /\ telling \in {"joined", "status", NONE} /\ buffer \in Contents
      BY <1>1 DEF TypeOK
  <1>3. pc' \in {"out", "joined"} /\ state = "JOIN_RESPONSE" /\ state' = state
      BY DEF JoinResponse
  <1>4. Passed'
      BY <1>3 DEF Passed, SendCommands
  <1>5. rx' \in Seq(Lines) /\ Oks(rx') \subseteq Oks(rx)
      BY <1>2, RestTells DEF JoinResponse
  <1>6. UNCHANGED <<mask, config, stored, user, doubtful, save_index, index, tx, buffer, telling,
                    in_step, aired, accepted, nested>>
      BY DEF JoinResponse, modem, calls, requests
  <1> QED
      BY <1>2, <1>3, <1>4, <1>5, <1>6, QuietStep

\* The answer that DONE is reported for is that to the message passed last.
LEMMA MessageResponseStep == ASSUME IInv, MessageResponse PROVE IInv'
  <1>1. TypeOK /\ Passed /\ Dialogue
      BY DEF IInv
  <1>2. rx \in Seq(Lines) /\ telling \in {"joined", "status", NONE} /\ buffer \in Contents
      BY <1>1 DEF TypeOK
  <1>3. rx' \in Seq(Lines) /\ Oks(rx') \subseteq Oks(rx) /\ (IsOk(Answer) => Answer \in Oks(rx))
      BY <1>2, RestTells DEF MessageResponse
  <1>4. UNCHANGED <<mask, config, stored, user, doubtful, save_index, index, tx, buffer, telling,
                    in_step, aired, accepted, nested>>
      BY DEF MessageResponse, modem, calls, requests
  <1>5. state = "SEND_MESSAGE_RESPONSE"
      BY DEF MessageResponse
  <1>6. CASE Answer.kind = "ok"
    <2>1. state' = "READY" /\ pc' = "done"
        BY <1>6 DEF MessageResponse
    <2>2. Answer \in Oks(rx)
        BY <1>3, <1>6 DEF IsOk
    <2>3. in_step => tx = <<>> /\ Told(Answer)
        BY <1>1, <1>5, <2>2 DEF Dialogue, Responses
    <2>4. in_step /\ ~nested => aired = accepted /\ tx = <<>>
        BY <1>5, <2>3 DEF Told
    <2>5. Passed' /\ state' \notin Responses \cup {"INITIALIZE_COMMAND_SEND"}
        BY <1>4, <2>1, <2>4 DEF Passed, SendCommands, Responses
    <2> QED
        BY <1>2, <1>3, <1>4, <2>5, QuietStep
  <1>7. CASE Answer.kind # "ok"
    <2>1. state' = "ERROR" /\ pc' = "loop"
        BY <1>7 DEF MessageResponse
    <2>2. Passed' /\ state' \notin Responses \cup {"INITIALIZE_COMMAND_SEND"}
        BY <2>1 DEF Passed, SendCommands, Responses
    <2> QED
        BY <1>2, <1>3, <1>4, <2>2, QuietStep
  <1> QED
      BY <1>6, <1>7

\* The dialogue begins anew.
LEMMA InitializeStep == ASSUME IInv, Initialize PROVE IInv'
  <1>1. state' = "INITIALIZE_COMMAND_SEND" /\ pc' = "loop" /\ index' = 0
      BY DEF Initialize, Goes
  <1>2. UNCHANGED <<mask, config, stored, user, doubtful, save_index, tx, rx, buffer, telling>>
      BY DEF Initialize, Goes, modem, calls, requests
  <1>3. TypeOK'
      BY <1>1, <1>2 DEF IInv, TypeOK
  <1>4. Dialogue' /\ Passed'
      BY <1>1 DEF Dialogue, Passed, Responses, SendCommands
  <1>5. Marked' /\ Kept'
      BY <1>2 DEF IInv, Marked, Kept
  <1>6. Queried'
      BY <1>1, ItemAssumption DEF Queried
  <1> QED
      BY <1>3, <1>4, <1>5, <1>6 DEF IInv

\* A command that is written and is no save leaves the items as they are.
LEMMA KeptByAppend ==
    ASSUME tx \in Seq(Commands), Kept, NEW c \in Commands, tx' = Append(tx, c),
           c.kind = "save" => c.item \in mask,
           UNCHANGED <<mask, doubtful, user, config, stored>>
    PROVE  Kept'
  <1>1. Len(tx) \in Nat /\ Len(tx') = Len(tx) + 1
        /\ \A k \in 1..Len(tx) + 1 : tx'[k] = IF k <= Len(tx) THEN tx[k] ELSE c
    <2>1. /\ Len(tx') = Len(tx) + 1
          /\ \A k \in 1..Len(tx) + 1 : tx'[k] = IF k <= Len(tx) THEN tx[k] ELSE c
        BY AppendProperties
    <2> QED
        BY <2>1
  <1>2. ASSUME NEW k \in 1..Len(tx') PROVE (k \in 1..Len(tx) /\ tx'[k] = tx[k]) \/ tx'[k] = c
      BY <1>1
  <1>3. ASSUME NEW i \in Item \ (mask \cup doubtful), user[i] # NONE,
               NEW k \in 1..Len(tx')
        PROVE  ~(tx'[k].kind = "save" /\ tx'[k].item = i)
      BY <1>2, <1>3 DEF Kept
  <1> QED
      BY <1>3 DEF Kept

-------------------------------------------------------------------------------
(***************************************************************************)
(* The steps that write a command.                                         *)
(***************************************************************************)
\* The command queue after a command is written.
LEMMA OneCommand ==
    ASSUME tx \in Seq(Commands), NEW c \in Commands, tx' = Append(tx, c)
    PROVE  /\ tx' \in Seq(Commands)
           /\ tx = <<>> => Len(tx') = 1 /\ tx'[1] = c
  <1>1. tx' \in Seq(Commands)
      BY AppendProperties
  <1>2. ASSUME tx = <<>> PROVE Len(tx') = 1 /\ tx'[1] = c
      BY <1>2
  <1> QED
      BY <1>1, <1>2

\* A command is written and its answer awaited: either it is the one thing the
\* modem has to answer, or the dialogue is out of step.
LEMMA AskStep ==
    ASSUME IInv, NEW c \in Commands, tx' = Append(tx, c),
           rx' \in Seq(Lines), in_step' => tx = <<>> /\ Oks(rx') = {},
           c.kind = "save" => c.item \in mask,
           Asked(c)',
           state' \notin SendCommands \cup {"INITIALIZE_COMMAND_SEND"},
           pc' # "done",
           save_index' \in Item,
           UNCHANGED <<mask, config, index, stored, telling, buffer, user, doubtful>>
    PROVE  IInv'
  <1>1. TypeOK /\ Kept /\ Marked
      BY DEF IInv
  <1>2. tx \in Seq(Commands)
      BY <1>1 DEF TypeOK
  <1>3. tx' \in Seq(Commands) /\ (tx = <<>> => Len(tx') = 1 /\ tx'[1] = c)
      BY <1>2, OneCommand
  <1>4. TypeOK'
      BY <1>1, <1>3 DEF TypeOK
  <1>5. in_step' => Asked(tx[1])' /\ Len(tx') = 1 /\ Oks(rx)' = {}
    <2>1. tx'[1] = c => Asked(tx[1])'
        BY DEF Asked
    <2> QED
        BY <1>3, <2>1
  <1>6. Dialogue'
      BY <1>5 DEF Dialogue
  <1>7. Passed' /\ Queried'
      BY DEF Passed, Queried
  <1>8. Marked'
      BY <1>1 DEF Marked
  <1>9. Kept'
      BY <1>1, <1>2, KeptByAppend
  <1> QED
      BY <1>4, <1>6, <1>7, <1>8, <1>9 DEF IInv

\* The set up, or the query of an item.
LEMMA InitializeCommandStep == ASSUME IInv, InitializeCommand PROVE IInv'
  <1>1. TypeOK /\ index <= ItemCount
      BY DEF IInv, Queried, InitializeCommand
  <1>2. index \in Nat /\ save_index \in Item
      BY <1>1 DEF TypeOK
  <1>3. index # 0 => index \in Item
      BY <1>1, <1>2, ItemAssumption DEF Item
  <1>4. Command(IF index = 0 THEN "set up" ELSE "query", index, NONE) \in Commands
      BY <1>2, <1>3 DEF Command, Commands, Contents
  <1>5. PICK c \in Commands : c = Command(IF index = 0 THEN "set up" ELSE "query", index, NONE)
      BY <1>4
  <1>6. tx' = Append(tx, c) /\ rx' = <<>> /\ in_step' = (tx = <<>>)
        /\ state' = "INITIALIZE_COMMAND_RESPONSE" /\ pc' = "out"
      BY <1>5 DEF InitializeCommand, Asks
  <1>7. UNCHANGED <<mask, config, index, save_index, stored, telling, buffer, user, doubtful>>
      BY DEF InitializeCommand, modem, requests
  <1>8. /\ c.kind = IF index = 0 THEN "set up" ELSE "query"
        /\ c.item = index
      BY <1>5 DEF Command
  <1>9. Asked(c)'
      BY <1>1, <1>8, <1>6, <1>7 DEF Asked
  <1>10. c.kind # "save" /\ state' \notin SendCommands \cup {"INITIALIZE_COMMAND_SEND"}
      BY <1>8, <1>6 DEF SendCommands
  <1> QED
      BY <1>2, <1>6, <1>7, <1>9, <1>10, EmptyTells, AskStep

\* The join.
LEMMA JoinCommandStep == ASSUME IInv, JoinCommand PROVE IInv'
  <1>1. save_index \in Item
      BY DEF IInv, TypeOK
  <1>2. PICK c \in Commands : c = Command("join", 0, NONE)
      BY DEF Command, Commands, Contents
  <1>3. tx' = Append(tx, c) /\ rx' = <<>> /\ in_step' = (tx = <<>>)
        /\ state' = "JOIN_RESPONSE" /\ pc' = "out"
      BY <1>2 DEF JoinCommand, Asks
  <1>4. UNCHANGED <<mask, config, index, save_index, stored, telling, buffer, user, doubtful>>
      BY DEF JoinCommand, modem, requests
  <1>5. c.kind = "join" /\ Asked(c)' /\ state' \notin SendCommands \cup {"INITIALIZE_COMMAND_SEND"}
      BY <1>2, <1>3 DEF Command, Asked, SendCommands
  <1> QED
      BY <1>1, <1>3, <1>4, <1>5, EmptyTells, AskStep

\* The message, which alone is written without a purge of the FIFO.
LEMMA MessageCommandStep == ASSUME IInv, MessageCommand PROVE IInv'
  <1> DEFINE kind == IF state = "SEND_MESSAGE_COMMAND" THEN "message" ELSE "confirmed"
  <1>1. TypeOK /\ Passed
      BY DEF IInv
  <1>2. save_index \in Item /\ buffer \in Contents /\ rx \in Seq(Lines)
      BY <1>1 DEF TypeOK
  <1>3. kind \in {"message", "confirmed"}
      OBVIOUS
  <1>4. Command(kind, 0, buffer) \in Commands
      BY <1>2, <1>3 DEF Command, Commands
  <1>5. PICK c \in Commands : c = Command(kind, 0, buffer)
      BY <1>4
  <1>6. tx' = Append(tx, c) /\ rx' = rx /\ (in_step' => tx = <<>> /\ rx = <<>>)
        /\ state' = "SEND_MESSAGE_RESPONSE" /\ pc' = "start"
      BY <1>5 DEF MessageCommand
  <1>7. UNCHANGED <<mask, config, index, save_index, stored, telling, buffer, user, doubtful,
                    nested, accepted>>
      BY DEF MessageCommand, modem, requests
  <1>8. ~nested => buffer = accepted
      BY <1>1 DEF MessageCommand, Passed, SendCommands
  <1> HIDE DEF kind
  <1>9. c.kind = kind /\ c.content = buffer
      BY <1>5 DEF Command
  <1>10. Asked(c)' /\ state' \notin SendCommands \cup {"INITIALIZE_COMMAND_SEND"}
      BY <1>3, <1>6, <1>7, <1>8, <1>9 DEF Asked, SendCommands
  <1>11. c.kind # "save" /\ (in_step' => Oks(rx') = {}) /\ rx' \in Seq(Lines)
      BY <1>2, <1>3, <1>6, <1>9, EmptyTells
  <1> QED
      BY <1>2, <1>6, <1>7, <1>9, <1>10, <1>11, AskStep

\* The save of the lowest marked item.
LEMMA SaveCommandStep == ASSUME IInv, SaveCommand PROVE IInv'
  <1>1. TypeOK
      BY DEF IInv
  <1>2. UNCHANGED <<mask, config, index, stored, telling, buffer, user, doubtful>>
      BY DEF SaveCommand, modem, requests
  <1>3. CASE mask = {}
    <2>1. state' = "ERROR" /\ pc' = "saved" /\ UNCHANGED <<save_index, tx, rx>>
        BY <1>3 DEF SaveCommand
    <2>2. Passed' /\ state' \notin Responses \cup {"INITIALIZE_COMMAND_SEND"}
        BY <2>1 DEF Passed, SendCommands, Responses
    <2>3. rx \in Seq(Lines) /\ telling \in {"joined", "status", NONE} /\ buffer \in Contents
        BY <1>1 DEF TypeOK
    <2> QED
        BY <1>2, <2>1, <2>2, <2>3, QuietStep
  <1>4. CASE mask # {}
    <2> DEFINE s == Min(mask)
    <2>1. mask \subseteq Item /\ config \in [Item -> Value]
        BY <1>1 DEF TypeOK
    <2>2. s \in mask
        BY <1>4, <2>1, MinOfMask
    <2>3. s \in Item /\ s \in Nat /\ config[s] \in Value
      <3> HIDE DEF s
      <3> QED
          BY <2>1, <2>2 DEF Item
    <2>4. Command("save", s, config[s]) \in Commands
      <3> HIDE DEF s
      <3> QED
          BY <2>3 DEF Command, Commands, Contents
    <2>5. PICK c \in Commands : c = Command("save", s, config[s])
        BY <2>4
    <2>6. /\ save_index' = s /\ tx' = Append(tx, c) /\ rx' = <<>> /\ in_step' = (tx = <<>>)
          /\ state' = "CONFIG_SAVE_RESPONSE" /\ pc' = "out"
        BY <1>4, <2>5 DEF SaveCommand, Asks
    <2>7. c.kind = "save" /\ c.item = s /\ c.content = config[s]
        BY <2>5 DEF Command
    <2>8. Asked(c)'
        BY <1>2, <2>6, <2>7 DEF Asked
    <2>9. state' \notin SendCommands \cup {"INITIALIZE_COMMAND_SEND"}
        BY <2>6 DEF SendCommands
    <2>10. c.item \in mask /\ save_index' \in Item /\ pc' # "done"
        BY <2>2, <2>6, <2>7, <2>3
    <2>11. rx' \in Seq(Lines) /\ (in_step' => tx = <<>> /\ Oks(rx') = {})
        BY <2>6, EmptyTells
    <2> HIDE DEF s
    <2> QED
        BY <1>2, <2>6, <2>8, <2>9, <2>10, <2>11, AskStep
  <1> QED
      BY <1>3, <1>4

-------------------------------------------------------------------------------
(***************************************************************************)
(* The set functions, and the modem.                                       *)
(***************************************************************************)
\* An item is set: it is marked now, or doubtful as well.
LEMMA SetStep ==
    ASSUME IInv, NEW i \in Item, NEW v \in Value, Set(i, v)
    PROVE  IInv'
  <1>1. TypeOK /\ Dialogue /\ Passed /\ Marked /\ Kept /\ Queried
      BY DEF IInv
  <1>2. /\ config' = [config EXCEPT ![i] = v] /\ user' = [user EXCEPT ![i] = v]
        /\ mask' = mask \cup {i}
        /\ doubtful' = IF state = "CONFIG_SAVE_RESPONSE" /\ save_index = i
                       THEN doubtful \cup {i} ELSE doubtful \ {i}
        /\ UNCHANGED <<state, index, save_index, buffer, pc, tx, rx, stored, aired, telling,
                       in_step, accepted, nested>>
      BY DEF Set, Marks, modem
  <1>3. config \in [Item -> Value] /\ user \in [Item -> Value \cup {NONE}] /\ mask \subseteq Item
      BY <1>1 DEF TypeOK
  <1>4. /\ config' \in [Item -> Value] /\ user' \in [Item -> Value \cup {NONE}]
        /\ config'[i] = v /\ user'[i] = v
        /\ \A j \in Item : j # i => config'[j] = config[j] /\ user'[j] = user[j]
      BY <1>2, <1>3
  <1>5. TypeOK'
      BY <1>1, <1>2, <1>4 DEF TypeOK
  <1>6. Dialogue'
    <2>1. save_index \in Item
        BY <1>1 DEF TypeOK
    <2>2. state = "CONFIG_SAVE_RESPONSE" /\ save_index \notin doubtful'
          => save_index \notin doubtful /\ config'[save_index] = config[save_index]
        BY <1>2, <1>4, <2>1
    <2>3. ASSUME Asked(tx[1]) PROVE Asked(tx[1])'
        BY <1>2, <2>2, <2>3 DEF Asked
    <2>4. ASSUME NEW l, Told(l) PROVE Told(l)'
        BY <1>2, <2>2, <2>4 DEF Told
    <2> QED
        BY <1>1, <1>2, <2>3, <2>4 DEF Dialogue
  <1>7. Passed' /\ Queried'
      BY <1>1, <1>2 DEF Passed, Queried
  <1>8. Marked'
      BY <1>1, <1>2, <1>3, <1>4 DEF Marked
  <1>9. Kept'
    <2> SUFFICES ASSUME NEW j \in Item, j \notin mask', j \notin doubtful', user'[j] # NONE
                 PROVE  /\ config'[j] = user'[j] /\ stored'[j] = user'[j]
                        /\ \A k \in 1..Len(tx') : ~(tx'[k].kind = "save" /\ tx'[k].item = j)
        BY DEF Kept
    <2>1. j # i /\ j \notin mask /\ j \notin doubtful
        BY <1>2
    <2>2. config'[j] = config[j] /\ user'[j] = user[j] /\ stored' = stored /\ tx' = tx
        BY <1>2, <1>4, <2>1
    <2> QED
        BY <1>1, <2>1, <2>2 DEF Kept
  <1> QED
      BY <1>5, <1>6, <1>7, <1>8, <1>9 DEF IInv

\* The command the modem takes.
LEMMA FirstCommand ==
    ASSUME tx \in Seq(Commands), tx # <<>>
    PROVE  /\ Head(tx) = tx[1] /\ Len(tx) \in Nat /\ 1 \in 1..Len(tx) /\ Head(tx) \in Commands
           /\ Tail(tx) \in Seq(Commands) /\ Len(Tail(tx)) = Len(tx) - 1
           /\ \A k \in 1..Len(Tail(tx)) : k + 1 \in 1..Len(tx) /\ Tail(tx)[k] = tx[k + 1]
           /\ Len(tx) = 1 => Tail(tx) = <<>>
  <1>1. Len(tx) \in Nat /\ Len(tx) >= 1
      BY EmptySeq, LenProperties
  <1>2. /\ Head(tx) \in Commands /\ Tail(tx) \in Seq(Commands) /\ Len(Tail(tx)) = Len(tx) - 1
        /\ \A k \in 1..Len(Tail(tx)) : Tail(tx)[k] = tx[k + 1]
      BY HeadTailProperties
  <1>3. Len(tx) = 1 => Len(Tail(tx)) = 0
      BY <1>1, <1>2
  <1>4. Len(tx) = 1 => Tail(tx) = <<>>
      BY <1>2, <1>3, EmptySeq
  <1>5. Head(tx) = tx[1]
      OBVIOUS
  <1> QED
      BY <1>1, <1>2, <1>4, <1>5

\* The modem takes a command: no item that is kept is touched ...
LEMMA KeptByModem ==
    ASSUME TypeOK, Kept, tx # <<>>, tx' = Tail(tx),
           \/ stored' = stored
           \/ /\ Head(tx).kind = "save"
              /\ stored' = [stored EXCEPT ![Head(tx).item] = Head(tx).content],
           UNCHANGED <<mask, doubtful, user, config>>
    PROVE  Kept' /\ stored' \in [Item -> Value]
  <1>1. stored \in [Item -> Value] /\ tx \in Seq(Commands)
      BY DEF TypeOK
  <1>2. /\ Head(tx) = tx[1] /\ Len(tx) \in Nat /\ 1 \in 1..Len(tx) /\ Head(tx) \in Commands
        /\ \A k \in 1..Len(Tail(tx)) : k + 1 \in 1..Len(tx) /\ Tail(tx)[k] = tx[k + 1]
      BY <1>1, FirstCommand
  <1>3. Head(tx).kind = "save" => Head(tx).item \in Item /\ Head(tx).content \in Value
      BY <1>2 DEF Commands
  <1>4. stored' \in [Item -> Value]
        /\ \A j \in Item : ~(Head(tx).kind = "save" /\ Head(tx).item = j) => stored'[j] = stored[j]
      BY <1>1, <1>3
  <1>5. ASSUME NEW i \in Item \ (mask \cup doubtful), user[i] # NONE
        PROVE  /\ config[i] = user[i] /\ stored'[i] = user[i]
               /\ \A k \in 1..Len(tx') : ~(tx'[k].kind = "save" /\ tx'[k].item = i)
    <2>1. /\ config[i] = user[i] /\ stored[i] = user[i]
          /\ \A k \in 1..Len(tx) : ~(tx[k].kind = "save" /\ tx[k].item = i)
        BY <1>5 DEF Kept
    <2>2. ~(Head(tx).kind = "save" /\ Head(tx).item = i)
        BY <1>2, <2>1
    <2>3. stored'[i] = stored[i]
        BY <1>4, <2>2
    <2>4. \A k \in 1..Len(tx') : ~(tx'[k].kind = "save" /\ tx'[k].item = i)
        BY <1>2, <2>1
    <2> QED
        BY <2>1, <2>3, <2>4
  <1> QED
      BY <1>4, <1>5 DEF Kept

\* ... and what is answered to the one command there is, is true.
LEMMA ModemStep ==
    ASSUME IInv, tx # <<>>, tx' = Tail(tx),
           UNCHANGED <<state, mask, config, index, save_index, buffer, pc,
                       in_step, user, doubtful, accepted, nested>>,
           telling' \in {"joined", "status", NONE}, rx' \in Seq(Lines),
           \/ stored' = stored
           \/ /\ Head(tx).kind = "save"
              /\ stored' = [stored EXCEPT ![Head(tx).item] = Head(tx).content],
           state \in Responses /\ Asked(Head(tx)) /\ Oks(rx) = {} => \A l \in Oks(rx') : Told(l)'
    PROVE  IInv'
  <1>1. TypeOK /\ Dialogue /\ Passed /\ Marked /\ Kept /\ Queried
      BY DEF IInv
  <1>2. tx \in Seq(Commands)
      BY <1>1 DEF TypeOK
  <1>3. Head(tx) = tx[1] /\ Tail(tx) \in Seq(Commands) /\ (Len(tx) = 1 => Tail(tx) = <<>>)
      BY <1>2, FirstCommand
  <1>4. Kept' /\ stored' \in [Item -> Value]
      BY <1>1, KeptByModem
  <1>5. TypeOK'
      BY <1>1, <1>3, <1>4 DEF TypeOK
  <1>6. Dialogue'
    <2>1. ASSUME in_step, state \in Responses
          PROVE  tx' = <<>> /\ \A l \in Oks(rx') : Told(l)'
      <3>1. Len(tx) = 1 /\ Asked(tx[1]) /\ Oks(rx) = {}
          BY <1>1, <2>1 DEF Dialogue
      <3> QED
          BY <1>3, <2>1, <3>1
    <2>2. ASSUME in_step', state' \in Responses
          PROVE  tx' = <<>> /\ \A l \in Oks(rx)' : Told(l)'
        BY <2>1, <2>2
    <2> QED
        BY <2>2 DEF Dialogue
  <1>7. Passed'
    <2>1. ~(pc = "done" /\ in_step /\ ~nested)
        BY <1>1 DEF Passed
    <2> QED
        BY <1>1, <2>1 DEF Passed
  <1>8. Marked' /\ Queried'
      BY <1>1 DEF Marked, Queried
  <1> QED
      BY <1>4, <1>5, <1>6, <1>7, <1>8 DEF IInv

\* What a command does to the modem.
LEMMA PerformsTypes ==
    ASSUME TypeOK, NEW c \in Commands, Performs(c)
    PROVE  /\ telling' \in {"joined", "status", NONE}
           /\ \/ stored' = stored
              \/ c.kind = "save" /\ stored' = [stored EXCEPT ![c.item] = c.content]
  <1>1. telling \in {"joined", "status", NONE}
      BY DEF TypeOK
  <1>2. telling' \in {"joined", "status", telling}
      BY DEF Performs
  <1> QED
      BY <1>1, <1>2 DEF Performs

\* The modem carries out a command and answers it.
LEMMA ModemAnswersStep == ASSUME IInv, ModemAnswers PROVE IInv'
  <1>1. TypeOK /\ tx # <<>> /\ tx' = Tail(tx) /\ Arrives(AnswerOf(Head(tx)))
      BY DEF IInv, ModemAnswers
  <1>2. UNCHANGED <<state, mask, config, index, save_index, buffer, pc,
                    in_step, user, doubtful, accepted, nested>>
      BY DEF ModemAnswers, driver, calls, requests
  <1>3. /\ tx \in Seq(Commands) /\ rx \in Seq(Lines) /\ stored \in [Item -> Value]
        /\ save_index \in Item /\ index \in Nat
      BY <1>1 DEF TypeOK
  <1>4. PICK c \in Commands : c = Head(tx)
      BY <1>1, <1>3, FirstCommand
  <1>5. Performs(c)
      BY <1>4 DEF ModemAnswers
  <1>6. telling' \in {"joined", "status", NONE}
        /\ \/ stored' = stored
           \/ c.kind = "save" /\ stored' = [stored EXCEPT ![c.item] = c.content]
      BY <1>1, <1>5, PerformsTypes
  <1>7. c.kind \in {"query", "save"} => c.item \in Item
      BY DEF Commands
  <1>8. AnswerOf(c) \in Lines
    <2>1. CASE c.kind = "query"
      <3>1. stored[c.item] \in Value
          BY <1>3, <1>7, <2>1
      <3> QED
          BY <2>1, <3>1 DEF AnswerOf, Line, Lines, Contents
    <2>2. CASE c.kind # "query"
        BY <2>2 DEF AnswerOf, Line, Lines, Contents
    <2> QED
        BY <2>1, <2>2
  <1>9. rx' \in Seq(Lines) /\ Oks(rx') \subseteq Oks(rx) \cup {AnswerOf(c)}
      BY <1>1, <1>3, <1>4, <1>8, ArrivalTells
  <1>10. PICK answer \in Lines : answer = AnswerOf(c)
      BY <1>8
  <1>11. ASSUME state \in Responses, Asked(c) PROVE Told(answer)'
    <2>1. CASE state = "INITIALIZE_COMMAND_RESPONSE"
      <3>1. c.kind = (IF index = 0 THEN "set up" ELSE "query") /\ c.item = index
          BY <1>11, <2>1 DEF Asked
      <3>2. answer.kind = "value" => c.kind = "query" /\ answer.content = stored[index]
          BY <1>10, <3>1 DEF AnswerOf, Line
      <3>3. c.kind = "query" => index \in Item /\ stored' = stored
          BY <1>6, <1>7, <3>1
      <3> QED
          BY <1>2, <2>1, <3>2, <3>3 DEF Told
    <2>2. CASE state = "CONFIG_SAVE_RESPONSE"
      <3>1. c.kind = "save" /\ c.item = save_index
            /\ (save_index \notin doubtful => c.content = config[save_index])
          BY <1>11, <2>2 DEF Asked
      <3>2. stored' = [stored EXCEPT ![save_index] = c.content]
          BY <1>5, <3>1 DEF Performs
      <3>3. stored'[save_index] = c.content
          BY <1>3, <3>2
      <3> QED
          BY <1>2, <2>2, <3>1, <3>3 DEF Told
    <2>3. CASE state = "SEND_MESSAGE_RESPONSE"
      <3>1. c.kind \in {"message", "confirmed"} /\ (~nested => c.content = accepted)
          BY <1>11, <2>3 DEF Asked
      <3>2. aired' = c.content
          BY <1>5, <3>1 DEF Performs
      <3> QED
          BY <1>2, <2>3, <3>1, <3>2 DEF Told
    <2> QED
        BY <1>11, <2>1, <2>2, <2>3 DEF Responses
  <1>12. state \in Responses /\ Asked(Head(tx)) /\ Oks(rx) = {} => \A l \in Oks(rx') : Told(l)'
    <2> SUFFICES ASSUME state \in Responses, Asked(Head(tx)), Oks(rx) = {}, NEW l \in Oks(rx')
                 PROVE  Told(l)'
        OBVIOUS
    <2>1. l = answer
        BY <1>9, <1>10
    <2> QED
        BY <1>4, <1>11, <2>1
  <1> QED
      BY <1>1, <1>2, <1>4, <1>6, <1>9, <1>12, ModemStep

\* The modem carries out a command and the answer is lost, or refuses it.
LEMMA ModemFailsStep == ASSUME IInv, ModemFails PROVE IInv'
  <1>1. TypeOK /\ tx # <<>> /\ tx' = Tail(tx)
      BY DEF IInv, ModemFails
  <1>2. UNCHANGED <<state, mask, config, index, save_index, buffer, pc,
                    in_step, user, doubtful, accepted, nested>>
      BY DEF ModemFails, driver, calls, requests
  <1>3. tx \in Seq(Commands) /\ rx \in Seq(Lines) /\ telling \in {"joined", "status", NONE}
      BY <1>1 DEF TypeOK
  <1>4. CASE Performs(Head(tx)) /\ UNCHANGED rx
    <2>1. Head(tx) \in Commands
        BY <1>1, <1>3, FirstCommand
    <2>2. telling' \in {"joined", "status", NONE}
          /\ \/ stored' = stored
             \/ /\ Head(tx).kind = "save"
                /\ stored' = [stored EXCEPT ![Head(tx).item] = Head(tx).content]
        BY <1>1, <1>4, <2>1, PerformsTypes
    <2>3. rx' \in Seq(Lines) /\ (Oks(rx) = {} => \A l \in Oks(rx') : Told(l)')
        BY <1>3, <1>4
    <2> QED
        BY <1>1, <1>2, <2>2, <2>3, ModemStep
  <1>5. CASE Arrives(Line("error", NONE)) /\ UNCHANGED modem
    <2>1. Line("error", NONE) \in Lines /\ ~IsOk(Line("error", NONE))
        BY DEF Line, Lines, Contents, IsOk
    <2>2. rx' \in Seq(Lines) /\ Oks(rx') \subseteq Oks(rx)
        BY <1>3, <1>5, <2>1, ArrivalTells
    <2>3. Oks(rx) = {} => \A l \in Oks(rx') : Told(l)'
        BY <2>2
    <2>4. stored' = stored /\ telling' \in {"joined", "status", NONE}
        BY <1>3, <1>5 DEF modem
    <2> QED
        BY <1>1, <1>2, <2>2, <2>3, <2>4, ModemStep
  <1> QED
      BY <1>4, <1>5 DEF ModemFails

-------------------------------------------------------------------------------
(***************************************************************************)
(* The answers, and the results.                                           *)
(***************************************************************************)
\* A query taken over by the driver: only an item that is not marked changes, and
\* in step it takes the value the modem has.
LEMMA InitializeResponseStep == ASSUME IInv, InitializeResponse PROVE IInv'
  <1>1. TypeOK /\ Dialogue /\ Marked /\ Kept
      BY DEF IInv
  <1>2. /\ rx \in Seq(Lines) /\ telling \in {"joined", "status", NONE} /\ buffer \in Contents
        /\ index \in Nat /\ config \in [Item -> Value]
      BY <1>1 DEF TypeOK
  <1>3. rx' \in Seq(Lines) /\ Oks(rx') \subseteq Oks(rx) /\ (IsOk(Answer) => Answer \in Oks(rx))
      BY <1>2, RestTells DEF InitializeResponse
  <1>4. UNCHANGED <<mask, stored, user, save_index, tx, pc, buffer, telling, in_step, aired,
                    accepted, nested>> /\ pc = "loop" /\ state = "INITIALIZE_COMMAND_RESPONSE"
      BY DEF InitializeResponse, Goes, Doubts, modem, requests
  <1>5. CASE ~IsOk(Answer)
    <2>1. state' = "ERROR" /\ UNCHANGED <<config, index, doubtful>>
        BY <1>5 DEF InitializeResponse, Goes, requests
    <2>2. Passed' /\ state' \notin Responses \cup {"INITIALIZE_COMMAND_SEND"}
        BY <1>4, <2>1 DEF Passed, SendCommands, Responses
    <2> QED
        BY <1>2, <1>3, <1>4, <2>1, <2>2, QuietStep
  <1>6. CASE IsOk(Answer)
    <2>1. /\ config' = IF Answer.kind = "value" /\ index \in Item \ mask
                       THEN [config EXCEPT ![index] = Answer.content] ELSE config
          /\ doubtful' = IF in_step THEN doubtful ELSE doubtful \cup {index}
          /\ index' = index + 1
          /\ state' = IF index < ItemCount THEN "INITIALIZE_COMMAND_SEND"
                      ELSE IF mask # {} THEN "CONFIG_SAVE_SEND" ELSE "READY"
        BY <1>6 DEF InitializeResponse, Goes, Doubts
    <2>2. Answer \in Lines /\ Answer \in Oks(rx)
      <3>1. \A i \in 1..Len(rx) : rx[i] \in Lines
          BY <1>2, ElementOfSeq
      <3> QED
          BY <1>3, <1>6, <3>1 DEF Oks
    <2>3. Answer.kind = "value" => Answer.content \in Value
        BY <2>2 DEF Lines
    <2>4. /\ config' \in [Item -> Value]
          /\ \A i \in Item : config'[i] # config[i] =>
               i = index /\ i \notin mask /\ Answer.kind = "value" /\ config'[i] = Answer.content
        BY <1>2, <2>1, <2>3
    <2>5. in_step => tx = <<>> /\ (Answer.kind = "value" => Answer.content = stored[index])
        BY <1>1, <1>4, <2>2 DEF Dialogue, Responses, Told
    <2>6. TypeOK'
      <3>1. index' \in Nat
          BY <1>2, <2>1
      <3> QED
          BY <1>1, <1>3, <1>4, <2>4, <3>1 DEF TypeOK
    <2>7. state' \in {"INITIALIZE_COMMAND_SEND", "CONFIG_SAVE_SEND", "READY"}
        BY <2>1
    <2>8. Dialogue' /\ Passed'
        BY <1>4, <2>7 DEF Dialogue, Passed, Responses, SendCommands
    <2>9. Marked'
      <3>1. mask \subseteq Item
          BY <1>1 DEF TypeOK
      <3> QED
          BY <1>1, <1>4, <2>4, <3>1 DEF Marked
    <2>10. Kept'
      <3> SUFFICES ASSUME NEW i \in Item, i \notin mask', i \notin doubtful', user'[i] # NONE
                   PROVE  /\ config'[i] = user'[i] /\ stored'[i] = user'[i]
                          /\ \A k \in 1..Len(tx') : ~(tx'[k].kind = "save" /\ tx'[k].item = i)
          BY DEF Kept
      <3>1. i \notin mask /\ i \notin doubtful /\ user[i] # NONE /\ (i = index => in_step)
          BY <1>4, <2>1
      <3>2. /\ config[i] = user[i] /\ stored[i] = user[i]
            /\ \A k \in 1..Len(tx) : ~(tx[k].kind = "save" /\ tx[k].item = i)
          BY <1>1, <3>1 DEF Kept
      <3>3. config'[i] = user[i]
          BY <2>4, <2>5, <3>1, <3>2
      <3> QED
          BY <1>4, <3>2, <3>3
    <2>11. Queried'
        BY <1>2, <2>1, ItemAssumption DEF Queried
    <2> QED
        BY <2>6, <2>8, <2>9, <2>10, <2>11 DEF IInv
  <1> QED
      BY <1>5, <1>6

\* An answered save: in step, the modem has what the driver has, and that is what
\* the application set if the mark was there.
LEMMA SaveResponseStep == ASSUME IInv, SaveResponse PROVE IInv'
  <1>1. TypeOK /\ Dialogue /\ Marked /\ Kept
      BY DEF IInv
  <1>2. /\ rx \in Seq(Lines) /\ telling \in {"joined", "status", NONE} /\ buffer \in Contents
        /\ save_index \in Item
      BY <1>1 DEF TypeOK
  <1>3. rx' \in Seq(Lines) /\ Oks(rx') \subseteq Oks(rx) /\ (IsOk(Answer) => Answer \in Oks(rx))
      BY <1>2, RestTells DEF SaveResponse
  <1>4. UNCHANGED <<config, stored, user, save_index, index, tx, pc, buffer, telling, in_step,
                    aired, accepted, nested>> /\ pc = "loop" /\ state = "CONFIG_SAVE_RESPONSE"
      BY DEF SaveResponse, Goes, Doubts, modem, requests
  <1>5. CASE ~IsOk(Answer)
    <2>1. state' = "ERROR" /\ UNCHANGED <<mask, doubtful>>
        BY <1>5 DEF SaveResponse, Goes, requests
    <2>2. Passed' /\ state' \notin Responses \cup {"INITIALIZE_COMMAND_SEND"}
        BY <1>4, <2>1 DEF Passed, SendCommands, Responses
    <2> QED
        BY <1>2, <1>3, <1>4, <2>1, <2>2, QuietStep
  <1>6. CASE IsOk(Answer)
    <2>1. /\ mask' = mask \ {save_index} /\ state' = "CONFIG_SAVE_SEND"
          /\ doubtful' = IF in_step THEN doubtful ELSE doubtful \cup {save_index}
        BY <1>6 DEF SaveResponse, Goes, Doubts
    <2>2. in_step => /\ tx = <<>>
                     /\ save_index \notin doubtful => stored[save_index] = config[save_index]
        BY <1>1, <1>3, <1>4, <1>6 DEF Dialogue, Responses, Told
    <2>3. TypeOK'
        BY <1>1, <1>3, <1>4, <2>1 DEF TypeOK
    <2>4. Dialogue' /\ Passed' /\ Queried'
        BY <1>4, <2>1 DEF Dialogue, Passed, Queried, Responses, SendCommands
    <2>5. Marked'
        BY <1>1, <1>4, <2>1 DEF Marked
    <2>6. Kept'
      <3> SUFFICES ASSUME NEW i \in Item, i \notin mask', i \notin doubtful', user'[i] # NONE
                   PROVE  /\ config'[i] = user'[i] /\ stored'[i] = user'[i]
                          /\ \A k \in 1..Len(tx') : ~(tx'[k].kind = "save" /\ tx'[k].item = i)
          BY DEF Kept
      <3>1. CASE i \notin mask
        <4>1. i \notin doubtful /\ user[i] # NONE
            BY <1>4, <2>1
        <4>2. /\ config[i] = user[i] /\ stored[i] = user[i]
              /\ \A k \in 1..Len(tx) : ~(tx[k].kind = "save" /\ tx[k].item = i)
            BY <1>1, <3>1, <4>1 DEF Kept
        <4> QED
            BY <1>4, <4>2
      <3>2. CASE i \in mask
        <4>1. i = save_index /\ in_step /\ i \notin doubtful
            BY <2>1, <3>2
        <4>2. tx = <<>> /\ stored[i] = config[i] /\ config[i] = user[i]
            BY <1>1, <2>2, <3>2, <4>1 DEF Marked
        <4>3. 1..Len(tx) = {}
            BY <4>2
        <4> QED
            BY <1>4, <4>2, <4>3
      <3> QED
          BY <3>1, <3>2
    <2> QED
        BY <2>3, <2>4, <2>5, <2>6 DEF IInv
  <1> QED
      BY <1>5, <1>6

\* The first state.
LEMMA InitHolds == Init => IInv
  <1> SUFFICES ASSUME Init PROVE IInv
      OBVIOUS
  <1>1. 1 \in Item /\ 0 \in Nat
      BY ItemAssumption DEF Item
  <1>2. tx = <<>> /\ rx = <<>> /\ <<>> \in Seq(Commands) /\ <<>> \in Seq(Lines)
      BY DEF Init
  <1>3. config \in [Item -> Value] /\ stored \in [Item -> Value]
        /\ user \in [Item -> Value \cup {NONE}]
      BY ItemAssumption DEF Init
  <1>4. TypeOK
      BY <1>1, <1>2, <1>3 DEF Init, TypeOK, Contents
  <1>5. Dialogue /\ Passed /\ Queried
      BY DEF Init, Dialogue, Passed, Queried, Responses, SendCommands
  <1>6. \A i \in Item : user[i] = NONE
      BY DEF Init
  <1>7. Marked /\ Kept
      BY <1>6 DEF Init, Marked, Kept
  <1> QED
      BY <1>4, <1>5, <1>7 DEF IInv

\* Every step.
LEMMA StepHolds == IInv /\ [Next]_vars => IInv'
  <1> SUFFICES ASSUME IInv, [Next]_vars PROVE IInv'
      OBVIOUS
  <1>1. CASE \E m \in Message, command \in {"SEND_MESSAGE_COMMAND",
                                            "SEND_MESSAGE_CONFIRMED_COMMAND"} : Send(m, command)
      BY <1>1, SendStep
  <1>2. CASE \E i \in Item, v \in Value : Set(i, v)
      BY <1>2, SetStep
  <1>3. CASE Join
      BY <1>3, JoinStep
  <1>4. CASE ModemAnswers \/ ModemFails \/ ModemTells \/ Downlink
      BY <1>4, ModemAnswersStep, ModemFailsStep, TellsStep, DownlinkStep
  <1>5. CASE UartEvent \/ HandlerReturns
      BY <1>5, QuietRounds
  <1>6. CASE Task
      BY <1>6, QuietRounds, ReceiveLineStep, InitializeStep, InitializeCommandStep,
         InitializeResponseStep, MessageCommandStep, MessageResponseStep, SaveCommandStep,
         SaveResponseStep, JoinCommandStep, JoinResponseStep DEF Task
  <1>7. CASE UNCHANGED vars
      BY <1>7, StutterStep
  <1> QED
      BY <1>1, <1>2, <1>3, <1>4, <1>5, <1>6, <1>7 DEF Next

\* The dialogue, the message and the items, together: at every moment the answer
\* in the FIFO is true or the dialogue is known to be out of step, a marked item
\* has the value set last in the driver, and no old save of an item that is
\* neither marked nor doubtful is on its way (twr_cmwx1zzabz.c, _task).
THEOREM InductiveHolds == Spec => []IInv
  <1>1. Init => IInv
      BY InitHolds
  <1>2. IInv /\ [Next]_vars => IInv'
      BY StepHolds
  <1> QED
      BY <1>1, <1>2, PTL DEF Spec

\* SEND_MESSAGE_DONE is only reported for a message the modem has accepted, as
\* the application passed it last (SEND_MESSAGE_RESPONSE).
THEOREM DoneIsAccepted == Spec => []DoneMeansAccepted
  <1>1. IInv => DoneMeansAccepted
      BY DEF IInv, Passed, DoneMeansAccepted
  <1> QED
      BY <1>1, InductiveHolds, PTL

\* No failed save, late answer or new initialization makes the driver and the
\* modem lose the value the application set last (_save_config, the
\* INITIALIZE and CONFIG_SAVE states).
THEOREM ValuesAreKept == Spec => []ValueKept
  <1>1. IInv => ValueKept
      BY DEF IInv, Kept, ValueKept
  <1> QED
      BY <1>1, InductiveHolds, PTL
===============================================================================
