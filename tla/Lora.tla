-------------------------------- MODULE Lora --------------------------------
(***************************************************************************)
(* twr_cmwx1zzabz.c: the dialogue with the LoRa modem.  The driver's task  *)
(* writes one command, plans itself for when the answer should be there,   *)
(* and reads one line then.  The application may call send_message, join   *)
(* and the set functions at any moment outside the task and in every event *)
(* handler; the modem answers late, not at all or with an error, and sends *)
(* lines nobody asked for.  The receive FIFO holds whole lines; what is    *)
(* purged and what is not is the driver's own doing.  The transmit FIFO    *)
(* always has room: it is larger than any command and empties within a     *)
(* third of a second, before a next command is written.                    *)
(***************************************************************************)
EXTENDS Naturals, SequencesExt

CONSTANTS ItemCount,     \* TWR_CMWX1ZZABZ_CONFIG_INDEX_LAST_ITEM
          Value, Zero,   \* values of a configuration item; Zero is what memset leaves
          Message,       \* what the application sends
          MaxSends,      \* bound: accepted calls of send_message
          MaxSets,       \* bound: calls of the set functions
          MaxJoins,      \* bound: calls of join
          MaxDownlinks,  \* bound: messages received
          MaxFaults      \* bound: answers lost, late, or errors

ASSUME ItemAssumption == ItemCount \in Nat \ {0} /\ Zero \in Value
ASSUME BoundAssumption == {MaxSends, MaxSets, MaxJoins, MaxDownlinks, MaxFaults} \subseteq Nat

Item == 1..ItemCount

VARIABLES
    state,         \* self->_state
    mask,          \* the items of _save_config_mask
    config,        \* self->_config
    join_command,  \* self->_join_command
    index,         \* _init_command_index: 0 for the commands that only set up,
                   \* then one query for each item
    save_index,    \* _save_command_index
    buffer,        \* _message_buffer
    planned,       \* the task: "never", "now", or after a "delay"
    pc,            \* the task is "out", between two rounds of its "loop", in the
                   \* loop over received "lines", or in an event handler
    tx, rx,        \* commands on their way to the modem; lines in the RX FIFO
    stored,        \* the modem: its configuration,
    aired,         \* the last message it accepted since a send was called,
    telling,       \* and the kind of the line it is about to send, or NONE
    left,          \* what is left of each bound
    user,          \* history: the value set last for an item, or NONE
    in_step,       \* history: when the last command was written no other was
                   \* unanswered
    doubtful,      \* history: items set while their own save was under way, or
                   \* saved or read by what may be the answer to another command
    accepted,      \* history: the message passed to send_message last
    nested,        \* history: it was passed in a handler of a received line
    overtaken      \* history: a request met a reception, and the task has not
                   \* looked at the requests since

driver == <<state, mask, config, join_command, index, save_index, buffer>>
modem == <<stored, aired, telling>>
requests == <<user, doubtful, accepted, nested, overtaken>>
calls == <<in_step, requests>>
vars == <<state, mask, config, join_command, index, save_index, buffer, planned,
          pc, tx, rx, stored, aired, telling, left, in_step, user, doubtful,
          accepted, nested, overtaken>>

NONE == "none"
Received == "received message"  \* what a downlink leaves in the message buffer

Handlers == {"ready", "error", "start", "done", "saved", "joined", "received"}
Sending == {"SEND_MESSAGE_COMMAND", "SEND_MESSAGE_CONFIRMED_COMMAND",
            "SEND_MESSAGE_RESPONSE"}

Spend(bound) == left[bound] > 0 /\ left' = [left EXCEPT ![bound] = @ - 1]

Init ==
    /\ state = "INITIALIZE" /\ planned = "delay" /\ pc = "out"
    /\ mask = {} /\ join_command = FALSE
    /\ config = [i \in Item |-> Zero]
    /\ index = 0 /\ save_index = 1 /\ buffer = NONE
    /\ tx = <<>> /\ rx = <<>>
    /\ \E v \in Value : stored = [i \in Item |-> v]
    /\ aired = NONE /\ telling = NONE
    /\ left = [send |-> MaxSends, set |-> MaxSets, join |-> MaxJoins,
               downlink |-> MaxDownlinks, fault |-> MaxFaults]
    /\ user = [i \in Item |-> NONE] /\ doubtful = {} /\ in_step = TRUE
    /\ accepted = NONE /\ nested = FALSE /\ overtaken = FALSE

-------------------------------------------------------------------------------
(***************************************************************************)
(* The application.                                                        *)
(***************************************************************************)
Application == pc = "out" \/ pc \in Handlers

\* send_message() and send_message_confirmed(), accepted.
Send(m, command) ==
    /\ Application /\ state = "IDLE"
    /\ Spend("send")
    /\ buffer' = m
    /\ state' = command
    /\ planned' = "now"
    /\ accepted' = m /\ nested' = (pc = "received")
    /\ aired' = NONE
    /\ UNCHANGED <<mask, config, join_command, index, save_index, pc, tx, rx,
                   stored, telling, in_step, user, doubtful, overtaken>>

\* _save_config(): the item is marked.
Marks(i) ==
    /\ mask' = mask \cup {i}
    /\ planned' = IF state = "IDLE" THEN "now" ELSE planned

\* set_devaddr() and the other set functions.
Set(i, v) ==
    /\ Application
    /\ Spend("set")
    /\ config' = [config EXCEPT ![i] = v]
    /\ Marks(i)
    /\ user' = [user EXCEPT ![i] = v]
    /\ doubtful' = IF state = "CONFIG_SAVE_RESPONSE" /\ save_index = i
                   THEN doubtful \cup {i} ELSE doubtful \ {i}
    /\ overtaken' = (overtaken \/ state = "RECEIVE")
    /\ UNCHANGED <<state, join_command, index, save_index, buffer, pc, tx, rx,
                   modem, in_step, accepted, nested>>

\* join(): the task is planned whatever it is waiting for.
Join ==
    /\ Application
    /\ Spend("join")
    /\ join_command' = TRUE
    /\ planned' = "now"
    /\ overtaken' = (overtaken \/ state = "RECEIVE")
    /\ UNCHANGED <<state, mask, config, index, save_index, buffer, pc, tx, rx,
                   modem, in_step, user, doubtful, accepted, nested>>

-------------------------------------------------------------------------------
(***************************************************************************)
(* The modem, as the driver uses it.                                       *)
(***************************************************************************)
Command(kind, item, content) == [kind |-> kind, item |-> item, content |-> content]
Line(kind, content) == [kind |-> kind, content |-> content]

\* A line enters the FIFO; it spoils, and is spoiled by, a text before it that
\* has no end of line.
Arrives(l) ==
    rx' = IF rx # <<>> /\ Last(rx).kind = "payload"
             THEN Append(Front(rx), Line("junk", NONE)) ELSE Append(rx, l)

\* The modem carries out a command.
Performs(c) ==
    /\ stored' = IF c.kind = "save" THEN [stored EXCEPT ![c.item] = c.content] ELSE stored
    /\ aired' = IF c.kind \in {"message", "confirmed"} THEN c.content ELSE aired
    /\ telling' = CASE c.kind = "join" -> "joined"
                    [] c.kind = "confirmed" -> "status"
                    [] OTHER -> telling

AnswerOf(c) == IF c.kind = "query" THEN Line("value", stored[c.item]) ELSE Line("ok", NONE)

ModemAnswers ==
    /\ tx # <<>>
    /\ tx' = Tail(tx)
    /\ Performs(Head(tx))
    /\ Arrives(AnswerOf(Head(tx)))
    /\ UNCHANGED <<driver, planned, pc, left, calls>>

\* The answer is lost; or the modem is in the way of the command and says so.
ModemFails ==
    /\ tx # <<>>
    /\ Spend("fault")
    /\ tx' = Tail(tx)
    /\ \/ Performs(Head(tx)) /\ UNCHANGED rx
       \/ Arrives(Line("error", NONE)) /\ UNCHANGED modem
    /\ UNCHANGED <<driver, planned, pc, calls>>

\* +EVENT=1,1 or +EVENT=1,0 after a join; +ACK, +NOACK or +EVENT=2,2 after a
\* confirmed message.
ModemTells ==
    /\ telling # NONE
    /\ Arrives(Line(telling, NONE))
    /\ telling' = NONE
    /\ UNCHANGED <<driver, planned, pc, tx, stored, aired, left, calls>>

\* +RECV; a long message does not fit in the FIFO.
Downlink ==
    /\ Spend("downlink")
    /\ \E kind \in {"recv", "recv_cut"} : Arrives(Line(kind, NONE))
    /\ UNCHANGED <<driver, planned, pc, tx, modem, calls>>

-------------------------------------------------------------------------------
(***************************************************************************)
(* twr_uart.c, for a channel with data: READ_DATA from one spin of the     *)
(* scheduler to the next until the FIFO is empty.                          *)
(***************************************************************************)
\* _uart_event_handler(): what was planned is put off.
UartEvent ==
    /\ pc = "out" /\ rx # <<>> /\ state = "IDLE"
    /\ state' = "RECEIVE"
    /\ planned' = "delay"
    /\ overtaken' = (overtaken \/ mask # {} \/ join_command)
    /\ UNCHANGED <<mask, config, join_command, index, save_index, buffer, pc, tx,
                   rx, modem, left, in_step, user, doubtful, accepted,
                   nested>>

-------------------------------------------------------------------------------
(***************************************************************************)
(* The task.                                                               *)
(***************************************************************************)
\* The scheduler calls the task.  A delay that ends before the modem has
\* answered is a fault; a task planned now does not wait for anything.
TaskStarts ==
    /\ pc = "out"
    /\ \/ planned = "now" /\ UNCHANGED left
       \/ planned = "delay" /\ tx = <<>> /\ UNCHANGED left
       \/ planned = "delay" /\ tx # <<>> /\ Spend("fault")
    /\ pc' = "loop"
    /\ planned' = "never"
    /\ UNCHANGED <<driver, tx, rx, modem, calls>>

\* _read_response(): the line read, and what it leaves behind.  Of a +RECV only
\* the first line is read.
Answer == IF rx = <<>> THEN Line("missing", NONE) ELSE Head(rx)

Rest ==
    IF rx = <<>> THEN <<>>
    ELSE IF Head(rx).kind \notin {"recv", "recv_cut"} THEN Tail(rx)
    ELSE IF Len(rx) = 1 THEN <<Line("payload", NONE)>>
    ELSE <<Line("junk", NONE)>> \o SubSeq(rx, 3, Len(rx))

IsOk(l) == l.kind \in {"ok", "value"}   \* begins with +OK

\* The receive FIFO is purged, a command is written, the answer awaited.
Asks(c, next) ==
    /\ rx' = <<>>
    /\ tx' = Append(tx, c)
    /\ in_step' = (tx = <<>>)
    /\ state' = next
    /\ planned' = "delay" /\ pc' = "out"

\* History: what an answer to another command may have told of an item.
Doubts(i) ==
    /\ doubtful' = IF in_step THEN doubtful ELSE doubtful \cup {i}
    /\ UNCHANGED <<user, accepted, nested, overtaken>>

\* The rounds of the loop that only go to another state.
Goes(next) == state' = next /\ UNCHANGED <<pc, planned, tx>>

Ready ==
    /\ pc = "loop" /\ state = "READY"
    /\ state' = "IDLE"
    /\ pc' = "ready"
    /\ UNCHANGED <<mask, config, join_command, index, save_index, buffer, planned,
                   tx, rx, modem, left, calls>>

\* Mutant: the join command is not looked at.
IdleNoJoin ==
    /\ pc = "loop" /\ state = "IDLE"
    /\ overtaken' = FALSE
    /\ IF mask # {} THEN state' = "CONFIG_SAVE_SEND" /\ UNCHANGED pc
       ELSE pc' = "out" /\ UNCHANGED state
    /\ UNCHANGED <<mask, config, join_command, index, save_index, buffer, planned,
                   tx, rx, modem, left, in_step, user, doubtful, accepted,
                   nested>>

Idle ==
    /\ pc = "loop" /\ state = "IDLE"
    /\ overtaken' = FALSE
    /\ IF mask # {} THEN state' = "CONFIG_SAVE_SEND" /\ UNCHANGED pc
       ELSE IF join_command THEN state' = "JOIN_SEND" /\ UNCHANGED pc
       ELSE pc' = "out" /\ UNCHANGED state
    /\ UNCHANGED <<mask, config, join_command, index, save_index, buffer, planned,
                   tx, rx, modem, left, in_step, user, doubtful, accepted,
                   nested>>

Receive ==
    /\ pc = "loop" /\ state = "RECEIVE"
    /\ state' = "IDLE"
    /\ pc' = "lines"
    /\ UNCHANGED <<mask, config, join_command, index, save_index, buffer, planned,
                   tx, rx, modem, left, calls>>

\* One line of the reception.  It ends when there is none, without a look at
\* the requests.
ReceiveLine ==
    /\ pc = "lines"
    /\ rx' = IF rx = <<>> THEN <<>> ELSE Tail(rx)
    /\ pc' = CASE Answer.kind \in {"missing", "payload"} -> "out"
               [] Answer.kind \in {"recv", "status"} -> "received"
               [] OTHER -> "lines"
    /\ buffer' = IF Answer.kind \in {"recv", "recv_cut"} THEN Received ELSE buffer
    /\ UNCHANGED <<state, mask, config, join_command, index, save_index, planned,
                   tx, modem, left, calls>>

Error ==
    /\ pc = "loop" /\ state = "ERROR"
    /\ pc' = "error"
    /\ UNCHANGED <<driver, planned, tx, rx, modem, left, calls>>

Initialize ==
    /\ pc = "loop" /\ state = "INITIALIZE"
    /\ index' = 0
    /\ Goes("INITIALIZE_COMMAND_SEND")
    /\ UNCHANGED <<mask, config, join_command, save_index, buffer, rx, modem, left,
                   calls>>

InitializeCommand ==
    /\ pc = "loop" /\ state = "INITIALIZE_COMMAND_SEND"
    /\ Asks(Command(IF index = 0 THEN "set up" ELSE "query", index, NONE),
            "INITIALIZE_COMMAND_RESPONSE")
    /\ UNCHANGED <<mask, config, join_command, index, save_index, buffer, modem,
                   left, requests>>

\* Mutant: what the user filled in is overwritten.
InitializeOverwrites ==
    /\ pc = "loop" /\ state = "INITIALIZE_COMMAND_RESPONSE"
    /\ rx' = Rest
    /\ IF ~IsOk(Answer) THEN Goes("ERROR") /\ UNCHANGED <<config, index, requests>>
       ELSE /\ config' = IF Answer.kind = "value" /\ index \in Item
                            THEN [config EXCEPT ![index] = Answer.content] ELSE config
            /\ Doubts(index)
            /\ index' = index + 1
            /\ Goes(IF index < ItemCount THEN "INITIALIZE_COMMAND_SEND"
                    ELSE IF mask # {} THEN "CONFIG_SAVE_SEND" ELSE "READY")
    /\ UNCHANGED <<mask, join_command, save_index, buffer, modem, left, in_step>>

\* Any +OK will do; the value of a +OK= is taken for the item asked for, unless
\* the user has filled that in.
InitializeResponse ==
    /\ pc = "loop" /\ state = "INITIALIZE_COMMAND_RESPONSE"
    /\ rx' = Rest
    /\ IF ~IsOk(Answer) THEN Goes("ERROR") /\ UNCHANGED <<config, index, requests>>
       ELSE /\ config' = IF Answer.kind = "value" /\ index \in Item \ mask
                            THEN [config EXCEPT ![index] = Answer.content] ELSE config
            /\ Doubts(index)
            /\ index' = index + 1
            /\ Goes(IF index < ItemCount THEN "INITIALIZE_COMMAND_SEND"
                    ELSE IF mask # {} THEN "CONFIG_SAVE_SEND" ELSE "READY")
    /\ UNCHANGED <<mask, join_command, save_index, buffer, modem, left, in_step>>

\* SEND_MESSAGE_COMMAND: nothing is purged here.
MessageCommand ==
    /\ pc = "loop" /\ state \in {"SEND_MESSAGE_COMMAND", "SEND_MESSAGE_CONFIRMED_COMMAND"}
    /\ tx' = Append(tx, Command(IF state = "SEND_MESSAGE_COMMAND" THEN "message"
                                ELSE "confirmed", 0, buffer))
    /\ in_step' = (tx = <<>> /\ rx = <<>>)
    /\ state' = "SEND_MESSAGE_RESPONSE"
    /\ pc' = "start"
    /\ UNCHANGED <<mask, config, join_command, index, save_index, buffer, planned,
                   rx, modem, left, requests>>

\* Mutant: an error is as good as an answer.
MessageAnyResponse ==
    /\ pc = "loop" /\ state = "SEND_MESSAGE_RESPONSE"
    /\ rx' = Rest
    /\ IF rx # <<>> THEN state' = "READY" /\ pc' = "done" ELSE state' = "ERROR" /\ UNCHANGED pc
    /\ UNCHANGED <<mask, config, join_command, index, save_index, buffer, planned,
                   tx, modem, left, calls>>

MessageResponse ==
    /\ pc = "loop" /\ state = "SEND_MESSAGE_RESPONSE"
    /\ rx' = Rest
    /\ IF Answer.kind = "ok"
          THEN state' = "READY" /\ pc' = "done"
          ELSE state' = "ERROR" /\ UNCHANGED pc
    /\ UNCHANGED <<mask, config, join_command, index, save_index, buffer, planned,
                   tx, modem, left, calls>>

SaveCommand ==
    /\ pc = "loop" /\ state = "CONFIG_SAVE_SEND"
    /\ IF mask = {}
          THEN /\ state' = "ERROR"
               /\ pc' = "saved"
               /\ UNCHANGED <<save_index, planned, tx, rx, in_step>>
          ELSE /\ save_index' = Min(mask)
               /\ Asks(Command("save", Min(mask), config[Min(mask)]),
                       "CONFIG_SAVE_RESPONSE")
    /\ UNCHANGED <<mask, config, join_command, index, buffer, modem, left, requests>>

SaveResponse ==
    /\ pc = "loop" /\ state = "CONFIG_SAVE_RESPONSE"
    /\ rx' = Rest
    /\ IF IsOk(Answer)
          THEN /\ mask' = mask \ {save_index}
               /\ Goes("CONFIG_SAVE_SEND")
               /\ Doubts(save_index)
          ELSE Goes("ERROR") /\ UNCHANGED <<mask, requests>>
    /\ UNCHANGED <<config, join_command, index, save_index, buffer, modem, left, in_step>>

JoinCommand ==
    /\ pc = "loop" /\ state = "JOIN_SEND"
    /\ Asks(Command("join", 0, NONE), "JOIN_RESPONSE")
    /\ UNCHANGED <<mask, config, join_command, index, save_index, buffer, modem,
                   left, requests>>

\* Polled until there is a line, for as long as it takes; after +OK the next
\* one is the result, and whatever else it says the join has failed.
JoinResponse ==
    /\ pc = "loop" /\ state = "JOIN_RESPONSE"
    /\ rx' = Rest
    /\ CASE Answer.kind \in {"missing", "payload"} ->
                /\ planned' = "delay" /\ pc' = "out" /\ UNCHANGED join_command
         [] IsOk(Answer) ->
                /\ planned' = "now" /\ pc' = "out" /\ UNCHANGED join_command
         [] OTHER ->
                /\ join_command' = FALSE /\ pc' = "joined" /\ UNCHANGED planned
    /\ UNCHANGED <<state, mask, config, index, save_index, buffer, tx, modem, left,
                   calls>>

\* What the task does when the handler of an event returns.
HandlerReturns ==
    /\ pc \in Handlers
    /\ pc' = CASE pc = "start" -> "out"
               [] pc = "received" -> "lines"
               [] OTHER -> "loop"
    /\ state' = CASE pc = "error" -> "INITIALIZE"
                  [] pc = "saved" -> "READY"
                  [] pc = "joined" -> "IDLE"
                  [] OTHER -> state
    /\ planned' = IF pc = "start" THEN "delay" ELSE planned
    /\ UNCHANGED <<mask, config, join_command, index, save_index, buffer, tx, rx,
                   modem, left, calls>>

Task ==
    \/ TaskStarts \/ Ready \/ Idle \/ Receive \/ ReceiveLine \/ Error
    \/ Initialize \/ InitializeCommand \/ InitializeResponse
    \/ MessageCommand \/ MessageResponse
    \/ SaveCommand \/ SaveResponse \/ JoinCommand \/ JoinResponse

Next ==
    \/ \E m \in Message, command \in {"SEND_MESSAGE_COMMAND",
                                      "SEND_MESSAGE_CONFIRMED_COMMAND"} : Send(m, command)
    \/ \E i \in Item, v \in Value : Set(i, v)
    \/ Join
    \/ ModemAnswers \/ ModemFails \/ ModemTells \/ Downlink
    \/ UartEvent \/ Task \/ HandlerReturns

\* The scheduler calls a planned task and reports received data, a task and a
\* handler come to their ends, and the modem works.
Spec ==
    /\ Init /\ [][Next]_vars
    /\ WF_vars(Task) /\ WF_vars(HandlerReturns) /\ WF_vars(UartEvent)
    /\ WF_vars(ModemAnswers) /\ WF_vars(ModemTells)

-------------------------------------------------------------------------------
\* SEND_MESSAGE_DONE is reported only when the modem has accepted, since the
\* application called send_message, exactly what it passed then.  The exceptions
\* are a message written while a line of an earlier dialogue is in the FIFO or on
\* its way (send_message alone does not purge), and one passed in the handler of
\* a received line (lines after that one overwrite the shared buffer).
DoneMeansAccepted == (pc = "done" /\ in_step /\ ~nested) => aired = accepted

\* When no save of an item is outstanding, the driver and the modem have the
\* value the application set last, through failed saves, late answers and the
\* queries of a new initialization.  The exceptions are a value set while the
\* answer to the save of the one before is awaited (its mark is cleared with the
\* other's), and answers that may be another command's.
ValueKept ==
    \A i \in Item \ (mask \cup doubtful) :
        user[i] # NONE => config[i] = user[i] /\ stored[i] = user[i]

\* The result of a join will not come any more.
Unheard == state = "JOIN_RESPONSE" /\ tx = <<>> /\ rx = <<>> /\ telling = NONE

\* What the application asks for is done: a message accepted is reported DONE or
\* ERROR, an item set is saved, a join ends.  The exceptions are a request that
\* meets a reception, which nobody looks at until something else happens, and a
\* join the modem does not tell the result of, which has no time limit.
Served ==
    /\ state \in Sending ~> pc \in {"done", "error"}
    /\ \A i \in Item : i \in mask ~> (i \notin mask \/ overtaken \/ Unheard)
    /\ join_command ~> (~join_command \/ overtaken \/ Unheard)
===============================================================================
