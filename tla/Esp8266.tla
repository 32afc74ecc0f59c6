------------------------------- MODULE Esp8266 -------------------------------
(***************************************************************************)
(* twr_esp8266.c: the dialogue with the WiFi modem.  The driver's task     *)
(* writes one command, plans itself for when the answer should be there,   *)
(* and reads it line by line.  The application calls the driver at any     *)
(* moment outside the task and in every event handler, and may switch it   *)
(* off at any of them; the modem answers late, not at all, or refuses, and *)
(* passes messages on when they come.  The receive FIFO holds lines, and   *)
(* texts without an end of line.  A message that comes in is one the       *)
(* driver can take: a first line and a rest.                               *)
(***************************************************************************)
EXTENDS Naturals, Sequences

CONSTANTS InitCommands,     \* the number of _esp8266_init_commands
          WifiTimeout,      \* _TWR_ESP8266_TIMEOUT_WIFI_CONNECT
          SocketTimeout,    \* _TWR_ESP8266_TIMEOUT_SOCKET_CONNECT
          MaxAsks,          \* bound: calls of connect, check_ap_availability,
                            \* socket_connect and send_data
          MaxDisconnects,   \* bound: calls of disconnect
          MaxMessages,      \* bound: messages the modem passes on
          MaxWifiFaults     \* bound: commands and answers lost or late

VARIABLES
    state,        \* self->_state
    after_init,   \* self->_state_after_init
    index,        \* self->_init_command_index
    timeout_cnt,  \* self->_timeout_cnt
    sntp,         \* self->_config.sntp_enabled
    full,         \* the message is as long as the transmit FIFO (_message_length)
    planned,      \* the task: "never", "now", or after a "delay"
    pc,           \* the task is "out", between two rounds of its "loop", in the
                  \* loop over received "lines", or in an event handler
    powered,      \* CH_PD is high and the UART initialised
    tx, rx,       \* commands on their way to the modem; lines in the RX FIFO
    echo,         \* the modem repeats commands,
    awaiting,     \* takes what comes for the data of a CIPSEND,
    telling,      \* and is about to send this, or NONE
    left,         \* what is left of each bound
    in_step,      \* history: when a command was written, and those before it in
                  \* the same dialogue, no answer or line was outstanding
    agreed        \* history: which of the requests the modem has agreed to since
                  \* the driver began what it is doing

driver == <<state, after_init, index, timeout_cnt, sntp, full>>
modem == <<echo, awaiting, telling>>
history == <<in_step, agreed>>
vars == <<driver, planned, pc, powered, tx, rx, modem, left, history>>

NONE == "none"

Spend(bound) == left[bound] > 0 /\ left' = [left EXCEPT ![bound] = @ - 1]

\* twr_esp8266_init()
Init ==
    /\ state = "DISCONNECTED" /\ after_init = NONE
    /\ index = 0 /\ timeout_cnt = 0
    /\ sntp \in BOOLEAN /\ full = FALSE
    /\ planned = "never" /\ pc = "out"
    /\ powered = FALSE
    /\ tx = <<>> /\ rx = <<>>
    /\ echo = TRUE /\ awaiting = FALSE /\ telling = NONE
    /\ left = [ask |-> MaxAsks, disconnect |-> MaxDisconnects,
               message |-> MaxMessages, fault |-> MaxWifiFaults]
    /\ in_step = TRUE /\ agreed = {}

-------------------------------------------------------------------------------
(***************************************************************************)
(* The application.                                                        *)
(***************************************************************************)
Events == {"ready", "error", "wifi_success", "wifi_error", "socket_success",
           "socket_error", "send_success", "send_error", "data", "ap_result",
           "disconnected", "disconnected_result"}

Application == pc = "out" \/ pc \in Events

IsReady == state \in {"READY", "IDLE"}

\* connect() and check_ap_availability(): the UART is initialised anew, what is
\* in the FIFOs stays.
Connect(first) ==
    /\ Application /\ state = "DISCONNECTED"
    /\ Spend("ask")
    /\ powered' = TRUE
    /\ state' = "INITIALIZE" /\ after_init' = first
    /\ planned' = "now"
    /\ UNCHANGED <<index, timeout_cnt, sntp, full, pc, tx, rx, modem, history>>

\* The modem loses all it knows.  What was not on the wire yet stays in the
\* transmit FIFO: the end of a command.
Disable ==
    /\ powered' = FALSE
    /\ state' = "DISCONNECTED"
    /\ echo' = TRUE /\ awaiting' = FALSE /\ telling' = NONE
    /\ \E kept \in {0, 1} : tx' = IF kept = 1 /\ tx # <<>> THEN <<[kind |-> "tail"]>> ELSE <<>>

Disconnect ==
    /\ Application
    /\ Spend("disconnect")
    /\ Disable
    /\ UNCHANGED <<after_init, index, timeout_cnt, sntp, full, planned, pc, rx, history>>

\* socket_connect()
SocketConnect ==
    /\ Application /\ IsReady
    /\ Spend("ask")
    /\ full' = FALSE
    /\ state' = "SOCKET_CONNECT_COMMAND"
    /\ planned' = "now"
    /\ UNCHANGED <<after_init, index, timeout_cnt, sntp, pc, powered, tx, rx, modem,
                   history>>

\* send_data()
SendData ==
    /\ Application /\ IsReady
    /\ Spend("ask")
    /\ full' \in BOOLEAN
    /\ state' = "SOCKET_SEND_COMMAND"
    /\ planned' = "now"
    /\ UNCHANGED <<after_init, index, timeout_cnt, sntp, pc, powered, tx, rx, modem,
                   history>>

-------------------------------------------------------------------------------
(***************************************************************************)
(* The modem, as the driver uses it.                                       *)
(***************************************************************************)
\* The lines it may answer a command with: "ok", "fail" and "error" end an
\* answer, "info" is any other line, "text" has no end of line.
Answers(kind) ==
    CASE kind = "init"    -> {<<"ok">>}
      [] kind = "join"    -> {<<"info", "ok">>, <<"info", "fail">>}
      [] kind = "lapopt"  -> {<<"ok">>, <<"error">>}
      [] kind = "lap"     -> {<<"info", "ok">>, <<"error">>}
      [] kind = "sntpcfg" -> {<<"ok">>}
      [] kind = "time"    -> {<<"time", "ok">>}
      [] kind = "start"   -> {<<"info", "ok">>, <<"error">>}
      [] kind = "send"    -> {<<"ok", "text">>, <<"error">>}
      [] kind \in {"data", "part", "tail"} -> {<<"error">>}

\* What the application asks for.
Requests == {"join", "start", "send"}

Refuses(answer) == answer[Len(answer)] \in {"fail", "error"}

\* A command that comes when data are awaited is taken for data.
Answer(kind) ==
    IF awaiting THEN IF kind = "part" THEN {<<>>} ELSE {<<"info">>, <<"error">>}
    ELSE {(IF echo /\ kind # "data" THEN <<"at">> ELSE <<>>) \o a : a \in Answers(kind)}

\* It carries out a command.  The end of one waits in the FIFO for the next.
Performs(c, answer) ==
    /\ c.kind = "tail" => Len(tx) > 1
    /\ echo' = (echo /\ ~(c.kind = "init" /\ c.index = 0 /\ ~awaiting))
    /\ awaiting' = CASE c.kind = "part" -> awaiting
                     [] awaiting -> FALSE
                     [] OTHER -> c.kind = "send" /\ ~Refuses(answer)
    /\ agreed' = IF awaiting \/ answer = <<>> \/ Refuses(answer) THEN agreed
                 ELSE agreed \cup ({c.kind} \cap Requests)
    /\ tx' = Tail(tx)

ModemAnswers ==
    /\ powered /\ tx # <<>> /\ telling = NONE
    /\ \E answer \in Answer(Head(tx).kind) :
        /\ Performs(Head(tx), answer)
        /\ rx' = rx \o answer
    /\ UNCHANGED <<driver, planned, pc, powered, telling, left, in_step>>

\* It is not up yet, or its answer is lost.
ModemFails ==
    /\ powered /\ tx # <<>> /\ telling = NONE
    /\ Spend("fault")
    /\ \/ tx' = Tail(tx) /\ UNCHANGED <<echo, awaiting, agreed>>
       \/ \E answer \in Answer(Head(tx).kind) : Performs(Head(tx), answer)
    /\ UNCHANGED <<driver, planned, pc, powered, rx, telling, in_step>>

\* +IPD: the first line of a message; its rest follows, or is lost.
Message ==
    /\ powered /\ telling = NONE
    /\ Spend("message")
    /\ rx' = Append(rx, "ipd")
    /\ telling' = "text"
    /\ UNCHANGED <<driver, planned, pc, powered, tx, echo, awaiting, history>>

MessageRest ==
    /\ telling = "text"
    /\ rx' = Append(rx, "text")
    /\ telling' = NONE
    /\ UNCHANGED <<driver, planned, pc, powered, tx, echo, awaiting, left, history>>

MessageCut ==
    /\ telling = "text"
    /\ Spend("fault")
    /\ telling' = NONE
    /\ UNCHANGED <<driver, planned, pc, powered, tx, rx, echo, awaiting, history>>

-------------------------------------------------------------------------------
(***************************************************************************)
(* twr_uart.c, for a channel with data: READ_DATA from one spin of the     *)
(* scheduler to the next until the FIFO is empty.                          *)
(***************************************************************************)
UartEvent ==
    /\ pc = "out" /\ rx # <<>> /\ state = "IDLE"
    /\ state' = "RECEIVE"
    /\ planned' = "delay"
    /\ UNCHANGED <<after_init, index, timeout_cnt, sntp, full, pc, powered, tx, rx,
                   modem, left, history>>

-------------------------------------------------------------------------------
(***************************************************************************)
(* The task.                                                               *)
(***************************************************************************)
Polling == {"WIFI_CONNECT_RESPONSE", "SNTP_TIME_RESPONSE", "SOCKET_CONNECT_RESPONSE",
            "AP_AVAILABILITY_RESPONSE"}

\* The scheduler calls the task.  Where an answer is read once, a delay that
\* ends before it is a fault; where it is polled for, it comes when it comes.
TaskStarts ==
    /\ pc = "out"
    /\ CASE planned = "now" -> UNCHANGED left
         [] planned = "delay" /\ (tx = <<>> \/ state \in Polling \cup {"RECEIVE"}) -> UNCHANGED left
         [] planned = "delay" /\ tx # <<>> /\ state \notin Polling \cup {"RECEIVE"} -> Spend("fault")
         [] planned = "never" -> FALSE
    /\ pc' = "loop"
    /\ planned' = "never"
    /\ UNCHANGED <<driver, powered, tx, rx, modem, history>>

\* _twr_esp8266_read_response(): a text is dropped when nothing follows it, and
\* else a line of its own (what follows begins with an end of line).
Line == IF rx = <<>> \/ rx = <<"text">> THEN "missing"
        ELSE IF Head(rx) = "text" THEN "info" ELSE Head(rx)
Rest == IF rx = <<>> THEN <<>> ELSE Tail(rx)

Goes(next) == state' = next /\ UNCHANGED <<pc, planned>>
Raises(next, event) == state' = next /\ pc' = event /\ UNCHANGED planned
Waits(next) == state' = next /\ pc' = "out" /\ planned' = "delay"

\* The states without a command or an answer.
Decides ==
    /\ pc = "loop"
    /\ \/ state = "READY" /\ Raises("IDLE", "ready")
       \/ state \in {"IDLE", "DISCONNECTED"} /\ pc' = "out" /\ UNCHANGED <<state, planned>>
       \/ state = "ERROR" /\ Raises(state, "error")
       \/ state = "WIFI_CONNECT_ERROR" /\ Raises("DISCONNECTED", "wifi_error")
       \/ state = "SOCKET_CONNECT_ERROR" /\ Raises("READY", "socket_error")
       \/ state = "SOCKET_SEND_ERROR" /\ Raises("READY", "send_error")
    /\ UNCHANGED <<after_init, index, timeout_cnt, sntp, full, powered, tx, rx, modem,
                   left, history>>

Receive ==
    /\ pc = "loop" /\ state = "RECEIVE"
    /\ state' = "IDLE"
    /\ pc' = "lines"
    /\ UNCHANGED <<after_init, index, timeout_cnt, sntp, full, planned, powered, tx, rx,
                   modem, left, history>>

\* One line of the reception, which ends with the first message.
ReceiveLine ==
    /\ pc = "lines"
    /\ rx' = Rest
    /\ CASE Line = "missing" -> pc' = "out" /\ UNCHANGED <<state, planned>>
         [] Line = "ipd" -> state' = "SOCKET_RECEIVE" /\ planned' = "now" /\ pc' = "out"
         [] OTHER -> UNCHANGED <<pc, state, planned>>
    /\ UNCHANGED <<after_init, index, timeout_cnt, sntp, full, powered, tx, modem, left,
                   history>>

\* _twr_esp8266_read_socket_data(): the loop waits for the rest of the message,
\* or takes what comes for it.
SocketReceive ==
    /\ pc = "loop" /\ state = "SOCKET_RECEIVE"
    /\ rx # <<>>
    /\ rx' = Tail(rx)
    /\ Raises("READY", "data")
    /\ UNCHANGED <<after_init, index, timeout_cnt, sntp, full, powered, tx, modem, left,
                   history>>

Initialize ==
    /\ pc = "loop" /\ state = "INITIALIZE"
    /\ index' = 0
    /\ Goes("INITIALIZE_COMMAND_SEND")
    /\ UNCHANGED <<after_init, timeout_cnt, sntp, full, powered, tx, rx, modem, left,
                   history>>

\* Written and counted as asked for.
Writes(c, clean) ==
    /\ tx' = Append(tx, c)
    /\ in_step' = (clean /\ tx = <<>>)
    /\ agreed' = IF c.kind \in {"sntpcfg", "time"} THEN agreed ELSE {}

\* The receive FIFO is purged and the command written: not when the UART is off,
\* and not in full while the end of a long message fills the transmit FIFO.
InitializeCommand ==
    /\ pc = "loop" /\ state = "INITIALIZE_COMMAND_SEND"
    /\ rx' = IF powered THEN <<>> ELSE rx
    /\ \/ /\ powered
          /\ Writes([kind |-> "init", index |-> index], index = 0 \/ in_step)
          /\ Waits("INITIALIZE_COMMAND_RESPONSE")
       \/ /\ ~powered \/ \E i \in DOMAIN tx : tx[i].kind = "part"
          /\ tx' = IF powered /\ tx[Len(tx)].kind # "tail"
                   THEN Append(tx, [kind |-> "tail"]) ELSE tx
          /\ Goes("ERROR")
          /\ UNCHANGED history
    /\ UNCHANGED <<after_init, index, timeout_cnt, sntp, full, powered, modem, left>>

\* "OK", or the command repeated and then "OK".
InitializeResponse ==
    /\ pc = "loop" /\ state = "INITIALIZE_COMMAND_RESPONSE"
    /\ LET repeated == Line = "at"
           second == IF Len(rx) < 2 THEN "missing" ELSE rx[2]
           ok == IF repeated THEN second = "ok" ELSE Line = "ok"
       IN /\ rx' = IF repeated /\ Len(rx) > 1 THEN Tail(Rest) ELSE Rest
          /\ index' = IF ok THEN index + 1 ELSE index
          /\ Goes(CASE ~ok -> "ERROR"
                    [] ok /\ index + 1 < InitCommands -> "INITIALIZE_COMMAND_SEND"
                    [] ok /\ index + 1 = InitCommands -> after_init)
    /\ UNCHANGED <<after_init, timeout_cnt, sntp, full, powered, tx, modem, left, history>>

\* The commands that purge nothing: the kind, the state after, and whether the
\* dialogue goes on or begins.
Commands ==
    [WIFI_CONNECT_COMMAND         |-> <<"join", "WIFI_CONNECT_RESPONSE", "goes on">>,
     AP_AVAILABILITY_OPT_COMMAND  |-> <<"lapopt", "AP_AVAILABILITY_OPT_RESPONSE", "goes on">>,
     AP_AVAILABILITY_COMMAND      |-> <<"lap", "AP_AVAILABILITY_RESPONSE", "goes on">>,
     SNTP_CONFIG_COMMAND          |-> <<"sntpcfg", "SNTP_CONFIG_RESPONSE", "goes on">>,
     SNTP_TIME_COMMAND            |-> <<"time", "SNTP_TIME_RESPONSE", "goes on">>,
     SOCKET_CONNECT_COMMAND       |-> <<"start", "SOCKET_CONNECT_RESPONSE", "begins">>,
     SOCKET_SEND_COMMAND          |-> <<"send", "SOCKET_SEND_DATA", "begins">>]

CommandState ==
    /\ pc = "loop" /\ state \in DOMAIN Commands
    /\ LET c == Commands[state] IN
        /\ Writes([kind |-> c[1]], rx = <<>> /\ (in_step \/ c[3] = "begins"))
        /\ Waits(c[2])
    /\ timeout_cnt' = 0
    /\ UNCHANGED <<after_init, index, sntp, full, powered, rx, modem, left>>

\* The data follow without a look at the answer.  The FIFO holds a byte less
\* than the longest message.
SocketSendData ==
    /\ pc = "loop" /\ state = "SOCKET_SEND_DATA"
    /\ IF full THEN tx' = Append(tx, [kind |-> "part"]) /\ Goes("ERROR")
               ELSE tx' = Append(tx, [kind |-> "data"]) /\ Waits("SOCKET_SEND_RESPONSE")
    /\ UNCHANGED <<after_init, index, timeout_cnt, sntp, full, powered, rx, modem, left,
                   history>>

\* Mutant: whatever line there is will do.
SocketSendAnyResponse ==
    /\ pc = "loop" /\ state = "SOCKET_SEND_RESPONSE"
    /\ rx' = Rest
    /\ IF Line # "missing" THEN Raises("RECEIVE", "send_success")
       ELSE Goes("SOCKET_SEND_ERROR")
    /\ UNCHANGED <<after_init, index, timeout_cnt, sntp, full, powered, tx, modem, left,
                   history>>

\* "OK" is the answer to the command; what becomes of the data is not looked at.
SocketSendResponse ==
    /\ pc = "loop" /\ state = "SOCKET_SEND_RESPONSE"
    /\ rx' = Rest
    /\ IF Line = "ok" THEN Raises("RECEIVE", "send_success") ELSE Goes("SOCKET_SEND_ERROR")
    /\ UNCHANGED <<after_init, index, timeout_cnt, sntp, full, powered, tx, modem, left,
                   history>>

SntpConfigResponse ==
    /\ pc = "loop" /\ state = "SNTP_CONFIG_RESPONSE"
    /\ rx' = Rest
    /\ Goes(IF Line = "ok" THEN "SNTP_TIME_COMMAND" ELSE "ERROR")
    /\ UNCHANGED <<after_init, index, timeout_cnt, sntp, full, powered, tx, modem, left,
                   history>>

\* Mutant: the polls are not counted.
PollUncounted(last, expired, decided) ==
    /\ rx' = Rest
    /\ decided
    /\ UNCHANGED <<after_init, index, timeout_cnt, sntp, full, left, history>>

\* The end of a poll: after the last one, with no line or one that decides
\* nothing, or with one that does.
Poll(last, expired, decided) ==
    /\ timeout_cnt' = timeout_cnt + 1
    /\ IF timeout_cnt' > last THEN expired /\ UNCHANGED rx
       ELSE /\ rx' = Rest
            /\ decided
    /\ UNCHANGED <<after_init, index, sntp, full, left, history>>

Again == Waits(state) /\ UNCHANGED <<powered, tx, modem>>
Off(event) ==
    /\ Disable
    /\ pc' = event
    /\ UNCHANGED planned
On == UNCHANGED <<powered, tx, modem>>

WifiConnectResponse ==
    /\ pc = "loop" /\ state = "WIFI_CONNECT_RESPONSE"
    /\ Poll(WifiTimeout, Goes("WIFI_CONNECT_ERROR") /\ On,
            CASE Line = "ok" /\ sntp -> Goes("SNTP_CONFIG_COMMAND") /\ On
              [] Line = "ok" /\ ~sntp -> Raises("READY", "wifi_success") /\ On
              [] Line = "fail" -> Goes("WIFI_CONNECT_ERROR") /\ On
              [] OTHER -> Again)

SntpTimeResponse ==
    /\ pc = "loop" /\ state = "SNTP_TIME_RESPONSE"
    /\ Poll(SocketTimeout, Goes("WIFI_CONNECT_ERROR") /\ On,
            CASE Line = "ok" -> Raises("READY", "wifi_success") /\ On
              [] Line = "time" -> Goes(state) /\ On
              [] OTHER -> Again)

SocketConnectResponse ==
    /\ pc = "loop" /\ state = "SOCKET_CONNECT_RESPONSE"
    /\ Poll(SocketTimeout, Goes("SOCKET_CONNECT_ERROR") /\ On,
            CASE Line = "ok" -> Raises("READY", "socket_success") /\ On
              [] Line = "error" -> Goes("SOCKET_CONNECT_ERROR") /\ On
              [] OTHER -> Again)

ApOptResponse ==
    /\ pc = "loop" /\ state = "AP_AVAILABILITY_OPT_RESPONSE"
    /\ rx' = Rest
    /\ IF Line = "ok" THEN Goes("AP_AVAILABILITY_COMMAND") /\ On ELSE Off("disconnected")
    /\ UNCHANGED <<after_init, index, timeout_cnt, sntp, full, left, history>>

ApResponse ==
    /\ pc = "loop" /\ state = "AP_AVAILABILITY_RESPONSE"
    /\ Poll(WifiTimeout, Off("disconnected"),
            CASE Line = "ok" -> Off("disconnected_result")
              [] Line = "error" -> Off("disconnected")
              [] OTHER -> Again)

\* What the task does when the handler of an event returns.
HandlerReturns ==
    /\ pc \in Events
    /\ pc' = CASE pc \in {"disconnected", "ap_result"} -> "out"
               [] pc = "disconnected_result" -> "ap_result"
               [] OTHER -> "loop"
    /\ state' = IF pc = "error" THEN "INITIALIZE" ELSE state
    /\ UNCHANGED <<after_init, index, timeout_cnt, sntp, full, planned, powered, tx, rx,
                   modem, left, history>>

Task ==
    \/ TaskStarts \/ Decides \/ Receive \/ ReceiveLine \/ SocketReceive
    \/ Initialize \/ InitializeCommand \/ InitializeResponse
    \/ CommandState \/ SocketSendData \/ SocketSendResponse \/ SntpConfigResponse
    \/ WifiConnectResponse \/ SntpTimeResponse \/ SocketConnectResponse
    \/ ApOptResponse \/ ApResponse

Asked ==
    \/ Connect("WIFI_CONNECT_COMMAND") \/ Connect("AP_AVAILABILITY_OPT_COMMAND")
    \/ Disconnect \/ SocketConnect \/ SendData

Next ==
    \/ Asked
    \/ ModemAnswers \/ ModemFails \/ Message \/ MessageRest \/ MessageCut
    \/ UartEvent \/ Task \/ HandlerReturns

\* The scheduler calls a planned task and reports received data, a task and a
\* handler come to their ends, and the modem works.
Fairness ==
    /\ WF_vars(Task) /\ WF_vars(HandlerReturns) /\ WF_vars(UartEvent)
    /\ WF_vars(ModemAnswers) /\ WF_vars(MessageRest)

Spec == Init /\ [][Next]_vars /\ Fairness

-------------------------------------------------------------------------------
\* A success is reported only when the modem has agreed to the very command
\* asked for last (a connection to the network or to a host, a message), unless a
\* line of an earlier dialogue was in the FIFO or on its way when the command was
\* written: but for the initialization nothing is purged.
SuccessIsTrue ==
    in_step => /\ pc = "wifi_success" => "join" \in agreed
               /\ pc = "socket_success" => "start" \in agreed
               /\ pc = "send_success" => "send" \in agreed

\* The rest of a message that will not come is waited for in a loop.
Stuck == state = "SOCKET_RECEIVE" /\ rx = <<>> /\ telling = NONE

\* Whatever is asked, at whatever moment, lost or refused, the driver is ready or
\* disconnected again.  The exceptions are a message cut short, and a handler of
\* ERROR that disconnects: the task initializes again a modem that is off.
Settled == \/ state \in {"READY", "IDLE", "DISCONNECTED"}
           \/ ~powered \/ Stuck
Settling == ~Settled ~> Settled
===============================================================================
