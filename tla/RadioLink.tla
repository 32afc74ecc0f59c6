------------------------------ MODULE RadioLink ------------------------------
(***************************************************************************)
(* The radio link: twr_radio.c on top of twr_spirit1.c, on the stations of *)
(* a network that share one half-duplex channel.  A station is a record of *)
(* the two drivers' statics; a handler is an operator from the record      *)
(* before it to the record after it, so that an action applies all of a    *)
(* handler at once.  A station's handlers run one at a time, from its      *)
(* scheduler; the stations, the channel and time interleave freely.        *)
(*                                                                         *)
(* Time is seen through its comparisons: late is "the tick has reached     *)
(* rx_timeout", expired the same of the transceiver's rx_tick_timeout,     *)
(* window "rx_timeout_sleeping is still ahead"; timeout says where         *)
(* rx_timeout came from.  Messages carry an identity in place of a         *)
(* payload.  The scan list and the mode and signal strength kept with a    *)
(* peer are left out.                                                      *)
(*                                                                         *)
(* The peer table is kept in the EEPROM, each entry as three copies that   *)
(* are voted on, its length last.  A station may lose power at any moment, *)
(* and starts again with what it finds there.  Its own identity it has to  *)
(* read from another chip, and it is on the air before that is done.       *)
(***************************************************************************)
EXTENDS Naturals, SequencesExt

CONSTANTS Identities,    \* the serial numbers a table may name
          Stations,      \* those of the stations in reach
          NoId,          \* the identity 0: an empty peer slot, an unread my_id
          Scenarios,     \* initial configurations, see Init
          TX_MAX_COUNT,  \* _TWR_RADIO_TX_MAX_COUNT
          MAX_DEVICES,   \* TWR_RADIO_MAX_DEVICES
          ID_MODULUS,    \* 2^16, the range of message_id
          PubCapacity,   \* messages the publish queue holds
          RxCapacity     \* messages the receive queue holds

ASSUME CountAssumption == /\ TX_MAX_COUNT \in Nat \ {0}
                          /\ MAX_DEVICES \in Nat \ {0, 1}
                          /\ ID_MODULUS \in Nat \ {0}
                          /\ PubCapacity \in Nat /\ RxCapacity \in Nat
ASSUME IdAssumption == Stations \subseteq Identities /\ NoId \notin Identities

VARIABLES node,  \* the drivers' statics and the history of each station
          todo   \* the calls each station's application has yet to make

vars == <<node, todo>>

Nothing == [kind |-> "nothing"]
AckKinds == {"ack", "ackpair", "acksubs"}
Directed == {"node", "subdata"}   \* headers 0x15 to 0x1d
\* boot is history: which start of the sender the message is from.
Frame(from, id, kind, to, n, boot) ==
    [from |-> from, id |-> id, kind |-> kind, to |-> to, n |-> n, boot |-> boot]
Message(kind, to, n) == [kind |-> kind, to |-> to, n |-> n]

Modes == {"gateway", "listening", "sleeping"}

\* What an application publishes, and the calls it makes.
Publications == [kind : {"pub", "attach", "detach"} \cup Directed,
                 to : Identities \cup {NoId}, n : Nat]
Calls == [op : {"pub"}, message : Publications]
         \cup [op : {"add", "remove"}, id : Identities]
         \cup [op : {"pairing_mode", "automatic_pairing", "rx_after_ack"}, on : BOOLEAN]
         \cup [op : {"pairing_request"}, fits : BOOLEAN]
         \cup [op : {"clear", "purge", "listen", "reboot"}]

\* The stored table never holds MAX_DEVICES peers: see CanAdd.
ASSUME ScenarioAssumption == \A scenario \in Scenarios, n \in Stations :
    /\ scenario[n].mode \in Modes
    /\ scenario[n].known \in Seq(Identities) /\ Len(scenario[n].known) < MAX_DEVICES
    /\ scenario[n].subs \in Nat /\ scenario[n].faults \in Nat
    /\ scenario[n].identified \in BOOLEAN /\ scenario[n].calls \in Seq(Calls)

\* _twr_radio.my_id: 0 until the serial number has been read.
MyId(s) == IF s.identified THEN s.serial ELSE NoId

-----------------------------------------------------------------------------
(* The peer table.                                                         *)

SlotOf(s, id) == CHOOSE i \in 1..s.length :
    s.peers[i].id = id /\ \A j \in 1..i - 1 : s.peers[j].id # id
IsPeer(s, id) == \E i \in 1..s.length : s.peers[i].id = id

CanAdd(s, id) == s.length + 1 # MAX_DEVICES /\ ~IsPeer(s, id)

PeerAdd(s, id) ==
    [s EXCEPT !.peers[s.length + 1].id = id,
              !.peers[s.length + 1].synced = FALSE,
              !.length = @ + 1,
              !.save = TRUE, !.planned = TRUE]

\* The last peer takes the place of the one removed.
PeerRemove(s, id) ==
    LET i == SlotOf(s, id)
        cleared == [s.peers EXCEPT ![i].id = NoId]
    IN [s EXCEPT !.peers = [cleared EXCEPT ![i] = cleared[s.length]],
                 !.length = @ - 1,
                 !.save = TRUE, !.planned = TRUE]

QueuePut(s, message) ==
    IF Len(s.pub) < PubCapacity THEN [s EXCEPT !.pub = Append(@, message)] ELSE s

\* The calls an application makes, also made by the handlers: a peer is told
\* that it was attached or detached.
PublicAdd(s, id) ==
    IF CanAdd(s, id) THEN QueuePut(PeerAdd(s, id), Message("attach", id, 0)) ELSE s

PublicRemove(s, id) ==
    IF IsPeer(s, id) THEN QueuePut(PeerRemove(s, id), Message("detach", id, 0)) ELSE s

\* What is left in slot i when its peer has been removed from the last slot down:
\* of the entries of one peer the first was cleared last, after it had taken
\* over the others one by one.
Purged(s, i) ==
    LET same(j) == s.peers[j].id = s.peers[i].id
        later == {j \in i + 1..s.length : same(j)}
    IN IF i > s.length \/ \E j \in 1..i - 1 : same(j) THEN s.peers[i]
       ELSE [s.peers[IF later = {} THEN i ELSE Min(later)] EXCEPT !.id = NoId]

\* A peer 0, see Paired.
Nobody(s) == IF s.length > 0 /\ s.peers[1].id = NoId THEN 1 ELSE 0

\* PublicRemove of the last peer, then of the one before it, and so on, but not
\* of a peer 0.
PurgeAll(s) ==
    LET detaches == [k \in 1..s.length - Nobody(s) |->
                        Message("detach", s.peers[s.length + 1 - k].id, 0)]
        room == PubCapacity - Len(s.pub)
    IN IF s.length = Nobody(s) THEN s
       ELSE [s EXCEPT !.peers = [i \in 1..MAX_DEVICES |-> Purged(s, i)],
                      !.length = Nobody(s),
                      !.pub = @ \o SubSeq(detaches, 1, Min({room, s.length - Nobody(s)})),
                      !.save = TRUE, !.planned = TRUE]

-----------------------------------------------------------------------------
(* The table in the EEPROM.                                                *)

Ids(s) == [i \in 1..s.length |-> s.peers[i].id]

\* What a start reads: the entries up to the length, in their order, but those
\* whose three copies all differ, or are 0.
Load(stored) ==
    LET read == {i \in 1..stored.length : stored.slots[i] # NoId}
        kth(k) == CHOOSE i \in read : Cardinality({j \in read : j <= i}) = k
    IN [k \in 1..Cardinality(read) |-> stored.slots[kth(k)]]

Saved(s, k) == [i \in 1..MAX_DEVICES |-> IF i <= k THEN s.peers[i].id ELSE s.stored.slots[i]]

Written(s) == [slots |-> Saved(s, s.length), length |-> s.length]

\* What a save leaves that is cut short in entry k, or finds a write refused or
\* not to hold: the first copy cut, the old id; the second, three copies that
\* differ; the third, the new id.  The length, a single byte, may read as any.
CutEntry(s, k) ==
    {[slots |-> [Saved(s, k) EXCEPT ![k] = id], length |-> s.stored.length] :
        id \in {s.stored.slots[k], s.peers[k].id}
                \cup (IF s.stored.slots[k] = s.peers[k].id THEN {} ELSE {NoId})}

CutLength(s) == {[slots |-> Saved(s, s.length), length |-> l] :
                    l \in IF s.stored.length = s.length THEN {s.length} ELSE 0..MAX_DEVICES}

Cut(s) == CutLength(s) \cup UNION {CutEntry(s, k) : k \in 1..s.length}

-----------------------------------------------------------------------------
(* Waiting, sleeping and transmitting.                                     *)

\* Mutant: the task is not told that the radio is free.
SleepUnplanned(s) == [s EXCEPT !.desired = "sleep", !.state = "sleep"]

Sleep(s) == [s EXCEPT !.desired = "sleep", !.state = "sleep", !.planned = TRUE]

Listen(s) ==
    [s EXCEPT !.timeout = IF s.mode = "sleeping" THEN "window" ELSE "never",
              !.late = FALSE, !.expired = FALSE,
              !.desired = "rx", !.state = "rx", !.planned = TRUE]

GoToRxOrSleep(s) ==
    IF s.mode = "sleeping" /\ ~s.window THEN Sleep(s) ELSE Listen(s)

\* rx_timeout_sleeping is set anew: an rx_timeout taken from it stays behind.
OpenWindow(s) ==
    [s EXCEPT !.window = TRUE, !.timeout = IF @ = "window" THEN "own" ELSE @]

\* Mutant: waiting for an acknowledgement without a timeout.
WaitForever(s) ==
    [s EXCEPT !.timeout = "never", !.late = FALSE, !.desired = "rx", !.state = "wait"]

WaitForAck(s) ==
    [s EXCEPT !.timeout = "own", !.late = FALSE, !.desired = "rx", !.state = "wait"]

\* Mutant: a subscription counts when it is sent.
StartTxCounted(s, kind, to, n) ==
    LET id == (s.message_id + 1) % ID_MODULUS
    IN [s EXCEPT !.message_id = id, !.tx = Frame(s.serial, id, kind, to, n, s.boots),
                 !.desired = "tx", !.state = "tx", !.count = TX_MAX_COUNT, !.aired = 0,
                 !.sent_subs = IF kind = "sub" THEN @ + 1 ELSE @]

\* Only an identified station sends messages of its own.
StartTx(s, kind, to, n) ==
    LET id == (s.message_id + 1) % ID_MODULUS
    IN [s EXCEPT !.message_id = id,
                 !.tx = Frame(s.serial, id, kind, to, n, s.boots),
                 !.desired = "tx", !.state = "tx",
                 !.count = TX_MAX_COUNT,
                 !.aired = 0]

\* Mutants: the state stays behind; the count starts anew.
RetransmitInWait(s) == [s EXCEPT !.desired = "tx"]
RetransmitAfresh(s) ==
    [s EXCEPT !.desired = "tx", !.state = "tx", !.count = TX_MAX_COUNT]

Retransmit(s) == [s EXCEPT !.desired = "tx", !.state = "tx"]

\* An acknowledgement takes over the transmit buffer: a station that waits for
\* one itself keeps its own message aside.
SendAck(s, heard, kind) ==
    IF s.state \notin {"wait", "rx"} THEN s
    ELSE LET kept == IF s.state = "wait"
                     THEN [s EXCEPT !.cache = s.tx, !.cached_count = s.count,
                                    !.state = "txack"]
                     ELSE [s EXCEPT !.state = "rxack"]
         IN [kept EXCEPT !.tx = Frame(heard.from, heard.id, kind, MyId(s), 0, 0),
                         !.count = 2,
                         !.desired = "tx"]

\* Mutant: the acknowledgement stays in the transmit buffer.
ResumeWithAck(s) == [WaitForAck(s) EXCEPT !.count = s.cached_count]

\* Both copies of the acknowledgement are out: back to waiting for one's own.
Resume(s) == [WaitForAck(s) EXCEPT !.tx = s.cache, !.count = s.cached_count]

OnTxDone(s) ==
    LET t == [s EXCEPT !.count = IF @ > 0 THEN @ - 1 ELSE @]
    IN CASE t.state = "tx" -> [WaitForAck(t) EXCEPT !.ack = FALSE]
         [] t.state \in {"rxack", "txack"} /\ t.count > 0 -> [t EXCEPT !.desired = "tx"]
         [] t.state = "txack" /\ t.count = 0 -> Resume(t)
         [] OTHER -> GoToRxOrSleep(t)

OnRxTimeout(s) ==
    CASE s.state = "wait" /\ s.count > 0 -> Retransmit(s)
      [] s.state = "wait" /\ s.count = 0 ->
           GoToRxOrSleep(s)   \* TWR_RADIO_EVENT_TX_ERROR
      [] OTHER -> GoToRxOrSleep(s)

-----------------------------------------------------------------------------
(* Receiving.                                                              *)

\* Mutant: the new peer is not saved.
PairedUnsaved(s, gateway) ==
    IF s.mode = "gateway" \/ s.peers[1].id = gateway THEN s
    ELSE [s EXCEPT !.peers[1].id = gateway, !.peers[1].synced = FALSE,
                   !.length = 1, !.sent_subs = 0, !.planned = TRUE]

\* A pairing acknowledgement makes its sender the only peer.  The sender may not
\* have read its serial number, and names 0: a node with a gateway loses it.
Paired(s, gateway) ==
    IF s.mode = "gateway" \/ s.peers[1].id = gateway THEN s
    ELSE [s EXCEPT !.peers[1].id = gateway, !.peers[1].synced = FALSE,
                   !.length = 1, !.sent_subs = 0, !.save = TRUE, !.planned = TRUE]

\* Mutant: any acknowledgement to this station will do.
AcknowledgesAny(s, heard) == heard.from = s.serial

Acknowledges(s, heard) == heard.from = s.serial /\ heard.id = s.message_id

HeardAck(s, heard) ==
    IF s.state # "wait" \/ ~Acknowledges(s, heard) THEN s
    ELSE LET t == CASE s.tx.kind = "pairing" ->
                         IF heard.kind = "ackpair" THEN Paired(s, heard.to) ELSE s
                    [] s.tx.kind = "sub" -> [s EXCEPT !.sent_subs = @ + 1]
                    [] OTHER -> IF heard.kind = "acksubs"
                                THEN [s EXCEPT !.sent_subs = 0] ELSE s
             u == IF s.rx_after_ack THEN OpenWindow(t) ELSE t
         IN GoToRxOrSleep([u EXCEPT !.count = 0, !.ack = TRUE,
                                    !.done = @ \cup {s.tx}])

HeardPairing(s, heard) ==
    LET t == IF s.pairing_mode THEN PublicAdd(s, heard.from) ELSE s
    IN IF ~IsPeer(t, heard.from) THEN t
       ELSE [SendAck(t, heard, "ackpair") EXCEPT
                !.peers[SlotOf(t, heard.from)].mid = heard.id,
                !.peers[SlotOf(t, heard.from)].synced = TRUE]

\* Acknowledged by every station that hears it, whomever it names.
HeardAttach(s, heard) ==
    LET t == CASE heard.to # MyId(s) -> s
               [] heard.to = MyId(s) /\ heard.kind = "attach" ->
                    [s EXCEPT !.pairing_request = TRUE, !.planned = TRUE]
               [] heard.to = MyId(s) /\ heard.kind = "detach" ->
                    IF IsPeer(s, heard.from) THEN PeerRemove(s, heard.from) ELSE s
    IN SendAck(t, heard, "ack")

Fits(s) == Len(s.rxq) < RxCapacity

\* A new message of a peer: queued, acknowledged whether or not it fitted, and
\* answered with a request for subscriptions when the peer seems to have
\* restarted.
Accept(s, heard) ==
    LET i == SlotOf(s, heard.from)
        restarted == s.mode = "gateway"
                     /\ (~s.peers[i].synced \/ s.peers[i].mid > heard.id)
        t == [s EXCEPT !.peers[i].mid = heard.id, !.peers[i].synced = TRUE,
                       !.rxq = IF Fits(s) THEN Append(@, heard) ELSE @,
                       !.planned = TRUE,
                       !.heard = Append(@, heard)]
    IN SendAck(t, heard, IF restarted THEN "acksubs" ELSE "ack")

\* Mutant: repeated messages are not recognised.
IsAlwaysNew(s, heard) == TRUE

IsNew(s, heard) == s.peers[SlotOf(s, heard.from)].mid # heard.id

HeardData(s, heard) ==
    CASE ~IsPeer(s, heard.from) ->
           IF s.automatic_pairing THEN PublicAdd(s, heard.from) ELSE s
      [] IsPeer(s, heard.from) /\ ~IsNew(s, heard) -> s
      [] IsPeer(s, heard.from) /\ IsNew(s, heard) ->
           IF heard.kind \in Directed /\ heard.to # MyId(s)
           THEN LET i == SlotOf(s, heard.from)
                IN [s EXCEPT !.peers[i].mid = heard.id, !.peers[i].synced = FALSE]
           ELSE Accept(s, heard)

Heard(s, heard) ==
    CASE heard.kind \in AckKinds -> HeardAck(s, heard)
      [] heard.kind = "pairing" -> HeardPairing(s, heard)
      [] heard.kind \in {"attach", "detach"} -> HeardAttach(s, heard)
      [] OTHER -> HeardData(s, heard)

\* A packet read after rx_timeout finds the wait over: the message is sent
\* again and the packet ignored, or the wait is left for good, without an
\* event, and the packet handled.
OnRxDone(s, heard) ==
    LET late == s.timeout # "never" /\ s.late
    IN CASE late /\ s.state = "wait" /\ s.count > 0 -> Retransmit(s)
         [] late /\ ~(s.state = "wait" /\ s.count > 0) -> Heard(GoToRxOrSleep(s), heard)
         [] ~late -> Heard(s, heard)

-----------------------------------------------------------------------------
(* The transceiver's task.                                                 *)

Enter(s, target) ==
    [s EXCEPT !.current = target, !.received = Nothing, !.sent = FALSE,
              !.expired = FALSE]

CheckTx(s) ==
    LET t == OnTxDone([s EXCEPT !.desired = "sleep"]) IN Enter(t, t.desired)

CheckRx(s) ==
    [OnRxDone([s EXCEPT !.expired = FALSE], s.received) EXCEPT !.received = Nothing]

TimedOut(s) == s.current = "rx" /\ s.expired

SpiritDue(s) == \/ TimedOut(s)
                \/ s.desired # s.current
                \/ s.current = "tx" /\ s.sent
                \/ s.current = "rx" /\ s.received # Nothing

SpiritRun(s) ==
    LET t == IF TimedOut(s) THEN OnRxTimeout(s) ELSE s
    IN CASE t.desired # t.current -> Enter(t, t.desired)
         [] t.desired = t.current /\ t.current = "tx" /\ t.sent -> CheckTx(t)
         [] t.desired = t.current /\ t.current = "rx" /\ t.received # Nothing -> CheckRx(t)
         [] OTHER -> t

SpiritTask(n) ==
    /\ SpiritDue(node[n])
    /\ node' = [node EXCEPT ![n] = SpiritRun(@)]
    /\ UNCHANGED todo

-----------------------------------------------------------------------------
(* The radio's task.                                                       *)

\* Where draining the receive queue stops: at the first message for a
\* subscription the station does not have, which ends the task.
Stray(s) == {i \in 1..Len(s.rxq) : s.rxq[i].kind = "subdata" /\ s.rxq[i].n >= s.subs}
FirstStray(s) == CHOOSE i \in Stray(s) : \A j \in Stray(s) : i <= j

Publish(s) ==
    IF s.pub = <<>> THEN s
    ELSE LET m == Head(s.pub)
         IN StartTx([s EXCEPT !.pub = Tail(@)], m.kind, m.to, m.n)

\* The task begins with the save, which plans it again when a write fails, as
\* faults more times it may.
AfterSave(s) ==
    LET t == [s EXCEPT !.planned = FALSE]
    IN IF s.save
       THEN {[t EXCEPT !.stored = Written(s), !.save = FALSE]}
            \cup {[t EXCEPT !.stored = image, !.planned = TRUE, !.faults = @ - 1] :
                    image \in IF s.faults > 0 THEN Cut(s) ELSE {}}
       ELSE {t}

\* With names that do not fit in a packet (fits) the request is forgotten, and the
\* task ends there too.  left is history: the task last ended in one of these ways.
RadioRun(s) ==
    CASE s.pairing_request /\ ~s.fits ->
           [s EXCEPT !.pairing_request = FALSE, !.left = TRUE]
      [] s.pairing_request /\ s.fits ->
           StartTx([s EXCEPT !.pairing_request = FALSE, !.left = FALSE], "pairing", NoId, 0)
      [] ~s.pairing_request /\ s.ack /\ s.sent_subs # s.subs ->
           StartTx([s EXCEPT !.left = FALSE], "sub", NoId, s.sent_subs)
      [] OTHER ->
           IF Stray(s) # {}
           THEN [s EXCEPT !.rxq = SubSeq(@, FirstStray(s) + 1, Len(@)), !.left = TRUE]
           ELSE Publish([s EXCEPT !.rxq = <<>>, !.left = FALSE])

\* Mutant: a sleeping station is not awake to publish.
IdleAwake(s) == s.state = "rx"

\* In any other state, and before the station is identified, the task only plans
\* itself again.
Idle(s) == s.state \in {"rx", "sleep"}

RadioTask(n) ==
    /\ node[n].planned /\ node[n].identified /\ Idle(node[n])
    /\ \E s \in AfterSave(node[n]) : node' = [node EXCEPT ![n] = RadioRun(s)]
    /\ UNCHANGED todo

-----------------------------------------------------------------------------
(* The application's calls.                                                *)

CallResult(s, c) ==
    CASE c.op = "pub" -> [QueuePut(s, c.message) EXCEPT
                            !.planned = @ \/ Len(s.pub) < PubCapacity]
      [] c.op = "clear" -> [s EXCEPT !.pub = <<>>]
      [] c.op = "pairing_request" ->
           [s EXCEPT !.fits = c.fits, !.pairing_request = TRUE, !.planned = TRUE]
      [] c.op = "pairing_mode" -> [s EXCEPT !.pairing_mode = c.on]
      [] c.op = "automatic_pairing" -> [s EXCEPT !.automatic_pairing = c.on]
      [] c.op = "add" -> PublicAdd(s, c.id)
      [] c.op = "remove" -> PublicRemove(s, c.id)
      [] c.op = "purge" -> PurgeAll(s)
      [] c.op = "listen" -> [OpenWindow(s) EXCEPT !.planned = TRUE]
      [] c.op = "rx_after_ack" -> [s EXCEPT !.rx_after_ack = c.on]

Call(n) ==
    /\ todo[n] # <<>> /\ Head(todo[n]).op # "reboot"
    /\ node' = [node EXCEPT ![n] = CallResult(@, Head(todo[n]))]
    /\ todo' = [todo EXCEPT ![n] = Tail(@)]

-----------------------------------------------------------------------------
(* The channel and time.                                                   *)

\* A transmission ends.  Any station that listens may hear it or miss it, and
\* misses it while a packet waits to be read.
Transmit(n) ==
    /\ node[n].current = "tx" /\ ~node[n].sent
    /\ \E hearers \in SUBSET {m \in Stations \ {n} :
                        node[m].current = "rx" /\ node[m].received = Nothing} :
        node' = [m \in Stations |->
            CASE m \in hearers -> [node[m] EXCEPT !.received = node[n].tx]
              [] m = n -> [node[n] EXCEPT !.sent = TRUE,
                             !.aired = IF node[n].tx.kind \in AckKinds THEN @ ELSE @ + 1]
              [] OTHER -> node[m]]
    /\ UNCHANGED todo

\* The tick reaches rx_timeout, and with it the end of the window it was taken
\* from.  Lateness matters to a station that listens or is about to.
Deadline(n) ==
    /\ node[n].timeout # "never" /\ ~node[n].late /\ node[n].state # "sleep"
    /\ node' = [node EXCEPT ![n].late = TRUE,
                            ![n].window = @ /\ node[n].timeout # "window"]
    /\ UNCHANGED todo

\* The transceiver's timeout is set no earlier than the radio's, for the same
\* time.
Expire(n) ==
    /\ node[n].current = "rx" /\ node[n].timeout # "never"
    /\ node[n].late /\ ~node[n].expired
    /\ node' = [node EXCEPT ![n].expired = TRUE]
    /\ UNCHANGED todo

CloseWindow(n) ==
    /\ node[n].window /\ (node[n].timeout # "window" \/ node[n].late)
    /\ node' = [node EXCEPT ![n].window = FALSE]
    /\ UNCHANGED todo

\* The chip has answered, which the task asks until it does.
ReadSerial(n) ==
    /\ ~node[n].identified
    /\ node' = [node EXCEPT ![n].identified = TRUE]
    /\ UNCHANGED todo

-----------------------------------------------------------------------------

\* A station after twr_radio_init, with the table its memory holds.  It listens,
\* acknowledges and attaches peers before its serial number is read.
Booted(id, mode, stored) ==
    LET known == Load(stored) IN
    GoToRxOrSleep(
    [serial |-> id, identified |-> FALSE, mode |-> mode, stored |-> stored, save |-> FALSE, boots |-> 0, faults |-> 0,
     state |-> "sleep", message_id |-> 0, count |-> 0, ack |-> FALSE,
     tx |-> Nothing, cache |-> Nothing, cached_count |-> 0,
     peers |-> [i \in 1..MAX_DEVICES |->
                  [id |-> IF i <= Len(known) THEN known[i] ELSE NoId,
                   mid |-> 0, synced |-> FALSE]],
     length |-> Len(known),
     pairing_request |-> FALSE, fits |-> TRUE, left |-> FALSE, pairing_mode |-> FALSE, automatic_pairing |-> FALSE,
     subs |-> 0, sent_subs |-> 0, pub |-> <<>>, rxq |-> <<>>,
     timeout |-> "never", late |-> FALSE, window |-> FALSE, rx_after_ack |-> FALSE,
     planned |-> FALSE,
     desired |-> "sleep", current |-> "init", received |-> Nothing, sent |-> FALSE,
     expired |-> FALSE,
     aired |-> 0, heard |-> <<>>, done |-> {}])

\* A scenario gives every station its mode, the peers it has stored, whether it
\* is identified, the number of subscriptions its application set, the number of
\* its saves that may fail and the calls the application makes.
Init ==
    \E scenario \in Scenarios :
        /\ node = [n \in Stations |->
             [Booted(n, scenario[n].mode,
                     [slots |-> [i \in 1..MAX_DEVICES |->
                                    IF i <= Len(scenario[n].known)
                                    THEN scenario[n].known[i] ELSE NoId],
                      length |-> Len(scenario[n].known)])
                EXCEPT !.identified = scenario[n].identified,
                       !.subs = scenario[n].subs, !.faults = scenario[n].faults]]
        /\ todo = [n \in Stations |-> scenario[n].calls]

\* What the memory holds when the power fails, in the middle of a save too.
Images(s) ==
    {s.stored} \cup (IF s.save /\ s.planned /\ s.identified /\ Idle(s) THEN Cut(s) ELSE {})

\* The power fails and comes back.  A start takes longer than the others need to
\* read a packet and to acknowledge it, so that nobody is in the middle of that
\* when the station is back.  An entry whose first copy was cut is saved again.
Reboot(n) ==
    /\ todo[n] # <<>> /\ Head(todo[n]).op = "reboot"
    /\ \A m \in Stations \ {n} : /\ node[m].state \notin {"rxack", "txack"}
                                 /\ node[m].received = Nothing
    /\ \E image \in Images(node[n]), repair \in {FALSE, node[n].save} :
        node' = [node EXCEPT ![n] =
            [Booted(n, @.mode, image) EXCEPT
                !.subs = node[n].subs, !.faults = node[n].faults, !.save = repair, !.boots = node[n].boots + 1,
                !.heard = Append(node[n].heard, Nothing), !.done = node[n].done]]
    /\ todo' = [todo EXCEPT ![n] = Tail(@)]

Next == \E n \in Stations : \/ SpiritTask(n) \/ RadioTask(n)
                            \/ Call(n) \/ Reboot(n) \/ ReadSerial(n)
                            \/ Transmit(n)
                            \/ Deadline(n) \/ Expire(n) \/ CloseWindow(n)

\* Both tasks are visited again and again, a transmission ends, time passes, and
\* the chip with the serial number answers in the end.
Fairness == \A n \in Stations :
    /\ WF_vars(SpiritTask(n)) /\ WF_vars(RadioTask(n)) /\ WF_vars(ReadSerial(n))
    /\ WF_vars(Transmit(n)) /\ WF_vars(Deadline(n)) /\ WF_vars(Expire(n))

Spec == Init /\ [][Next]_vars
FairSpec == Spec /\ Fairness

-----------------------------------------------------------------------------
(* Correctness.                                                            *)

\* Two layers, one picture: the radio listens or sleeps in its own state, and so
\* transmits in the others, exactly when the transceiver is heading for the same:
\* no state of the radio waits for an event the transceiver will not raise
\* (twr_radio.c:556-709 against twr_spirit1.c:258-306).
LayersAgree == \A s \in Stations : LET r == node[s] IN
    /\ r.state = "sleep" <=> r.desired = "sleep"
    /\ r.state \in {"rx", "wait"} <=> r.desired = "rx"

\* What a station repeats is its own current message, across the
\* acknowledgements it sends to others while it waits: they overwrite the one
\* transmit buffer (twr_radio.c:520-554, 639-659).
OwnMessage == \A s \in Stations : LET r == node[s] IN
    LET mine(f) == /\ f # Nothing /\ f.from = s /\ f.id = r.message_id
                   /\ f.kind \notin AckKinds
    IN /\ r.state \in {"tx", "wait"} => mine(r.tx)
       /\ r.state = "txack" => mine(r.cache)

\* No message goes on the air more often than _TWR_RADIO_TX_MAX_COUNT,
\* whatever acknowledgements, lateness and timeouts come between.
AiredBound == \A s \in Stations : node[s].aired <= TX_MAX_COUNT

\* Between two of its own starts a station takes each message of a peer at most
\* once and in the order they were sent, though they are repeated until
\* acknowledged, acknowledgements get lost, and the peer may start again
\* (twr_radio.c:859-906).
AtMostOnceInOrder == \A s \in Stations : LET h == node[s].heard IN
    \A i, j \in 1..Len(h) :
        (i < j /\ (\A k \in i..j : h[k] # Nothing) /\ h[i].from = h[j].from) =>
            \/ h[i].boot < h[j].boot
            \/ h[i].boot = h[j].boot /\ h[i].id < h[j].id

\* TX_DONE tells the truth: another station took this very message, and not an
\* earlier one whose second acknowledgement came late (twr_radio.c:722-783).
\* Taken means handled by its radio; the receive queue may have had no room
\* (line 885).  An attachment is acknowledged by anyone who hears it.
DoneMeansHeard == \A s \in Stations : \A f \in node[s].done :
    f.kind \notin {"pairing", "attach", "detach"} =>
        \E m \in Stations \ {s} : \E i \in 1..Len(node[m].heard) : node[m].heard[i] = f

\* Unless a save is still to be made, a station that loses its power comes back
\* with the peers it has now, whatever was attached, detached, paired, cut short
\* or refused before (twr_radio.c:927-1015).  Only the first of them may be a
\* peer 0, of a gateway that had not read its serial number (line 813): it is
\* saved like any other, and is the one a start leaves out (line 963).
PeersKept == \A s \in Stations : LET r == node[s] IN
    ~r.save => Load(r.stored) = SubSeq(Ids(r), 1 + Nobody(r), r.length)

\* A station's count of registered subscriptions never runs ahead of what a
\* gateway has taken (twr_radio.c:385-415, 758-765).
SubscriptionsTaken == \A s \in Stations : \A k \in 0..node[s].sent_subs - 1 :
    \E m \in Stations \ {s} : \E i \in 1..Len(node[m].heard) :
        LET f == node[m].heard[i]
        IN f # Nothing /\ f.from = s /\ f.kind = "sub" /\ f.n = k

\* Work never waits for an unplanned task: whenever the radio is free and there
\* is a message to send or to decode, a pairing or a subscription to announce,
\* its task is planned (twr_radio.c:319-493), but for the two ways in which the
\* task ends without a look at what else there is: names that do not fit in a
\* packet (line 352), a message for a subscription the station does not have
\* (line 435).
WorkPlanned == \A s \in Stations : LET r == node[s] IN
    Idle(r) /\ (\/ r.pub # <<>> \/ r.rxq # <<>> \/ r.pairing_request
                \/ r.ack /\ r.sent_subs # r.subs) => r.planned \/ r.left

\* Every exchange ends: a station that starts to send, or to acknowledge,
\* listens or sleeps again, though foreign packets put off its timeout.
ExchangeEnds == \A s \in Stations : ~Idle(node[s]) ~> Idle(node[s])

\* What is published leaves the queue.
Published == \A s \in Stations : node[s].pub # <<>> ~> node[s].pub = <<>>
=============================================================================
