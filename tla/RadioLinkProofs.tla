--------------------------- MODULE RadioLinkProofs ----------------------------
(***************************************************************************)
(* Proofs about RadioLink, for any network, table size, repeat count and   *)
(* scenarios: the layers agree, a station repeats its own message and no   *)
(* more often than allowed, and the stored peer table is the one in use.   *)
(* As long as message numbers do not come round, what is reported done was *)
(* taken; as long as no peer is lost either, messages are taken once and   *)
(* in order.  Work never waits for an unplanned task.  A station's         *)
(* handlers are operators on its record, so the proofs go operator by      *)
(* operator: what a handler does to the radio's and the transceiver's      *)
(* state, to the peer table and the EEPROM, to the frames in transit, to   *)
(* the numbers noted with the peers, and to the work that waits; each time *)
(* followed by the actions of the network.                                 *)
(***************************************************************************)
EXTENDS RadioLink, SequenceTheorems, FiniteSetTheorems, WellFoundedInduction, TLAPS


-------------------------------------------------------------------------------
(***************************************************************************)
(* The radio above the transceiver.                                        *)
(***************************************************************************)
\* The fields of a station's record.
Fields == {"serial", "identified", "mode", "stored", "save", "boots", "faults", "state", "message_id", "count",
           "ack", "tx", "cache", "cached_count", "peers", "length", "pairing_request",
           "fits", "left", "pairing_mode", "automatic_pairing", "subs", "sent_subs", "pub", "rxq", "timeout",
           "late", "window", "rx_after_ack", "planned", "desired", "current", "received", "sent",
           "expired", "aired", "heard", "done"}
Shape(s) == DOMAIN s = Fields

\* The radio's states, and what each asks of the transceiver.
RadioStates == {"sleep", "rx", "wait", "tx", "rxack", "txack"}
Heading(state) == IF state = "sleep" THEN "sleep"
                  ELSE IF state \in {"rx", "wait"} THEN "rx" ELSE "tx"

\* A message of the station's own, and its current one.
Mine(s, f) == f.from = s.serial /\ f.id = s.message_id /\ f.kind \notin AckKinds \cup {"nothing"}

\* The transmission in the air has been counted, the end of it has not.
Out(s) == IF s.current = "tx" /\ s.sent THEN 1 ELSE 0

\* What holds of the radio's own state between and inside the handlers.
RadioOK(s) ==
    /\ Shape(s)
    /\ s.count \in Nat /\ s.cached_count \in Nat /\ s.aired \in 0..TX_MAX_COUNT
    /\ s.state \in RadioStates
    /\ s.state \in {"tx", "wait"} => Mine(s, s.tx)
    /\ s.state = "txack" => Mine(s, s.cache) /\ s.aired + s.cached_count <= TX_MAX_COUNT
    /\ s.state \in {"rxack", "txack"} => s.tx.kind \in AckKinds
    /\ s.state = "wait" => s.aired + s.count <= TX_MAX_COUNT
    /\ s.state = "tx" => s.count >= 1

\* And of the transceiver below it.
Agree(s) == s.desired = Heading(s.state)
SpiritOK(s) ==
    /\ Agree(s)
    /\ s.current = "tx" => s.desired = "tx"
    /\ s.state = "tx" => s.aired + s.count <= TX_MAX_COUNT + Out(s)

LinkOK(s) == RadioOK(s) /\ SpiritOK(s)

\* Nothing of the link has changed.
Untouched(s, t) ==
    /\ Shape(t)
    /\ t.serial = s.serial /\ t.message_id = s.message_id /\ t.state = s.state
    /\ t.count = s.count /\ t.cached_count = s.cached_count /\ t.aired = s.aired
    /\ t.tx = s.tx /\ t.cache = s.cache
    /\ t.desired = s.desired /\ t.current = s.current /\ t.sent = s.sent

\* A change of other fields leaves the link as it was.
LEMMA UntouchedOK == ASSUME NEW s, NEW t, LinkOK(s), Untouched(s, t) PROVE LinkOK(t)
  BY DEF LinkOK, RadioOK, SpiritOK, Agree, Untouched, Mine, Out

\* The table, the queue and the flags are other fields.
LEMMA PeerAddTouches == ASSUME NEW s, Shape(s), NEW id PROVE Untouched(s, PeerAdd(s, id))
  BY DEF Untouched, PeerAdd, Shape, Fields

LEMMA PeerRemoveTouches == ASSUME NEW s, Shape(s), NEW id PROVE Untouched(s, PeerRemove(s, id))
  BY DEF Untouched, PeerRemove, Shape, Fields

LEMMA QueuePutTouches == ASSUME NEW s, Shape(s), NEW m PROVE Untouched(s, QueuePut(s, m))
  BY DEF Untouched, QueuePut, Shape, Fields

LEMMA PurgeTouches == ASSUME NEW s, Shape(s) PROVE Untouched(s, PurgeAll(s))
  BY DEF Untouched, PurgeAll, Shape, Fields

-------------------------------------------------------------------------------
(***************************************************************************)
(* What a handler of the radio hands to the transceiver.                   *)
(***************************************************************************)
\* Nothing of an earlier transmission is left: what a handler hands on.
HandOK(s) == RadioOK(s) /\ Agree(s) /\ (s.state = "tx" => s.aired + s.count <= TX_MAX_COUNT)

\* A handler has run: the same station, and the transceiver where it was.
After(s, t) == HandOK(t) /\ t.serial = s.serial /\ t.current = s.current

\* When nothing is being transmitted the two are the same.
LEMMA LinkIsHand == ASSUME NEW s, s.current # "tx" PROVE LinkOK(s) <=> HandOK(s)
  BY CountAssumption DEF LinkOK, HandOK, RadioOK, SpiritOK, Out

\* Changing other fields counts as having run ...
LEMMA UntouchedAfter == ASSUME NEW s, NEW t, HandOK(s), Untouched(s, t) PROVE After(s, t)
  BY DEF HandOK, RadioOK, Agree, Untouched, Mine, After

\* ... and may follow what has run.
LEMMA ThenUntouched == ASSUME NEW s, NEW t, NEW u, After(s, t), Untouched(t, u) PROVE After(s, u)
  BY UntouchedAfter DEF After

\* Where a handler may leave the radio.
LEMMA SleepAfter == ASSUME NEW s, RadioOK(s) PROVE After(s, Sleep(s))
  BY DEF After, HandOK, RadioOK, Agree, Heading, RadioStates, Sleep, Shape, Fields

LEMMA ListenAfter == ASSUME NEW s, RadioOK(s) PROVE After(s, Listen(s))
  BY DEF After, HandOK, RadioOK, Agree, Heading, RadioStates, Listen, Shape, Fields

LEMMA IdleAfter == ASSUME NEW s, RadioOK(s) PROVE After(s, GoToRxOrSleep(s))
  BY SleepAfter, ListenAfter DEF GoToRxOrSleep

\* A wait keeps the message that may have to be repeated.
LEMMA WaitAfter ==
    ASSUME NEW s, RadioOK(s), Mine(s, s.tx), s.aired + s.count <= TX_MAX_COUNT
    PROVE  After(s, WaitForAck(s))
  BY DEF After, HandOK, RadioOK, Agree, Heading, RadioStates, WaitForAck, Shape, Fields, Mine

\* A repetition is sent only while some are left.
LEMMA RetransmitAfter ==
    ASSUME NEW s, HandOK(s), s.state = "wait", s.count > 0
    PROVE  After(s, Retransmit(s))
  BY DEF After, HandOK, RadioOK, Agree, Heading, RadioStates, Retransmit, Shape, Fields, Mine

\* A transmission starts with all its repetitions to come.
LEMMA StartTxAfter ==
    ASSUME NEW s, RadioOK(s), NEW kind, kind \notin AckKinds \cup {"nothing"}, NEW to, NEW n
    PROVE  After(s, StartTx(s, kind, to, n))
  <1> DEFINE t == StartTx(s, kind, to, n)
             f == Frame(s.serial, (s.message_id + 1) % ID_MODULUS, kind, to, n, s.boots)
  <1>1. /\ Shape(t) /\ t.serial = s.serial /\ t.current = s.current
        /\ t.message_id = (s.message_id + 1) % ID_MODULUS /\ t.tx = f
        /\ t.state = "tx" /\ t.desired = "tx" /\ t.count = TX_MAX_COUNT /\ t.aired = 0
        /\ t.cached_count = s.cached_count /\ t.cache = s.cache
      BY DEF StartTx, RadioOK, Shape, Fields
  <1>2. Mine(t, f)
      BY <1>1 DEF Mine, Frame
  <1> HIDE DEF t, f
  <1>3. RadioOK(t)
      BY <1>1, <1>2, CountAssumption DEF RadioOK, RadioStates
  <1>4. Agree(t) /\ t.aired + t.count <= TX_MAX_COUNT
      BY <1>1, CountAssumption DEF Agree, Heading
  <1> QED
      BY <1>1, <1>3, <1>4 DEF After, HandOK, t

\* An acknowledgement puts aside the message that is waited for.
LEMMA SendAckAfter ==
    ASSUME NEW s, HandOK(s), NEW heard, NEW kind \in AckKinds
    PROVE  After(s, SendAck(s, heard, kind))
  <1> DEFINE f == Frame(heard.from, heard.id, kind, MyId(s), 0, 0)
             t == SendAck(s, heard, kind)
  <1>1. f.kind = kind
      BY DEF Frame
  <1>2. CASE s.state = "wait"
    <2>1. /\ Shape(t) /\ t.serial = s.serial /\ t.current = s.current
          /\ t.message_id = s.message_id /\ t.tx = f /\ t.cache = s.tx
          /\ t.state = "txack" /\ t.desired = "tx" /\ t.count = 2 /\ t.aired = s.aired
          /\ t.cached_count = s.count
        BY <1>2 DEF SendAck, HandOK, RadioOK, Shape, Fields
    <2>2. Mine(t, t.cache) /\ t.aired + t.cached_count <= TX_MAX_COUNT
        BY <1>2, <2>1 DEF HandOK, RadioOK, Mine
    <2> HIDE DEF t, f
    <2> QED
        BY <1>1, <1>2, <2>1, <2>2 DEF After, HandOK, RadioOK, RadioStates, Agree, Heading, t
  <1>3. CASE s.state = "rx"
    <2>1. /\ Shape(t) /\ t.serial = s.serial /\ t.current = s.current
          /\ t.message_id = s.message_id /\ t.tx = f /\ t.cache = s.cache
          /\ t.state = "rxack" /\ t.desired = "tx" /\ t.count = 2 /\ t.aired = s.aired
          /\ t.cached_count = s.cached_count
        BY <1>3 DEF SendAck, HandOK, RadioOK, Shape, Fields
    <2> HIDE DEF t, f
    <2> QED
        BY <1>1, <1>3, <2>1 DEF After, HandOK, RadioOK, RadioStates, Agree, Heading, t
  <1>4. CASE s.state \notin {"wait", "rx"}
      BY <1>4 DEF SendAck, After
  <1> QED
      BY <1>2, <1>3, <1>4

\* Back to that message, with the repetitions it had left.
LEMMA ResumeAfter ==
    ASSUME NEW s, RadioOK(s), s.state = "txack"
    PROVE  After(s, Resume(s))
  <1> DEFINE t == Resume(s)
  <1>1. /\ Shape(t) /\ t.serial = s.serial /\ t.current = s.current
        /\ t.message_id = s.message_id /\ t.tx = s.cache /\ t.cache = s.cache
        /\ t.state = "wait" /\ t.desired = "rx" /\ t.count = s.cached_count /\ t.aired = s.aired
        /\ t.cached_count = s.cached_count
      BY DEF Resume, WaitForAck, RadioOK, Shape, Fields
  <1> HIDE DEF t
  <1> QED
      BY <1>1 DEF After, HandOK, RadioOK, RadioStates, Agree, Heading, Mine, t

\* A transmission that has ended has used one repetition.
LEMMA OnTxDoneAfter ==
    ASSUME NEW s, RadioOK(s), s.state = "tx" => s.aired + s.count <= TX_MAX_COUNT + 1
    PROVE  After(s, OnTxDone(s))
  <1> DEFINE t == [s EXCEPT !.count = IF @ > 0 THEN @ - 1 ELSE @]
  <1>1. /\ Shape(t) /\ t.count = (IF s.count > 0 THEN s.count - 1 ELSE s.count)
        /\ t.serial = s.serial /\ t.current = s.current /\ t.message_id = s.message_id
        /\ t.tx = s.tx /\ t.cache = s.cache /\ t.cached_count = s.cached_count
        /\ t.aired = s.aired /\ t.state = s.state
      BY DEF RadioOK, Shape, Fields
  <1>2. OnTxDone(s) = CASE t.state = "tx" -> [WaitForAck(t) EXCEPT !.ack = FALSE]
                        [] t.state \in {"rxack", "txack"} /\ t.count > 0 -> [t EXCEPT !.desired = "tx"]
                        [] t.state = "txack" /\ t.count = 0 -> Resume(t)
                        [] OTHER -> GoToRxOrSleep(t)
      BY DEF OnTxDone
  <1> HIDE DEF t
  <1>3. t.count \in Nat /\ t.aired \in Nat /\ (s.state = "tx" => t.aired + t.count <= TX_MAX_COUNT)
      BY <1>1, CountAssumption DEF RadioOK
  <1>4. CASE t.state = "tx"
    <2> DEFINE u == WaitForAck(t)
               v == [u EXCEPT !.ack = FALSE]
    <2>1. /\ Shape(v) /\ v.serial = s.serial /\ v.current = s.current
          /\ v.message_id = s.message_id /\ v.tx = s.tx /\ v.cache = s.cache
          /\ v.state = "wait" /\ v.desired = "rx" /\ v.count = t.count /\ v.aired = s.aired
          /\ v.cached_count = s.cached_count
        BY <1>1 DEF WaitForAck, Shape, Fields
    <2>2. OnTxDone(s) = v
        BY <1>2, <1>4
    <2> HIDE DEF v
    <2>3. Mine(v, v.tx)
        BY <1>1, <1>4, <2>1 DEF RadioOK, Mine
    <2> QED
        BY <1>1, <1>3, <1>4, <2>1, <2>2, <2>3 DEF After, HandOK, RadioOK, RadioStates, Agree, Heading
  <1>5. CASE t.state # "tx"
    <2>1. RadioOK(t)
      <3>1. t.count <= s.count /\ s.count \in Nat /\ s.aired \in Nat
          BY <1>1, CountAssumption DEF RadioOK
      <3>2. t.state = "wait" => t.aired + t.count <= TX_MAX_COUNT
        <4>1. t.state = "wait" => s.aired + s.count <= TX_MAX_COUNT
            BY <1>1 DEF RadioOK
        <4> QED
            BY <1>1, <1>3, <3>1, <4>1, CountAssumption
      <3>3. /\ t.state \in {"tx", "wait"} => Mine(t, t.tx)
            /\ t.state = "txack" => Mine(t, t.cache)
          BY <1>1 DEF RadioOK, Mine
      <3> QED
          BY <1>1, <1>3, <1>5, <3>2, <3>3 DEF RadioOK
    <2>2. CASE t.state \in {"rxack", "txack"} /\ t.count > 0
      <3>1. OnTxDone(s) = [t EXCEPT !.desired = "tx"]
          BY <1>2, <2>2
      <3>2. HandOK([t EXCEPT !.desired = "tx"])
          BY <2>1, <2>2 DEF HandOK, RadioOK, Agree, Heading, Shape, Fields, Mine
      <3>3. [t EXCEPT !.desired = "tx"].serial = t.serial /\ [t EXCEPT !.desired = "tx"].current = t.current
          BY <1>1 DEF Shape, Fields
      <3> QED
          BY <1>1, <3>1, <3>2, <3>3 DEF After
    <2>3. CASE t.state = "txack" /\ t.count = 0
      <3>1. ~(t.count > 0)
          BY <2>3
      <3>2. OnTxDone(s) = Resume(t)
          BY <1>2, <2>3, <3>1
      <3>3. After(t, Resume(t))
          BY <2>1, <2>3, ResumeAfter
      <3> QED
          BY <1>1, <3>2, <3>3 DEF After
    <2>4. CASE ~(t.state \in {"rxack", "txack"} /\ t.count > 0) /\ ~(t.state = "txack" /\ t.count = 0)
        BY <1>1, <1>2, <1>5, <2>1, <2>4, IdleAfter DEF After
    <2> QED
        BY <2>2, <2>3, <2>4
  <1> QED
      BY <1>4, <1>5

LEMMA OnRxTimeoutAfter ==
    ASSUME NEW s, HandOK(s)
    PROVE  After(s, OnRxTimeout(s))
  <1>1. CASE s.state = "wait" /\ s.count > 0
      BY <1>1, RetransmitAfter DEF OnRxTimeout
  <1>2. CASE ~(s.state = "wait" /\ s.count > 0)
      BY <1>2, IdleAfter DEF OnRxTimeout, HandOK
  <1> QED
      BY <1>1, <1>2

\* The peer table's operations, from the inside and from the application.
\* Handlers and calls that change the table leave the link alone.
LEMMA PublicAddTouches == ASSUME NEW s, Shape(s), NEW id PROVE Untouched(s, PublicAdd(s, id))
  <1>1. Untouched(s, s)
      BY DEF Untouched
  <1>2. Untouched(s, PeerAdd(s, id))
      BY PeerAddTouches
  <1>3. Untouched(PeerAdd(s, id), QueuePut(PeerAdd(s, id), Message("attach", id, 0)))
      BY <1>2, QueuePutTouches DEF Untouched
  <1> QED
      BY <1>1, <1>2, <1>3 DEF PublicAdd, Untouched

LEMMA PublicRemoveTouches == ASSUME NEW s, Shape(s), NEW id PROVE Untouched(s, PublicRemove(s, id))
  <1>1. Untouched(s, s)
      BY DEF Untouched
  <1>2. Untouched(s, PeerRemove(s, id))
      BY PeerRemoveTouches
  <1>3. Untouched(PeerRemove(s, id), QueuePut(PeerRemove(s, id), Message("detach", id, 0)))
      BY <1>2, QueuePutTouches DEF Untouched
  <1> QED
      BY <1>1, <1>2, <1>3 DEF PublicRemove, Untouched

LEMMA PairedTouches == ASSUME NEW s, Shape(s), NEW id PROVE Untouched(s, Paired(s, id))
  BY DEF Untouched, Paired, Shape, Fields

LEMMA WindowTouches == ASSUME NEW s, Shape(s) PROVE Untouched(s, OpenWindow(s))
  BY DEF Untouched, OpenWindow, Shape, Fields

\* Every message that is heard is handled into a good state.
LEMMA HeardAckAfter == ASSUME NEW s, HandOK(s), NEW heard PROVE After(s, HeardAck(s, heard))
  <1>1. CASE s.state # "wait" \/ ~Acknowledges(s, heard)
      BY <1>1 DEF HeardAck, After
  <1>2. CASE ~(s.state # "wait" \/ ~Acknowledges(s, heard))
    <2> DEFINE t == CASE s.tx.kind = "pairing" ->
                           IF heard.kind = "ackpair" THEN Paired(s, heard.to) ELSE s
                      [] s.tx.kind = "sub" -> [s EXCEPT !.sent_subs = @ + 1]
                      [] OTHER -> IF heard.kind = "acksubs"
                                  THEN [s EXCEPT !.sent_subs = 0] ELSE s
               u == IF s.rx_after_ack THEN OpenWindow(t) ELSE t
               v == [u EXCEPT !.count = 0, !.ack = TRUE, !.done = @ \cup {s.tx}]
    <2>1. HeardAck(s, heard) = GoToRxOrSleep(v)
        BY <1>2 DEF HeardAck
    <2>2. Shape(s)
        BY DEF HandOK, RadioOK
    <2>3. Untouched(s, t)
      <3>1. Untouched(s, s) /\ Untouched(s, Paired(s, heard.to))
          BY <2>2, PairedTouches DEF Untouched
      <3>2. Untouched(s, [s EXCEPT !.sent_subs = @ + 1]) /\ Untouched(s, [s EXCEPT !.sent_subs = 0])
          BY <2>2 DEF Untouched, Shape, Fields
      <3> QED
          BY <3>1, <3>2
    <2> HIDE DEF t
    <2>4. Untouched(s, u)
      <3>1. Untouched(t, OpenWindow(t))
          BY <2>3, WindowTouches DEF Untouched
      <3> QED
          BY <2>3, <3>1 DEF Untouched
    <2> HIDE DEF u
    <2>5. /\ Shape(v) /\ v.serial = s.serial /\ v.message_id = s.message_id /\ v.state = s.state
          /\ v.count = 0 /\ v.cached_count = s.cached_count /\ v.aired = s.aired
          /\ v.tx = s.tx /\ v.cache = s.cache /\ v.current = s.current
        BY <2>4 DEF Untouched, Shape, Fields
    <2> HIDE DEF v
    <2>6. RadioOK(v)
      <3>1. s.aired + 0 <= TX_MAX_COUNT /\ s.state = "wait"
          BY <1>2, CountAssumption DEF HandOK, RadioOK
      <3> QED
          BY <2>5, <3>1 DEF HandOK, RadioOK, Mine
    <2> QED
        BY <2>1, <2>5, <2>6, IdleAfter DEF After
  <1> QED
      BY <1>1, <1>2

LEMMA HeardPairingAfter == ASSUME NEW s, HandOK(s), NEW heard PROVE After(s, HeardPairing(s, heard))
  <1> DEFINE t == IF s.pairing_mode THEN PublicAdd(s, heard.from) ELSE s
             u == SendAck(t, heard, "ackpair")
             v == [u EXCEPT !.peers[SlotOf(t, heard.from)].mid = heard.id,
                            !.peers[SlotOf(t, heard.from)].synced = TRUE]
  <1>1. HeardPairing(s, heard) = IF ~IsPeer(t, heard.from) THEN t ELSE v
      BY DEF HeardPairing
  <1>2. Untouched(s, t)
      BY PublicAddTouches DEF HandOK, RadioOK, Untouched
  <1> HIDE DEF t
  <1>3. After(s, t)
      BY <1>2, UntouchedAfter
  <1>4. After(s, u)
      BY <1>3, SendAckAfter DEF After, AckKinds
  <1> HIDE DEF u
  <1>5. Untouched(u, v)
      BY <1>4 DEF After, HandOK, RadioOK, Untouched, Shape, Fields
  <1> HIDE DEF v
  <1> QED
      BY <1>1, <1>3, <1>4, <1>5, ThenUntouched

LEMMA HeardAttachAfter ==
    ASSUME NEW s, HandOK(s), NEW heard, heard.kind \in {"attach", "detach"}
    PROVE  After(s, HeardAttach(s, heard))
  <1> DEFINE t == CASE heard.to # MyId(s) -> s
                    [] heard.to = MyId(s) /\ heard.kind = "attach" ->
                         [s EXCEPT !.pairing_request = TRUE, !.planned = TRUE]
                    [] heard.to = MyId(s) /\ heard.kind = "detach" ->
                         IF IsPeer(s, heard.from) THEN PeerRemove(s, heard.from) ELSE s
  <1>1. Shape(s) /\ Untouched(s, s)
      BY DEF HandOK, RadioOK, Untouched
  <1>2. Untouched(s, [s EXCEPT !.pairing_request = TRUE, !.planned = TRUE])
      BY <1>1 DEF Untouched, Shape, Fields
  <1>3. Untouched(s, PeerRemove(s, heard.from))
      BY <1>1, PeerRemoveTouches
  <1>4. Untouched(s, t)
      BY <1>1, <1>2, <1>3
  <1>5. HeardAttach(s, heard) = SendAck(t, heard, "ack")
      BY DEF HeardAttach
  <1> HIDE DEF t
  <1>6. After(s, t)
      BY <1>4, UntouchedAfter
  <1> QED
      BY <1>5, <1>6, SendAckAfter DEF After, AckKinds

LEMMA AcceptAfter == ASSUME NEW s, HandOK(s), NEW heard PROVE After(s, Accept(s, heard))
  <1> DEFINE i == SlotOf(s, heard.from)
             restarted == s.mode = "gateway" /\ (~s.peers[i].synced \/ s.peers[i].mid > heard.id)
             kind == IF restarted THEN "acksubs" ELSE "ack"
             t == [s EXCEPT !.peers[i].mid = heard.id, !.peers[i].synced = TRUE,
                            !.rxq = IF Fits(s) THEN Append(@, heard) ELSE @,
                            !.planned = TRUE,
                            !.heard = Append(@, heard)]
  <1>1. Accept(s, heard) = SendAck(t, heard, kind)
      BY DEF Accept
  <1>2. kind \in AckKinds
      BY DEF AckKinds
  <1>3. Untouched(s, t)
      BY DEF HandOK, RadioOK, Untouched, Shape, Fields
  <1> HIDE DEF t, kind
  <1>4. After(s, t)
      BY <1>3, UntouchedAfter
  <1> QED
      BY <1>1, <1>2, <1>4, SendAckAfter DEF After

LEMMA HeardDataAfter == ASSUME NEW s, HandOK(s), NEW heard PROVE After(s, HeardData(s, heard))
  <1>1. Shape(s) /\ After(s, s)
      BY DEF HandOK, RadioOK, After
  <1>2. After(s, PublicAdd(s, heard.from))
      BY <1>1, PublicAddTouches, UntouchedAfter
  <1>3. \A i : After(s, [s EXCEPT !.peers[i].mid = heard.id, !.peers[i].synced = FALSE])
    <2> TAKE i
    <2>1. Untouched(s, [s EXCEPT !.peers[i].mid = heard.id, !.peers[i].synced = FALSE])
        BY <1>1 DEF Untouched, Shape, Fields
    <2> QED
        BY <2>1, UntouchedAfter
  <1>4. After(s, Accept(s, heard))
      BY AcceptAfter
  <1>5. CASE ~IsPeer(s, heard.from)
    <2>1. HeardData(s, heard) = IF s.automatic_pairing THEN PublicAdd(s, heard.from) ELSE s
        BY <1>5 DEF HeardData
    <2> QED
        BY <1>1, <1>2, <2>1
  <1>6. CASE IsPeer(s, heard.from) /\ ~IsNew(s, heard)
    <2>1. HeardData(s, heard) = s
        BY <1>6 DEF HeardData
    <2> QED
        BY <1>1, <2>1
  <1>7. CASE IsPeer(s, heard.from) /\ IsNew(s, heard)
    <2> DEFINE i == SlotOf(s, heard.from)
               t == [s EXCEPT !.peers[i].mid = heard.id, !.peers[i].synced = FALSE]
    <2>1. HeardData(s, heard) = IF heard.kind \in Directed /\ heard.to # MyId(s)
                                THEN t ELSE Accept(s, heard)
        BY <1>7 DEF HeardData
    <2>2. After(s, t)
        BY <1>3
    <2> HIDE DEF t
    <2> QED
        BY <1>4, <2>1, <2>2
  <1> QED
      BY <1>5, <1>6, <1>7

LEMMA HeardAfter == ASSUME NEW s, HandOK(s), NEW heard PROVE After(s, Heard(s, heard))
  <1>1. CASE heard.kind \in AckKinds
      BY <1>1, HeardAckAfter DEF Heard, AckKinds
  <1>2. CASE heard.kind = "pairing"
      BY <1>2, HeardPairingAfter DEF Heard, AckKinds
  <1>3. CASE heard.kind \in {"attach", "detach"}
      BY <1>3, HeardAttachAfter DEF Heard, AckKinds
  <1>4. CASE heard.kind \notin AckKinds \cup {"pairing", "attach", "detach"}
      BY <1>4, HeardDataAfter DEF Heard
  <1> QED
      BY <1>1, <1>2, <1>3, <1>4

\* A late packet is handled after the wait is over.
LEMMA OnRxDoneAfter == ASSUME NEW s, HandOK(s), NEW heard PROVE After(s, OnRxDone(s, heard))
  <1> DEFINE late == s.timeout # "never" /\ s.late
  <1>1. CASE late /\ s.state = "wait" /\ s.count > 0
      BY <1>1, RetransmitAfter DEF OnRxDone
  <1>2. CASE late /\ ~(s.state = "wait" /\ s.count > 0)
    <2>1. After(s, GoToRxOrSleep(s))
        BY IdleAfter DEF HandOK
    <2>2. After(GoToRxOrSleep(s), Heard(GoToRxOrSleep(s), heard))
        BY <2>1, HeardAfter DEF After
    <2>3. OnRxDone(s, heard) = Heard(GoToRxOrSleep(s), heard)
        BY <1>2 DEF OnRxDone
    <2> QED
        BY <2>1, <2>2, <2>3 DEF After
  <1>3. CASE ~late
    <2>1. OnRxDone(s, heard) = Heard(s, heard)
        BY <1>3 DEF OnRxDone
    <2> QED
        BY <2>1, HeardAfter
  <1> QED
      BY <1>1, <1>2, <1>3

-------------------------------------------------------------------------------
(***************************************************************************)
(* The two tasks, the calls and a start.                                   *)
(***************************************************************************)
\* The transceiver takes up the state it was asked for.
LEMMA EnterOK ==
    ASSUME NEW s, HandOK(s)
    PROVE  LinkOK(Enter(s, s.desired)) /\ Enter(s, s.desired).serial = s.serial
  <1> DEFINE t == Enter(s, s.desired)
  <1>1. /\ Shape(t) /\ t.serial = s.serial /\ t.message_id = s.message_id /\ t.state = s.state
        /\ t.count = s.count /\ t.cached_count = s.cached_count /\ t.aired = s.aired
        /\ t.tx = s.tx /\ t.cache = s.cache
        /\ t.desired = s.desired /\ t.current = s.desired /\ t.sent = FALSE
      BY DEF Enter, HandOK, RadioOK, Shape, Fields
  <1> HIDE DEF t
  <1>2. Out(t) = 0
      BY <1>1 DEF Out
  <1>3. RadioOK(t)
      BY <1>1 DEF HandOK, RadioOK, Mine
  <1>4. SpiritOK(t)
    <2>1. s.state = "tx" => t.aired + t.count <= TX_MAX_COUNT
        BY <1>1 DEF HandOK
    <2>2. s.state = "tx" => t.aired + t.count <= TX_MAX_COUNT + Out(t)
        BY <1>2, <2>1, CountAssumption
    <2> QED
        BY <1>1, <2>2 DEF SpiritOK, HandOK, Agree
  <1> QED
      BY <1>1, <1>3, <1>4 DEF LinkOK, t

\* The end of a transmission is counted once.
LEMMA CheckTxOK ==
    ASSUME NEW s, LinkOK(s), s.current = "tx", s.sent
    PROVE  LinkOK(CheckTx(s)) /\ CheckTx(s).serial = s.serial
  <1> DEFINE t == [s EXCEPT !.desired = "sleep"]
             u == OnTxDone(t)
  <1>1. RadioOK(t) /\ t.serial = s.serial /\ t.state = s.state /\ t.aired = s.aired /\ t.count = s.count
      BY DEF LinkOK, RadioOK, Shape, Fields, Mine
  <1>2. Out(s) = 1
      BY DEF Out
  <1>3. t.state = "tx" => t.aired + t.count <= TX_MAX_COUNT + 1
      BY <1>1, <1>2 DEF LinkOK, SpiritOK
  <1> HIDE DEF t
  <1>4. HandOK(u) /\ u.serial = s.serial
      BY <1>1, <1>3, OnTxDoneAfter DEF After
  <1>5. CheckTx(s) = Enter(u, u.desired)
      BY DEF CheckTx, t
  <1> HIDE DEF u
  <1> QED
      BY <1>4, <1>5, EnterOK

\* A packet that was read is handled and dropped.
LEMMA CheckRxOK ==
    ASSUME NEW s, LinkOK(s), s.current = "rx"
    PROVE  LinkOK(CheckRx(s)) /\ CheckRx(s).serial = s.serial
  <1> DEFINE t == [s EXCEPT !.expired = FALSE]
             u == OnRxDone(t, s.received)
             v == [u EXCEPT !.received = Nothing]
  <1>1. Untouched(s, t)
      BY DEF LinkOK, RadioOK, Untouched, Shape, Fields
  <1>2. HandOK(t) /\ t.serial = s.serial /\ t.current = "rx"
      BY <1>1, LinkIsHand, UntouchedAfter DEF After
  <1> HIDE DEF t
  <1>3. After(t, u)
      BY <1>2, OnRxDoneAfter
  <1> HIDE DEF u
  <1>4. Untouched(u, v)
      BY <1>3 DEF After, HandOK, RadioOK, Untouched, Shape, Fields
  <1>5. v = CheckRx(s)
      BY DEF CheckRx, t, u
  <1> HIDE DEF v
  <1>6. HandOK(v) /\ v.serial = s.serial /\ v.current # "tx"
      BY <1>2, <1>3, <1>4, UntouchedAfter DEF After
  <1> QED
      BY <1>5, <1>6, LinkIsHand

\* The transceiver's task.
LEMMA SpiritRunOK ==
    ASSUME NEW s, LinkOK(s)
    PROVE  LinkOK(SpiritRun(s)) /\ SpiritRun(s).serial = s.serial
  <1> DEFINE t == IF TimedOut(s) THEN OnRxTimeout(s) ELSE s
  <1>1. LinkOK(t) /\ t.serial = s.serial
    <2>1. CASE TimedOut(s)
      <3>1. s.current = "rx" /\ HandOK(s)
          BY <2>1, LinkIsHand DEF TimedOut
      <3>2. After(s, OnRxTimeout(s))
          BY <3>1, OnRxTimeoutAfter
      <3> QED
          BY <2>1, <3>1, <3>2, LinkIsHand DEF After
    <2>2. CASE ~TimedOut(s)
        BY <2>2
    <2> QED
        BY <2>1, <2>2
  <1>2. SpiritRun(s) =
            CASE t.desired # t.current -> Enter(t, t.desired)
              [] t.desired = t.current /\ t.current = "tx" /\ t.sent -> CheckTx(t)
              [] t.desired = t.current /\ t.current = "rx" /\ t.received # Nothing -> CheckRx(t)
              [] OTHER -> t
      BY DEF SpiritRun
  <1> HIDE DEF t
  <1>3. CASE t.desired # t.current
    <2>1. SpiritRun(s) = Enter(t, t.desired)
        BY <1>2, <1>3
    <2>2. t.current # "tx"
        BY <1>1, <1>3 DEF LinkOK, SpiritOK
    <2> QED
        BY <1>1, <2>1, <2>2, EnterOK, LinkIsHand
  <1>4. CASE t.desired = t.current /\ t.current = "tx" /\ t.sent
    <2>1. SpiritRun(s) = CheckTx(t)
        BY <1>2, <1>4
    <2> QED
        BY <1>1, <1>4, <2>1, CheckTxOK
  <1>5. CASE t.desired = t.current /\ t.current = "rx" /\ t.received # Nothing
    <2>1. SpiritRun(s) = CheckRx(t)
        BY <1>2, <1>5
    <2> QED
        BY <1>1, <1>5, <2>1, CheckRxOK
  <1>6. CASE /\ t.desired = t.current
             /\ ~(t.current = "tx" /\ t.sent)
             /\ ~(t.current = "rx" /\ t.received # Nothing)
    <2>1. SpiritRun(s) = t
        BY <1>2, <1>6
    <2> QED
        BY <1>1, <2>1
  <1> QED
      BY <1>3, <1>4, <1>5, <1>6

\* A message taken from the publish queue is never an acknowledgement.
LEMMA PublishedKinds ==
    \A m \in Publications : m.kind \notin AckKinds \cup {"nothing"} /\ m.kind \notin {"pairing", "sub"}
  BY DEF Publications, Directed, AckKinds

\* A message leaves the publish queue.
LEMMA PublishAfter ==
    ASSUME NEW s, HandOK(s), s.pub \in Seq(Publications)
    PROVE  After(s, Publish(s))
  <1>1. CASE s.pub = <<>>
      BY <1>1 DEF Publish, After
  <1>2. CASE s.pub # <<>>
    <2> DEFINE t == [s EXCEPT !.pub = Tail(@)]
               m == Head(s.pub)
    <2>1. Publish(s) = StartTx(t, m.kind, m.to, m.n)
        BY <1>2 DEF Publish
    <2>2. m \in Publications
        BY <1>2, HeadTailProperties
    <2>3. Untouched(s, t)
        BY DEF HandOK, RadioOK, Untouched, Shape, Fields
    <2> HIDE DEF t, m
    <2>4. After(s, t)
        BY <2>3, UntouchedAfter
    <2>5. After(t, StartTx(t, m.kind, m.to, m.n))
        BY <2>2, <2>4, PublishedKinds, StartTxAfter DEF After, HandOK
    <2> QED
        BY <2>1, <2>4, <2>5 DEF After
  <1> QED
      BY <1>1, <1>2

\* The radio's task.
LEMMA RadioRunAfter ==
    ASSUME NEW s, HandOK(s), s.pub \in Seq(Publications)
    PROVE  After(s, RadioRun(s))
  <1>0. CASE s.pairing_request /\ ~s.fits
    <2> DEFINE t == [s EXCEPT !.pairing_request = FALSE, !.left = TRUE]
    <2>1. Untouched(s, t)
        BY DEF HandOK, RadioOK, Untouched, Shape, Fields
    <2>2. RadioRun(s) = t
        BY <1>0 DEF RadioRun
    <2> HIDE DEF t
    <2> QED
        BY <2>1, <2>2, UntouchedAfter
  <1>1. CASE s.pairing_request /\ s.fits
    <2> DEFINE t == [s EXCEPT !.pairing_request = FALSE, !.left = FALSE]
    <2>1. Untouched(s, t)
        BY DEF HandOK, RadioOK, Untouched, Shape, Fields
    <2>2. RadioRun(s) = StartTx(t, "pairing", NoId, 0)
        BY <1>1 DEF RadioRun
    <2> HIDE DEF t
    <2>3. After(s, t)
        BY <2>1, UntouchedAfter
    <2>4. After(t, StartTx(t, "pairing", NoId, 0))
        BY <2>3, StartTxAfter DEF After, HandOK, AckKinds
    <2> QED
        BY <2>2, <2>3, <2>4 DEF After
  <1>2. CASE ~s.pairing_request /\ s.ack /\ s.sent_subs # s.subs
    <2> DEFINE t == [s EXCEPT !.left = FALSE]
    <2>1. Untouched(s, t)
        BY DEF HandOK, RadioOK, Untouched, Shape, Fields
    <2>2. RadioRun(s) = StartTx(t, "sub", NoId, s.sent_subs)
        BY <1>2 DEF RadioRun
    <2> HIDE DEF t
    <2>3. After(s, t)
        BY <2>1, UntouchedAfter
    <2>4. After(t, StartTx(t, "sub", NoId, s.sent_subs))
        BY <2>3, StartTxAfter DEF After, HandOK, AckKinds
    <2> QED
        BY <2>2, <2>3, <2>4 DEF After
  <1>3. CASE ~s.pairing_request /\ ~(s.ack /\ s.sent_subs # s.subs)
    <2> DEFINE t == [s EXCEPT !.rxq = SubSeq(@, FirstStray(s) + 1, Len(@)), !.left = TRUE]
               u == [s EXCEPT !.rxq = <<>>, !.left = FALSE]
    <2>1. RadioRun(s) = IF Stray(s) # {} THEN t ELSE Publish(u)
        BY <1>3 DEF RadioRun
    <2>2. Untouched(s, t) /\ Untouched(s, u) /\ u.pub = s.pub
        BY DEF HandOK, RadioOK, Untouched, Shape, Fields
    <2> HIDE DEF t, u
    <2>3. After(s, t) /\ After(s, u)
        BY <2>2, UntouchedAfter
    <2>4. After(u, Publish(u))
        BY <2>2, <2>3, PublishAfter DEF After
    <2> QED
        BY <2>1, <2>3, <2>4 DEF After
  <1> QED
      BY <1>0, <1>1, <1>2, <1>3

\* The save it begins with.
LEMMA AfterSaveTouches ==
    ASSUME NEW s, Shape(s), NEW t \in AfterSave(s)
    PROVE  Untouched(s, t) /\ t.pub = s.pub
  <1> DEFINE u == [s EXCEPT !.planned = FALSE]
  <1>1. Untouched(s, u) /\ u.pub = s.pub
      BY DEF Untouched, Shape, Fields
  <1>2. t = u \/ (\E image : t = [u EXCEPT !.stored = image, !.save = FALSE])
        \/ (\E image : t = [u EXCEPT !.stored = image, !.planned = TRUE, !.faults = @ - 1])
      BY DEF AfterSave
  <1> HIDE DEF u
  <1>3. CASE t = u
      BY <1>1, <1>3
  <1>4. ASSUME NEW image, t = [u EXCEPT !.stored = image, !.save = FALSE]
        PROVE  Untouched(s, t) /\ t.pub = s.pub
      BY <1>1, <1>4 DEF Untouched, Shape, Fields
  <1>5. ASSUME NEW image, t = [u EXCEPT !.stored = image, !.planned = TRUE, !.faults = @ - 1]
        PROVE  Untouched(s, t) /\ t.pub = s.pub
      BY <1>1, <1>5 DEF Untouched, Shape, Fields
  <1> QED
      BY <1>2, <1>3, <1>4, <1>5

\* The application's calls.
LEMMA CallTouches ==
    ASSUME NEW s, Shape(s), NEW c \in Calls, c.op # "reboot"
    PROVE  Untouched(s, CallResult(s, c))
  <1>0. c.op \in {"pub", "clear", "pairing_request", "pairing_mode", "automatic_pairing",
                  "add", "remove", "purge", "listen", "rx_after_ack"}
      BY DEF Calls
  <1>1. CASE c.op = "pub"
    <2> DEFINE t == QueuePut(s, c.message)
    <2>1. Untouched(s, t)
        BY QueuePutTouches
    <2>2. CallResult(s, c) = [t EXCEPT !.planned = @ \/ Len(s.pub) < PubCapacity]
        BY <1>1 DEF CallResult
    <2> HIDE DEF t
    <2> QED
        BY <2>1, <2>2 DEF Untouched, Shape, Fields
  <1>2. CASE c.op = "listen"
    <2> DEFINE t == OpenWindow(s)
    <2>1. Untouched(s, t)
        BY WindowTouches
    <2>2. CallResult(s, c) = [t EXCEPT !.planned = TRUE]
        BY <1>2 DEF CallResult
    <2> HIDE DEF t
    <2> QED
        BY <2>1, <2>2 DEF Untouched, Shape, Fields
  <1>3. CASE c.op = "add"
      BY <1>3, PublicAddTouches DEF CallResult
  <1>4. CASE c.op = "remove"
      BY <1>4, PublicRemoveTouches DEF CallResult
  <1>5. CASE c.op = "purge"
      BY <1>5, PurgeTouches DEF CallResult
  <1>6. CASE c.op = "clear"
      BY <1>6 DEF CallResult, Untouched, Shape, Fields
  <1>7. CASE c.op = "pairing_request"
      BY <1>7 DEF CallResult, Untouched, Shape, Fields
  <1>8. CASE c.op = "pairing_mode"
      BY <1>8 DEF CallResult, Untouched, Shape, Fields
  <1>9. CASE c.op = "automatic_pairing"
      BY <1>9 DEF CallResult, Untouched, Shape, Fields
  <1>10. CASE c.op = "rx_after_ack"
      BY <1>10 DEF CallResult, Untouched, Shape, Fields
  <1> QED
      BY <1>0, <1>1, <1>2, <1>3, <1>4, <1>5, <1>6, <1>7, <1>8, <1>9, <1>10

\* A station that starts.
LEMMA BootedOK ==
    ASSUME NEW id, NEW mode, NEW stored
    PROVE  LinkOK(Booted(id, mode, stored)) /\ Booted(id, mode, stored).serial = id
  <1> DEFINE known == Load(stored)
             s == [serial |-> id, identified |-> FALSE, mode |-> mode, stored |-> stored, save |-> FALSE,
     boots |-> 0, faults |-> 0, state |-> "sleep", message_id |-> 0, count |-> 0, ack |-> FALSE,
     tx |-> Nothing, cache |-> Nothing, cached_count |-> 0,
     peers |-> [i \in 1..MAX_DEVICES |->
                  [id |-> IF i <= Len(known) THEN known[i] ELSE NoId,
                   mid |-> 0, synced |-> FALSE]],
     length |-> Len(known),
     pairing_request |-> FALSE, fits |-> TRUE, left |-> FALSE, pairing_mode |-> FALSE, automatic_pairing |-> FALSE,
     subs |-> 0, sent_subs |-> 0, pub |-> <<>>, rxq |-> <<>>,
     timeout |-> "never", late |-> FALSE, window |-> FALSE, rx_after_ack |-> FALSE,
     planned |-> FALSE,
     desired |-> "sleep", current |-> "init", received |-> Nothing, sent |-> FALSE,
     expired |-> FALSE,
     aired |-> 0, heard |-> <<>>, done |-> {}]
  <1>1. Booted(id, mode, stored) = GoToRxOrSleep(s)
      BY DEF Booted
  <1>2. /\ Shape(s) /\ s.count = 0 /\ s.cached_count = 0 /\ s.aired = 0 /\ s.state = "sleep"
        /\ s.current = "init" /\ s.serial = id
      BY DEF Shape, Fields
  <1> HIDE DEF s
  <1>3. RadioOK(s)
      BY <1>2, CountAssumption DEF RadioOK, RadioStates
  <1>4. After(s, GoToRxOrSleep(s))
      BY <1>3, IdleAfter
  <1> QED
      BY <1>1, <1>2, <1>4, LinkIsHand DEF After

-------------------------------------------------------------------------------
(***************************************************************************)
(* The link, over the actions of the network.                              *)
(***************************************************************************)
\* A station of the network.
StationOK(n) == LinkOK(node[n]) /\ node[n].serial = n

Linked == DOMAIN node = Stations /\ \A m \in Stations : StationOK(m)

\* A station hears a packet.
LEMMA HearsUntouched ==
    ASSUME NEW s, Shape(s), NEW f
    PROVE  Untouched(s, [s EXCEPT !.received = f])
  BY DEF Untouched, Shape, Fields

\* A packet has left the antenna.
LEMMA SentOK ==
    ASSUME NEW s, LinkOK(s), s.current = "tx", ~s.sent,
           NEW a, a = IF s.tx.kind \in AckKinds THEN s.aired ELSE s.aired + 1
    PROVE  /\ LinkOK([s EXCEPT !.sent = TRUE, !.aired = a])
           /\ [s EXCEPT !.sent = TRUE, !.aired = a].serial = s.serial
  <1> DEFINE t == [s EXCEPT !.sent = TRUE, !.aired = a]
  <1>1. /\ Shape(t) /\ t.serial = s.serial /\ t.message_id = s.message_id /\ t.state = s.state
        /\ t.count = s.count /\ t.cached_count = s.cached_count /\ t.aired = a
        /\ t.tx = s.tx /\ t.cache = s.cache
        /\ t.desired = s.desired /\ t.current = s.current /\ t.sent = TRUE
      BY DEF LinkOK, RadioOK, Shape, Fields
  <1> HIDE DEF t
  <1>2. Out(s) = 0 /\ Out(t) = 1
      BY <1>1 DEF Out
  <1>3. s.state \in {"tx", "rxack", "txack"}
      BY DEF LinkOK, RadioOK, SpiritOK, Agree, Heading, RadioStates
  <1>4. CASE s.state = "tx"
    <2>1. s.tx.kind \notin AckKinds /\ s.count >= 1 /\ s.aired + s.count <= TX_MAX_COUNT
        BY <1>2, <1>4, CountAssumption DEF LinkOK, RadioOK, SpiritOK, Mine
    <2>2. t.aired = s.aired + 1
        BY <1>1, <2>1
    <2>3. t.aired \in 0..TX_MAX_COUNT /\ t.aired + t.count <= TX_MAX_COUNT + 1
        BY <1>1, <2>1, <2>2, CountAssumption DEF LinkOK, RadioOK
    <2>4. RadioOK(t)
        BY <1>1, <1>4, <2>3 DEF LinkOK, RadioOK, Mine
    <2>5. SpiritOK(t)
        BY <1>1, <1>2, <1>4, <2>3 DEF LinkOK, SpiritOK, Agree
    <2> QED
        BY <1>1, <2>4, <2>5 DEF LinkOK, t
  <1>5. CASE s.state \in {"rxack", "txack"}
    <2>1. t.aired = s.aired
        BY <1>1, <1>5 DEF LinkOK, RadioOK
    <2>2. RadioOK(t)
        BY <1>1, <1>5, <2>1 DEF LinkOK, RadioOK, Mine
    <2>3. SpiritOK(t)
        BY <1>1, <1>5, <2>1 DEF LinkOK, SpiritOK, Agree
    <2> QED
        BY <1>1, <2>2, <2>3 DEF LinkOK, t
  <1> QED
      BY <1>3, <1>4, <1>5

\* An action that changes one station.
LEMMA OneStation ==
    ASSUME DOMAIN node = Stations, NEW n \in Stations, NEW t,
           node' = [node EXCEPT ![n] = t],
           \A m \in Stations : StationOK(m),
           LinkOK(t), t.serial = n
    PROVE  /\ DOMAIN node' = Stations
           /\ \A m \in Stations : StationOK(m)'
  BY DEF StationOK

LEMMA TransmitLinked ==
    ASSUME Linked, NEW n \in Stations, Transmit(n)
    PROVE  Linked'
  <1> DEFINE a == IF node[n].tx.kind \in AckKinds THEN node[n].aired ELSE node[n].aired + 1
             sender == [node[n] EXCEPT !.sent = TRUE, !.aired = a]
  <1>1. PICK hearers \in SUBSET {m \in Stations \ {n} :
                        node[m].current = "rx" /\ node[m].received = Nothing} :
        node' = [m \in Stations |->
            CASE m \in hearers -> [node[m] EXCEPT !.received = node[n].tx]
              [] m = n -> [node[n] EXCEPT !.sent = TRUE,
                             !.aired = IF node[n].tx.kind \in AckKinds THEN @ ELSE @ + 1]
              [] OTHER -> node[m]]
      BY DEF Transmit
  <1>2. [node[n] EXCEPT !.sent = TRUE,
                        !.aired = IF node[n].tx.kind \in AckKinds THEN @ ELSE @ + 1] = sender
      OBVIOUS
  <1>3. node[n].current = "tx" /\ ~node[n].sent /\ n \notin hearers
      BY <1>1 DEF Transmit
  <1>4. LinkOK(sender) /\ sender.serial = node[n].serial
    <2> DEFINE b == a
    <2>1. LinkOK(node[n])
        BY DEF Linked, StationOK
    <2>2. b = IF node[n].tx.kind \in AckKinds THEN node[n].aired ELSE node[n].aired + 1
        OBVIOUS
    <2> HIDE DEF b
    <2> QED
        BY <1>3, <2>1, <2>2, SentOK DEF b
  <1> HIDE DEF sender
  <1>5. ASSUME NEW m \in Stations
        PROVE  LinkOK(node'[m]) /\ node'[m].serial = m
    <2>1. LinkOK(node[m]) /\ node[m].serial = m
        BY DEF Linked, StationOK
    <2>2. CASE m \in hearers
      <3>1. node'[m] = [node[m] EXCEPT !.received = node[n].tx]
          BY <1>1, <2>2
      <3>0. Shape(node[m])
          BY <2>1 DEF LinkOK, RadioOK
      <3>2. Untouched(node[m], node'[m])
          BY <3>0, <3>1, HearsUntouched
      <3> QED
          BY <2>1, <3>2, UntouchedOK DEF Untouched
    <2>3. CASE m = n
      <3>0. m \notin hearers
          BY <1>3, <2>3
      <3>1. node'[m] = sender
          BY <1>1, <1>2, <2>3, <3>0
      <3> QED
          BY <1>4, <2>1, <2>3, <3>1
    <2>4. CASE m \notin hearers /\ m # n
      <3>1. node'[m] = node[m]
          BY <1>1, <2>4
      <3> QED
          BY <2>1, <3>1
    <2> QED
        BY <2>2, <2>3, <2>4
  <1>6. DOMAIN node' = Stations
      BY <1>1
  <1> QED
      BY <1>5, <1>6 DEF Linked, StationOK

\* Time passes, for a station and for the chip with its serial number.
Time(n) == Deadline(n) \/ Expire(n) \/ CloseWindow(n) \/ ReadSerial(n)

LEMMA TimeLinked ==
    ASSUME Linked, NEW n \in Stations, Time(n)
    PROVE  Linked'
  <1>1. PICK t : /\ node' = [node EXCEPT ![n] = t]
                 /\ Untouched(node[n], t)
    <2> DEFINE late == [node[n] EXCEPT !.late = TRUE, !.window = @ /\ node[n].timeout # "window"]
               expired == [node[n] EXCEPT !.expired = TRUE]
               closed == [node[n] EXCEPT !.window = FALSE]
               named == [node[n] EXCEPT !.identified = TRUE]
    <2>1. Shape(node[n])
        BY DEF Linked, StationOK, LinkOK, RadioOK
    <2>2. /\ Untouched(node[n], late) /\ Untouched(node[n], expired)
          /\ Untouched(node[n], closed) /\ Untouched(node[n], named)
        BY <2>1 DEF Untouched, Shape, Fields
    <2>3. CASE Deadline(n)
      <3>1. node' = [node EXCEPT ![n] = late]
          BY <2>3 DEF Deadline, Linked
      <3> QED
          BY <2>2, <3>1
    <2>4. CASE Expire(n)
      <3>1. node' = [node EXCEPT ![n] = expired]
          BY <2>4 DEF Expire, Linked
      <3> QED
          BY <2>2, <3>1
    <2>5. CASE CloseWindow(n)
      <3>1. node' = [node EXCEPT ![n] = closed]
          BY <2>5 DEF CloseWindow, Linked
      <3> QED
          BY <2>2, <3>1
    <2>6. CASE ReadSerial(n)
      <3>1. node' = [node EXCEPT ![n] = named]
          BY <2>6 DEF ReadSerial, Linked
      <3> QED
          BY <2>2, <3>1
    <2> QED
        BY <2>3, <2>4, <2>5, <2>6 DEF Time
  <1>2. LinkOK(t) /\ t.serial = n
      BY <1>1, UntouchedOK DEF Linked, StationOK, Untouched
  <1> QED
      BY <1>1, <1>2, OneStation DEF Linked

LEMMA TasksLinked ==
    ASSUME Linked, NEW n \in Stations, node[n].pub \in Seq(Publications),
           SpiritTask(n) \/ RadioTask(n)
    PROVE  Linked'
  <1>1. LinkOK(node[n]) /\ node[n].serial = n
      BY DEF Linked, StationOK
  <1>2. CASE SpiritTask(n)
    <2> DEFINE t == SpiritRun(node[n])
    <2>1. node' = [node EXCEPT ![n] = t]
        BY <1>2 DEF SpiritTask
    <2>2. LinkOK(t) /\ t.serial = n
        BY <1>1, SpiritRunOK
    <2> HIDE DEF t
    <2> QED
        BY <2>1, <2>2, OneStation DEF Linked
  <1>3. CASE RadioTask(n)
    <2>1. PICK s \in AfterSave(node[n]) : node' = [node EXCEPT ![n] = RadioRun(s)]
        BY <1>3 DEF RadioTask
    <2> DEFINE t == RadioRun(s)
    <2>2. Untouched(node[n], s) /\ s.pub = node[n].pub
        BY <1>1, AfterSaveTouches DEF LinkOK, RadioOK
    <2>3. LinkOK(s) /\ s.serial = n /\ s.state = node[n].state
        BY <1>1, <2>2, UntouchedOK DEF Untouched
    <2>4. s.current # "tx"
        BY <1>3, <2>3 DEF RadioTask, Idle, LinkOK, SpiritOK, Agree, Heading
    <2>5. HandOK(s)
        BY <2>3, <2>4, LinkIsHand
    <2>6. After(s, t)
        BY <2>2, <2>5, RadioRunAfter
    <2>7. LinkOK(t) /\ t.serial = n
        BY <2>3, <2>4, <2>6, LinkIsHand DEF After
    <2>8. node' = [node EXCEPT ![n] = t]
        BY <2>1
    <2> HIDE DEF t
    <2> QED
        BY <2>7, <2>8, OneStation DEF Linked
  <1> QED
      BY <1>2, <1>3

LEMMA CallLinked ==
    ASSUME Linked, NEW n \in Stations, todo[n] \in Seq(Calls), Call(n)
    PROVE  Linked'
  <1> DEFINE c == Head(todo[n])
             t == CallResult(node[n], c)
  <1>1. c \in Calls /\ c.op # "reboot"
      BY HeadTailProperties DEF Call
  <1>2. LinkOK(node[n]) /\ node[n].serial = n
      BY DEF Linked, StationOK
  <1>3. node' = [node EXCEPT ![n] = t]
      BY DEF Call
  <1> HIDE DEF c
  <1>4. Untouched(node[n], t)
      BY <1>1, <1>2, CallTouches DEF LinkOK, RadioOK
  <1> HIDE DEF t
  <1>5. LinkOK(t) /\ t.serial = n
      BY <1>2, <1>4, UntouchedOK DEF Untouched
  <1> QED
      BY <1>3, <1>5, OneStation DEF Linked

LEMMA RebootLinked ==
    ASSUME Linked, NEW n \in Stations, Reboot(n)
    PROVE  Linked'
  <1>1. PICK image, repair :
        node' = [node EXCEPT ![n] =
            [Booted(n, @.mode, image) EXCEPT
                !.subs = node[n].subs, !.faults = node[n].faults, !.save = repair,
                !.boots = node[n].boots + 1,
                !.heard = Append(node[n].heard, Nothing), !.done = node[n].done]]
      BY DEF Reboot
  <1> DEFINE b == Booted(n, node[n].mode, image)
             t == [b EXCEPT
                !.subs = node[n].subs, !.faults = node[n].faults, !.save = repair,
                !.boots = node[n].boots + 1,
                !.heard = Append(node[n].heard, Nothing), !.done = node[n].done]
  <1>2. node' = [node EXCEPT ![n] = t]
      BY <1>1 DEF Linked
  <1>3. LinkOK(b) /\ b.serial = n
      BY BootedOK
  <1> HIDE DEF b
  <1>4. Untouched(b, t)
      BY <1>3 DEF LinkOK, RadioOK, Untouched, Shape, Fields
  <1> HIDE DEF t
  <1>5. LinkOK(t) /\ t.serial = n
      BY <1>3, <1>4, UntouchedOK DEF Untouched
  <1> QED
      BY <1>2, <1>5, OneStation DEF Linked

LEMMA InitLinked == Init => Linked
  <1> SUFFICES ASSUME Init PROVE Linked
      OBVIOUS
  <1>1. PICK scenario \in Scenarios :
        node = [n \in Stations |->
             [Booted(n, scenario[n].mode,
                     [slots |-> [i \in 1..MAX_DEVICES |->
                                    IF i <= Len(scenario[n].known)
                                    THEN scenario[n].known[i] ELSE NoId],
                      length |-> Len(scenario[n].known)])
                EXCEPT !.identified = scenario[n].identified,
                       !.subs = scenario[n].subs, !.faults = scenario[n].faults]]
      BY DEF Init
  <1>2. ASSUME NEW n \in Stations
        PROVE  StationOK(n)
    <2> DEFINE b == Booted(n, scenario[n].mode,
                     [slots |-> [i \in 1..MAX_DEVICES |->
                                    IF i <= Len(scenario[n].known)
                                    THEN scenario[n].known[i] ELSE NoId],
                      length |-> Len(scenario[n].known)])
               t == [b EXCEPT !.identified = scenario[n].identified,
                       !.subs = scenario[n].subs, !.faults = scenario[n].faults]
    <2>1. node[n] = t
        BY <1>1
    <2>2. LinkOK(b) /\ b.serial = n
        BY BootedOK
    <2> HIDE DEF b
    <2>3. Untouched(b, t)
        BY <2>2 DEF LinkOK, RadioOK, Untouched, Shape, Fields
    <2> HIDE DEF t
    <2> QED
        BY <2>1, <2>2, <2>3, UntouchedOK DEF StationOK, Untouched
  <1> QED
      BY <1>1, <1>2 DEF Linked

-------------------------------------------------------------------------------
(***************************************************************************)
(* What a start reads from the EEPROM.                                     *)
(***************************************************************************)
\* Numbers have a least one.
LEMMA LeastOf ==
    ASSUME NEW T \in SUBSET Nat, T # {}
    PROVE  \E m \in T : \A i \in T : m <= i
  <1>1. PICK m \in T : \A i \in T : ~(<<i, m>> \in OpToRel(<, Nat))
      BY NatLessThanWellFounded, WFMin
  <1>2. ASSUME NEW i \in T PROVE ~(i < m)
      BY <1>1 DEF OpToRel
  <1> QED
      BY <1>2

\* The k-th element of a set of indices.
LEMMA KthOf ==
    ASSUME NEW l \in Nat, NEW read \in SUBSET (1..l), NEW k \in 1..Cardinality(read)
    PROVE  \E i \in read : Cardinality({j \in read : j <= i}) = k
  <1> DEFINE upto(m) == {j \in read : j <= m}
             T == {m \in 0..l : Cardinality(upto(m)) >= k}
  <1>0. \A j \in read : j \in Nat /\ 1 <= j /\ j <= l
      OBVIOUS
  <1>1. IsFiniteSet(read) /\ Cardinality(read) \in Nat
    <2>1. IsFiniteSet(1..l)
        BY FS_Interval
    <2> QED
        BY <2>1, FS_Subset, FS_CardinalityType
  <1>2. ASSUME NEW m \in Nat PROVE IsFiniteSet(upto(m)) /\ Cardinality(upto(m)) \in Nat
    <2>1. upto(m) \in SUBSET read
        OBVIOUS
    <2> HIDE DEF upto
    <2> QED
        BY <1>1, <2>1, FS_Subset, FS_CardinalityType
  <1>3. upto(l) = read /\ upto(0) = {}
    <2>1. \A j \in read : j <= l /\ ~(j <= 0)
        BY <1>0
    <2> QED
        BY <2>1, Zenon
  <1>4. T # {} /\ 0 \notin T
    <2> HIDE DEF upto
    <2>1. l \in T
        BY <1>1, <1>3
    <2>2. Cardinality(upto(0)) = 0
        BY <1>3, FS_EmptySet
    <2> QED
        BY <2>1, <2>2, <1>1
  <1>5. PICK m \in T : \A i \in T : m <= i
    <2>1. T \in SUBSET Nat
        OBVIOUS
    <2> HIDE DEF T
    <2> QED
        BY <1>4, <2>1, LeastOf
  <1>6. m \in 1..l /\ m - 1 \in 0..l /\ m - 1 \notin T
    <2>1. m \in 0..l
        OBVIOUS
    <2> HIDE DEF T
    <2> QED
        BY <1>4, <1>5, <2>1
  <1>7. Cardinality(upto(m)) >= k /\ Cardinality(upto(m - 1)) < k
    <2> HIDE DEF upto
    <2> QED
        BY <1>1, <1>2, <1>5, <1>6
  <1>8. upto(m) = IF m \in read THEN upto(m - 1) \cup {m} ELSE upto(m - 1)
    <2>1. \A j \in read : j <= m <=> j <= m - 1 \/ j = m
        BY <1>0, <1>6
    <2> QED
        BY <1>6, <2>1, Zenon
  <1>9. m \notin upto(m - 1)
      BY <1>6
  <1> HIDE DEF upto
  <1>10. m \in read
      BY <1>1, <1>7, <1>8, <1>2, <1>6
  <1>11. Cardinality(upto(m)) = Cardinality(upto(m - 1)) + 1
    <2>1. IsFiniteSet(upto(m - 1)) /\ upto(m) = upto(m - 1) \cup {m}
        BY <1>2, <1>6, <1>8, <1>10
    <2> QED
        BY <1>9, <2>1, FS_AddElement
  <1>12. Cardinality(upto(m)) = k
      BY <1>1, <1>2, <1>6, <1>7, <1>11
  <1> QED
      BY <1>10, <1>12 DEF upto

\* What the memory may hold.  The last slot is never written.
StoredOK(stored) ==
    /\ stored.length \in 0..MAX_DEVICES
    /\ DOMAIN stored.slots = 1..MAX_DEVICES
    /\ \A i \in 1..MAX_DEVICES : stored.slots[i] \in Identities \cup {NoId}
    /\ stored.slots[MAX_DEVICES] = NoId

\* A start reads fewer peers than the table has room for, and all of them peers.
LEMMA LoadTyped ==
    ASSUME NEW stored, StoredOK(stored)
    PROVE  /\ Load(stored) \in Seq(Identities)
           /\ Len(Load(stored)) \in 0..MAX_DEVICES - 1
           /\ Load(stored) = [k \in 1..Len(Load(stored)) |-> Load(stored)[k]]
  <1> DEFINE read == {i \in 1..stored.length : stored.slots[i] # NoId}
             kth(k) == CHOOSE i \in read : Cardinality({j \in read : j <= i}) = k
  <1>1. Load(stored) = [k \in 1..Cardinality(read) |-> stored.slots[kth(k)]]
      BY DEF Load
  <1>2. MAX_DEVICES - 1 \in Nat /\ MAX_DEVICES \in Nat
      BY CountAssumption
  <1>3. read \in SUBSET (1..MAX_DEVICES - 1)
      BY <1>2 DEF StoredOK
  <1>4. \A i \in read : stored.slots[i] \in Identities
      BY <1>2 DEF StoredOK
  <1> HIDE DEF read
  <1>5. Cardinality(read) \in Nat /\ Cardinality(read) <= MAX_DEVICES - 1
    <2>1. IsFiniteSet(1..MAX_DEVICES - 1) /\ Cardinality(1..MAX_DEVICES - 1) = MAX_DEVICES - 1
        BY <1>2, FS_Interval
    <2> QED
        BY <1>3, <2>1, FS_Subset, FS_CardinalityType
  <1>6. ASSUME NEW k \in 1..Cardinality(read)
        PROVE  stored.slots[kth(k)] \in Identities
    <2>1. \E i \in read : Cardinality({j \in read : j <= i}) = k
        BY <1>2, <1>3, KthOf
    <2>2. kth(k) \in read
        BY <2>1
    <2> HIDE DEF kth
    <2> QED
        BY <1>4, <2>2
  <1> HIDE DEF kth
  <1>7. Load(stored) \in [1..Cardinality(read) -> Identities]
      BY <1>1, <1>6
  <1>8. Load(stored) \in Seq(Identities) /\ Len(Load(stored)) = Cardinality(read)
      BY <1>5, <1>7
  <1> QED
      BY <1>1, <1>2, <1>5, <1>8

\* A table of which at most the first entry cannot be read is read from there on.
LEMMA LoadWhole ==
    ASSUME NEW stored, stored.length \in Nat, NEW b \in {0, 1}, b <= stored.length,
           \A i \in 1..stored.length : stored.slots[i] # NoId <=> i > b
    PROVE  Load(stored) = [k \in 1..stored.length - b |-> stored.slots[k + b]]
  <1> DEFINE l == stored.length
             read == {i \in 1..l : stored.slots[i] # NoId}
             kth(k) == CHOOSE i \in read : Cardinality({j \in read : j <= i}) = k
  <1>1. Load(stored) = [k \in 1..Cardinality(read) |-> stored.slots[kth(k)]]
      BY DEF Load
  <1>2. read = b + 1..l
      OBVIOUS
  <1>3. Cardinality(read) = l - b
    <2>1. b + 1 \in Int /\ l \in Int
        OBVIOUS
    <2>2. Cardinality(b + 1..l) = IF b + 1 > l THEN 0 ELSE l - (b + 1) + 1
        BY <2>1, FS_Interval
    <2>3. Cardinality(b + 1..l) = l - b
        BY <2>1, <2>2
    <2> QED
        BY <1>2, <2>3
  <1>4. ASSUME NEW i \in read
        PROVE  Cardinality({j \in read : j <= i}) = i - b
    <2>1. {j \in read : j <= i} = b + 1..i /\ i \in Nat /\ i >= b + 1
        BY <1>2
    <2>2. Cardinality(b + 1..i) = i - b
        BY <2>1, FS_Interval
    <2> HIDE DEF read
    <2> QED
        BY <2>1, <2>2
  <1> HIDE DEF read
  <1>5. ASSUME NEW k \in 1..l - b
        PROVE  kth(k) = k + b
    <2>1. k + b \in read
        BY <1>2
    <2>2. \A i \in read : Cardinality({j \in read : j <= i}) = k <=> i = k + b
      <3> TAKE i \in read
      <3>1. i \in Int
          BY <1>2
      <3> QED
          BY <1>4, <3>1
    <2> QED
        BY <2>1, <2>2
  <1> HIDE DEF kth
  <1> QED
      BY <1>1, <1>3, <1>5

-------------------------------------------------------------------------------
(***************************************************************************)
(* The peer table and its copy in the EEPROM, handler by handler.          *)
(***************************************************************************)
\* What is on the air names stations of the network, or a gateway that does not
\* know its name.
FrameOK(f) == f = Nothing \/ (f.from \in Identities /\ (f.kind = "ackpair" => f.to \in Identities \cup {NoId}))

\* Who may be in a slot: only the first may be nobody.
PeerOK(i, id) == id \in Identities \/ (i = 1 /\ id = NoId)

\* A well-formed table with so many peers.
PeersOK(peers, length) ==
    /\ DOMAIN peers = 1..MAX_DEVICES
    /\ \A i \in 1..MAX_DEVICES : DOMAIN peers[i] = {"id", "mid", "synced"}
    /\ length \in 0..MAX_DEVICES - 1
    /\ \A i \in 1..length : PeerOK(i, peers[i].id)

\* The peers in use, without a peer 0.
InUse(s) == SubSeq(Ids(s), 1 + Nobody(s), s.length)

\* They are the ones from the first that has an identity.
LEMMA InUseIs ==
    ASSUME NEW s, PeersOK(s.peers, s.length)
    PROVE  /\ Nobody(s) \in {0, 1} /\ Nobody(s) <= s.length
           /\ \A i \in 1..s.length : s.peers[i].id # NoId <=> i > Nobody(s)
           /\ InUse(s) = [k \in 1..s.length - Nobody(s) |-> s.peers[k + Nobody(s)].id]
  <1> DEFINE l == s.length
             b == Nobody(s)
             u == [k \in 1..l - b |-> s.peers[k + b].id]
             S == Identities \cup {NoId}
  <1>1. l \in Nat /\ \A i \in 1..l : PeerOK(i, s.peers[i].id)
      BY CountAssumption DEF PeersOK
  <1>2. b \in {0, 1} /\ b <= l /\ \A i \in 1..l : s.peers[i].id # NoId <=> i > b
    <2>1. b = 1 <=> l > 0 /\ s.peers[1].id = NoId
        BY DEF Nobody
    <2>2. b \in {0, 1}
        BY DEF Nobody
    <2> QED
        BY <1>1, <2>1, <2>2, IdAssumption DEF PeerOK
  <1> HIDE DEF b, l
  <1>3. \A i \in b + 1..l : Ids(s)[i] = s.peers[i].id /\ Ids(s)[i] \in S
    <2> TAKE i \in b + 1..l
    <2>1. i \in 1..l
        BY <1>1, <1>2
    <2> QED
        BY <1>1, <2>1 DEF Ids, PeerOK, l
  <1> DEFINE v == SubSeq(Ids(s), b + 1, l)
  <1>4. /\ v \in Seq(S) /\ Len(v) = l - b
        /\ \A k \in 1..l - b : v[k] = Ids(s)[b + 1 + k - 1]
    <2> HIDE DEF S
    <2>1. b + 1 \in Int /\ l \in Int /\ l - (b + 1) + 1 = l - b
          /\ (IF b + 1 <= l THEN l - (b + 1) + 1 ELSE 0) = l - b
        BY <1>1, <1>2
    <2>2. \A i \in b + 1..l : Ids(s)[i] \in S
        BY <1>3
    <2>3. /\ v \in Seq(S)
          /\ Len(v) = IF b + 1 <= l THEN l - (b + 1) + 1 ELSE 0
          /\ \A k \in 1..l - (b + 1) + 1 : v[k] = Ids(s)[b + 1 + k - 1]
        BY <2>1, <2>2, SubSeqProperties
    <2> HIDE DEF v
    <2> QED
        BY <2>1, <2>3
  <1>5. \A k \in 1..l - b : v[k] = s.peers[k + b].id
    <2> TAKE k \in 1..l - b
    <2>1. b + 1 + k - 1 = k + b /\ k + b \in b + 1..l
        BY <1>1, <1>2
    <2> HIDE DEF v
    <2> QED
        BY <1>3, <1>4, <2>1
  <1>6. v = u
    <2>1. v = [k \in 1..Len(v) |-> v[k]]
        BY <1>4
    <2> HIDE DEF v
    <2> QED
        BY <1>4, <1>5, <2>1
  <1>7. InUse(s) = v
    <2>1. b + 1 = 1 + b
        BY <1>2
    <2> QED
        BY <2>1 DEF InUse, b, l
  <1> HIDE DEF v
  <1> QED
      BY <1>2, <1>6, <1>7 DEF b, l

\* A station's table, and the copy of it that a start would load.
TableOK(s) ==
    /\ Shape(s)
    /\ s.serial \in Identities
    /\ s.pub \in Seq(Publications)
    /\ FrameOK(s.tx) /\ FrameOK(s.cache) /\ FrameOK(s.received)
    /\ PeersOK(s.peers, s.length)
    /\ StoredOK(s.stored)
    /\ ~s.save => Load(s.stored) = InUse(s)

\* Nothing of the table has changed.
Kept(s, t) ==
    /\ Shape(t)
    /\ t.serial = s.serial /\ t.pub = s.pub
    /\ t.tx = s.tx /\ t.cache = s.cache /\ t.received = s.received
    /\ t.peers = s.peers /\ t.length = s.length /\ t.stored = s.stored /\ t.save = s.save

\* Changing other fields keeps the table.
LEMMA KeptOK == ASSUME NEW s, NEW t, TableOK(s), Kept(s, t) PROVE TableOK(t)
  BY DEF TableOK, Kept, InUse, Ids, Nobody

\* The table has changed, and a save is to be made.
LEMMA ChangedOK ==
    ASSUME NEW s, NEW t, TableOK(s), Shape(t), t.serial = s.serial, t.pub = s.pub,
           t.tx = s.tx, t.cache = s.cache, t.received = s.received, t.stored = s.stored,
           PeersOK(t.peers, t.length), t.save
    PROVE  TableOK(t)
  BY DEF TableOK

\* What is kept with a peer has changed, but not who it is.
LEMMA NotedOK ==
    ASSUME NEW s, NEW t, TableOK(s), Shape(t), t.serial = s.serial, t.pub = s.pub,
           t.tx = s.tx, t.cache = s.cache, t.received = s.received, t.stored = s.stored,
           t.length = s.length, t.save = s.save,
           DOMAIN t.peers = DOMAIN s.peers,
           \A i \in 1..MAX_DEVICES : DOMAIN t.peers[i] = DOMAIN s.peers[i]
                                     /\ t.peers[i].id = s.peers[i].id
    PROVE  TableOK(t)
  <1>1. 1..s.length \subseteq 1..MAX_DEVICES
      BY CountAssumption DEF TableOK, PeersOK
  <1>2. PeersOK(t.peers, t.length)
      BY <1>1 DEF TableOK, PeersOK
  <1>3. InUse(t) = InUse(s)
    <2>1. Ids(t) = Ids(s)
        BY <1>1 DEF Ids
    <2>2. s.length > 0 => 1 \in 1..MAX_DEVICES
        BY <1>1 DEF TableOK, PeersOK
    <2>3. Nobody(t) = Nobody(s)
        BY <2>2 DEF Nobody
    <2> QED
        BY <2>1, <2>3 DEF InUse
  <1> QED
      BY <1>2, <1>3 DEF TableOK

\* A peer is added.
LEMMA PeerAddTable ==
    ASSUME NEW s, TableOK(s), NEW id \in Identities, s.length + 1 # MAX_DEVICES
    PROVE  TableOK(PeerAdd(s, id))
  <1> DEFINE k == s.length + 1
             p == [[s.peers EXCEPT ![k].id = id] EXCEPT ![k].synced = FALSE]
             t == PeerAdd(s, id)
  <1>1. /\ Shape(t) /\ t.serial = s.serial /\ t.pub = s.pub
        /\ t.tx = s.tx /\ t.cache = s.cache /\ t.received = s.received /\ t.stored = s.stored
        /\ t.save /\ t.length = k /\ t.peers = p
      BY DEF PeerAdd, TableOK, Shape, Fields
  <1>2. k \in 1..MAX_DEVICES - 1 /\ MAX_DEVICES \in Nat /\ s.length \in Nat
      BY CountAssumption DEF TableOK, PeersOK
  <1>3. DOMAIN p = 1..MAX_DEVICES
      BY DEF TableOK, PeersOK
  <1>4. \A i \in 1..MAX_DEVICES : /\ DOMAIN p[i] = {"id", "mid", "synced"}
                                  /\ p[i].id = IF i = k THEN id ELSE s.peers[i].id
      BY DEF TableOK, PeersOK
  <1> HIDE DEF p
  <1>5. \A i \in 1..k : i \in 1..MAX_DEVICES /\ (i = k \/ i \in 1..s.length)
      BY <1>2
  <1>6. \A i \in 1..k : PeerOK(i, p[i].id)
      BY <1>4, <1>5 DEF TableOK, PeersOK, PeerOK
  <1>7. PeersOK(p, k)
      BY <1>2, <1>3, <1>4, <1>6 DEF PeersOK
  <1> HIDE DEF t, k
  <1> QED
      BY <1>1, <1>7, ChangedOK DEF t

\* A peer is removed, the last one moving into its place.
LEMMA PeerRemoveTable ==
    ASSUME NEW s, TableOK(s), NEW id, IsPeer(s, id)
    PROVE  TableOK(PeerRemove(s, id))
  <1> DEFINE i == SlotOf(s, id)
             c == [s.peers EXCEPT ![i].id = NoId]
             p == [c EXCEPT ![i] = c[s.length]]
             t == PeerRemove(s, id)
  <1>1. /\ Shape(t) /\ t.serial = s.serial /\ t.pub = s.pub
        /\ t.tx = s.tx /\ t.cache = s.cache /\ t.received = s.received /\ t.stored = s.stored
        /\ t.save /\ t.length = s.length - 1 /\ t.peers = p
      BY DEF PeerRemove, TableOK, Shape, Fields
  <1>2. s.length \in 1..MAX_DEVICES - 1 /\ MAX_DEVICES \in Nat
      BY CountAssumption DEF TableOK, PeersOK, IsPeer
  <1> HIDE DEF i
  <1>3. /\ DOMAIN c = 1..MAX_DEVICES
        /\ \A j \in 1..MAX_DEVICES : /\ DOMAIN c[j] = {"id", "mid", "synced"}
                                     /\ j # i => c[j].id = s.peers[j].id
      BY DEF TableOK, PeersOK
  <1> HIDE DEF c
  <1>4. /\ DOMAIN p = 1..MAX_DEVICES
        /\ \A j \in 1..MAX_DEVICES : p[j] = IF j = i THEN c[s.length] ELSE c[j]
      BY <1>3
  <1> HIDE DEF p
  <1>5. ASSUME NEW j \in 1..s.length - 1
        PROVE  PeerOK(j, p[j].id)
    <2>1. j \in 1..MAX_DEVICES /\ j \in 1..s.length /\ s.length \in 1..MAX_DEVICES /\ j # s.length
          /\ s.length \in 1..s.length
        BY <1>2
    <2>2. PeerOK(j, s.peers[j].id) /\ s.peers[s.length].id \in Identities
      <3>1. s.length # 1
          BY <1>2
      <3> QED
          BY <2>1, <3>1 DEF TableOK, PeersOK, PeerOK
    <2>3. CASE j = i
        BY <1>3, <1>4, <2>1, <2>2, <2>3 DEF PeerOK
    <2>4. CASE j # i
        BY <1>3, <1>4, <2>1, <2>2, <2>4
    <2> QED
        BY <2>3, <2>4
  <1>6. PeersOK(p, s.length - 1)
    <2>1. s.length - 1 \in 0..MAX_DEVICES - 1 /\ s.length \in 1..MAX_DEVICES
        BY <1>2
    <2>2. \A j \in 1..MAX_DEVICES : DOMAIN p[j] = {"id", "mid", "synced"}
        BY <1>3, <1>4, <2>1
    <2> QED
        BY <1>4, <1>5, <2>1, <2>2 DEF PeersOK
  <1> HIDE DEF t
  <1> QED
      BY <1>1, <1>6, ChangedOK DEF t

LEMMA QueuePutTable ==
    ASSUME NEW s, TableOK(s), NEW m \in Publications
    PROVE  TableOK(QueuePut(s, m))
  <1> DEFINE q == Append(s.pub, m)
             t == [s EXCEPT !.pub = q]
  <1>1. q \in Seq(Publications)
      BY DEF TableOK
  <1> HIDE DEF q
  <1>2. TableOK(t)
      BY <1>1 DEF TableOK, Shape, Fields, InUse, Ids, Nobody
  <1>3. QueuePut(s, m) = IF Len(s.pub) < PubCapacity THEN t ELSE s
      BY DEF QueuePut, q
  <1> QED
      BY <1>2, <1>3

\* What a peer is told on attachment and detachment can be published.
LEMMA NoticePublished ==
    \A id \in Identities : /\ Message("attach", id, 0) \in Publications
                           /\ Message("detach", id, 0) \in Publications
  BY DEF Message, Publications

\* The calls of the application on the table.
LEMMA PublicAddTable ==
    ASSUME NEW s, TableOK(s), NEW id \in Identities
    PROVE  TableOK(PublicAdd(s, id))
  <1> DEFINE t == PeerAdd(s, id)
  <1>1. CanAdd(s, id) => TableOK(t)
      BY PeerAddTable DEF CanAdd
  <1>2. PublicAdd(s, id) = IF CanAdd(s, id) THEN QueuePut(t, Message("attach", id, 0)) ELSE s
      BY DEF PublicAdd
  <1> HIDE DEF t
  <1> QED
      BY <1>1, <1>2, NoticePublished, QueuePutTable

LEMMA PublicRemoveTable ==
    ASSUME NEW s, TableOK(s), NEW id \in Identities
    PROVE  TableOK(PublicRemove(s, id))
  <1> DEFINE t == PeerRemove(s, id)
  <1>1. IsPeer(s, id) => TableOK(t)
      BY PeerRemoveTable
  <1>2. PublicRemove(s, id) = IF IsPeer(s, id) THEN QueuePut(t, Message("detach", id, 0)) ELSE s
      BY DEF PublicRemove
  <1> HIDE DEF t
  <1> QED
      BY <1>1, <1>2, NoticePublished, QueuePutTable

LEMMA PurgeTable ==
    ASSUME NEW s, TableOK(s)
    PROVE  TableOK(PurgeAll(s))
  <1> DEFINE b == Nobody(s)
             l == s.length - b
  <1>0. /\ b \in {0, 1} /\ b <= s.length
        /\ \A i \in 1..s.length : s.peers[i].id # NoId <=> i > b
      BY InUseIs DEF TableOK
  <1> HIDE DEF b
  <1>1. CASE s.length = b
      BY <1>1 DEF PurgeAll, b
  <1>2. CASE s.length # b
    <2> DEFINE p == [i \in 1..MAX_DEVICES |-> Purged(s, i)]
               d == [k \in 1..l |-> Message("detach", s.peers[s.length + 1 - k].id, 0)]
               q == SubSeq(d, 1, Min({PubCapacity - Len(s.pub), l}))
               t == [s EXCEPT !.peers = p, !.length = b, !.pub = @ \o q,
                              !.save = TRUE, !.planned = TRUE]
    <2>1. PurgeAll(s) = t
        BY <1>2 DEF PurgeAll, b
    <2>2. /\ s.length \in 1..MAX_DEVICES - 1 /\ MAX_DEVICES \in Nat /\ Len(s.pub) \in Nat
          /\ l \in Nat
        BY <1>0, <1>2, CountAssumption DEF TableOK, PeersOK
    <2>3. d \in Seq(Publications) /\ Len(d) = l
      <3>1. \A k \in 1..l : s.length + 1 - k \in 1..s.length /\ s.length + 1 - k > b
          BY <1>0, <2>2
      <3>2. \A i \in 1..s.length : i > b => s.peers[i].id \in Identities
          BY <1>0 DEF TableOK, PeersOK, PeerOK
      <3>3. \A k \in 1..l : s.peers[s.length + 1 - k].id \in Identities
          BY <3>1, <3>2
      <3> HIDE DEF l
      <3>4. \A k \in 1..l : d[k] \in Publications
          BY <3>3, NoticePublished
      <3> HIDE DEF d
      <3>5. d \in [1..l -> Publications]
          BY <3>4 DEF d
      <3> QED
          BY <2>2, <3>5
    <2> HIDE DEF l
    <2> HIDE DEF d
    <2>4. q \in Seq(Publications)
      <3> DEFINE m == Min({PubCapacity - Len(s.pub), l})
      <3>1. m \in Int /\ m <= l
        <4>1. PubCapacity - Len(s.pub) \in Int /\ l \in Int
            BY <2>2, CountAssumption
        <4>2. \E x \in {PubCapacity - Len(s.pub), l} :
                 \A y \in {PubCapacity - Len(s.pub), l} : x <= y
            BY <4>1
        <4>3. /\ m \in {PubCapacity - Len(s.pub), l}
              /\ \A y \in {PubCapacity - Len(s.pub), l} : m <= y
            BY <4>2, Zenon DEF Min
        <4> QED
            BY <4>1, <4>3
      <3> HIDE DEF m
      <3>2. SubSeq(d, 1, m) \in Seq(Publications)
          BY <2>2, <2>3, <3>1
      <3> QED
          BY <3>2 DEF m
    <2> HIDE DEF q
    <2>5. ASSUME NEW i \in 1..MAX_DEVICES
          PROVE  DOMAIN p[i] = {"id", "mid", "synced"}
      <3> DEFINE later == {j \in i + 1..s.length : s.peers[j].id = s.peers[i].id}
      <3>1. p[i] = s.peers[i]
            \/ p[i] = [s.peers[IF later = {} THEN i ELSE Min(later)] EXCEPT !.id = NoId]
          BY DEF Purged
      <3>2. later # {} => Min(later) \in 1..MAX_DEVICES
        <4>1. later \in SUBSET Nat /\ later \subseteq 1..MAX_DEVICES
            BY <2>2
        <4> HIDE DEF later
        <4>2. later # {} => \E m \in later : \A j \in later : m <= j
            BY <4>1, LeastOf
        <4> QED
            BY <4>1, <4>2 DEF Min
      <3> HIDE DEF later, p
      <3> QED
          BY <3>1, <3>2 DEF TableOK, PeersOK
    <2>6. PeersOK(p, b)
      <3>1. DOMAIN p = 1..MAX_DEVICES
          OBVIOUS
      <3>2. b = 1 => PeerOK(1, p[1].id)
        <4> SUFFICES ASSUME b = 1 PROVE p[1].id = NoId
            BY DEF PeerOK
        <4>1. s.peers[1].id = NoId /\ 1 \in 1..MAX_DEVICES
            BY <1>0, <2>2
        <4>2. 1..1 - 1 = {}
            OBVIOUS
        <4> DEFINE later == {j \in 1 + 1..s.length : s.peers[j].id = s.peers[1].id}
        <4>3. later = {}
            BY <1>0, <2>2, <4>1
        <4>4. Purged(s, 1) = [s.peers[IF later = {} THEN 1 ELSE Min(later)] EXCEPT !.id = NoId]
            BY <2>2, <4>2 DEF Purged
        <4> HIDE DEF later
        <4>5. p[1] = [s.peers[1] EXCEPT !.id = NoId]
            BY <4>1, <4>3, <4>4
        <4> QED
            BY <2>5, <4>1, <4>5
      <3>3. \A i \in 1..b : i = 1 /\ b = 1
          BY <1>0
      <3>4. b \in 0..MAX_DEVICES - 1
          BY <1>0, <2>2
      <3> HIDE DEF p
      <3> QED
          BY <2>2, <2>5, <3>1, <3>2, <3>3, <3>4 DEF PeersOK
    <2> HIDE DEF p
    <2>7. s.pub \o q \in Seq(Publications)
        BY <2>4 DEF TableOK
    <2>8. /\ Shape(t) /\ t.serial = s.serial /\ t.pub = s.pub \o q
          /\ t.tx = s.tx /\ t.cache = s.cache /\ t.received = s.received
          /\ t.stored = s.stored /\ t.save /\ t.length = b /\ t.peers = p
        BY DEF TableOK, Shape, Fields
    <2> HIDE DEF t
    <2> QED
        BY <2>1, <2>6, <2>7, <2>8 DEF TableOK
  <1> QED
      BY <1>1, <1>2

\* Waiting, sleeping and listening do not touch the table.
LEMMA KeptHelpers ==
    ASSUME NEW s, Shape(s)
    PROVE  /\ Kept(s, Sleep(s)) /\ Kept(s, Listen(s)) /\ Kept(s, WaitForAck(s))
           /\ Kept(s, Retransmit(s)) /\ Kept(s, OpenWindow(s))
  BY DEF Kept, Sleep, Listen, WaitForAck, Retransmit, OpenWindow, Shape, Fields

LEMMA IdleTable == ASSUME NEW s, TableOK(s) PROVE TableOK(GoToRxOrSleep(s))
  BY KeptHelpers, KeptOK DEF GoToRxOrSleep, TableOK

\* A message of the station names the station.
LEMMA StartTxTable ==
    ASSUME NEW s, TableOK(s), NEW kind, kind # "ackpair", NEW to, NEW n
    PROVE  TableOK(StartTx(s, kind, to, n))
  <1> DEFINE f == Frame(s.serial, (s.message_id + 1) % ID_MODULUS, kind, to, n, s.boots)
             t == StartTx(s, kind, to, n)
  <1>1. FrameOK(f)
      BY DEF FrameOK, Frame, TableOK
  <1>2. /\ Shape(t) /\ t.serial = s.serial /\ t.pub = s.pub
        /\ t.tx = f /\ t.cache = s.cache /\ t.received = s.received
        /\ t.peers = s.peers /\ t.length = s.length /\ t.stored = s.stored /\ t.save = s.save
      BY DEF StartTx, TableOK, Shape, Fields
  <1> HIDE DEF f, t
  <1>3. InUse(t) = InUse(s)
      BY <1>2 DEF InUse, Ids, Nobody
  <1>4. TableOK(t)
      BY <1>1, <1>2, <1>3 DEF TableOK
  <1> QED
      BY <1>4 DEF t

\* An acknowledgement names the two stations.
LEMMA SendAckTable ==
    ASSUME NEW s, TableOK(s), NEW heard, heard.from \in Identities, NEW kind
    PROVE  TableOK(SendAck(s, heard, kind))
  <1> DEFINE f == Frame(heard.from, heard.id, kind, MyId(s), 0, 0)
             t == SendAck(s, heard, kind)
  <1>1. FrameOK(f)
    <2>1. MyId(s) \in Identities \cup {NoId}
        BY DEF MyId, TableOK
    <2>2. f.from = heard.from /\ f.to = MyId(s)
        BY DEF Frame
    <2> QED
        BY <2>1, <2>2 DEF FrameOK
  <1>2. /\ Shape(t) /\ t.serial = s.serial /\ t.pub = s.pub
        /\ t.tx \in {f, s.tx} /\ t.cache \in {s.cache, s.tx} /\ t.received = s.received
        /\ t.peers = s.peers /\ t.length = s.length /\ t.stored = s.stored /\ t.save = s.save
      BY DEF SendAck, TableOK, Shape, Fields
  <1> HIDE DEF f, t
  <1>3. InUse(t) = InUse(s)
      BY <1>2 DEF InUse, Ids, Nobody
  <1>4. TableOK(t)
      BY <1>1, <1>2, <1>3 DEF TableOK
  <1> QED
      BY <1>4 DEF t

LEMMA ResumeTable == ASSUME NEW s, TableOK(s) PROVE TableOK(Resume(s))
  <1> DEFINE t == Resume(s)
  <1>1. /\ Shape(t) /\ t.serial = s.serial /\ t.pub = s.pub
        /\ t.tx = s.cache /\ t.cache = s.cache /\ t.received = s.received
        /\ t.peers = s.peers /\ t.length = s.length /\ t.stored = s.stored /\ t.save = s.save
      BY DEF Resume, WaitForAck, TableOK, Shape, Fields
  <1> HIDE DEF t
  <1>2. InUse(t) = InUse(s)
      BY <1>1 DEF InUse, Ids, Nobody
  <1>3. TableOK(t)
      BY <1>1, <1>2 DEF TableOK
  <1> QED
      BY <1>3 DEF t

LEMMA OnTxDoneTable ==
    ASSUME NEW s, TableOK(s)
    PROVE  TableOK(OnTxDone(s))
  <1> DEFINE t == [s EXCEPT !.count = IF @ > 0 THEN @ - 1 ELSE @]
             w == WaitForAck(t)
  <1>1. Kept(s, t)
      BY DEF Kept, TableOK, Shape, Fields
  <1>2. OnTxDone(s) \in {[w EXCEPT !.ack = FALSE], [t EXCEPT !.desired = "tx"], Resume(t),
                         GoToRxOrSleep(t)}
      BY DEF OnTxDone
  <1> HIDE DEF t
  <1>3. TableOK(t) /\ Shape(t)
      BY <1>1, KeptOK DEF TableOK
  <1>4. TableOK(w) /\ Shape(w)
      BY <1>3, KeptHelpers, KeptOK DEF TableOK
  <1> HIDE DEF w
  <1>5. Kept(w, [w EXCEPT !.ack = FALSE]) /\ Kept(t, [t EXCEPT !.desired = "tx"])
      BY <1>3, <1>4 DEF Kept, Shape, Fields
  <1>6. TableOK([w EXCEPT !.ack = FALSE]) /\ TableOK([t EXCEPT !.desired = "tx"])
      BY <1>3, <1>4, <1>5, KeptOK
  <1> QED
      BY <1>2, <1>3, <1>6, ResumeTable, IdleTable

LEMMA OnRxTimeoutTable == ASSUME NEW s, TableOK(s) PROVE TableOK(OnRxTimeout(s))
  <1>1. OnRxTimeout(s) \in {Retransmit(s), GoToRxOrSleep(s)}
      BY DEF OnRxTimeout
  <1>2. TableOK(Retransmit(s))
      BY KeptHelpers, KeptOK DEF TableOK
  <1> QED
      BY <1>1, <1>2, IdleTable

\* Pairing makes the gateway the only peer.
LEMMA PairedTable ==
    ASSUME NEW s, TableOK(s), NEW id \in Identities \cup {NoId}
    PROVE  TableOK(Paired(s, id))
  <1> DEFINE p == [[s.peers EXCEPT ![1].id = id] EXCEPT ![1].synced = FALSE]
             t == [s EXCEPT !.peers[1].id = id, !.peers[1].synced = FALSE,
                   !.length = 1, !.sent_subs = 0, !.save = TRUE, !.planned = TRUE]
  <1>1. /\ Shape(t) /\ t.serial = s.serial /\ t.pub = s.pub
        /\ t.tx = s.tx /\ t.cache = s.cache /\ t.received = s.received /\ t.stored = s.stored
        /\ t.save /\ t.length = 1 /\ t.peers = p
      BY DEF TableOK, Shape, Fields
  <1>2. 1 \in 1..MAX_DEVICES /\ 1 \in 0..MAX_DEVICES - 1
      BY CountAssumption
  <1>3. /\ DOMAIN p = 1..MAX_DEVICES
        /\ \A i \in 1..MAX_DEVICES : DOMAIN p[i] = {"id", "mid", "synced"}
        /\ p[1].id = id
      BY <1>2 DEF TableOK, PeersOK
  <1> HIDE DEF p
  <1>4. PeersOK(p, 1)
      BY <1>2, <1>3 DEF PeersOK, PeerOK
  <1>5. Paired(s, id) \in {s, t}
      BY DEF Paired
  <1> HIDE DEF t
  <1>6. TableOK(t)
      BY <1>1, <1>4, ChangedOK
  <1> QED
      BY <1>5, <1>6

\* The messages that are heard, on the table.
LEMMA HeardAckTable ==
    ASSUME NEW s, TableOK(s), NEW heard, FrameOK(heard), heard # Nothing
    PROVE  TableOK(HeardAck(s, heard))
  <1>1. CASE s.state # "wait" \/ ~Acknowledges(s, heard)
      BY <1>1 DEF HeardAck
  <1>2. CASE ~(s.state # "wait" \/ ~Acknowledges(s, heard))
    <2> DEFINE t == CASE s.tx.kind = "pairing" ->
                           IF heard.kind = "ackpair" THEN Paired(s, heard.to) ELSE s
                      [] s.tx.kind = "sub" -> [s EXCEPT !.sent_subs = @ + 1]
                      [] OTHER -> IF heard.kind = "acksubs"
                                  THEN [s EXCEPT !.sent_subs = 0] ELSE s
               u == IF s.rx_after_ack THEN OpenWindow(t) ELSE t
               v == [u EXCEPT !.count = 0, !.ack = TRUE, !.done = @ \cup {s.tx}]
    <2>1. HeardAck(s, heard) = GoToRxOrSleep(v)
        BY <1>2 DEF HeardAck
    <2>2. TableOK(t)
      <3>1. heard.kind = "ackpair" => TableOK(Paired(s, heard.to))
          BY PairedTable DEF FrameOK
      <3>2. Kept(s, [s EXCEPT !.sent_subs = @ + 1]) /\ Kept(s, [s EXCEPT !.sent_subs = 0])
          BY DEF Kept, TableOK, Shape, Fields
      <3>3. \/ t = s \/ t = [s EXCEPT !.sent_subs = @ + 1] \/ t = [s EXCEPT !.sent_subs = 0]
            \/ heard.kind = "ackpair" /\ t = Paired(s, heard.to)
          OBVIOUS
      <3> HIDE DEF t
      <3> QED
          BY <3>1, <3>2, <3>3, KeptOK
    <2> HIDE DEF t
    <2>3. TableOK(u)
        BY <2>2, KeptHelpers, KeptOK DEF TableOK
    <2> HIDE DEF u
    <2>4. Kept(u, v)
        BY <2>3 DEF Kept, TableOK, Shape, Fields
    <2> HIDE DEF v
    <2> QED
        BY <2>1, <2>3, <2>4, KeptOK, IdleTable
  <1> QED
      BY <1>1, <1>2

\* The id of a peer's latest message is noted.
LEMMA NotingTable ==
    ASSUME NEW s, TableOK(s), NEW i, NEW mid, NEW synced
    PROVE  TableOK([s EXCEPT !.peers[i].mid = mid, !.peers[i].synced = synced])
  <1> DEFINE p == [[s.peers EXCEPT ![i].mid = mid] EXCEPT ![i].synced = synced]
             t == [s EXCEPT !.peers[i].mid = mid, !.peers[i].synced = synced]
  <1>1. /\ Shape(t) /\ t.serial = s.serial /\ t.pub = s.pub
        /\ t.tx = s.tx /\ t.cache = s.cache /\ t.received = s.received /\ t.stored = s.stored
        /\ t.save = s.save /\ t.length = s.length /\ t.peers = p
      BY DEF TableOK, Shape, Fields
  <1>2. DOMAIN p = DOMAIN s.peers
      OBVIOUS
  <1>3. \A j \in 1..MAX_DEVICES : DOMAIN p[j] = DOMAIN s.peers[j] /\ p[j].id = s.peers[j].id
      BY DEF TableOK, PeersOK
  <1> HIDE DEF p
  <1> HIDE DEF t
  <1>4. TableOK(t)
      BY <1>1, <1>2, <1>3, NotedOK
  <1> QED
      BY <1>4 DEF t

LEMMA HeardPairingTable ==
    ASSUME NEW s, TableOK(s), NEW heard, heard.from \in Identities
    PROVE  TableOK(HeardPairing(s, heard))
  <1> DEFINE t == IF s.pairing_mode THEN PublicAdd(s, heard.from) ELSE s
             u == SendAck(t, heard, "ackpair")
             v == [u EXCEPT !.peers[SlotOf(t, heard.from)].mid = heard.id,
                            !.peers[SlotOf(t, heard.from)].synced = TRUE]
  <1>1. HeardPairing(s, heard) = IF ~IsPeer(t, heard.from) THEN t ELSE v
      BY DEF HeardPairing
  <1>2. TableOK(t)
      BY PublicAddTable
  <1> HIDE DEF t
  <1>3. TableOK(u)
      BY <1>2, SendAckTable
  <1> HIDE DEF u
  <1>4. TableOK(v)
      BY <1>3, NotingTable
  <1> QED
      BY <1>1, <1>2, <1>4

LEMMA HeardAttachTable ==
    ASSUME NEW s, TableOK(s), NEW heard, heard.from \in Identities,
           heard.kind \in {"attach", "detach"}
    PROVE  TableOK(HeardAttach(s, heard))
  <1> DEFINE a == [s EXCEPT !.pairing_request = TRUE, !.planned = TRUE]
             t == CASE heard.to # MyId(s) -> s
                    [] heard.to = MyId(s) /\ heard.kind = "attach" -> a
                    [] heard.to = MyId(s) /\ heard.kind = "detach" ->
                         IF IsPeer(s, heard.from) THEN PeerRemove(s, heard.from) ELSE s
  <1>1. HeardAttach(s, heard) = SendAck(t, heard, "ack")
      BY DEF HeardAttach
  <1>2. Kept(s, a)
      BY DEF Kept, TableOK, Shape, Fields
  <1>3. \/ t = s \/ t = a
        \/ IsPeer(s, heard.from) /\ t = PeerRemove(s, heard.from)
      OBVIOUS
  <1> HIDE DEF a, t
  <1>4. TableOK(t)
      BY <1>2, <1>3, KeptOK, PeerRemoveTable
  <1> QED
      BY <1>1, <1>4, SendAckTable

LEMMA AcceptTable ==
    ASSUME NEW s, TableOK(s), NEW heard, heard.from \in Identities
    PROVE  TableOK(Accept(s, heard))
  <1> DEFINE i == SlotOf(s, heard.from)
             restarted == s.mode = "gateway" /\ (~s.peers[i].synced \/ s.peers[i].mid > heard.id)
             kind == IF restarted THEN "acksubs" ELSE "ack"
             u == [s EXCEPT !.peers[i].mid = heard.id, !.peers[i].synced = TRUE]
             q == IF Fits(s) THEN Append(s.rxq, heard) ELSE s.rxq
             h == Append(s.heard, heard)
             t == [s EXCEPT !.peers[i].mid = heard.id, !.peers[i].synced = TRUE,
                            !.rxq = IF Fits(s) THEN Append(@, heard) ELSE @,
                            !.planned = TRUE,
                            !.heard = Append(@, heard)]
  <1>1. Accept(s, heard) = SendAck(t, heard, kind)
      BY DEF Accept
  <1> HIDE DEF i, kind
  <1>2. TableOK(u)
      BY NotingTable
  <1>3. Kept(u, t)
      BY DEF Kept, TableOK, Shape, Fields
  <1> HIDE DEF u, t
  <1> QED
      BY <1>1, <1>2, <1>3, KeptOK, SendAckTable

LEMMA HeardDataTable ==
    ASSUME NEW s, TableOK(s), NEW heard, heard.from \in Identities
    PROVE  TableOK(HeardData(s, heard))
  <1> DEFINE u == [s EXCEPT !.peers[SlotOf(s, heard.from)].mid = heard.id,
                            !.peers[SlotOf(s, heard.from)].synced = FALSE]
  <1>1. HeardData(s, heard) \in {s, PublicAdd(s, heard.from), u, Accept(s, heard)}
      BY DEF HeardData
  <1>2. TableOK(u)
      BY NotingTable
  <1> HIDE DEF u
  <1> QED
      BY <1>1, <1>2, PublicAddTable, AcceptTable

LEMMA HeardTable ==
    ASSUME NEW s, TableOK(s), NEW heard, FrameOK(heard), heard # Nothing
    PROVE  TableOK(Heard(s, heard))
  <1>1. heard.from \in Identities
      BY DEF FrameOK
  <1>2. \/ Heard(s, heard) \in {HeardAck(s, heard), HeardPairing(s, heard), HeardData(s, heard)}
        \/ heard.kind \in {"attach", "detach"} /\ Heard(s, heard) = HeardAttach(s, heard)
      BY DEF Heard, AckKinds
  <1> QED
      BY <1>1, <1>2, HeardAckTable, HeardPairingTable, HeardDataTable, HeardAttachTable

LEMMA OnRxDoneTable ==
    ASSUME NEW s, TableOK(s), NEW heard, FrameOK(heard), heard # Nothing
    PROVE  TableOK(OnRxDone(s, heard))
  <1>1. OnRxDone(s, heard) \in {Retransmit(s), Heard(GoToRxOrSleep(s), heard), Heard(s, heard)}
      BY DEF OnRxDone
  <1>2. TableOK(Retransmit(s))
      BY KeptHelpers, KeptOK DEF TableOK
  <1>3. TableOK(Heard(GoToRxOrSleep(s), heard))
      BY IdleTable, HeardTable
  <1> QED
      BY <1>1, <1>2, <1>3, HeardTable

\* The two tasks on the table.
LEMMA EnterTable == ASSUME NEW s, TableOK(s), NEW target PROVE TableOK(Enter(s, target))
  <1> DEFINE t == Enter(s, target)
  <1>1. /\ Shape(t) /\ t.serial = s.serial /\ t.pub = s.pub
        /\ t.tx = s.tx /\ t.cache = s.cache /\ t.received = Nothing
        /\ t.peers = s.peers /\ t.length = s.length /\ t.stored = s.stored /\ t.save = s.save
      BY DEF Enter, TableOK, Shape, Fields
  <1> HIDE DEF t
  <1>2. InUse(t) = InUse(s)
      BY <1>1 DEF InUse, Ids, Nobody
  <1>3. TableOK(t)
      BY <1>1, <1>2 DEF TableOK, FrameOK
  <1> QED
      BY <1>3 DEF t

LEMMA ReceivedTable ==
    ASSUME NEW s, TableOK(s), NEW f, FrameOK(f)
    PROVE  TableOK([s EXCEPT !.received = f])
  <1> DEFINE t == [s EXCEPT !.received = f]
  <1>1. /\ Shape(t) /\ t.serial = s.serial /\ t.pub = s.pub
        /\ t.tx = s.tx /\ t.cache = s.cache /\ t.received = f
        /\ t.peers = s.peers /\ t.length = s.length /\ t.stored = s.stored /\ t.save = s.save
      BY DEF TableOK, Shape, Fields
  <1> HIDE DEF t
  <1>2. InUse(t) = InUse(s)
      BY <1>1 DEF InUse, Ids, Nobody
  <1>3. TableOK(t)
      BY <1>1, <1>2 DEF TableOK
  <1> QED
      BY <1>3 DEF t

LEMMA SpiritRunTable ==
    ASSUME NEW s, TableOK(s)
    PROVE  TableOK(SpiritRun(s))
  <1> DEFINE t == IF TimedOut(s) THEN OnRxTimeout(s) ELSE s
             d == [t EXCEPT !.desired = "sleep"]
             e == [t EXCEPT !.expired = FALSE]
  <1>1. TableOK(t)
      BY OnRxTimeoutTable
  <1>2. \/ SpiritRun(s) \in {Enter(t, t.desired), CheckTx(t), t}
        \/ t.received # Nothing /\ SpiritRun(s) = CheckRx(t)
      BY DEF SpiritRun
  <1> HIDE DEF t
  <1>3. Kept(t, d) /\ Kept(t, e) /\ e.received = t.received
      BY <1>1 DEF Kept, TableOK, Shape, Fields
  <1>4. CheckTx(t) = Enter(OnTxDone(d), OnTxDone(d).desired)
      BY DEF CheckTx
  <1>5. CheckRx(t) = [OnRxDone(e, t.received) EXCEPT !.received = Nothing]
      BY DEF CheckRx
  <1> HIDE DEF d, e
  <1>6. TableOK(d) /\ TableOK(e)
      BY <1>1, <1>3, KeptOK
  <1>7. TableOK(CheckTx(t))
      BY <1>4, <1>6, OnTxDoneTable, EnterTable
  <1>8. t.received # Nothing => TableOK(CheckRx(t))
    <2>1. ASSUME t.received # Nothing
          PROVE  TableOK(OnRxDone(e, t.received))
        BY <1>1, <1>6, <2>1, OnRxDoneTable DEF TableOK
    <2> QED
        BY <1>5, <2>1, ReceivedTable DEF FrameOK
  <1> QED
      BY <1>1, <1>2, <1>7, <1>8, EnterTable

LEMMA PublishTable ==
    ASSUME NEW s, TableOK(s)
    PROVE  TableOK(Publish(s))
  <1>1. CASE s.pub = <<>>
      BY <1>1 DEF Publish
  <1>2. CASE s.pub # <<>>
    <2> DEFINE p == Tail(s.pub)
               t == [s EXCEPT !.pub = p]
               m == Head(s.pub)
    <2>1. Publish(s) = StartTx(t, m.kind, m.to, m.n)
        BY <1>2 DEF Publish
    <2>2. m \in Publications /\ p \in Seq(Publications)
        BY <1>2, HeadTailProperties DEF TableOK
    <2> HIDE DEF p, m
    <2>3. TableOK(t)
        BY <2>2 DEF TableOK, Shape, Fields, InUse, Ids, Nobody
    <2> HIDE DEF t
    <2>4. m.kind # "ackpair"
        BY <2>2, PublishedKinds DEF AckKinds
    <2> QED
        BY <2>1, <2>3, <2>4, StartTxTable
  <1> QED
      BY <1>1, <1>2

LEMMA RadioRunTable ==
    ASSUME NEW s, TableOK(s)
    PROVE  TableOK(RadioRun(s))
  <1> DEFINE q == [s EXCEPT !.pairing_request = FALSE, !.left = TRUE]
             r == [s EXCEPT !.pairing_request = FALSE, !.left = FALSE]
             o == [s EXCEPT !.left = FALSE]
             t == [s EXCEPT !.rxq = SubSeq(@, FirstStray(s) + 1, Len(@)), !.left = TRUE]
             u == [s EXCEPT !.rxq = <<>>, !.left = FALSE]
  <1>1. RadioRun(s) \in {q, StartTx(r, "pairing", NoId, 0), StartTx(o, "sub", NoId, s.sent_subs),
                         t, Publish(u)}
      BY DEF RadioRun
  <1>2. Kept(s, q) /\ Kept(s, r) /\ Kept(s, o) /\ Kept(s, t) /\ Kept(s, u)
      BY DEF Kept, TableOK, Shape, Fields
  <1> HIDE DEF q, r, o, t, u
  <1>3. TableOK(q) /\ TableOK(r) /\ TableOK(o) /\ TableOK(t) /\ TableOK(u)
      BY <1>2, KeptOK
  <1> QED
      BY <1>1, <1>3, StartTxTable, PublishTable

\* A save that succeeds is read back as the table that was saved.
LEMMA WrittenOK ==
    ASSUME NEW s, TableOK(s)
    PROVE  StoredOK(Written(s)) /\ Load(Written(s)) = InUse(s)
  <1>1. s.length \in Nat /\ s.length < MAX_DEVICES /\ MAX_DEVICES \in Nat
      BY CountAssumption DEF TableOK, PeersOK
  <1> DEFINE w == Written(s)
  <1>2. w.length = s.length /\ w.slots = Saved(s, s.length)
      BY DEF Written
  <1>3. /\ DOMAIN w.slots = 1..MAX_DEVICES
        /\ \A i \in 1..MAX_DEVICES :
             w.slots[i] = IF i <= s.length THEN s.peers[i].id ELSE s.stored.slots[i]
      BY <1>2 DEF Saved
  <1> HIDE DEF w
  <1>4. \A i \in 1..MAX_DEVICES : i <= s.length => i \in 1..s.length
      BY <1>1
  <1>5. StoredOK(w)
    <2>1. w.slots[MAX_DEVICES] = NoId
        BY <1>1, <1>3 DEF TableOK, StoredOK
    <2>2. \A i \in 1..MAX_DEVICES : w.slots[i] \in Identities \cup {NoId}
        BY <1>3, <1>4 DEF TableOK, StoredOK, PeersOK, PeerOK
    <2>3. w.length \in 0..MAX_DEVICES
        BY <1>1, <1>2
    <2> QED
        BY <1>3, <2>1, <2>2, <2>3 DEF StoredOK
  <1>6. \A i \in 1..s.length : i \in 1..MAX_DEVICES /\ i <= s.length
      BY <1>1
  <1>7. \A i \in 1..s.length : w.slots[i] = s.peers[i].id
      BY <1>3, <1>6
  <1> DEFINE b == Nobody(s)
  <1>8. /\ b \in {0, 1} /\ b <= s.length
        /\ \A i \in 1..s.length : s.peers[i].id # NoId <=> i > b
        /\ InUse(s) = [k \in 1..s.length - b |-> s.peers[k + b].id]
      BY InUseIs DEF TableOK
  <1> HIDE DEF b
  <1>9. Load(w) = [k \in 1..s.length - b |-> w.slots[k + b]]
    <2>1. \A i \in 1..w.length : w.slots[i] # NoId <=> i > b
        BY <1>2, <1>7, <1>8
    <2>2. w.length \in Nat /\ b <= w.length
        BY <1>1, <1>2, <1>8
    <2>3. Load(w) = [k \in 1..w.length - b |-> w.slots[k + b]]
        BY <1>8, <2>1, <2>2, LoadWhole
    <2> QED
        BY <1>2, <2>3
  <1>10. Load(w) = InUse(s)
    <2>1. \A k \in 1..s.length - b : k + b \in 1..s.length
        BY <1>1, <1>8
    <2> QED
        BY <1>7, <1>8, <1>9, <2>1
  <1> QED
      BY <1>5, <1>10 DEF w

\* A save that is cut short leaves a table that can be read, if not the whole of it.
LEMMA CutOK ==
    ASSUME NEW s, TableOK(s), NEW image \in Cut(s)
    PROVE  StoredOK(image)
  <1>1. s.length \in Nat /\ s.length < MAX_DEVICES /\ MAX_DEVICES \in Nat
      BY CountAssumption DEF TableOK, PeersOK
  <1>2. ASSUME NEW k \in 0..s.length
        PROVE  /\ DOMAIN Saved(s, k) = 1..MAX_DEVICES
               /\ \A i \in 1..MAX_DEVICES : Saved(s, k)[i] \in Identities \cup {NoId}
               /\ Saved(s, k)[MAX_DEVICES] = NoId
    <2>1. \A i \in 1..MAX_DEVICES : i <= k => i \in 1..s.length
        BY <1>1
    <2>2. \A i \in 1..MAX_DEVICES :
            Saved(s, k)[i] = IF i <= k THEN s.peers[i].id ELSE s.stored.slots[i]
        BY DEF Saved
    <2>3. MAX_DEVICES \in 1..MAX_DEVICES /\ ~(MAX_DEVICES <= k)
        BY <1>1
    <2>4. \A i \in 1..MAX_DEVICES : Saved(s, k)[i] \in Identities \cup {NoId}
        BY <2>1, <2>2 DEF TableOK, PeersOK, PeerOK, StoredOK
    <2>5. Saved(s, k)[MAX_DEVICES] = NoId
        BY <2>2, <2>3 DEF TableOK, StoredOK
    <2>6. DOMAIN Saved(s, k) = 1..MAX_DEVICES
        BY DEF Saved
    <2> QED
        BY <2>4, <2>5, <2>6
  <1>3. CASE image \in CutLength(s)
    <2>1. image.slots = Saved(s, s.length) /\ image.length \in 0..MAX_DEVICES
        BY <1>1, <1>3 DEF CutLength
    <2>2. s.length \in 0..s.length
        BY <1>1
    <2> QED
        BY <1>2, <2>1, <2>2 DEF StoredOK
  <1>4. ASSUME NEW k \in 1..s.length, image \in CutEntry(s, k)
        PROVE  StoredOK(image)
    <2>1. k \in 0..s.length /\ k \in 1..MAX_DEVICES /\ k # MAX_DEVICES
        BY <1>1
    <2>2. /\ s.peers[k].id \in Identities \cup {NoId}
          /\ s.stored.slots[k] \in Identities \cup {NoId}
        BY <2>1 DEF TableOK, PeersOK, PeerOK, StoredOK
    <2>3. PICK id : /\ image = [slots |-> [Saved(s, k) EXCEPT ![k] = id],
                                length |-> s.stored.length]
                    /\ id \in {s.stored.slots[k], s.peers[k].id, NoId}
        BY <1>4 DEF CutEntry
    <2>4. id \in Identities \cup {NoId}
        BY <2>2, <2>3
    <2> DEFINE sl == [Saved(s, k) EXCEPT ![k] = id]
    <2>5. image.slots = sl /\ image.length = s.stored.length
        BY <2>3
    <2>6. /\ DOMAIN sl = 1..MAX_DEVICES
          /\ \A i \in 1..MAX_DEVICES : sl[i] \in Identities \cup {NoId}
          /\ sl[MAX_DEVICES] = NoId
        BY <1>1, <1>2, <2>1, <2>4
    <2> HIDE DEF sl
    <2> QED
        BY <2>5, <2>6 DEF StoredOK, TableOK
  <1> QED
      BY <1>3, <1>4 DEF Cut

LEMMA AfterSaveTable ==
    ASSUME NEW s, TableOK(s), NEW t \in AfterSave(s)
    PROVE  TableOK(t)
  <1> DEFINE u == [s EXCEPT !.planned = FALSE]
  <1>1. \/ t = u
        \/ t = [u EXCEPT !.stored = Written(s), !.save = FALSE]
        \/ /\ s.save
           /\ \E image \in Cut(s) :
                t = [u EXCEPT !.stored = image, !.planned = TRUE, !.faults = @ - 1]
      BY DEF AfterSave
  <1>2. Kept(s, u)
      BY DEF Kept, TableOK, Shape, Fields
  <1> HIDE DEF u
  <1>3. TableOK(u)
      BY <1>2, KeptOK
  <1>4. CASE t = [u EXCEPT !.stored = Written(s), !.save = FALSE]
    <2>1. /\ Shape(t) /\ t.serial = s.serial /\ t.pub = s.pub
          /\ t.tx = s.tx /\ t.cache = s.cache /\ t.received = s.received
          /\ t.peers = s.peers /\ t.length = s.length /\ t.stored = Written(s)
        BY <1>2, <1>4 DEF Kept, Shape, Fields
    <2>2. InUse(t) = InUse(s)
        BY <2>1 DEF InUse, Ids, Nobody
    <2> QED
        BY <2>1, <2>2, WrittenOK DEF TableOK
  <1>5. ASSUME s.save, NEW image \in Cut(s),
               t = [u EXCEPT !.stored = image, !.planned = TRUE, !.faults = @ - 1]
        PROVE  TableOK(t)
    <2>1. /\ Shape(t) /\ t.serial = s.serial /\ t.pub = s.pub
          /\ t.tx = s.tx /\ t.cache = s.cache /\ t.received = s.received
          /\ t.peers = s.peers /\ t.length = s.length /\ t.stored = image /\ t.save
        BY <1>2, <1>5 DEF Kept, Shape, Fields
    <2> QED
        BY <1>5, <2>1, CutOK DEF TableOK
  <1> QED
      BY <1>1, <1>3, <1>4, <1>5

LEMMA CallTable ==
    ASSUME NEW s, TableOK(s), NEW c \in Calls, c.op # "reboot"
    PROVE  TableOK(CallResult(s, c))
  <1>0. c.op \in {"pub", "clear", "pairing_request", "pairing_mode", "automatic_pairing",
                  "add", "remove", "purge", "listen", "rx_after_ack"}
      BY DEF Calls
  <1>1. CASE c.op = "pub"
    <2> DEFINE t == QueuePut(s, c.message)
    <2>1. c.message \in Publications
        BY <1>1 DEF Calls
    <2>2. TableOK(t)
        BY <2>1, QueuePutTable
    <2>3. CallResult(s, c) = [t EXCEPT !.planned = @ \/ Len(s.pub) < PubCapacity]
        BY <1>1 DEF CallResult
    <2> HIDE DEF t
    <2>4. Kept(t, CallResult(s, c))
        BY <2>2, <2>3 DEF Kept, TableOK, Shape, Fields
    <2> QED
        BY <2>2, <2>4, KeptOK
  <1>2. CASE c.op = "listen"
    <2> DEFINE t == OpenWindow(s)
    <2>1. TableOK(t)
        BY KeptHelpers, KeptOK DEF TableOK
    <2>2. CallResult(s, c) = [t EXCEPT !.planned = TRUE]
        BY <1>2 DEF CallResult
    <2> HIDE DEF t
    <2>3. Kept(t, CallResult(s, c))
        BY <2>1, <2>2 DEF Kept, TableOK, Shape, Fields
    <2> QED
        BY <2>1, <2>3, KeptOK
  <1>3. CASE c.op \in {"add", "remove"}
    <2>1. c.id \in Identities
        BY <1>3 DEF Calls
    <2>2. CallResult(s, c) \in {PublicAdd(s, c.id), PublicRemove(s, c.id)}
        BY <1>3 DEF CallResult
    <2> QED
        BY <2>1, <2>2, PublicAddTable, PublicRemoveTable
  <1>4. CASE c.op = "purge"
      BY <1>4, PurgeTable DEF CallResult
  <1>5. CASE c.op = "clear"
    <2> DEFINE t == [s EXCEPT !.pub = <<>>]
    <2>1. /\ Shape(t) /\ t.serial = s.serial /\ t.pub = <<>>
          /\ t.tx = s.tx /\ t.cache = s.cache /\ t.received = s.received
          /\ t.peers = s.peers /\ t.length = s.length /\ t.stored = s.stored /\ t.save = s.save
        BY DEF TableOK, Shape, Fields
    <2>2. CallResult(s, c) = t
        BY <1>5 DEF CallResult
    <2> HIDE DEF t
    <2>3. InUse(t) = InUse(s)
        BY <2>1 DEF InUse, Ids, Nobody
    <2>4. TableOK(t)
        BY <2>1, <2>3 DEF TableOK
    <2> QED
        BY <2>2, <2>4
  <1>6. CASE c.op \in {"pairing_request", "pairing_mode", "automatic_pairing", "rx_after_ack"}
    <2>1. Kept(s, CallResult(s, c))
        BY <1>6 DEF CallResult, Kept, TableOK, Shape, Fields
    <2> QED
        BY <2>1, KeptOK
  <1> QED
      BY <1>0, <1>1, <1>2, <1>3, <1>4, <1>5, <1>6

\* A station that starts has the peers its memory holds.
LEMMA BootedTable ==
    ASSUME NEW id \in Identities, NEW mode, NEW stored, StoredOK(stored)
    PROVE  TableOK(Booted(id, mode, stored))
  <1> DEFINE known == Load(stored)
             p == [i \in 1..MAX_DEVICES |->
                  [id |-> IF i <= Len(known) THEN known[i] ELSE NoId,
                   mid |-> 0, synced |-> FALSE]]
             s == [serial |-> id, identified |-> FALSE, mode |-> mode, stored |-> stored, save |-> FALSE,
     boots |-> 0, faults |-> 0, state |-> "sleep", message_id |-> 0, count |-> 0, ack |-> FALSE,
     tx |-> Nothing, cache |-> Nothing, cached_count |-> 0,
     peers |-> [i \in 1..MAX_DEVICES |->
                  [id |-> IF i <= Len(known) THEN known[i] ELSE NoId,
                   mid |-> 0, synced |-> FALSE]],
     length |-> Len(known),
     pairing_request |-> FALSE, fits |-> TRUE, left |-> FALSE, pairing_mode |-> FALSE, automatic_pairing |-> FALSE,
     subs |-> 0, sent_subs |-> 0, pub |-> <<>>, rxq |-> <<>>,
     timeout |-> "never", late |-> FALSE, window |-> FALSE, rx_after_ack |-> FALSE,
     planned |-> FALSE,
     desired |-> "sleep", current |-> "init", received |-> Nothing, sent |-> FALSE,
     expired |-> FALSE,
     aired |-> 0, heard |-> <<>>, done |-> {}]
  <1>1. Booted(id, mode, stored) = GoToRxOrSleep(s)
      BY DEF Booted
  <1>2. /\ Shape(s) /\ s.serial = id /\ s.pub = <<>> /\ s.tx = Nothing /\ s.cache = Nothing
        /\ s.received = Nothing /\ s.peers = p /\ s.length = Len(known) /\ s.stored = stored
      BY DEF Shape, Fields
  <1>3. /\ known \in Seq(Identities) /\ Len(known) \in 0..MAX_DEVICES - 1
        /\ known = [k \in 1..Len(known) |-> known[k]]
      BY LoadTyped
  <1>4. Load(stored) = known
      OBVIOUS
  <1> HIDE DEF s, known
  <1>5. MAX_DEVICES \in Nat
      BY CountAssumption
  <1>6. \A i \in 1..Len(known) : i \in 1..MAX_DEVICES /\ i <= Len(known)
      BY <1>3, <1>5
  <1>7. \A i \in 1..Len(known) : p[i].id = known[i] /\ known[i] \in Identities
      BY <1>3, <1>6
  <1>8. /\ DOMAIN p = 1..MAX_DEVICES
        /\ \A i \in 1..MAX_DEVICES : DOMAIN p[i] = {"id", "mid", "synced"}
      OBVIOUS
  <1> HIDE DEF p
  <1>9. PeersOK(s.peers, s.length)
      BY <1>2, <1>3, <1>7, <1>8 DEF PeersOK, PeerOK
  <1>10. InUse(s) = [i \in 1..Len(known) |-> known[i]]
    <2>1. Nobody(s) = 0
      <3>1. s.length > 0 => 1 \in 1..Len(known)
          BY <1>2, <1>3
      <3> QED
          BY <1>2, <1>7, <3>1, IdAssumption DEF Nobody
    <2> DEFINE l == Len(known)
    <2>2. /\ InUse(s) = [k \in 1..s.length - 0 |-> s.peers[k + 0].id]
          /\ s.length = l /\ l \in Nat
        BY <1>2, <1>3, <1>5, <1>9, <2>1, InUseIs
    <2>3. \A k \in 1..l : s.peers[k + 0].id = known[k]
        BY <1>2, <1>7, <2>2
    <2> QED
        BY <2>2, <2>3
  <1>11. Load(s.stored) = InUse(s)
      BY <1>2, <1>3, <1>4, <1>10
  <1>12. s.pub \in Seq(Publications) /\ FrameOK(s.tx) /\ FrameOK(s.cache) /\ FrameOK(s.received)
      BY <1>2 DEF FrameOK
  <1>13. TableOK(s)
      BY <1>2, <1>9, <1>11, <1>12 DEF TableOK
  <1> QED
      BY <1>1, <1>13, IdleTable

-------------------------------------------------------------------------------
(***************************************************************************)
(* The network.                                                            *)
(***************************************************************************)
\* The calls still to be made, the tables, and everything at once.
Plans == DOMAIN todo = Stations /\ \A n \in Stations : todo[n] \in Seq(Calls)
Tables == \A n \in Stations : TableOK(node[n])
Inductive == Linked /\ Tables /\ Plans

\* An action that changes one station.
LEMMA OneTable ==
    ASSUME Linked, Tables, NEW n \in Stations, NEW t,
           node' = [node EXCEPT ![n] = t], TableOK(t)
    PROVE  Tables'
  BY DEF Linked, Tables

LEMMA TransmitTables ==
    ASSUME Linked, Tables, NEW n \in Stations, Transmit(n)
    PROVE  Tables'
  <1> DEFINE sender == [node[n] EXCEPT !.sent = TRUE,
                             !.aired = IF node[n].tx.kind \in AckKinds THEN @ ELSE @ + 1]
             f == node[n].tx
  <1>1. PICK hearers :
        node' = [m \in Stations |->
            CASE m \in hearers -> [node[m] EXCEPT !.received = f]
              [] m = n -> sender
              [] OTHER -> node[m]]
      BY DEF Transmit
  <1>2. TableOK(node[n]) /\ FrameOK(f)
      BY DEF Tables, TableOK
  <1>3. Kept(node[n], sender)
      BY <1>2 DEF Kept, TableOK, Shape, Fields
  <1> HIDE DEF sender, f
  <1>4. TableOK(sender)
      BY <1>2, <1>3, KeptOK
  <1>5. ASSUME NEW m \in Stations
        PROVE  TableOK(node'[m])
    <2>1. TableOK(node[m])
        BY DEF Tables
    <2>2. TableOK([node[m] EXCEPT !.received = f])
        BY <1>2, <2>1, ReceivedTable
    <2>3. node'[m] \in {[node[m] EXCEPT !.received = f], sender, node[m]}
        BY <1>1
    <2> QED
        BY <1>4, <2>1, <2>2, <2>3
  <1> QED
      BY <1>5 DEF Tables

LEMMA TimeTables ==
    ASSUME Linked, Tables, NEW n \in Stations, Time(n)
    PROVE  Tables'
  <1> DEFINE late == [node[n] EXCEPT !.late = TRUE, !.window = @ /\ node[n].timeout # "window"]
             expired == [node[n] EXCEPT !.expired = TRUE]
             closed == [node[n] EXCEPT !.window = FALSE]
             named == [node[n] EXCEPT !.identified = TRUE]
  <1>1. TableOK(node[n])
      BY DEF Tables
  <1>2. /\ Kept(node[n], late) /\ Kept(node[n], expired)
        /\ Kept(node[n], closed) /\ Kept(node[n], named)
      BY <1>1 DEF Kept, TableOK, Shape, Fields
  <1>3. PICK t \in {late, expired, closed, named} : node' = [node EXCEPT ![n] = t]
    <2>1. CASE Deadline(n)
      <3>1. node' = [node EXCEPT ![n] = late]
          BY <2>1 DEF Deadline, Linked
      <3> QED
          BY <3>1
    <2>2. CASE Expire(n)
      <3>1. node' = [node EXCEPT ![n] = expired]
          BY <2>2 DEF Expire, Linked
      <3> QED
          BY <3>1
    <2>3. CASE CloseWindow(n)
      <3>1. node' = [node EXCEPT ![n] = closed]
          BY <2>3 DEF CloseWindow, Linked
      <3> QED
          BY <3>1
    <2>4. CASE ReadSerial(n)
      <3>1. node' = [node EXCEPT ![n] = named]
          BY <2>4 DEF ReadSerial, Linked
      <3> QED
          BY <3>1
    <2> QED
        BY <2>1, <2>2, <2>3, <2>4 DEF Time
  <1> HIDE DEF late, expired, closed, named
  <1>4. TableOK(t)
      BY <1>1, <1>2, <1>3, KeptOK
  <1> QED
      BY <1>3, <1>4, OneTable

LEMMA RebootTables ==
    ASSUME Linked, Tables, NEW n \in Stations, Reboot(n)
    PROVE  Tables'
  <1>1. PICK image \in Images(node[n]), repair \in {FALSE, node[n].save} :
        node' = [node EXCEPT ![n] =
            [Booted(n, @.mode, image) EXCEPT
                !.subs = node[n].subs, !.faults = node[n].faults, !.save = repair,
                !.boots = node[n].boots + 1,
                !.heard = Append(node[n].heard, Nothing), !.done = node[n].done]]
      BY DEF Reboot
  <1> DEFINE b == Booted(n, node[n].mode, image)
             t == [b EXCEPT
                !.subs = node[n].subs, !.faults = node[n].faults, !.save = repair,
                !.boots = node[n].boots + 1,
                !.heard = Append(node[n].heard, Nothing), !.done = node[n].done]
  <1>2. node' = [node EXCEPT ![n] = t]
      BY <1>1 DEF Linked
  <1>3. TableOK(node[n])
      BY DEF Tables
  <1>4. StoredOK(image)
    <2>1. image = node[n].stored \/ image \in Cut(node[n])
        BY <1>1 DEF Images
    <2> QED
        BY <1>3, <2>1, CutOK DEF TableOK
  <1>5. TableOK(b)
      BY <1>4, BootedTable, IdAssumption
  <1>6. b.save = FALSE
      BY DEF Booted, GoToRxOrSleep, Sleep, Listen
  <1> HIDE DEF b
  <1>7. /\ Shape(t) /\ t.serial = b.serial /\ t.pub = b.pub
        /\ t.tx = b.tx /\ t.cache = b.cache /\ t.received = b.received
        /\ t.peers = b.peers /\ t.length = b.length /\ t.stored = b.stored
      BY <1>5 DEF TableOK, Shape, Fields
  <1> HIDE DEF t
  <1>8. InUse(t) = InUse(b)
      BY <1>7 DEF InUse, Ids, Nobody
  <1>9. TableOK(t)
      BY <1>5, <1>6, <1>7, <1>8 DEF TableOK
  <1> QED
      BY <1>2, <1>9, OneTable

LEMMA InitTables == Init => Tables /\ Plans
  <1> SUFFICES ASSUME Init PROVE Tables /\ Plans
      OBVIOUS
  <1> DEFINE st(scenario, n) == [slots |-> [i \in 1..MAX_DEVICES |->
                                    IF i <= Len(scenario[n].known)
                                    THEN scenario[n].known[i] ELSE NoId],
                      length |-> Len(scenario[n].known)]
  <1>1. PICK scenario \in Scenarios :
        /\ node = [n \in Stations |-> [Booted(n, scenario[n].mode, st(scenario, n))
                EXCEPT !.identified = scenario[n].identified,
                       !.subs = scenario[n].subs, !.faults = scenario[n].faults]]
        /\ todo = [n \in Stations |-> scenario[n].calls]
      BY DEF Init
  <1>2. ASSUME NEW n \in Stations
        PROVE  TableOK(node[n])
    <2> DEFINE k == scenario[n].known
               b == Booted(n, scenario[n].mode, st(scenario, n))
               t == [b EXCEPT !.identified = scenario[n].identified,
                       !.subs = scenario[n].subs, !.faults = scenario[n].faults]
    <2>1. k \in Seq(Identities) /\ Len(k) \in Nat /\ Len(k) < MAX_DEVICES /\ MAX_DEVICES \in Nat
      <3>1. scenario[n].known \in Seq(Identities) /\ Len(scenario[n].known) < MAX_DEVICES
          BY ScenarioAssumption
      <3> QED
          BY <3>1, CountAssumption
    <2>2. StoredOK(st(scenario, n))
      <3> HIDE DEF k
      <3> DEFINE sl == [i \in 1..MAX_DEVICES |-> IF i <= Len(k) THEN k[i] ELSE NoId]
      <3>1. st(scenario, n).slots = sl /\ st(scenario, n).length = Len(k)
          BY DEF k
      <3>2. \A i \in 1..MAX_DEVICES : i <= Len(k) => k[i] \in Identities
          BY <2>1
      <3>3. /\ DOMAIN sl = 1..MAX_DEVICES
            /\ \A i \in 1..MAX_DEVICES : sl[i] \in Identities \cup {NoId}
            /\ sl[MAX_DEVICES] = NoId
          BY <2>1, <3>2
      <3>4. Len(k) \in 0..MAX_DEVICES
          BY <2>1
      <3> HIDE DEF sl, st
      <3> QED
          BY <3>1, <3>3, <3>4 DEF StoredOK
    <2>3. node[n] = t
        BY <1>1
    <2> HIDE DEF k, st
    <2>4. TableOK(b)
        BY <2>2, BootedTable, IdAssumption
    <2> HIDE DEF b
    <2>5. Kept(b, t)
        BY <2>4 DEF Kept, TableOK, Shape, Fields
    <2> HIDE DEF t
    <2> QED
        BY <2>3, <2>4, <2>5, KeptOK
  <1>3. \A n \in Stations : scenario[n].calls \in Seq(Calls)
      BY <1>1, ScenarioAssumption
  <1> QED
      BY <1>1, <1>2, <1>3 DEF Tables, Plans

LEMMA TablesStep ==
    ASSUME Inductive, NEW n \in Stations,
           SpiritTask(n) \/ RadioTask(n) \/ Call(n)
    PROVE  Tables'
  <1>1. TableOK(node[n])
      BY DEF Inductive, Tables
  <1>2. CASE SpiritTask(n)
    <2> DEFINE t == SpiritRun(node[n])
    <2>1. node' = [node EXCEPT ![n] = t] /\ TableOK(t)
        BY <1>1, <1>2, SpiritRunTable DEF SpiritTask
    <2> HIDE DEF t
    <2> QED
        BY <2>1, OneTable DEF Inductive
  <1>3. CASE RadioTask(n)
    <2>1. PICK s \in AfterSave(node[n]) : node' = [node EXCEPT ![n] = RadioRun(s)]
        BY <1>3 DEF RadioTask
    <2> DEFINE t == RadioRun(s)
    <2>2. node' = [node EXCEPT ![n] = t] /\ TableOK(t)
        BY <1>1, <2>1, AfterSaveTable, RadioRunTable
    <2> HIDE DEF t
    <2> QED
        BY <2>2, OneTable DEF Inductive
  <1>4. CASE Call(n)
    <2> DEFINE c == Head(todo[n])
               t == CallResult(node[n], c)
    <2>1. c \in Calls /\ c.op # "reboot"
        BY <1>4, HeadTailProperties DEF Call, Inductive, Plans
    <2>2. node' = [node EXCEPT ![n] = t]
        BY <1>4 DEF Call
    <2> HIDE DEF c
    <2>3. TableOK(t)
        BY <1>1, <2>1, CallTable
    <2> HIDE DEF t
    <2> QED
        BY <2>2, <2>3, OneTable DEF Inductive
  <1> QED
      BY <1>2, <1>3, <1>4

\* The calls to come are calls.
LEMMA PlansStep ==
    ASSUME Inductive, [Next]_vars
    PROVE  Plans'
  <1>1. CASE UNCHANGED todo
      BY <1>1 DEF Inductive, Plans
  <1>2. ASSUME NEW n \in Stations, todo[n] # <<>>, todo' = [todo EXCEPT ![n] = Tail(@)]
        PROVE  Plans'
    <2>1. Tail(todo[n]) \in Seq(Calls)
        BY <1>2, HeadTailProperties DEF Inductive, Plans
    <2> QED
        BY <1>2, <2>1 DEF Inductive, Plans
  <1> QED
      BY <1>1, <1>2 DEF Next, vars, SpiritTask, RadioTask, Call, Reboot, Transmit, Deadline,
                        Expire, CloseWindow, ReadSerial

\* The inductive invariant of a network: every station's radio and transceiver
\* agree, its table is well formed and what was saved is what would be loaded.
THEOREM InductiveHolds == Spec => []Inductive
  <1>1. Init => Inductive
      BY InitLinked, InitTables DEF Inductive
  <1>2. Inductive /\ [Next]_vars => Inductive'
    <2> SUFFICES ASSUME Inductive, [Next]_vars PROVE Linked' /\ Tables'
        BY PlansStep DEF Inductive
    <2> USE DEF Inductive
    <2>1. CASE UNCHANGED vars
        BY <2>1 DEF vars, Linked, StationOK, Tables
    <2>2. ASSUME NEW n \in Stations, SpiritTask(n) \/ RadioTask(n)
          PROVE  Linked' /\ Tables'
        BY <2>2, TasksLinked, TablesStep DEF Tables, TableOK
    <2>3. ASSUME NEW n \in Stations, Call(n)
          PROVE  Linked' /\ Tables'
        BY <2>3, CallLinked, TablesStep DEF Plans
    <2>4. ASSUME NEW n \in Stations, Reboot(n)
          PROVE  Linked' /\ Tables'
        BY <2>4, RebootLinked, RebootTables
    <2>5. ASSUME NEW n \in Stations, Transmit(n)
          PROVE  Linked' /\ Tables'
        BY <2>5, TransmitLinked, TransmitTables
    <2>6. ASSUME NEW n \in Stations, Time(n)
          PROVE  Linked' /\ Tables'
        BY <2>6, TimeLinked, TimeTables
    <2> QED
        BY <2>1, <2>2, <2>3, <2>4, <2>5, <2>6 DEF Next, Time
  <1> QED
      BY <1>1, <1>2, PTL DEF Spec

\* The radio's state and the state asked of the transceiver say the same, in
\* every state of every network (twr_radio.c:556-709, twr_spirit1.c:258-306).
THEOREM LayersAlwaysAgree == Spec => []LayersAgree
  <1>1. Inductive => LayersAgree
      BY DEF Inductive, Linked, StationOK, LinkOK, RadioOK, SpiritOK, Agree, Heading, RadioStates,
             LayersAgree
  <1> QED
      BY <1>1, InductiveHolds, PTL

\* What a station repeats is its own current message, whatever acknowledgements
\* it sent in between through the same buffer (twr_radio.c:520-554, 639-659).
THEOREM RepeatsItsOwn == Spec => []OwnMessage
  <1>1. Inductive => OwnMessage
    <2> SUFFICES ASSUME Inductive, NEW s \in Stations
                 PROVE  LET r == node[s] IN
                        LET mine(f) == /\ f # Nothing /\ f.from = s /\ f.id = r.message_id
                                       /\ f.kind \notin AckKinds
                        IN /\ r.state \in {"tx", "wait"} => mine(r.tx)
                           /\ r.state = "txack" => mine(r.cache)
        BY DEF OwnMessage
    <2>1. Nothing.kind = "nothing"
        BY DEF Nothing
    <2> QED
        BY <2>1 DEF Inductive, Linked, StationOK, LinkOK, RadioOK, Mine
  <1> QED
      BY <1>1, InductiveHolds, PTL

\* No message goes on the air more than TX_MAX_COUNT times, for every count
\* (twr_radio.c:556-709).
THEOREM AiredIsBounded == Spec => []AiredBound
  <1>1. Inductive => AiredBound
      BY CountAssumption DEF Inductive, Linked, StationOK, LinkOK, RadioOK, AiredBound
  <1> QED
      BY <1>1, InductiveHolds, PTL

\* A station that loses its power with no save outstanding comes back with the
\* peers it has, but for a peer 0, for every table size and every history of attachments,
\* removals, failed and interrupted saves (twr_radio.c:927-1015).
THEOREM PeersAreKept == Spec => []PeersKept
  <1>1. Inductive => PeersKept
      BY DEF Inductive, Tables, TableOK, InUse, PeersKept
  <1> QED
      BY <1>1, InductiveHolds, PTL

-------------------------------------------------------------------------------
(***************************************************************************)
(* Acknowledgements, and what is taken.  As long as message numbers have   *)
(* not come round, a frame in transit is about the message its sender is   *)
(* at or an earlier one of the same start, and an acknowledgement in       *)
(* transit that names the current message names one that was taken.        *)
(***************************************************************************)
Kinds == {"pairing", "sub", "pub", "attach", "detach"} \cup Directed
Messages == [from : Stations, id : Nat, kind : Kinds, to : Identities \cup {NoId},
             n : Nat, boot : Nat]

\* The states in which a station has a current message, and where it is kept.
Asking(s) == s.state \in {"tx", "wait", "txack"}
Current(s) == IF s.state = "txack" THEN s.cache ELSE s.tx
Acking(s) == s.state \in {"rxack", "txack"}

\* Kinds that are acknowledged by whoever hears them.
Unminded == {"pairing", "attach", "detach"}

\* A station's numbers, and its current message.
NumbersOK(s) ==
    /\ s.message_id \in Nat /\ s.boots \in Nat /\ s.sent_subs \in Nat
    /\ s.heard \in Seq(Messages \cup {Nothing})
    /\ Asking(s) => /\ Current(s) \in Messages
                    /\ Current(s).from = s.serial /\ Current(s).id = s.message_id
                    /\ Current(s).boot = s.boots
                    /\ Current(s).kind = "sub" => Current(s).n = s.sent_subs

HeardOf(n, f) == \E m \in Stations \ {n} : \E i \in 1..Len(node[m].heard) : node[m].heard[i] = f
Taken(n) == Current(node[n]).kind \in Unminded \/ HeardOf(n, Current(node[n]))

\* A message in transit from s; an acknowledgement in transit, to the station it names.
Recent(s, f) ==
    /\ f.boot = s.boots /\ f.id <= s.message_id
    /\ f.id = s.message_id /\ Asking(s) => f = Current(s)
Tells(f) ==
    /\ f.from \in Stations /\ f.id \in Nat /\ f.id <= node[f.from].message_id
    /\ f.id = node[f.from].message_id /\ Asking(node[f.from]) => Taken(f.from)

\* What station m has received and what it acknowledges.
ReceivedOK(m) == LET f == node[m].received IN
    \/ f = Nothing
    \/ f \in Messages /\ f.from # m /\ Recent(node[f.from], f)
    \/ f.kind \in AckKinds /\ Tells(f)
AckOK(m) == Acking(node[m]) => Tells(node[m].tx)

Transit == \A m \in Stations : NumbersOK(node[m]) /\ ReceivedOK(m) /\ AckOK(m)

\* No station has used up its message numbers since its start.
NoWrap == \A n \in Stations : node[n].message_id + 1 < ID_MODULUS

Answered == Transit /\ DoneMeansHeard /\ SubscriptionsTaken

-------------------------------------------------------------------------------
(***************************************************************************)
(* What a handler does to the frames in transit and the current message.   *)
(***************************************************************************)
\* Nothing is heard or reported, no message begins and no acknowledgement.
Still(s, t) ==
    /\ Shape(t)
    /\ t.serial = s.serial /\ t.message_id = s.message_id /\ t.boots = s.boots
    /\ t.received = s.received /\ t.heard = s.heard /\ t.done = s.done
    /\ t.sent_subs = s.sent_subs
Moves(s, t) ==
    /\ Still(s, t)
    /\ Asking(t) => Asking(s) /\ Current(t) = Current(s)
    /\ Acking(t) => Acking(s) /\ t.tx = s.tx

\* The current message stays or ends, or the next one begins.
Requests(s, t) ==
    \/ t.message_id = s.message_id /\ (Asking(t) => Asking(s) /\ Current(t) = Current(s))
    \/ /\ t.message_id = s.message_id + 1
       /\ Asking(t) => /\ Current(t) \in Messages /\ Current(t).from = t.serial
                       /\ Current(t).id = t.message_id /\ Current(t).boot = t.boots
                       /\ Current(t).kind = "sub" => Current(t).n = t.sent_subs

\* What is heard is f; so is what is acknowledged.
Hears(s, f, t) == t.heard = s.heard \/ (f \in Messages /\ t.heard = Append(s.heard, f))
Acks(s, f, t) ==
    Acking(t) => \/ Acking(s) /\ t.tx = s.tx
                 \/ /\ f \in Messages /\ t.tx.from = f.from /\ t.tx.id = f.id
                    /\ f.kind \in Unminded \/ t.heard = Append(s.heard, f)

\* What is reported done was waited for, and f acknowledges it.
Reports(s, f, t) ==
    \/ t.done = s.done /\ t.sent_subs = s.sent_subs
    \/ /\ s.state = "wait" /\ f.kind \in AckKinds /\ f.from = s.serial /\ f.id = s.message_id
       /\ t.done = s.done \cup {s.tx} /\ ~Asking(t)
       /\ \/ t.sent_subs \in {s.sent_subs, 0}
          \/ s.tx.kind = "sub" /\ t.sent_subs = s.sent_subs + 1

\* A handler has run on f, or without any packet.
Step(s, f, t) ==
    /\ Shape(t) /\ t.serial = s.serial /\ t.boots = s.boots
    /\ Requests(s, t) /\ Hears(s, f, t) /\ Acks(s, f, t) /\ Reports(s, f, t)
Handles(s, f, t) == Step(s, f, t) /\ t.received = s.received

\* A move is the handling of any packet, or of none.
LEMMA MovesStep == ASSUME NEW s, NEW f, NEW t, Moves(s, t) PROVE Handles(s, f, t)
  <1>1. Requests(s, t)
      BY DEF Moves, Still, Requests
  <1>4. Hears(s, f, t)
      BY DEF Moves, Still, Hears
  <1>2. Acks(s, f, t)
      BY DEF Moves, Acks
  <1>3. Reports(s, f, t)
      BY DEF Moves, Still, Reports
  <1> QED
      BY <1>1, <1>2, <1>3, <1>4 DEF Moves, Still, Handles, Step

\* Steps may follow one another.
LEMMA MovesThenMoves ==
    ASSUME NEW s, NEW t, NEW u, Moves(s, t), Moves(t, u) PROVE Moves(s, u)
  BY DEF Moves, Still

\* A move before the handling of f, which keeps what is waited for.
LEMMA MovesThenHandles ==
    ASSUME NEW s, NEW f, NEW t, NEW u, Moves(s, t), Handles(t, f, u), t.state = "wait" => s.state = "wait" /\ t.tx = s.tx
    PROVE  Handles(s, f, u)
  BY DEF Moves, Still, Handles, Step, Requests, Hears, Acks, Reports

\* A move after it.
LEMMA HandlesThenMoves ==
    ASSUME NEW s, NEW f, NEW t, NEW u, Handles(s, f, t), Moves(t, u) PROVE Handles(s, f, u)
  BY DEF Moves, Still, Handles, Step, Requests, Hears, Acks, Reports

\* A change of other fields.
Aside(s, t) == Still(s, t) /\ t.state = s.state /\ t.tx = s.tx /\ t.cache = s.cache

\* A change of other fields is a move.
LEMMA AsideMoves == ASSUME NEW s, NEW t, Aside(s, t) PROVE Moves(s, t)
  BY DEF Aside, Moves, Asking, Acking, Current

\* Two of them are one.
LEMMA AsideThen == ASSUME NEW s, NEW t, NEW u, Aside(s, t), Aside(t, u) PROVE Aside(s, u)
  BY DEF Aside, Still

\* The window, the queue and the table are other fields.
LEMMA HelpersAside ==
    ASSUME NEW s, Shape(s)
    PROVE  /\ Aside(s, s) /\ Aside(s, OpenWindow(s)) /\ Aside(s, PurgeAll(s))
           /\ \A m : Aside(s, QueuePut(s, m))
           /\ \A id : Aside(s, PeerAdd(s, id)) /\ Aside(s, PeerRemove(s, id))
  <1>1. Aside(s, s) /\ Aside(s, OpenWindow(s))
      BY DEF Aside, Still, OpenWindow, Shape, Fields
  <1>2. Aside(s, PurgeAll(s))
      BY DEF Aside, Still, PurgeAll, Shape, Fields
  <1>3. \A m : Aside(s, QueuePut(s, m))
      BY DEF Aside, Still, QueuePut, Shape, Fields
  <1>4. \A id : Aside(s, PeerAdd(s, id)) /\ Aside(s, PeerRemove(s, id))
      BY DEF Aside, Still, PeerAdd, PeerRemove, Shape, Fields
  <1> QED
      BY <1>1, <1>2, <1>3, <1>4

\* So are those the calls that add and remove a peer change.
LEMMA PublicAside ==
    ASSUME NEW s, Shape(s), NEW id
    PROVE  Aside(s, PublicAdd(s, id)) /\ Aside(s, PublicRemove(s, id))
  <1>1. Aside(s, s) /\ Aside(s, PeerAdd(s, id)) /\ Aside(s, PeerRemove(s, id))
      BY HelpersAside
  <1>2. \A t : Aside(s, t) => Shape(t)
      BY DEF Aside, Still
  <1>3. \A t, m : Aside(s, t) => Aside(s, QueuePut(t, m))
      BY <1>2, HelpersAside, AsideThen
  <1> QED
      BY <1>1, <1>3 DEF PublicAdd, PublicRemove

\* The radio goes to listen or to sleep: nothing is asked or acknowledged any more.
LEMMA IdleMoves ==
    ASSUME NEW s, Shape(s)
    PROVE  LET t == GoToRxOrSleep(s) IN
           Still(s, t) /\ t.state \in {"rx", "sleep"} /\ Moves(s, t)
  <1>1. Still(s, Sleep(s)) /\ Sleep(s).state = "sleep"
      BY DEF Still, Sleep, Shape, Fields
  <1>2. Still(s, Listen(s)) /\ Listen(s).state = "rx"
      BY DEF Still, Listen, Shape, Fields
  <1> DEFINE t == GoToRxOrSleep(s)
  <1>3. Still(s, t) /\ t.state \in {"rx", "sleep"}
      BY <1>1, <1>2 DEF GoToRxOrSleep
  <1> HIDE DEF t
  <1>4. Moves(s, t)
      BY <1>3 DEF Moves, Asking, Acking
  <1> QED
      BY <1>3, <1>4 DEF t

\* A message is sent again.
LEMMA RetransmitMoves ==
    ASSUME NEW s, Shape(s), s.state = "wait"
    PROVE  Moves(s, Retransmit(s))
  BY DEF Moves, Still, Retransmit, Shape, Fields, Asking, Acking, Current

\* A timeout.
LEMMA OnRxTimeoutMoves ==
    ASSUME NEW s, Shape(s)
    PROVE  Moves(s, OnRxTimeout(s)) /\ OnRxTimeout(s).state # "wait"
  <1>1. CASE s.state = "wait" /\ s.count > 0
    <2>1. Retransmit(s).state = "tx"
        BY DEF Retransmit, Shape, Fields
    <2> QED
        BY <1>1, <2>1, RetransmitMoves DEF OnRxTimeout
  <1>2. CASE ~(s.state = "wait" /\ s.count > 0)
    <2>1. OnRxTimeout(s) = GoToRxOrSleep(s)
        BY <1>2 DEF OnRxTimeout
    <2> QED
        BY <2>1, IdleMoves
  <1> QED
      BY <1>1, <1>2

\* The end of a transmission: on to the wait, the next copy, or the message kept aside.
LEMMA OnTxDoneMoves == ASSUME NEW s, Shape(s) PROVE Moves(s, OnTxDone(s))
  <1> DEFINE t == [s EXCEPT !.count = IF @ > 0 THEN @ - 1 ELSE @]
             v == [WaitForAck(t) EXCEPT !.ack = FALSE]
  <1>1. OnTxDone(s) = CASE t.state = "tx" -> v
                        [] t.state \in {"rxack", "txack"} /\ t.count > 0 -> [t EXCEPT !.desired = "tx"]
                        [] t.state = "txack" /\ t.count = 0 -> Resume(t)
                        [] OTHER -> GoToRxOrSleep(t)
      BY DEF OnTxDone
  <1>2. Aside(s, t) /\ Shape(t)
      BY DEF Aside, Still, Shape, Fields
  <1> HIDE DEF t
  <1>3. Moves(s, t)
      BY <1>2, AsideMoves
  <1>4. t.state = "tx" => Moves(t, v)
      BY <1>2 DEF Moves, Still, WaitForAck, Shape, Fields, Asking, Acking, Current
  <1>5. Moves(t, [t EXCEPT !.desired = "tx"])
      BY <1>2 DEF Moves, Still, Shape, Fields, Asking, Acking, Current
  <1>6. t.state = "txack" => Moves(t, Resume(t))
      BY <1>2 DEF Moves, Still, Resume, WaitForAck, Shape, Fields, Asking, Acking, Current
  <1>7. Moves(t, GoToRxOrSleep(t))
      BY <1>2, IdleMoves
  <1>8. Moves(t, OnTxDone(s))
    <2>1. CASE t.state = "tx"
        BY <1>1, <1>4, <2>1
    <2>2. CASE t.state \in {"rxack", "txack"} /\ t.count > 0
      <3>1. OnTxDone(s) = [t EXCEPT !.desired = "tx"]
          BY <1>1, <2>2
      <3> QED
          BY <1>5, <3>1
    <2>3. CASE t.state = "txack" /\ t.count = 0
      <3>1. ~(t.count > 0)
          BY <2>3
      <3>2. OnTxDone(s) = Resume(t)
          BY <1>1, <2>3, <3>1
      <3> QED
          BY <1>6, <2>3, <3>2
    <2>4. CASE t.state # "tx" /\ ~(t.state \in {"rxack", "txack"} /\ t.count > 0)
               /\ ~(t.state = "txack" /\ t.count = 0)
      <3>1. OnTxDone(s) = GoToRxOrSleep(t)
          BY <1>1, <2>4
      <3> QED
          BY <1>7, <3>1
    <2> QED
        BY <2>1, <2>2, <2>3, <2>4
  <1> QED
      BY <1>3, <1>8, MovesThenMoves

\* An acknowledgement is begun, or not.
Answers(t, f, u) ==
    /\ Still(t, u)
    /\ Asking(u) => Asking(t) /\ Current(u) = Current(t)
    /\ Acking(u) => (Acking(t) /\ u.tx = t.tx) \/ (u.tx.from = f.from /\ u.tx.id = f.id)

\* What is acknowledged is the packet heard, or what was acknowledged before.
LEMMA SendAckAnswers ==
    ASSUME NEW s, Shape(s), NEW f, NEW kind PROVE Answers(s, f, SendAck(s, f, kind))
  <1> DEFINE ack == Frame(f.from, f.id, kind, MyId(s), 0, 0)
             kept == IF s.state = "wait"
                     THEN [s EXCEPT !.cache = s.tx, !.cached_count = s.count, !.state = "txack"]
                     ELSE [s EXCEPT !.state = "rxack"]
             u == [kept EXCEPT !.tx = ack, !.count = 2, !.desired = "tx"]
  <1>1. CASE s.state \notin {"wait", "rx"}
      BY <1>1 DEF SendAck, Answers, Still
  <1>2. CASE s.state \in {"wait", "rx"}
    <2>1. SendAck(s, f, kind) = u
        BY <1>2 DEF SendAck
    <2>2. ack.from = f.from /\ ack.id = f.id
        BY DEF Frame
    <2> HIDE DEF ack
    <2>3. Still(s, kept) /\ (s.state = "wait" => kept.state = "txack" /\ kept.cache = s.tx)
          /\ (s.state # "wait" => kept.state = "rxack")
        BY DEF Still, Shape, Fields
    <2> HIDE DEF kept
    <2>4. Still(kept, u) /\ u.state = kept.state /\ u.cache = kept.cache /\ u.tx = ack
        BY <2>3 DEF Still, Shape, Fields
    <2> HIDE DEF u
    <2>5. Still(s, u)
        BY <2>3, <2>4 DEF Still
    <2>6. Asking(u) => Asking(s) /\ Current(u) = Current(s)
        BY <1>2, <2>3, <2>4 DEF Asking, Current
    <2> QED
        BY <2>1, <2>2, <2>4, <2>5, <2>6 DEF Answers
  <1> QED
      BY <1>1, <1>2

\* One that needs no more than being heard.
LEMMA AnswersHandles ==
    ASSUME NEW s, NEW t, NEW f, NEW u, Aside(s, t), Answers(t, f, u),
           f \in Messages, f.kind \in Unminded
    PROVE  Handles(s, f, u)
  <1>1. Asking(t) = Asking(s) /\ Current(t) = Current(s) /\ Acking(t) = Acking(s)
      BY DEF Aside, Asking, Current, Acking
  <1>2. Requests(s, u)
      BY <1>1 DEF Aside, Answers, Still, Requests
  <1>3. Hears(s, f, u) /\ Reports(s, f, u)
      BY DEF Aside, Answers, Still, Hears, Reports
  <1>4. Acks(s, f, u)
      BY <1>1 DEF Aside, Answers, Still, Acks
  <1> QED
      BY <1>2, <1>3, <1>4 DEF Aside, Answers, Still, Handles, Step

\* A pairing message is acknowledged by whoever minds it.
LEMMA HeardPairingHandles ==
    ASSUME NEW s, Shape(s), NEW f, f \in Messages, f.kind = "pairing"
    PROVE  Handles(s, f, HeardPairing(s, f))
  <1> DEFINE t == IF s.pairing_mode THEN PublicAdd(s, f.from) ELSE s
             u == SendAck(t, f, "ackpair")
             v == [u EXCEPT !.peers[SlotOf(t, f.from)].mid = f.id,
                            !.peers[SlotOf(t, f.from)].synced = TRUE]
  <1>1. HeardPairing(s, f) = IF ~IsPeer(t, f.from) THEN t ELSE v
      BY DEF HeardPairing
  <1>2. Aside(s, t)
      BY PublicAside, HelpersAside
  <1> HIDE DEF t
  <1>3. Handles(s, f, t)
      BY <1>2, AsideMoves, MovesStep
  <1>4. Answers(t, f, u)
      BY <1>2, SendAckAnswers DEF Aside, Still
  <1> HIDE DEF u
  <1>5. Handles(s, f, u)
      BY <1>2, <1>4, AnswersHandles DEF Unminded
  <1>6. Aside(u, v)
      BY <1>5 DEF Handles, Step, Aside, Still, Shape, Fields
  <1> HIDE DEF v
  <1> QED
      BY <1>1, <1>3, <1>5, <1>6, AsideMoves, HandlesThenMoves

\* An attachment is acknowledged without being taken.
LEMMA HeardAttachHandles ==
    ASSUME NEW s, Shape(s), NEW f, f \in Messages, f.kind \in {"attach", "detach"}
    PROVE  Handles(s, f, HeardAttach(s, f))
  <1> DEFINE t == CASE f.to # MyId(s) -> s
                    [] f.to = MyId(s) /\ f.kind = "attach" ->
                         [s EXCEPT !.pairing_request = TRUE, !.planned = TRUE]
                    [] f.to = MyId(s) /\ f.kind = "detach" ->
                         IF IsPeer(s, f.from) THEN PeerRemove(s, f.from) ELSE s
  <1>1. Aside(s, s) /\ Aside(s, PeerRemove(s, f.from))
      BY HelpersAside
  <1>2. Aside(s, [s EXCEPT !.pairing_request = TRUE, !.planned = TRUE])
      BY DEF Aside, Still, Shape, Fields
  <1>3. Aside(s, t)
      BY <1>1, <1>2
  <1>4. HeardAttach(s, f) = SendAck(t, f, "ack")
      BY DEF HeardAttach
  <1> HIDE DEF t
  <1>5. Answers(t, f, SendAck(t, f, "ack"))
      BY <1>3, SendAckAnswers DEF Aside, Still
  <1> QED
      BY <1>3, <1>4, <1>5, AnswersHandles DEF Unminded

\* A message that is taken is put down as heard and acknowledged.
LEMMA AcceptHandles ==
    ASSUME NEW s, Shape(s), NEW f, f \in Messages
    PROVE  Handles(s, f, Accept(s, f)) /\ Accept(s, f).heard = Append(s.heard, f)
  <1> DEFINE i == SlotOf(s, f.from)
             restarted == s.mode = "gateway" /\ (~s.peers[i].synced \/ s.peers[i].mid > f.id)
             kind == IF restarted THEN "acksubs" ELSE "ack"
             t == [s EXCEPT !.peers[i].mid = f.id, !.peers[i].synced = TRUE,
                            !.rxq = IF Fits(s) THEN Append(@, f) ELSE @,
                            !.planned = TRUE,
                            !.heard = Append(@, f)]
             u == SendAck(t, f, kind)
  <1>1. Accept(s, f) = u
      BY DEF Accept
  <1>2. /\ Shape(t) /\ t.serial = s.serial /\ t.message_id = s.message_id /\ t.boots = s.boots
        /\ t.received = s.received /\ t.heard = Append(s.heard, f) /\ t.done = s.done
        /\ t.sent_subs = s.sent_subs /\ t.state = s.state /\ t.tx = s.tx /\ t.cache = s.cache
      BY DEF Shape, Fields
  <1> HIDE DEF kind, t
  <1>3. Answers(t, f, u)
      BY <1>2, SendAckAnswers
  <1> HIDE DEF u
  <1>4. Asking(t) = Asking(s) /\ Current(t) = Current(s) /\ Acking(t) = Acking(s)
      BY <1>2 DEF Asking, Current, Acking
  <1>5. Requests(s, u)
      BY <1>2, <1>3, <1>4 DEF Answers, Still, Requests
  <1>6. Hears(s, f, u) /\ Reports(s, f, u) /\ u.heard = Append(s.heard, f)
      BY <1>2, <1>3 DEF Answers, Still, Hears, Reports
  <1>7. Acks(s, f, u)
      BY <1>2, <1>3, <1>4, <1>6 DEF Answers, Acks
  <1> QED
      BY <1>1, <1>2, <1>3, <1>5, <1>6, <1>7 DEF Answers, Still, Handles, Step

\* A peer's message is taken, or not acknowledged.
LEMMA HeardDataHandles ==
    ASSUME NEW s, Shape(s), NEW f, f \in Messages PROVE Handles(s, f, HeardData(s, f))
  <1> DEFINE i == SlotOf(s, f.from)
             t == [s EXCEPT !.peers[i].mid = f.id, !.peers[i].synced = FALSE]
  <1>1. Handles(s, f, s) /\ Handles(s, f, PublicAdd(s, f.from))
      BY PublicAside, HelpersAside, AsideMoves, MovesStep
  <1>2. Handles(s, f, t)
    <2>1. Aside(s, t)
        BY DEF Aside, Still, Shape, Fields
    <2> QED
        BY <2>1, AsideMoves, MovesStep
  <1>3. Handles(s, f, Accept(s, f))
      BY AcceptHandles
  <1>4. HeardData(s, f) \in {s, PublicAdd(s, f.from), t, Accept(s, f)}
    <2> HIDE DEF t
    <2>1. CASE ~IsPeer(s, f.from)
        BY <2>1 DEF HeardData
    <2>2. CASE IsPeer(s, f.from) /\ ~IsNew(s, f)
        BY <2>2 DEF HeardData
    <2>3. CASE IsPeer(s, f.from) /\ IsNew(s, f)
        BY <2>3 DEF HeardData, t
    <2> QED
        BY <2>1, <2>2, <2>3
  <1> HIDE DEF t
  <1> QED
      BY <1>1, <1>2, <1>3, <1>4

\* The acknowledgement that was waited for ends the exchange.
LEMMA HeardAckHandles ==
    ASSUME NEW s, Shape(s), NEW f, f.kind \in AckKinds
    PROVE  Handles(s, f, HeardAck(s, f))
  <1>1. CASE s.state # "wait" \/ ~Acknowledges(s, f)
      BY <1>1, HelpersAside, AsideMoves, MovesStep DEF HeardAck
  <1>2. CASE ~(s.state # "wait" \/ ~Acknowledges(s, f))
    <2> DEFINE t == CASE s.tx.kind = "pairing" ->
                           IF f.kind = "ackpair" THEN Paired(s, f.to) ELSE s
                      [] s.tx.kind = "sub" -> [s EXCEPT !.sent_subs = @ + 1]
                      [] OTHER -> IF f.kind = "acksubs" THEN [s EXCEPT !.sent_subs = 0] ELSE s
               u == IF s.rx_after_ack THEN OpenWindow(t) ELSE t
               v == [u EXCEPT !.count = 0, !.ack = TRUE, !.done = @ \cup {s.tx}]
               w == GoToRxOrSleep(v)
               Beside(x) == /\ Shape(x) /\ x.serial = s.serial /\ x.message_id = s.message_id
                            /\ x.boots = s.boots /\ x.received = s.received
                            /\ x.heard = s.heard /\ x.done = s.done
    <2>1. HeardAck(s, f) = w
        BY <1>2 DEF HeardAck
    <2>2. Beside(s) /\ s.sent_subs \in {s.sent_subs, 0}
        OBVIOUS
    <2>3. LET p == Paired(s, f.to) IN Beside(p) /\ p.sent_subs \in {s.sent_subs, 0}
        BY DEF Paired, Shape, Fields
    <2>4. LET p == [s EXCEPT !.sent_subs = @ + 1] IN Beside(p) /\ p.sent_subs = s.sent_subs + 1
        BY DEF Shape, Fields
    <2>5. LET p == [s EXCEPT !.sent_subs = 0] IN Beside(p) /\ p.sent_subs = 0
        BY DEF Shape, Fields
    <2>6. Beside(t) /\ (t.sent_subs \in {s.sent_subs, 0}
                        \/ (s.tx.kind = "sub" /\ t.sent_subs = s.sent_subs + 1))
      <3> HIDE DEF Beside
      <3>1. CASE s.tx.kind = "pairing"
          BY <2>2, <2>3, <3>1
      <3>2. CASE s.tx.kind = "sub"
          BY <2>4, <3>2
      <3>3. CASE s.tx.kind \notin {"pairing", "sub"}
          BY <2>2, <2>5, <3>3
      <3> QED
          BY <3>1, <3>2, <3>3
    <2> HIDE DEF t
    <2>7. Beside(u) /\ u.sent_subs = t.sent_subs
      <3>1. Aside(t, OpenWindow(t))
          BY <2>6, HelpersAside
      <3> QED
          BY <2>6, <3>1 DEF Aside, Still
    <2> HIDE DEF u
    <2>8. /\ Shape(v) /\ v.serial = s.serial /\ v.message_id = s.message_id /\ v.boots = s.boots
          /\ v.received = s.received /\ v.heard = s.heard /\ v.done = s.done \cup {s.tx}
          /\ v.sent_subs = t.sent_subs
        BY <2>7 DEF Shape, Fields
    <2> HIDE DEF v
    <2>9. Still(v, w) /\ ~Asking(w) /\ ~Acking(w)
        BY <2>8, IdleMoves DEF Asking, Acking
    <2> HIDE DEF w
    <2>10. Requests(s, w) /\ Hears(s, f, w) /\ Acks(s, f, w)
        BY <2>8, <2>9 DEF Still, Requests, Hears, Acks
    <2>11. s.state = "wait" /\ f.kind \in AckKinds /\ f.from = s.serial /\ f.id = s.message_id
        BY <1>2 DEF Acknowledges
    <2>12. w.done = s.done \cup {s.tx} /\ w.sent_subs = t.sent_subs
        BY <2>8, <2>9 DEF Still
    <2>13. Reports(s, f, w)
        BY <2>6, <2>9, <2>11, <2>12 DEF Reports
    <2> QED
        BY <2>1, <2>8, <2>9, <2>10, <2>13 DEF Still, Handles, Step
  <1> QED
      BY <1>1, <1>2

\* A packet is a message or an acknowledgement.
LEMMA HeardHandles ==
    ASSUME NEW s, Shape(s), NEW f, f \in Messages \/ f.kind \in AckKinds
    PROVE  Handles(s, f, Heard(s, f))
  <1>1. CASE f.kind \in AckKinds
    <2>1. Heard(s, f) = HeardAck(s, f)
        BY <1>1 DEF Heard, AckKinds
    <2> QED
        BY <1>1, <2>1, HeardAckHandles
  <1>2. CASE f.kind = "pairing" /\ f \in Messages
    <2>1. Heard(s, f) = HeardPairing(s, f)
        BY <1>2 DEF Heard, AckKinds
    <2> QED
        BY <1>2, <2>1, HeardPairingHandles
  <1>3. CASE f.kind \in {"attach", "detach"} /\ f \in Messages
    <2>1. Heard(s, f) = HeardAttach(s, f)
        BY <1>3 DEF Heard, AckKinds
    <2> QED
        BY <1>3, <2>1, HeardAttachHandles
  <1>4. CASE f.kind \notin AckKinds \cup {"pairing", "attach", "detach"} /\ f \in Messages
    <2>1. Heard(s, f) = HeardData(s, f)
        BY <1>4 DEF Heard
    <2> QED
        BY <1>4, <2>1, HeardDataHandles
  <1> QED
      BY <1>1, <1>2, <1>3, <1>4

\* A packet read in time or late.
LEMMA OnRxDoneHandles ==
    ASSUME NEW s, Shape(s), NEW f, f \in Messages \/ f.kind \in AckKinds
    PROVE  Handles(s, f, OnRxDone(s, f))
  <1> DEFINE late == s.timeout # "never" /\ s.late
             t == GoToRxOrSleep(s)
  <1>1. CASE late /\ s.state = "wait" /\ s.count > 0
    <2>1. OnRxDone(s, f) = Retransmit(s)
        BY <1>1 DEF OnRxDone
    <2> QED
        BY <1>1, <2>1, RetransmitMoves, MovesStep
  <1>2. CASE late /\ ~(s.state = "wait" /\ s.count > 0)
    <2>1. OnRxDone(s, f) = Heard(t, f)
        BY <1>2 DEF OnRxDone
    <2>2. Moves(s, t) /\ t.state # "wait"
        BY IdleMoves
    <2> HIDE DEF t
    <2>3. Handles(t, f, Heard(t, f))
        BY <2>2, HeardHandles DEF Moves, Still
    <2> QED
        BY <2>1, <2>2, <2>3, MovesThenHandles
  <1>3. CASE ~late
    <2>1. OnRxDone(s, f) = Heard(s, f)
        BY <1>3 DEF OnRxDone
    <2> QED
        BY <2>1, HeardHandles
  <1> QED
      BY <1>1, <1>2, <1>3

\* The transceiver's task: a packet that was received is handled or discarded.
StepOn(s, t) == Step(s, s.received, t) /\ t.received \in {s.received, Nothing}
PacketOK(s) == s.received = Nothing \/ s.received \in Messages \/ s.received.kind \in AckKinds

\* The transceiver enters a state after a handler: nothing received is left.
LEMMA EnterStep ==
    ASSUME NEW s, NEW f, NEW t, Handles(s, f, t), NEW target
    PROVE  Step(s, f, Enter(t, target)) /\ Enter(t, target).received = Nothing
  <1> DEFINE u == Enter(t, target)
  <1>1. /\ Shape(u) /\ u.serial = t.serial /\ u.message_id = t.message_id /\ u.boots = t.boots
        /\ u.heard = t.heard /\ u.done = t.done /\ u.sent_subs = t.sent_subs
        /\ u.state = t.state /\ u.tx = t.tx /\ u.cache = t.cache /\ u.received = Nothing
      BY DEF Handles, Step, Enter, Shape, Fields
  <1> HIDE DEF u
  <1>2. Asking(u) = Asking(t) /\ Current(u) = Current(t) /\ Acking(u) = Acking(t)
      BY <1>1 DEF Asking, Current, Acking
  <1>3. Requests(s, u)
      BY <1>1, <1>2 DEF Handles, Step, Requests
  <1>4. Hears(s, f, u) /\ Acks(s, f, u) /\ Reports(s, f, u)
      BY <1>1, <1>2 DEF Handles, Step, Hears, Acks, Reports
  <1> QED
      BY <1>1, <1>3, <1>4 DEF Handles, Step, u

\* The end of a transmission.
LEMMA CheckTxStep ==
    ASSUME NEW s, Shape(s), NEW f
    PROVE  Step(s, f, CheckTx(s)) /\ CheckTx(s).received = Nothing
  <1> DEFINE r == [s EXCEPT !.desired = "sleep"]
             t == OnTxDone(r)
  <1>1. CheckTx(s) = Enter(t, t.desired)
      BY DEF CheckTx
  <1>2. Aside(s, r) /\ Shape(r)
      BY DEF Aside, Still, Shape, Fields
  <1> HIDE DEF r
  <1>3. Moves(s, t)
      BY <1>2, AsideMoves, OnTxDoneMoves, MovesThenMoves
  <1> HIDE DEF t
  <1> QED
      BY <1>1, <1>3, MovesStep, EnterStep

\* A packet is read from the transceiver.
LEMMA CheckRxStep ==
    ASSUME NEW s, Shape(s), s.received \in Messages \/ s.received.kind \in AckKinds
    PROVE  Step(s, s.received, CheckRx(s)) /\ CheckRx(s).received = Nothing
  <1> DEFINE f == s.received
             r == [s EXCEPT !.expired = FALSE]
             t == OnRxDone(r, f)
             u == [t EXCEPT !.received = Nothing]
  <1>1. CheckRx(s) = u
      BY DEF CheckRx
  <1>2. Aside(s, r) /\ Shape(r)
      BY DEF Aside, Still, Shape, Fields
  <1> HIDE DEF r, f
  <1>3. Handles(s, f, t)
    <2>1. Handles(r, f, t)
        BY <1>2, OnRxDoneHandles DEF f
    <2>2. Moves(s, r) /\ (r.state = "wait" => s.state = "wait" /\ r.tx = s.tx)
        BY <1>2, AsideMoves DEF Aside
    <2> HIDE DEF t
    <2> QED
        BY <2>1, <2>2, MovesThenHandles
  <1> HIDE DEF t
  <1>4. /\ Shape(u) /\ u.serial = t.serial /\ u.message_id = t.message_id /\ u.boots = t.boots
        /\ u.heard = t.heard /\ u.done = t.done /\ u.sent_subs = t.sent_subs
        /\ u.state = t.state /\ u.tx = t.tx /\ u.cache = t.cache /\ u.received = Nothing
      BY <1>3 DEF Handles, Step, Shape, Fields
  <1> HIDE DEF u
  <1>5. Asking(u) = Asking(t) /\ Current(u) = Current(t) /\ Acking(u) = Acking(t)
      BY <1>4 DEF Asking, Current, Acking
  <1>6. Requests(s, u)
      BY <1>3, <1>4, <1>5 DEF Handles, Step, Requests
  <1>7. Hears(s, f, u) /\ Acks(s, f, u) /\ Reports(s, f, u)
      BY <1>3, <1>4, <1>5 DEF Handles, Step, Hears, Acks, Reports
  <1> QED
      BY <1>1, <1>3, <1>4, <1>6, <1>7 DEF Handles, Step, f

\* A move before a step.
LEMMA MovesThenStep ==
    ASSUME NEW s, NEW f, NEW t, NEW u, Moves(s, t), Step(t, f, u),
           t.state = "wait" => s.state = "wait" /\ t.tx = s.tx
    PROVE  Step(s, f, u)
  BY DEF Moves, Still, Step, Requests, Hears, Acks, Reports

\* The transceiver's whole task.
LEMMA SpiritRunStep ==
    ASSUME NEW s, Shape(s), PacketOK(s) PROVE StepOn(s, SpiritRun(s))
  <1> DEFINE t == IF TimedOut(s) THEN OnRxTimeout(s) ELSE s
             f == s.received
  <1>1. SpiritRun(s) =
          CASE t.desired # t.current -> Enter(t, t.desired)
            [] t.desired = t.current /\ t.current = "tx" /\ t.sent -> CheckTx(t)
            [] t.desired = t.current /\ t.current = "rx" /\ t.received # Nothing -> CheckRx(t)
            [] OTHER -> t
      BY DEF SpiritRun
  <1>2. Moves(s, t) /\ (t.state = "wait" => s.state = "wait" /\ t.tx = s.tx)
    <2>1. Moves(s, s)
        BY HelpersAside, AsideMoves
    <2> QED
        BY <2>1, OnRxTimeoutMoves
  <1> HIDE DEF t
  <1>3. Shape(t) /\ t.received = f
      BY <1>2 DEF Moves, Still
  <1>4. Handles(s, f, t)
      BY <1>2, MovesStep
  <1>5. CASE t.desired # t.current
      BY <1>1, <1>4, <1>5, EnterStep DEF StepOn
  <1>6. CASE t.desired = t.current /\ t.current = "tx" /\ t.sent
    <2>1. SpiritRun(s) = CheckTx(t)
        BY <1>1, <1>6
    <2>2. Step(t, f, CheckTx(t)) /\ CheckTx(t).received = Nothing
        BY <1>3, CheckTxStep
    <2> QED
        BY <1>2, <2>1, <2>2, MovesThenStep DEF StepOn
  <1>7. CASE t.desired = t.current /\ t.current = "rx" /\ t.received # Nothing
    <2>1. SpiritRun(s) = CheckRx(t)
        BY <1>1, <1>7
    <2>2. Step(t, f, CheckRx(t)) /\ CheckRx(t).received = Nothing
        BY <1>3, <1>7, CheckRxStep DEF PacketOK
    <2> QED
        BY <1>2, <2>1, <2>2, MovesThenStep DEF StepOn
  <1>8. CASE /\ ~(t.desired # t.current)
             /\ ~(t.desired = t.current /\ t.current = "tx" /\ t.sent)
             /\ ~(t.desired = t.current /\ t.current = "rx" /\ t.received # Nothing)
    <2>1. SpiritRun(s) = t
        BY <1>1, <1>8
    <2> QED
        BY <1>3, <1>4, <2>1 DEF StepOn, Handles
  <1> QED
      BY <1>5, <1>6, <1>7, <1>8

\* A message begins.
Counts(s) ==
    /\ s.serial \in Stations /\ s.boots \in Nat /\ s.sent_subs \in Nat
    /\ s.message_id \in Nat /\ s.message_id + 1 < ID_MODULUS
    /\ s.pub \in Seq(Publications)

\* A message begins: it is the station's current one, under the next number.
LEMMA StartTxHandles ==
    ASSUME NEW s, Shape(s), Counts(s), NEW f, NEW kind \in Kinds, NEW to \in Identities \cup {NoId},
           NEW n \in Nat, kind = "sub" => n = s.sent_subs
    PROVE  Handles(s, f, StartTx(s, kind, to, n))
  <1> DEFINE t == StartTx(s, kind, to, n)
             id == (s.message_id + 1) % ID_MODULUS
             m == Frame(s.serial, id, kind, to, n, s.boots)
  <1>1. id = s.message_id + 1 /\ id \in Nat
    <2>1. \A x, y \in Nat : x < y => x % y = x
        BY SMTT(40)
    <2>2. s.message_id + 1 \in Nat /\ ID_MODULUS \in Nat /\ s.message_id + 1 < ID_MODULUS
        BY CountAssumption DEF Counts
    <2> QED
        BY <2>1, <2>2
  <1>2. /\ m \in Messages /\ m.from = s.serial /\ m.id = id /\ m.boot = s.boots
        /\ m.kind = kind /\ m.n = n
      BY <1>1 DEF Counts, Frame, Messages
  <1>3. /\ Shape(t) /\ t.serial = s.serial /\ t.message_id = id /\ t.boots = s.boots
        /\ t.heard = s.heard /\ t.done = s.done /\ t.sent_subs = s.sent_subs
        /\ t.state = "tx" /\ t.tx = m /\ t.received = s.received
      BY DEF StartTx, Shape, Fields
  <1> HIDE DEF t, m, id
  <1>4. Current(t) = m /\ ~Acking(t)
      BY <1>3 DEF Current, Acking
  <1>5. Requests(s, t)
      BY <1>1, <1>2, <1>3, <1>4 DEF Requests
  <1>6. Hears(s, f, t) /\ Acks(s, f, t) /\ Reports(s, f, t)
      BY <1>3, <1>4 DEF Hears, Acks, Reports
  <1> QED
      BY <1>3, <1>5, <1>6 DEF Handles, Step, t

\* A change of other fields, then a handler.
LEMMA AsideThenHandles ==
    ASSUME NEW s, NEW f, NEW t, NEW u, Aside(s, t), Handles(t, f, u) PROVE Handles(s, f, u)
  <1>1. Moves(s, t) /\ (t.state = "wait" => s.state = "wait" /\ t.tx = s.tx)
      BY AsideMoves DEF Aside
  <1> QED
      BY <1>1, MovesThenHandles

\* A change of other fields keeps the counts.
LEMMA AsideCounts ==
    ASSUME NEW s, NEW t, Aside(s, t), Counts(s), t.pub \in Seq(Publications)
    PROVE  Shape(t) /\ Counts(t) /\ t.sent_subs = s.sent_subs
  BY DEF Aside, Still, Counts

\* What leaves the publish queue is such a message.
LEMMA PublishHandles ==
    ASSUME NEW s, Shape(s), Counts(s), NEW f
    PROVE  Handles(s, f, Publish(s))
  <1>1. CASE s.pub = <<>>
      BY <1>1, HelpersAside, AsideMoves, MovesStep DEF Publish
  <1>2. CASE s.pub # <<>>
    <2> DEFINE p == Tail(s.pub)
               t == [s EXCEPT !.pub = p]
               m == Head(s.pub)
    <2>1. Publish(s) = StartTx(t, m.kind, m.to, m.n)
        BY <1>2 DEF Publish
    <2>2. m \in Publications /\ p \in Seq(Publications)
        BY <1>2, HeadTailProperties DEF Counts
    <2>3. /\ m.kind \in Kinds /\ m.to \in Identities \cup {NoId} /\ m.n \in Nat
          /\ m.kind # "sub"
        BY <2>2 DEF Publications, Kinds, Directed
    <2> HIDE DEF m, p
    <2>4. Aside(s, t) /\ t.pub = p
        BY DEF Aside, Still, Shape, Fields
    <2> HIDE DEF t
    <2>5. Shape(t) /\ Counts(t)
        BY <2>2, <2>4, AsideCounts
    <2>6. Handles(t, f, StartTx(t, m.kind, m.to, m.n))
        BY <2>3, <2>5, StartTxHandles
    <2> QED
        BY <2>1, <2>4, <2>6, AsideThenHandles
  <1> QED
      BY <1>1, <1>2

\* The radio's task starts at most one message.
LEMMA RadioRunHandles ==
    ASSUME NEW s, Shape(s), Counts(s), NEW f
    PROVE  Handles(s, f, RadioRun(s))
  <1> DEFINE q == [s EXCEPT !.pairing_request = FALSE, !.left = TRUE]
             r == [s EXCEPT !.pairing_request = FALSE, !.left = FALSE]
             o == [s EXCEPT !.left = FALSE]
             t == [s EXCEPT !.rxq = SubSeq(@, FirstStray(s) + 1, Len(@)), !.left = TRUE]
             u == [s EXCEPT !.rxq = <<>>, !.left = FALSE]
  <1>1. RadioRun(s) \in {q, StartTx(r, "pairing", NoId, 0), StartTx(o, "sub", NoId, s.sent_subs),
                         t, Publish(u)}
      BY DEF RadioRun
  <1>2. /\ Aside(s, q) /\ Aside(s, r) /\ Aside(s, o) /\ Aside(s, t) /\ Aside(s, u)
        /\ r.pub = s.pub /\ o.pub = s.pub /\ u.pub = s.pub
      BY DEF Aside, Still, Shape, Fields
  <1> HIDE DEF q, r, o, t, u
  <1>3. /\ Shape(r) /\ Counts(r) /\ Shape(o) /\ Counts(o)
        /\ Shape(u) /\ Counts(u)
      BY <1>2, AsideCounts DEF Counts
  <1>4. Handles(s, f, StartTx(r, "pairing", NoId, 0))
    <2>1. "pairing" \in Kinds /\ "pairing" # "sub"
        BY DEF Kinds
    <2>2. Handles(r, f, StartTx(r, "pairing", NoId, 0))
        BY <1>3, <2>1, StartTxHandles
    <2> QED
        BY <1>2, <2>2, AsideThenHandles
  <1>5. Handles(s, f, StartTx(o, "sub", NoId, s.sent_subs))
    <2>1. "sub" \in Kinds /\ s.sent_subs \in Nat /\ o.sent_subs = s.sent_subs
        BY <1>2 DEF Kinds, Counts, Aside, Still
    <2>2. Handles(o, f, StartTx(o, "sub", NoId, s.sent_subs))
        BY <1>3, <2>1, StartTxHandles
    <2> QED
        BY <1>2, <2>2, AsideThenHandles
  <1>6. Handles(s, f, t) /\ Handles(s, f, q)
      BY <1>2, AsideMoves, MovesStep
  <1>7. Handles(s, f, Publish(u))
      BY <1>2, <1>3, PublishHandles, AsideThenHandles
  <1> QED
      BY <1>1, <1>4, <1>5, <1>6, <1>7

\* A save, whole or cut short, changes other fields.
LEMMA AfterSaveAside ==
    ASSUME NEW s, Shape(s), NEW t \in AfterSave(s)
    PROVE  Aside(s, t) /\ t.pub = s.pub
  <1> DEFINE u == [s EXCEPT !.planned = FALSE]
  <1>1. Aside(s, u) /\ u.pub = s.pub
      BY DEF Aside, Still, Shape, Fields
  <1>2. t = u \/ (\E image : t = [u EXCEPT !.stored = image, !.save = FALSE])
        \/ (\E image : t = [u EXCEPT !.stored = image, !.planned = TRUE, !.faults = @ - 1])
      BY DEF AfterSave
  <1> HIDE DEF u
  <1>3. CASE t = u
      BY <1>1, <1>3
  <1>4. ASSUME NEW image, t = [u EXCEPT !.stored = image, !.save = FALSE]
        PROVE  Aside(s, t) /\ t.pub = s.pub
      BY <1>1, <1>4 DEF Aside, Still, Shape, Fields
  <1>5. ASSUME NEW image, t = [u EXCEPT !.stored = image, !.planned = TRUE, !.faults = @ - 1]
        PROVE  Aside(s, t) /\ t.pub = s.pub
      BY <1>1, <1>5 DEF Aside, Still, Shape, Fields
  <1> QED
      BY <1>2, <1>3, <1>4, <1>5

\* So do the application's calls.
LEMMA CallAside ==
    ASSUME NEW s, Shape(s), NEW c \in Calls, c.op # "reboot"
    PROVE  Aside(s, CallResult(s, c))
  <1>0. c.op \in {"pub", "clear", "pairing_request", "pairing_mode", "automatic_pairing",
                  "add", "remove", "purge", "listen", "rx_after_ack"}
      BY DEF Calls
  <1>1. CASE c.op = "pub"
    <2> DEFINE t == QueuePut(s, c.message)
    <2>1. Aside(s, t)
        BY HelpersAside
    <2>2. CallResult(s, c) = [t EXCEPT !.planned = @ \/ Len(s.pub) < PubCapacity]
        BY <1>1 DEF CallResult
    <2> HIDE DEF t
    <2> QED
        BY <2>1, <2>2 DEF Aside, Still, Shape, Fields
  <1>2. CASE c.op = "listen"
    <2> DEFINE t == OpenWindow(s)
    <2>1. Aside(s, t)
        BY HelpersAside
    <2>2. CallResult(s, c) = [t EXCEPT !.planned = TRUE]
        BY <1>2 DEF CallResult
    <2> HIDE DEF t
    <2> QED
        BY <2>1, <2>2 DEF Aside, Still, Shape, Fields
  <1>3. CASE c.op \in {"add", "remove"}
    <2>1. CallResult(s, c) \in {PublicAdd(s, c.id), PublicRemove(s, c.id)}
        BY <1>3 DEF CallResult
    <2> QED
        BY <2>1, PublicAside
  <1>4. CASE c.op = "purge"
    <2>1. CallResult(s, c) = PurgeAll(s)
        BY <1>4 DEF CallResult
    <2> QED
        BY <2>1, HelpersAside
  <1>5. CASE c.op \in {"clear", "pairing_request", "pairing_mode", "automatic_pairing", "rx_after_ack"}
    <2> DEFINE a == [s EXCEPT !.pub = <<>>]
               b == [s EXCEPT !.fits = c.fits, !.pairing_request = TRUE, !.planned = TRUE]
               d == [s EXCEPT !.pairing_mode = c.on]
               e == [s EXCEPT !.automatic_pairing = c.on]
               g == [s EXCEPT !.rx_after_ack = c.on]
    <2>1. Aside(s, a) /\ Aside(s, b) /\ Aside(s, d) /\ Aside(s, e) /\ Aside(s, g)
        BY DEF Aside, Still, Shape, Fields
    <2>2. CallResult(s, c) \in {a, b, d, e, g}
        BY <1>5 DEF CallResult
    <2> HIDE DEF a, b, d, e, g
    <2> QED
        BY <2>1, <2>2
  <1> QED
      BY <1>0, <1>1, <1>2, <1>3, <1>4, <1>5

-------------------------------------------------------------------------------
(***************************************************************************)
(* The frames of the network.                                              *)
(***************************************************************************)
LEMMA MessageIs ==
    ASSUME NEW f \in Messages
    PROVE  /\ f.from \in Stations /\ f.id \in Nat /\ f.boot \in Nat /\ f # Nothing
           /\ f.kind \notin AckKinds \cup {"nothing"}
  <1>1. f.from \in Stations /\ f.id \in Nat /\ f.boot \in Nat /\ f.kind \in Kinds
      BY DEF Messages
  <1>2. f.kind \notin AckKinds \cup {"nothing"}
      BY <1>1 DEF Kinds, Directed, AckKinds
  <1>3. Nothing.kind = "nothing"
      BY DEF Nothing
  <1> QED
      BY <1>1, <1>2, <1>3

\* A station's record has its fields and its identity.
LEMMA LinkedStation ==
    ASSUME Linked, NEW m \in Stations
    PROVE  Shape(node[m]) /\ node[m].serial = m
  BY DEF Linked, StationOK, LinkOK, RadioOK

\* A handler keeps the numbers in order.
LEMMA StepNumbers ==
    ASSUME NEW s, NumbersOK(s), NEW f, NEW t, Step(s, f, t)
    PROVE  /\ NumbersOK(t) /\ t.message_id >= s.message_id
           /\ t.message_id = s.message_id /\ Asking(t) => Asking(s) /\ Current(t) = Current(s)
  <1>1. s.message_id \in Nat /\ s.boots \in Nat /\ s.sent_subs \in Nat
        /\ s.heard \in Seq(Messages \cup {Nothing})
      BY DEF NumbersOK
  <1>2. t.serial = s.serial /\ t.boots = s.boots
      BY DEF Step
  <1>3. t.sent_subs \in Nat /\ (t.sent_subs = s.sent_subs \/ ~Asking(t))
      BY <1>1 DEF Step, Reports
  <1>4. t.heard \in Seq(Messages \cup {Nothing})
    <2>1. CASE t.heard = s.heard
        BY <1>1, <2>1
    <2>2. CASE f \in Messages /\ t.heard = Append(s.heard, f)
        BY <1>1, <2>2, AppendProperties
    <2> QED
        BY <2>1, <2>2 DEF Step, Hears
  <1>5. CASE t.message_id = s.message_id /\ (Asking(t) => Asking(s) /\ Current(t) = Current(s))
    <2>1. Asking(t) => /\ Current(t) \in Messages
                       /\ Current(t).from = t.serial /\ Current(t).id = t.message_id
                       /\ Current(t).boot = t.boots
                       /\ Current(t).kind = "sub" => Current(t).n = t.sent_subs
        BY <1>2, <1>3, <1>5 DEF NumbersOK
    <2> QED
        BY <1>1, <1>2, <1>3, <1>4, <1>5, <2>1 DEF NumbersOK
  <1>6. CASE /\ t.message_id = s.message_id + 1
             /\ Asking(t) => /\ Current(t) \in Messages /\ Current(t).from = t.serial
                             /\ Current(t).id = t.message_id /\ Current(t).boot = t.boots
                             /\ Current(t).kind = "sub" => Current(t).n = t.sent_subs
      BY <1>1, <1>2, <1>3, <1>4, <1>6 DEF NumbersOK
  <1> QED
      BY <1>5, <1>6 DEF Step, Requests

\* A frame in transit stays one when its sender goes on.
LEMMA StepRecent ==
    ASSUME NEW s, NumbersOK(s), NEW f, NEW t, Step(s, f, t), NEW m \in Messages, Recent(s, m)
    PROVE  Recent(t, m)
  <1>1. /\ t.message_id \in Nat /\ s.message_id \in Nat /\ t.message_id >= s.message_id
        /\ t.message_id = s.message_id /\ Asking(t) => Asking(s) /\ Current(t) = Current(s)
      BY StepNumbers DEF NumbersOK
  <1>2. m.id \in Nat /\ t.boots = s.boots
      BY MessageIs DEF Step
  <1> QED
      BY <1>1, <1>2 DEF Recent

\* What has been heard.
Longer(s, t) == \A i \in 1..Len(s.heard) : i \in 1..Len(t.heard) /\ t.heard[i] = s.heard[i]

\* A history that is added to has the old entries and the new one.
LEMMA AppendLonger ==
    ASSUME NEW s, NumbersOK(s), NEW f \in Messages \cup {Nothing}, NEW t, t.heard = Append(s.heard, f)
    PROVE  /\ Longer(s, t)
           /\ \E i \in 1..Len(t.heard) : t.heard[i] = f
  <1>1. s.heard \in Seq(Messages \cup {Nothing})
      BY DEF NumbersOK
  <1>2. /\ Len(t.heard) = Len(s.heard) + 1 /\ Len(s.heard) \in Nat
        /\ \A i \in 1..Len(s.heard) : t.heard[i] = s.heard[i]
        /\ t.heard[Len(s.heard) + 1] = f
      BY <1>1, AppendProperties
  <1> QED
      BY <1>2 DEF Longer

\* A handler only adds to the history.
LEMMA StepLonger ==
    ASSUME NEW s, NumbersOK(s), NEW f, NEW t, Step(s, f, t) PROVE Longer(s, t)
  <1>1. CASE t.heard = s.heard
      BY <1>1 DEF Longer
  <1>2. CASE f \in Messages /\ t.heard = Append(s.heard, f)
      BY <1>2, AppendLonger
  <1> QED
      BY <1>1, <1>2 DEF Step, Hears

\* What one station has heard stays heard.
LEMMA HeardStays ==
    ASSUME \A m \in Stations : Longer(node[m], node'[m]), NEW n, NEW f, HeardOf(n, f)
    PROVE  HeardOf(n, f)'
  BY DEF HeardOf, Longer

\* An action that changes one station.
OneChanges(n, t) == /\ node' = [node EXCEPT ![n] = t]
                    /\ \A m \in Stations : node'[m] = IF m = n THEN t ELSE node[m]

\* A step of one station leaves the others.
LEMMA OneChange ==
    ASSUME Linked, NEW n \in Stations, NEW t, node' = [node EXCEPT ![n] = t]
    PROVE  OneChanges(n, t)
  BY DEF Linked, OneChanges

\* An acknowledgement in transit goes on naming what was taken.
LEMMA StepTells ==
    ASSUME Transit, NEW n \in Stations, NEW t, OneChanges(n, t),
           NEW g, Step(node[n], g, t), NEW f, Tells(f)
    PROVE  Tells(f)'
  <1>0. NumbersOK(node[n])
      BY DEF Transit
  <1>1. \A m \in Stations : Longer(node[m], node'[m])
    <2>1. Longer(node[n], t)
        BY <1>0, StepLonger
    <2>2. \A m \in Stations : Longer(node[m], node[m])
        BY DEF Longer
    <2> QED
        BY <2>1, <2>2 DEF OneChanges
  <1>2. PICK k \in Stations : k = f.from
      BY DEF Tells
  <1>3. /\ f.id \in Nat /\ f.id <= node[k].message_id
        /\ f.id = node[k].message_id /\ Asking(node[k]) => Taken(k)
      BY <1>2 DEF Tells
  <1>4. ASSUME Taken(k), Current(node'[k]) = Current(node[k])
        PROVE  Taken(k)'
    <2>1. CASE Current(node[k]).kind \in Unminded
        BY <1>4, <2>1 DEF Taken
    <2>2. CASE HeardOf(k, Current(node[k]))
      <3>1. PICK c : c = Current(node[k])
          OBVIOUS
      <3>2. HeardOf(k, c)'
          BY <1>1, <2>2, <3>1, HeardStays
      <3>3. Current(node[k])' = c
          BY <1>4, <3>1
      <3> QED
          BY <3>2, <3>3 DEF Taken, HeardOf
    <2> QED
        BY <1>4, <2>1, <2>2 DEF Taken
  <1>5. CASE k # n
    <2>1. node'[k] = node[k]
        BY <1>5 DEF OneChanges
    <2>2. Taken(k) => Taken(k)'
        BY <1>4, <2>1
    <2> QED
        BY <1>2, <1>3, <2>1, <2>2 DEF Tells
  <1>6. CASE k = n
    <2>1. node'[k] = t
        BY <1>6 DEF OneChanges
    <2>2. /\ t.message_id \in Nat /\ node[k].message_id \in Nat /\ t.message_id >= node[k].message_id
          /\ t.message_id = node[k].message_id /\ Asking(t)
               => Asking(node[k]) /\ Current(t) = Current(node[k])
        BY <1>0, <1>6, StepNumbers DEF NumbersOK
    <2>3. f.id <= t.message_id
        BY <1>3, <2>2
    <2>4. ASSUME f.id = t.message_id, Asking(t)
          PROVE  Taken(k)'
      <3>1. t.message_id = node[k].message_id
          BY <1>3, <2>2, <2>4
      <3>2. Asking(node[k]) /\ Current(node'[k]) = Current(node[k])
          BY <2>1, <2>2, <2>4, <3>1
      <3> QED
          BY <1>3, <1>4, <2>4, <3>1, <3>2
    <2> QED
        BY <1>2, <1>3, <2>1, <2>3, <2>4 DEF Tells
  <1> QED
      BY <1>5, <1>6

\* The message that is heard is the sender's current one, or older.
LEMMA ReceivedFrom ==
    ASSUME Transit, NEW n \in Stations, node[n].received \in Messages
    PROVE  LET f == node[n].received IN
           f.from \in Stations /\ f.from # n /\ Recent(node[f.from], f)
  <1>1. ReceivedOK(n)
      BY DEF Transit
  <1> QED
      BY <1>1, MessageIs DEF ReceivedOK

\* An acknowledgement that waits to be read names what was taken.
LEMMA ReceivedAck ==
    ASSUME Transit, NEW n \in Stations, node[n].received.kind \in AckKinds
    PROVE  Tells(node[n].received)
  <1>1. ReceivedOK(n)
      BY DEF Transit
  <1>2. node[n].received # Nothing
      BY DEF Nothing, AckKinds
  <1> QED
      BY <1>1, <1>2, MessageIs DEF ReceivedOK

\* What a station acknowledges has been taken.
LEMMA StepAcks ==
    ASSUME Transit, NEW n \in Stations, NEW t, OneChanges(n, t),
           Step(node[n], node[n].received, t), Acking(t)
    PROVE  Tells(t.tx)'
  <1> DEFINE s == node[n]
             f == node[n].received
  <1>0. NumbersOK(s) /\ AckOK(n)
      BY DEF Transit
  <1>1. CASE Acking(s) /\ t.tx = s.tx
    <2>1. Tells(s.tx)
        BY <1>0, <1>1 DEF AckOK
    <2>2. PICK a : a = t.tx
        OBVIOUS
    <2>3. Tells(a)'
        BY <1>1, <2>1, <2>2, StepTells
    <2>4. t.tx = a
        BY <2>2
    <2> QED
        BY <2>2, <2>3, <1>1 DEF Tells
  <1>2. CASE /\ f \in Messages /\ t.tx.from = f.from /\ t.tx.id = f.id
             /\ f.kind \in Unminded \/ t.heard = Append(s.heard, f)
    <2>1. f.from \in Stations /\ f.from # n /\ Recent(node[f.from], f)
        BY <1>2, ReceivedFrom
    <2>2. PICK k \in Stations : k = f.from
        BY <2>1
    <2>3. PICK m \in Messages : m = f
        BY <1>2
    <2>4. node'[k] = node[k] /\ node'[n] = t
        BY <2>1, <2>2 DEF OneChanges
    <2>5. /\ m.id \in Nat /\ m.id <= node[k].message_id
          /\ m.id = node[k].message_id /\ Asking(node[k]) => m = Current(node[k])
        BY <2>1, <2>2, <2>3, MessageIs DEF Recent
    <2>6. m.kind \in Unminded \/ HeardOf(k, m)'
      <3>1. CASE m.kind \in Unminded
          BY <3>1
      <3>2. CASE t.heard = Append(s.heard, m)
        <4>1. \E i \in 1..Len(t.heard) : t.heard[i] = m
            BY <1>0, <3>2, AppendLonger
        <4>2. n \in Stations \ {k}
            BY <2>1, <2>2
        <4> QED
            BY <2>4, <4>1, <4>2 DEF HeardOf
      <3> QED
          BY <1>2, <2>3, <3>1, <3>2
    <2>7. m.id = node[k].message_id /\ Asking(node[k]) => Taken(k)'
        BY <2>4, <2>5, <2>6 DEF Taken, HeardOf
    <2>8. t.tx.from = k /\ t.tx.id = m.id
        BY <1>2, <2>2, <2>3
    <2> HIDE DEF s, f
    <2> QED
        BY <2>4, <2>5, <2>7, <2>8 DEF Tells
  <1> QED
      BY <1>1, <1>2 DEF Step, Acks

\* Done means heard and the subscriptions are those taken, for one station.
DoneOf(n) == \A f \in node[n].done : f.kind \notin Unminded => HeardOf(n, f)
SubOf(n, k) == \E m \in Stations \ {n} : \E i \in 1..Len(node[m].heard) :
    LET f == node[m].heard[i] IN f # Nothing /\ f.from = n /\ f.kind = "sub" /\ f.n = k
SubsOf(n) == \A k \in 0..node[n].sent_subs - 1 : SubOf(n, k)

\* The two properties, station by station.
LEMMA AnsweredIs ==
    /\ DoneMeansHeard <=> \A n \in Stations : DoneOf(n)
    /\ SubscriptionsTaken <=> \A n \in Stations : SubsOf(n)
  <1>1. DoneMeansHeard <=> \A n \in Stations : DoneOf(n)
      BY DEF DoneMeansHeard, DoneOf, HeardOf, Unminded
  <1>2. SubscriptionsTaken <=> \A n \in Stations : SubsOf(n)
      BY DEF SubscriptionsTaken, SubsOf, SubOf
  <1> QED
      BY <1>1, <1>2

\* The same of the next state.
LEMMA AnsweredThen ==
    ASSUME \A n \in Stations : DoneOf(n)' /\ SubsOf(n)'
    PROVE  DoneMeansHeard' /\ SubscriptionsTaken'
  <1>1. DoneMeansHeard'
      BY DEF DoneMeansHeard, DoneOf, HeardOf, Unminded
  <1>2. SubscriptionsTaken'
      BY DEF SubscriptionsTaken, SubsOf, SubOf
  <1> QED
      BY <1>1, <1>2

\* What was heard stays heard.
LEMMA DoneStays ==
    ASSUME \A m \in Stations : Longer(node[m], node'[m]), NEW n, DoneOf(n),
           node'[n].done = node[n].done
    PROVE  DoneOf(n)'
  <1> SUFFICES ASSUME NEW f \in node'[n].done, f.kind \notin Unminded
               PROVE  HeardOf(n, f)'
      BY DEF DoneOf
  <1>1. HeardOf(n, f)
      BY DEF DoneOf
  <1> QED
      BY <1>1, HeardStays

\* A subscription that was taken stays taken.
LEMMA SubStays ==
    ASSUME \A m \in Stations : Longer(node[m], node'[m]), NEW n, NEW k, SubOf(n, k)
    PROVE  SubOf(n, k)'
  <1>0. PICK m \in Stations \ {n} : \E i \in 1..Len(node[m].heard) :
            LET f == node[m].heard[i] IN f # Nothing /\ f.from = n /\ f.kind = "sub" /\ f.n = k
      BY DEF SubOf
  <1>1. PICK i \in 1..Len(node[m].heard) :
            LET f == node[m].heard[i] IN f # Nothing /\ f.from = n /\ f.kind = "sub" /\ f.n = k
      BY <1>0
  <1>2. i \in 1..Len(node'[m].heard) /\ node'[m].heard[i] = node[m].heard[i]
      BY DEF Longer
  <1> QED
      BY <1>1, <1>2 DEF SubOf

\* All that are counted do, when the count stays or starts anew.
LEMMA SubsStay ==
    ASSUME \A m \in Stations : Longer(node[m], node'[m]), NEW n, SubsOf(n),
           node'[n].sent_subs \in {node[n].sent_subs, 0}
    PROVE  SubsOf(n)'
  <1> SUFFICES ASSUME NEW k \in 0..node'[n].sent_subs - 1
               PROVE  SubOf(n, k)'
      BY DEF SubsOf
  <1>1. node'[n].sent_subs = node[n].sent_subs
      BY SMT
  <1>2. SubOf(n, k)
      BY <1>1 DEF SubsOf
  <1> QED
      BY <1>2, SubStays

\* A station's own answers after a handler.
LEMMA StepDone ==
    ASSUME Transit, NEW n \in Stations, node[n].serial = n, DoneOf(n), SubsOf(n),
           NEW t, OneChanges(n, t), StepOn(node[n], t)
    PROVE  DoneOf(n)' /\ SubsOf(n)'
  <1> DEFINE s == node[n]
             f == node[n].received
  <1>0. NumbersOK(s) /\ Step(s, f, t)
      BY DEF Transit, StepOn
  <1>1. \A m \in Stations : Longer(node[m], node'[m])
    <2>1. Longer(node[n], t)
        BY <1>0, StepLonger
    <2>2. \A m \in Stations : Longer(node[m], node[m])
        BY DEF Longer
    <2> QED
        BY <2>1, <2>2 DEF OneChanges
  <1>2. node'[n] = t
      BY DEF OneChanges
  <1>3. CASE t.done = s.done /\ t.sent_subs = s.sent_subs
      BY <1>1, <1>2, <1>3, DoneStays, SubsStay
  <1>4. CASE /\ s.state = "wait" /\ f.kind \in AckKinds /\ f.from = s.serial /\ f.id = s.message_id
             /\ t.done = s.done \cup {s.tx}
             /\ \/ t.sent_subs \in {s.sent_subs, 0}
                \/ s.tx.kind = "sub" /\ t.sent_subs = s.sent_subs + 1
    <2>1. Tells(f)
        BY <1>4, ReceivedAck
    <2>2. Asking(s) /\ Current(s) = s.tx
        BY <1>4 DEF Asking, Current
    <2>3. s.tx.kind \in Unminded \/ HeardOf(n, s.tx)
        BY <1>4, <2>1, <2>2 DEF Tells, Taken
    <2>4. DoneOf(n)'
      <3> SUFFICES ASSUME NEW g \in t.done, g.kind \notin Unminded PROVE HeardOf(n, g)'
          BY <1>2 DEF DoneOf
      <3>1. HeardOf(n, g)
          BY <1>4, <2>3 DEF DoneOf
      <3> QED
          BY <1>1, <3>1, HeardStays
    <2>5. SubsOf(n)'
      <3>1. CASE t.sent_subs \in {s.sent_subs, 0}
          BY <1>1, <1>2, <3>1, SubsStay
      <3>2. CASE s.tx.kind = "sub" /\ t.sent_subs = s.sent_subs + 1
        <4>1. s.sent_subs \in Nat /\ s.tx \in Messages /\ s.tx.from = n /\ s.tx.n = s.sent_subs
            BY <1>0, <2>2, <3>2 DEF NumbersOK
        <4>2. HeardOf(n, s.tx)
            BY <2>3, <3>2 DEF Unminded
        <4>3. SubOf(n, s.sent_subs)
            BY <3>2, <4>1, <4>2, MessageIs DEF SubOf, HeardOf
        <4>4. PICK k0 : k0 = s.sent_subs
            OBVIOUS
        <4>5. \A k \in 0..t.sent_subs - 1 : k = k0 \/ k \in 0..s.sent_subs - 1
            BY <3>2, <4>1, <4>4
        <4>6. \A k \in 0..t.sent_subs - 1 : SubOf(n, k)
            BY <4>3, <4>4, <4>5 DEF SubsOf
        <4> QED
            BY <1>1, <1>2, <4>6, SubStays DEF SubsOf
      <3> QED
          BY <1>4, <3>1, <3>2
    <2> QED
        BY <2>4, <2>5
  <1> QED
      BY <1>0, <1>3, <1>4 DEF Step, Reports

\* Everything in transit and everything answered, after a handler of one station.
LEMMA StepAnswered ==
    ASSUME Linked, Answered, NEW n \in Stations, NEW t, OneChanges(n, t), StepOn(node[n], t)
    PROVE  Answered'
  <1>0. Transit /\ NumbersOK(node[n]) /\ Step(node[n], node[n].received, t)
      BY DEF Answered, Transit, StepOn
  <1>1. \A m \in Stations : node'[m] = IF m = n THEN t ELSE node[m]
      BY DEF OneChanges
  <1>2. \A m \in Stations : Longer(node[m], node'[m])
    <2>1. Longer(node[n], t)
        BY <1>0, StepLonger
    <2>2. \A m \in Stations : Longer(node[m], node[m])
        BY DEF Longer
    <2> QED
        BY <1>1, <2>1, <2>2
  <1>3. ASSUME NEW m \in Stations
        PROVE  NumbersOK(node[m])'
    <2>1. NumbersOK(t) /\ NumbersOK(node[m])
        BY <1>0, StepNumbers DEF Transit
    <2>2. PICK u : u = node'[m]
        OBVIOUS
    <2>3. u = t \/ u = node[m]
        BY <1>1, <2>2
    <2>4. NumbersOK(u)
        BY <2>1, <2>3
    <2> QED
        BY <2>2, <2>4
  <1>4. ASSUME NEW f \in Messages, Recent(node[f.from], f)
        PROVE  Recent(node[f.from], f)'
    <2>1. PICK k \in Stations : k = f.from
        BY MessageIs
    <2>2. Recent(node[k], f)
        BY <1>4, <2>1
    <2>3. CASE k = n
      <3>1. Recent(t, f)
          BY <1>0, <2>2, <2>3, StepRecent
      <3>2. node'[k] = t
          BY <1>1, <2>3
      <3> QED
          BY <2>1, <3>1, <3>2
    <2>4. CASE k # n
      <3>1. node'[k] = node[k]
          BY <1>1, <2>4
      <3> QED
          BY <2>1, <2>2, <3>1
    <2> QED
        BY <2>3, <2>4
  <1>5. ASSUME NEW m \in Stations
        PROVE  ReceivedOK(m)'
    <2>1. ReceivedOK(m)
        BY <1>0 DEF Transit
    <2>2. node'[m].received = node[m].received \/ node'[m].received = Nothing
        BY <1>1 DEF StepOn
    <2>3. PICK f : f = node[m].received
        OBVIOUS
    <2>4. CASE f \in Messages /\ f.from # m /\ Recent(node[f.from], f)
      <3>1. Recent(node[f.from], f)'
          BY <1>4, <2>4
      <3>2. Recent(node'[f.from], f)
          BY <3>1
      <3> QED
          BY <2>2, <2>3, <2>4, <3>2 DEF ReceivedOK
    <2>5. CASE f.kind \in AckKinds /\ Tells(f)
      <3>1. Tells(f)'
          BY <1>0, <2>5, StepTells
      <3> QED
          BY <2>2, <2>3, <2>5, <3>1 DEF ReceivedOK, Tells
    <2> QED
        BY <2>1, <2>2, <2>3, <2>4, <2>5 DEF ReceivedOK
  <1>6. ASSUME NEW m \in Stations
        PROVE  AckOK(m)'
    <2>1. CASE m = n
      <3>1. node'[m] = t
          BY <1>1, <2>1
      <3>2. Acking(t) => Tells(t.tx)'
          BY <1>0, StepAcks
      <3> QED
          BY <3>1, <3>2 DEF AckOK, Tells
    <2>2. CASE m # n
      <3>1. node'[m] = node[m]
          BY <1>1, <2>2
      <3>2. PICK a : a = node[m].tx
          OBVIOUS
      <3>3. Acking(node[m]) => Tells(a)
          BY <1>0, <3>2 DEF Transit, AckOK
      <3>4. Acking(node[m]) => Tells(a)'
          BY <1>0, <3>3, StepTells
      <3> QED
          BY <3>1, <3>2, <3>4 DEF AckOK, Tells
    <2> QED
        BY <2>1, <2>2
  <1>7. ASSUME NEW m \in Stations
        PROVE  DoneOf(m)' /\ SubsOf(m)'
    <2>1. DoneOf(m) /\ SubsOf(m)
        BY AnsweredIs DEF Answered
    <2>2. CASE m = n
        BY <1>0, <2>1, <2>2, StepDone, LinkedStation
    <2>3. CASE m # n
      <3>1. node'[m] = node[m]
          BY <1>1, <2>3
      <3> QED
          BY <1>2, <2>1, <3>1, DoneStays, SubsStay
    <2> QED
        BY <2>2, <2>3
  <1>8. Transit'
      BY <1>3, <1>5, <1>6 DEF Transit
  <1>9. DoneMeansHeard' /\ SubscriptionsTaken'
      BY <1>7, AnsweredThen
  <1> QED
      BY <1>8, <1>9 DEF Answered

\* A change of other fields is a station's step.
LEMMA AsideStepOn == ASSUME NEW s, NEW t, Aside(s, t) PROVE StepOn(s, t)
  <1>1. Handles(s, s.received, t)
      BY AsideMoves, MovesStep
  <1> QED
      BY <1>1 DEF Handles, StepOn

\* The tasks and the calls of a station change it by a handler.
LEMMA TaskSteps ==
    ASSUME Inductive, Transit, NoWrap, NEW n \in Stations, SpiritTask(n) \/ RadioTask(n) \/ Call(n)
    PROVE  \E t : OneChanges(n, t) /\ StepOn(node[n], t)
  <1> DEFINE s == node[n]
             f == node[n].received
  <1>0. Linked /\ Shape(s) /\ s.serial = n /\ NumbersOK(s) /\ ReceivedOK(n) /\ TableOK(s)
      BY LinkedStation DEF Inductive, Transit, Tables
  <1>1. CASE SpiritTask(n)
    <2> DEFINE t == SpiritRun(s)
    <2>1. OneChanges(n, t)
        BY <1>0, <1>1, OneChange DEF SpiritTask
    <2>2. PacketOK(s)
        BY <1>0 DEF PacketOK, ReceivedOK
    <2>3. StepOn(s, t)
        BY <1>0, <2>2, SpiritRunStep
    <2> HIDE DEF t
    <2> QED
        BY <2>1, <2>3
  <1>2. CASE RadioTask(n)
    <2>1. PICK r \in AfterSave(s) : node' = [node EXCEPT ![n] = RadioRun(r)]
        BY <1>2 DEF RadioTask
    <2> DEFINE t == RadioRun(r)
    <2>2. OneChanges(n, t)
        BY <1>0, <2>1, OneChange
    <2>3. Aside(s, r) /\ r.pub = s.pub
        BY <1>0, <2>1, AfterSaveAside
    <2>4. Counts(s)
        BY <1>0 DEF Counts, NumbersOK, NoWrap, TableOK
    <2>5. Shape(r) /\ Counts(r)
        BY <2>3, <2>4, AsideCounts DEF Counts
    <2>6. Handles(r, f, t)
        BY <2>5, RadioRunHandles
    <2> HIDE DEF t
    <2>7. Handles(s, f, t)
        BY <2>3, <2>6, AsideThenHandles
    <2>8. StepOn(s, t)
        BY <2>7 DEF Handles, StepOn
    <2> QED
        BY <2>2, <2>8
  <1>3. CASE Call(n)
    <2> DEFINE c == Head(todo[n])
               t == CallResult(s, c)
    <2>1. c \in Calls /\ c.op # "reboot"
        BY <1>3, HeadTailProperties DEF Call, Inductive, Plans
    <2>2. OneChanges(n, t)
        BY <1>0, <1>3, OneChange DEF Call
    <2> HIDE DEF c
    <2>3. Aside(s, t)
        BY <1>0, <2>1, CallAside
    <2> HIDE DEF t
    <2>4. StepOn(s, t)
        BY <2>3, AsideStepOn
    <2> QED
        BY <2>2, <2>4
  <1> QED
      BY <1>1, <1>2, <1>3

\* Tasks and calls keep acknowledgements truthful.
LEMMA TasksAnswered ==
    ASSUME Inductive, Answered, NoWrap, NEW n \in Stations, SpiritTask(n) \/ RadioTask(n) \/ Call(n)
    PROVE  Answered'
  BY TaskSteps, StepAnswered DEF Inductive, Answered

\* Handlers that leave the table and what was heard alone.
Plain(s, t) == t.peers = s.peers /\ t.length = s.length /\ t.heard = s.heard
\* Time changes neither.
LEMMA TimeSteps ==
    ASSUME Linked, NEW n \in Stations, Time(n)
    PROVE  \E t : OneChanges(n, t) /\ StepOn(node[n], t) /\ Plain(node[n], t)
  <1> DEFINE late == [node[n] EXCEPT !.late = TRUE, !.window = @ /\ node[n].timeout # "window"]
             expired == [node[n] EXCEPT !.expired = TRUE]
             closed == [node[n] EXCEPT !.window = FALSE]
             named == [node[n] EXCEPT !.identified = TRUE]
  <1>1. Shape(node[n])
      BY LinkedStation
  <1>2. /\ Aside(node[n], late) /\ Aside(node[n], expired)
        /\ Aside(node[n], closed) /\ Aside(node[n], named)
      BY <1>1 DEF Aside, Still, Shape, Fields
  <1>5. /\ Plain(node[n], late) /\ Plain(node[n], expired)
        /\ Plain(node[n], closed) /\ Plain(node[n], named)
      BY <1>1 DEF Plain, Shape, Fields
  <1>3. PICK t \in {late, expired, closed, named} : node' = [node EXCEPT ![n] = t]
    <2>1. CASE Deadline(n)
      <3>1. node' = [node EXCEPT ![n] = late]
          BY <2>1 DEF Deadline, Linked
      <3> QED
          BY <3>1
    <2>2. CASE Expire(n)
      <3>1. node' = [node EXCEPT ![n] = expired]
          BY <2>2 DEF Expire, Linked
      <3> QED
          BY <3>1
    <2>3. CASE CloseWindow(n)
      <3>1. node' = [node EXCEPT ![n] = closed]
          BY <2>3 DEF CloseWindow, Linked
      <3> QED
          BY <3>1
    <2>4. CASE ReadSerial(n)
      <3>1. node' = [node EXCEPT ![n] = named]
          BY <2>4 DEF ReadSerial, Linked
      <3> QED
          BY <3>1
    <2> QED
        BY <2>1, <2>2, <2>3, <2>4 DEF Time
  <1> HIDE DEF late, expired, closed, named
  <1>4. StepOn(node[n], t) /\ Plain(node[n], t)
      BY <1>2, <1>3, <1>5, AsideStepOn
  <1> QED
      BY <1>3, <1>4, OneChange

\* So does time.
LEMMA TimeAnswered ==
    ASSUME Linked, Answered, NEW n \in Stations, Time(n)
    PROVE  Answered'
  BY TimeSteps, StepAnswered

\* A transmission: those that hear it have the sender's current message, or what it acknowledges.
Same(s, t) ==
    /\ t.serial = s.serial /\ t.message_id = s.message_id /\ t.boots = s.boots
    /\ t.heard = s.heard /\ t.done = s.done /\ t.sent_subs = s.sent_subs
    /\ t.state = s.state /\ t.tx = s.tx /\ t.cache = s.cache

\* What the channel leaves alone is enough for the numbers in order.
LEMMA SameNumbers ==
    ASSUME NEW s, NumbersOK(s), NEW t, Same(s, t)
    PROVE  NumbersOK(t) /\ Asking(t) = Asking(s) /\ Current(t) = Current(s)
           /\ Acking(t) = Acking(s) /\ \A f : Recent(s, f) => Recent(t, f)
  <1>1. Asking(t) = Asking(s) /\ Current(t) = Current(s) /\ Acking(t) = Acking(s)
      BY DEF Same, Asking, Current, Acking
  <1>2. NumbersOK(t)
      BY <1>1 DEF Same, NumbersOK
  <1>3. \A f : Recent(s, f) => Recent(t, f)
      BY <1>1 DEF Same, Recent
  <1> QED
      BY <1>1, <1>2, <1>3

\* The channel changes what the hearers have received, and how often the sender was heard.
LEMMA TransmitChanges ==
    ASSUME Linked, NEW n \in Stations, Transmit(n)
    PROVE  \A m \in Stations :
              /\ Same(node[m], node'[m])
              /\ node'[m].peers = node[m].peers /\ node'[m].length = node[m].length
              /\ \/ node'[m].received = node[m].received
                 \/ m # n /\ node'[m].received = node[n].tx
  <1> DEFINE f == node[n].tx
             sender == [node[n] EXCEPT !.sent = TRUE,
                             !.aired = IF node[n].tx.kind \in AckKinds THEN @ ELSE @ + 1]
             hearer(m) == [node[m] EXCEPT !.received = f]
             Beside(s, t) == Same(s, t) /\ t.peers = s.peers /\ t.length = s.length
  <1>1. PICK hearers \in SUBSET (Stations \ {n}) :
        node' = [m \in Stations |->
            CASE m \in hearers -> hearer(m)
              [] m = n -> sender
              [] OTHER -> node[m]]
      BY DEF Transmit
  <1>2. Beside(node[n], sender) /\ sender.received = node[n].received
      BY LinkedStation DEF Same, Shape, Fields
  <1>3. ASSUME NEW m \in Stations
        PROVE  Beside(node[m], hearer(m)) /\ hearer(m).received = f
      BY LinkedStation DEF Same, Shape, Fields
  <1> HIDE DEF f, sender, hearer
  <1> SUFFICES ASSUME NEW m \in Stations
               PROVE  /\ Beside(node[m], node'[m])
                      /\ node'[m].received = node[m].received \/ (m # n /\ node'[m].received = f)
      BY DEF f
  <1>4. CASE m \in hearers
    <2>1. node'[m] = hearer(m) /\ m # n
        BY <1>1, <1>4
    <2> QED
        BY <1>3, <2>1
  <1>5. CASE m \notin hearers /\ m = n
    <2>1. node'[m] = sender
        BY <1>1, <1>5
    <2> QED
        BY <1>2, <1>5, <2>1
  <1>6. CASE m \notin hearers /\ m # n
    <2>1. node'[m] = node[m]
        BY <1>1, <1>6
    <2> QED
        BY <2>1 DEF Same
  <1> QED
      BY <1>4, <1>5, <1>6

\* What is on the air is the sender's current message, or an acknowledgement.
LEMMA OnTheAir ==
    ASSUME Linked, Transit, NEW n \in Stations, Transmit(n)
    PROVE  LET f == node[n].tx IN
           \/ f \in Messages /\ f.from = n /\ f.id = node[n].message_id /\ Recent(node[n], f)
           \/ f.kind \in AckKinds /\ Tells(f)
  <1> DEFINE f == node[n].tx
  <1>1. LinkOK(node[n]) /\ node[n].serial = n /\ node[n].current = "tx"
      BY DEF Linked, StationOK, Transmit
  <1>2. node[n].state \in {"tx", "rxack", "txack"}
      BY <1>1 DEF LinkOK, RadioOK, SpiritOK, Agree, Heading, RadioStates
  <1>3. NumbersOK(node[n]) /\ AckOK(n)
      BY DEF Transit
  <1>4. CASE node[n].state = "tx"
    <2>1. Asking(node[n]) /\ Current(node[n]) = f
        BY <1>4 DEF Asking, Current
    <2>2. f \in Messages /\ f.from = n /\ f.id = node[n].message_id /\ f.boot = node[n].boots
        BY <1>1, <1>3, <2>1 DEF NumbersOK
    <2>3. f.id <= node[n].message_id
        BY <1>3, <2>2 DEF NumbersOK
    <2> QED
        BY <2>1, <2>2, <2>3 DEF Recent
  <1>5. CASE node[n].state \in {"rxack", "txack"}
    <2>1. f.kind \in AckKinds
        BY <1>1, <1>5 DEF LinkOK, RadioOK
    <2>2. Tells(f)
        BY <1>3, <1>5 DEF AckOK, Acking
    <2> QED
        BY <2>1, <2>2
  <1> QED
      BY <1>2, <1>4, <1>5

\* A transmission keeps acknowledgements truthful.
LEMMA TransmitAnswered ==
    ASSUME Linked, Answered, NEW n \in Stations, Transmit(n)
    PROVE  Answered'
  <1> DEFINE f == node[n].tx
  <1>1. ASSUME NEW m \in Stations
        PROVE  /\ Same(node[m], node'[m])
               /\ node'[m].received = node[m].received \/ (m # n /\ node'[m].received = f)
      BY TransmitChanges
  <1>2. ASSUME NEW m \in Stations
        PROVE  /\ NumbersOK(node'[m])
               /\ Asking(node'[m]) = Asking(node[m]) /\ Current(node'[m]) = Current(node[m])
               /\ Acking(node'[m]) = Acking(node[m])
               /\ \A g : Recent(node[m], g) => Recent(node'[m], g)
      BY <1>1, SameNumbers DEF Answered, Transit
  <1>3. \A m \in Stations : Longer(node[m], node'[m])
      BY <1>1 DEF Same, Longer
  <1>4. ASSUME NEW g, Tells(g)
        PROVE  Tells(g)'
    <2>1. PICK k \in Stations : k = g.from
        BY <1>4 DEF Tells
    <2>2. /\ Asking(node'[k]) = Asking(node[k]) /\ Current(node'[k]) = Current(node[k])
          /\ node'[k].message_id = node[k].message_id
        BY <1>1, <1>2 DEF Same
    <2>3. PICK c : c = Current(node[k])
        OBVIOUS
    <2>4. Taken(k) => Taken(k)'
      <3>1. HeardOf(k, c) => HeardOf(k, c)'
          BY <1>3, HeardStays
      <3>2. Current(node[k])' = c
          BY <2>2, <2>3
      <3> QED
          BY <2>3, <3>1, <3>2 DEF Taken, HeardOf
    <2> QED
        BY <1>4, <2>1, <2>2, <2>4 DEF Tells
  <1>5. (f \in Messages /\ f.from = n /\ Recent(node[n], f)) \/ (f.kind \in AckKinds /\ Tells(f))
      BY OnTheAir DEF Answered
  <1> HIDE DEF f
  <1>6. ASSUME NEW m \in Stations
        PROVE  ReceivedOK(m)'
    <2>1. PICK g : g = node'[m].received
        OBVIOUS
    <2>2. \/ g = Nothing
          \/ g \in Messages /\ g.from # m /\ Recent(node[g.from], g)
          \/ g.kind \in AckKinds /\ Tells(g)
      <3>1. CASE g = node[m].received
          BY <3>1 DEF Answered, Transit, ReceivedOK
      <3>2. CASE g = f /\ m # n
          BY <1>5, <3>2
      <3> QED
          BY <1>1, <2>1, <3>1, <3>2
    <2>3. g \in Messages /\ Recent(node[g.from], g) => Recent(node'[g.from], g)
        BY <1>2, MessageIs
    <2>4. Tells(g) => Tells(g)'
        BY <1>4
    <2> QED
        BY <2>1, <2>2, <2>3, <2>4 DEF ReceivedOK, Tells
  <1>7. ASSUME NEW m \in Stations
         PROVE  AckOK(m)'
    <2>1. PICK a : a = node[m].tx
        OBVIOUS
    <2>2. Acking(node[m]) => Tells(a)
        BY <2>1 DEF Answered, Transit, AckOK
    <2>3. Acking(node[m]) => Tells(a)'
        BY <1>4, <2>2
    <2>4. Acking(node'[m]) = Acking(node[m]) /\ node'[m].tx = a
        BY <1>1, <1>2, <2>1 DEF Same
    <2> QED
        BY <2>3, <2>4 DEF AckOK, Tells
  <1>8. ASSUME NEW m \in Stations
         PROVE  DoneOf(m)' /\ SubsOf(m)'
    <2>1. DoneOf(m) /\ SubsOf(m)
        BY AnsweredIs DEF Answered
    <2>2. node'[m].done = node[m].done /\ node'[m].sent_subs = node[m].sent_subs
        BY <1>1 DEF Same
    <2> QED
        BY <1>3, <2>1, <2>2, DoneStays, SubsStay
  <1>9. Transit'
      BY <1>2, <1>6, <1>7 DEF Transit
  <1> QED
      BY <1>8, <1>9, AnsweredThen DEF Answered

\* A station that starts has nothing in transit and reports nothing.
LEMMA BootedFresh ==
    ASSUME NEW id, NEW mode, NEW stored
    PROVE  LET b == Booted(id, mode, stored) IN
           /\ Shape(b) /\ b.serial = id /\ b.message_id = 0 /\ b.boots = 0
           /\ b.received = Nothing /\ b.heard = <<>> /\ b.done = {} /\ b.sent_subs = 0
           /\ b.state \in {"rx", "sleep"}
  <1> DEFINE b == Booted(id, mode, stored)
             known == Load(stored)
             s == [serial |-> id, identified |-> FALSE, mode |-> mode, stored |-> stored, save |-> FALSE,
     boots |-> 0, faults |-> 0, state |-> "sleep", message_id |-> 0, count |-> 0, ack |-> FALSE,
     tx |-> Nothing, cache |-> Nothing, cached_count |-> 0,
     peers |-> [i \in 1..MAX_DEVICES |->
                  [id |-> IF i <= Len(known) THEN known[i] ELSE NoId,
                   mid |-> 0, synced |-> FALSE]],
     length |-> Len(known),
     pairing_request |-> FALSE, fits |-> TRUE, left |-> FALSE, pairing_mode |-> FALSE, automatic_pairing |-> FALSE,
     subs |-> 0, sent_subs |-> 0, pub |-> <<>>, rxq |-> <<>>,
     timeout |-> "never", late |-> FALSE, window |-> FALSE, rx_after_ack |-> FALSE,
     planned |-> FALSE,
     desired |-> "sleep", current |-> "init", received |-> Nothing, sent |-> FALSE,
     expired |-> FALSE,
     aired |-> 0, heard |-> <<>>, done |-> {}]
  <1>1. b = GoToRxOrSleep(s)
      BY DEF Booted
  <1>2. /\ Shape(s) /\ s.serial = id /\ s.message_id = 0 /\ s.boots = 0
        /\ s.received = Nothing /\ s.heard = <<>> /\ s.done = {} /\ s.sent_subs = 0
      BY DEF Shape, Fields
  <1> HIDE DEF s, b
  <1>3. Still(s, b) /\ b.state \in {"rx", "sleep"}
      BY <1>1, <1>2, IdleMoves
  <1> QED
      BY <1>2, <1>3 DEF Still, b

\* Its numbers are those of a start.
LEMMA FreshNumbers ==
    ASSUME NEW s, s.message_id = 0, s.boots \in Nat, s.sent_subs = 0, s.state \in {"rx", "sleep"},
           s.heard \in Seq(Messages \cup {Nothing})
    PROVE  NumbersOK(s) /\ ~Asking(s) /\ ~Acking(s)
  <1>1. ~Asking(s) /\ ~Acking(s)
      BY DEF Asking, Acking
  <1> QED
      BY <1>1 DEF NumbersOK

\* A start changes one station, and nobody is in the middle of an exchange with it.
LEMMA RebootChanges ==
    ASSUME Linked, NEW n \in Stations, Reboot(n)
    PROVE  \E t : /\ OneChanges(n, t)
                  /\ t.message_id = 0 /\ t.received = Nothing /\ t.sent_subs = 0
                  /\ t.state \in {"rx", "sleep"} /\ t.serial = n /\ t.boots = node[n].boots + 1
                  /\ t.heard = Append(node[n].heard, Nothing) /\ t.done = node[n].done
  <1>1. PICK image \in Images(node[n]), repair \in {FALSE, node[n].save} :
        node' = [node EXCEPT ![n] =
            [Booted(n, @.mode, image) EXCEPT
                !.subs = node[n].subs, !.faults = node[n].faults, !.save = repair,
                !.boots = node[n].boots + 1,
                !.heard = Append(node[n].heard, Nothing), !.done = node[n].done]]
      BY DEF Reboot
  <1> DEFINE b == Booted(n, node[n].mode, image)
             t == [b EXCEPT
                !.subs = node[n].subs, !.faults = node[n].faults, !.save = repair,
                !.boots = node[n].boots + 1,
                !.heard = Append(node[n].heard, Nothing), !.done = node[n].done]
  <1>2. OneChanges(n, t)
      BY <1>1, OneChange DEF Linked
  <1>3. /\ Shape(b) /\ b.serial = n /\ b.message_id = 0 /\ b.received = Nothing /\ b.sent_subs = 0
        /\ b.state \in {"rx", "sleep"}
      BY BootedFresh
  <1> HIDE DEF b
  <1>4. /\ t.message_id = 0 /\ t.received = Nothing /\ t.sent_subs = 0 /\ t.state \in {"rx", "sleep"}
        /\ t.boots = node[n].boots + 1 /\ t.heard = Append(node[n].heard, Nothing)
        /\ t.done = node[n].done /\ t.serial = n
      BY <1>3 DEF Shape, Fields
  <1> HIDE DEF t
  <1> QED
      BY <1>2, <1>4

\* So does a start.
LEMMA RebootAnswered ==
    ASSUME Linked, Answered, NEW n \in Stations, Reboot(n)
    PROVE  Answered'
  <1>1. PICK t :
        /\ OneChanges(n, t)
        /\ t.message_id = 0 /\ t.received = Nothing /\ t.sent_subs = 0 /\ t.state \in {"rx", "sleep"}
        /\ t.boots = node[n].boots + 1 /\ t.heard = Append(node[n].heard, Nothing)
        /\ t.done = node[n].done
      BY RebootChanges
  <1>5. NumbersOK(node[n])
      BY DEF Answered, Transit
  <1>6. NumbersOK(t) /\ ~Asking(t) /\ ~Acking(t)
    <2>1. t.boots \in Nat /\ t.heard \in Seq(Messages \cup {Nothing})
        BY <1>1, <1>5, AppendProperties DEF NumbersOK
    <2> QED
        BY <1>1, <2>1, FreshNumbers
  <1>7. \A m \in Stations : Longer(node[m], node'[m])
    <2>1. Longer(node[n], t)
        BY <1>1, <1>5, AppendLonger
    <2>2. \A m \in Stations : Longer(node[m], node[m])
        BY DEF Longer
    <2> QED
        BY <1>1, <2>1, <2>2 DEF OneChanges
  <1>8. ASSUME NEW m \in Stations
        PROVE  NumbersOK(node[m])' /\ ReceivedOK(m)' /\ AckOK(m)'
    <2>1. PICK u : u = node'[m]
        OBVIOUS
    <2>2. NumbersOK(u) /\ u.received = Nothing /\ ~Acking(u)
      <3>1. CASE m = n
          BY <1>1, <1>6, <2>1, <3>1 DEF OneChanges
      <3>2. CASE m # n
        <4>1. u = node[m]
            BY <1>1, <2>1, <3>2 DEF OneChanges
        <4> QED
            BY <3>2, <4>1 DEF Reboot, Acking, Answered, Transit
      <3> QED
          BY <3>1, <3>2
    <2> QED
        BY <2>1, <2>2 DEF ReceivedOK, AckOK
  <1>9. ASSUME NEW m \in Stations
        PROVE  DoneOf(m)' /\ SubsOf(m)'
    <2>1. DoneOf(m) /\ SubsOf(m)
        BY AnsweredIs DEF Answered
    <2>2. node'[m].done = node[m].done /\ node'[m].sent_subs \in {node[m].sent_subs, 0}
        BY <1>1 DEF OneChanges
    <2> QED
        BY <1>7, <2>1, <2>2, DoneStays, SubsStay
  <1> QED
      BY <1>8, <1>9, AnsweredThen DEF Answered, Transit

\* Nothing is in transit at first, nothing was heard and nothing reported.
LEMMA InitFresh ==
    ASSUME Init
    PROVE  \A n \in Stations :
              /\ NumbersOK(node[n]) /\ ~Acking(node[n]) /\ node[n].received = Nothing
              /\ node[n].heard = <<>> /\ node[n].done = {} /\ node[n].sent_subs = 0
  <1> DEFINE st(scenario, n) == [slots |-> [i \in 1..MAX_DEVICES |->
                                    IF i <= Len(scenario[n].known)
                                    THEN scenario[n].known[i] ELSE NoId],
                      length |-> Len(scenario[n].known)]
  <1>1. PICK scenario \in Scenarios :
        node = [n \in Stations |-> [Booted(n, scenario[n].mode, st(scenario, n))
                EXCEPT !.identified = scenario[n].identified,
                       !.subs = scenario[n].subs, !.faults = scenario[n].faults]]
      BY DEF Init
  <1>2. ASSUME NEW n \in Stations
        PROVE  /\ NumbersOK(node[n]) /\ ~Acking(node[n])
               /\ node[n].received = Nothing /\ node[n].heard = <<>> /\ node[n].done = {} /\ node[n].sent_subs = 0
    <2> DEFINE b == Booted(n, scenario[n].mode, st(scenario, n))
               t == [b EXCEPT !.identified = scenario[n].identified,
                       !.subs = scenario[n].subs, !.faults = scenario[n].faults]
    <2>1. node[n] = t
        BY <1>1
    <2> HIDE DEF st
    <2>2. /\ Shape(b) /\ b.message_id = 0 /\ b.boots = 0
          /\ b.received = Nothing /\ b.heard = <<>> /\ b.done = {} /\ b.sent_subs = 0
          /\ b.state \in {"rx", "sleep"}
        BY BootedFresh
    <2> HIDE DEF b
    <2>3. /\ t.message_id = 0 /\ t.boots = 0
          /\ t.received = Nothing /\ t.heard = <<>> /\ t.done = {} /\ t.sent_subs = 0
          /\ t.state \in {"rx", "sleep"}
        BY <2>2 DEF Shape, Fields
    <2> HIDE DEF t
    <2>4. t.boots \in Nat /\ t.heard \in Seq(Messages \cup {Nothing})
        BY <2>3
    <2>5. NumbersOK(t) /\ ~Acking(t)
        BY <2>3, <2>4, FreshNumbers
    <2> QED
        BY <2>1, <2>3, <2>5
  <1> QED
      BY <1>2

\* They are truthful at first.
LEMMA InitAnswered == Init => Answered
  <1> SUFFICES ASSUME Init PROVE Answered
      OBVIOUS
  <1>3. Transit
      BY InitFresh DEF Transit, ReceivedOK, AckOK
  <1>4. ASSUME NEW n \in Stations
        PROVE  DoneOf(n) /\ SubsOf(n)
    <2>1. \A k \in 0..node[n].sent_subs - 1 : FALSE
        BY InitFresh
    <2> QED
        BY <2>1, InitFresh DEF DoneOf, SubsOf
  <1> QED
      BY <1>3, <1>4, AnsweredIs DEF Answered

\* As long as the numbers have not come round, what is in transit is as it should be.
LEMMA AnsweredStep ==
    ASSUME Inductive, Answered, NoWrap, [Next]_vars
    PROVE  Answered'
  <1>0. Linked
      BY DEF Inductive
  <1>1. CASE UNCHANGED vars
    <2>1. node' = node
        BY <1>1 DEF vars
    <2>2. Transit'
        BY <2>1 DEF Answered, Transit, ReceivedOK, AckOK, Tells, Taken, HeardOf
    <2>3. DoneMeansHeard' /\ SubscriptionsTaken'
        BY <2>1 DEF Answered, DoneMeansHeard, SubscriptionsTaken
    <2> QED
        BY <2>2, <2>3 DEF Answered
  <1>2. ASSUME NEW n \in Stations, SpiritTask(n) \/ RadioTask(n) \/ Call(n)
        PROVE  Answered'
      BY <1>2, TasksAnswered
  <1>3. ASSUME NEW n \in Stations, Reboot(n)
        PROVE  Answered'
      BY <1>0, <1>3, RebootAnswered
  <1>4. ASSUME NEW n \in Stations, Transmit(n)
        PROVE  Answered'
      BY <1>0, <1>4, TransmitAnswered
  <1>5. ASSUME NEW n \in Stations, Time(n)
        PROVE  Answered'
      BY <1>0, <1>5, TimeAnswered
  <1> QED
      BY <1>1, <1>2, <1>3, <1>4, <1>5 DEF Next, Time

\* In every network, what is in transit is recent and what is answered was
\* taken, for as long as no station's message numbers come round.
THEOREM TransitHolds == Spec /\ []NoWrap => []Answered
  <1>1. Inductive /\ Answered /\ NoWrap /\ [Next]_vars => Answered'
      BY AnsweredStep
  <1> QED
      BY <1>1, InitAnswered, InductiveHolds, PTL DEF Spec

\* TX_DONE tells the truth in every network: another station has taken this very
\* message, whatever copies, lost or late acknowledgements and starts came
\* between, as long as no station sends 2^16 - 1 messages between two of its own
\* starts (twr_radio.c:722-783).
THEOREM DoneIsHeard == Spec /\ []NoWrap => []DoneMeansHeard
  <1>1. Answered => DoneMeansHeard
      BY DEF Answered
  <1> QED
      BY <1>1, TransitHolds, PTL

\* The count of registered subscriptions never runs ahead of what was taken, in
\* every network and under the same condition (twr_radio.c:385-415, 758-765).
THEOREM SubscriptionsAreTaken == Spec /\ []NoWrap => []SubscriptionsTaken
  <1>1. Answered => SubscriptionsTaken
      BY DEF Answered
  <1> QED
      BY <1>1, TransitHolds, PTL

-------------------------------------------------------------------------------
(***************************************************************************)
(* What a station has noted of its peers.                                  *)
(***************************************************************************)
\* No peer was lost, none gave its place away.
SameSlots(s, t) == /\ t.length >= s.length
                   /\ \A i \in 1..s.length : t.peers[i].id = s.peers[i].id

\* The number last noted with a peer.
Mid(s, id) == s.peers[SlotOf(s, id)].mid

\* A table after a handler of f: the number of f may have been noted with its
\* sender, and was when f was taken, which differed from the one before.
Tabled(s, f, t) == SameSlots(s, t) =>
    /\ \A i \in 1..s.length :
          \/ t.peers[i].mid = s.peers[i].mid
          \/ /\ f \in Messages /\ IsPeer(s, f.from) /\ i = SlotOf(s, f.from)
             /\ t.peers[i].mid = f.id
    /\ \/ t.heard = s.heard
       \/ /\ f \in Messages /\ IsPeer(s, f.from) /\ Mid(s, f.from) # f.id
          /\ t.heard = Append(s.heard, f) /\ t.peers[SlotOf(s, f.from)].mid = f.id

\* The first of the slots that name a peer.
LEMMA SlotIs ==
    ASSUME NEW s, s.length \in Nat, NEW id, IsPeer(s, id)
    PROVE  /\ SlotOf(s, id) \in 1..s.length /\ s.peers[SlotOf(s, id)].id = id
           /\ \A j \in 1..SlotOf(s, id) - 1 : s.peers[j].id # id
  <1> DEFINE T == {i \in 1..s.length : s.peers[i].id = id}
  <1>1. T \in SUBSET Nat /\ T # {}
      BY DEF IsPeer
  <1>2. PICK i \in T : \A j \in T : i <= j
      BY <1>1, LeastOf
  <1>3. \A j \in 1..i - 1 : s.peers[j].id # id
    <2> SUFFICES ASSUME NEW j \in 1..i - 1 PROVE j \notin T
        BY <1>2
    <2> QED
        BY <1>2
  <1>4. \E k \in 1..s.length : s.peers[k].id = id /\ \A j \in 1..k - 1 : s.peers[j].id # id
      BY <1>2, <1>3
  <1> QED
      BY <1>4 DEF SlotOf

\* As long as no peer is lost they keep their slots.
LEMMA SlotStays ==
    ASSUME NEW s, s.length \in Nat, NEW t, t.length \in Nat, SameSlots(s, t),
           NEW id, IsPeer(s, id)
    PROVE  IsPeer(t, id) /\ SlotOf(t, id) = SlotOf(s, id)
  <1> DEFINE i == SlotOf(s, id)
             k == SlotOf(t, id)
  <1>1. /\ i \in 1..s.length /\ s.peers[i].id = id
        /\ \A j \in 1..i - 1 : s.peers[j].id # id
      BY SlotIs
  <1>2. /\ \A j \in 1..s.length : j \in 1..t.length /\ t.peers[j].id = s.peers[j].id
      BY DEF SameSlots
  <1> HIDE DEF i
  <1>3. IsPeer(t, id)
      BY <1>1, <1>2 DEF IsPeer
  <1>4. /\ k \in 1..t.length /\ t.peers[k].id = id
        /\ \A j \in 1..k - 1 : t.peers[j].id # id
      BY <1>3, SlotIs
  <1> HIDE DEF k
  <1>5. ~(i < k)
      BY <1>1, <1>2, <1>4
  <1>6. ~(k < i)
      BY <1>1, <1>2, <1>4
  <1>7. i = k
      BY <1>1, <1>4, <1>5, <1>6
  <1> QED
      BY <1>3, <1>7 DEF i, k

\* Handlers one after the other.
LEMMA PlainThen ==
    ASSUME NEW s, s.length \in Nat, NEW t, NEW f, NEW u, Plain(s, t), Tabled(t, f, u)
    PROVE  Tabled(s, f, u)
  <1>1. t.length \in Nat /\ s.length >= s.length
      BY DEF Plain
  <1>2. SameSlots(s, t) /\ SameSlots(t, s)
      BY <1>1 DEF Plain, SameSlots
  <1>3. \A id : IsPeer(t, id) => IsPeer(s, id) /\ SlotOf(t, id) = SlotOf(s, id)
      BY <1>1, <1>2, SlotStays
  <1>4. SameSlots(s, u) => SameSlots(t, u)
      BY DEF Plain, SameSlots
  <1> QED
      BY <1>3, <1>4 DEF Plain, Tabled, Mid

\* A handler that leaves the table alone may come after.
LEMMA ThenPlain ==
    ASSUME NEW s, NEW t, NEW f, NEW u, Tabled(s, f, t), Plain(t, u)
    PROVE  Tabled(s, f, u)
  <1>1. SameSlots(s, u) => SameSlots(s, t)
      BY DEF Plain, SameSlots
  <1> QED
      BY <1>1 DEF Plain, Tabled

\* A table that keeps its numbers, or loses a peer.
Numbered(s, t) == t.heard = s.heard /\ \A i \in 1..s.length : t.peers[i].mid = s.peers[i].mid

\* Numbers kept are noted well.
LEMMA NumberedTabled ==
    ASSUME NEW s, NEW f, NEW t, Numbered(s, t) PROVE Tabled(s, f, t)
  BY DEF Numbered, Tabled

\* So is a table left alone.
LEMMA PlainTabled ==
    ASSUME NEW s, NEW f, NEW t, Plain(s, t) PROVE Tabled(s, f, t)
  BY DEF Plain, Tabled

\* Nothing is said of a table that has lost a peer.
LEMMA LostTabled ==
    ASSUME NEW s, NEW f, NEW t, s.length \in Nat, t.length \in Nat, t.length < s.length
    PROVE  Tabled(s, f, t)
  BY DEF Tabled, SameSlots

\* The helpers leave the table alone.
LEMMA PlainHelpers ==
    ASSUME NEW s, Shape(s)
    PROVE  /\ Plain(s, s) /\ Plain(s, GoToRxOrSleep(s)) /\ Plain(s, Retransmit(s))
           /\ Plain(s, OpenWindow(s)) /\ Plain(s, Resume(s)) /\ Plain(s, WaitForAck(s))
           /\ \A f, kind : Plain(s, SendAck(s, f, kind))
  <1>1. Plain(s, s) /\ Plain(s, Retransmit(s)) /\ Plain(s, OpenWindow(s)) /\ Plain(s, WaitForAck(s))
      BY DEF Plain, Retransmit, OpenWindow, WaitForAck, Shape, Fields
  <1>2. Plain(s, Resume(s))
      BY DEF Plain, Resume, WaitForAck, Shape, Fields
  <1>3. Plain(s, GoToRxOrSleep(s))
    <2>1. Plain(s, Sleep(s)) /\ Plain(s, Listen(s))
        BY DEF Plain, Sleep, Listen, Shape, Fields
    <2> QED
        BY <2>1 DEF GoToRxOrSleep
  <1>4. \A f, kind : Plain(s, SendAck(s, f, kind))
      BY DEF Plain, SendAck, Shape, Fields
  <1> QED
      BY <1>1, <1>2, <1>3, <1>4

\* The end of a transmission leaves the table alone.
LEMMA OnTxDonePlain == ASSUME NEW s, Shape(s) PROVE Plain(s, OnTxDone(s))
  <1> DEFINE t == [s EXCEPT !.count = IF @ > 0 THEN @ - 1 ELSE @]
             w == WaitForAck(t)
             v == [w EXCEPT !.ack = FALSE]
             d == [t EXCEPT !.desired = "tx"]
  <1>1. OnTxDone(s) \in {v, d, Resume(t), GoToRxOrSleep(t)}
      BY DEF OnTxDone
  <1>2. Plain(s, t) /\ Shape(t)
      BY DEF Plain, Shape, Fields
  <1> HIDE DEF t
  <1>3. Plain(t, w) /\ Shape(w)
      BY <1>2 DEF Plain, WaitForAck, Shape, Fields
  <1> HIDE DEF w
  <1>4. Plain(w, v) /\ Plain(t, d)
      BY <1>2, <1>3 DEF Plain, Shape, Fields
  <1> HIDE DEF v, d
  <1>5. Plain(t, Resume(t)) /\ Plain(t, GoToRxOrSleep(t))
      BY <1>2, PlainHelpers
  <1> QED
      BY <1>1, <1>2, <1>3, <1>4, <1>5 DEF Plain

\* A timeout does.
LEMMA OnRxTimeoutPlain == ASSUME NEW s, Shape(s) PROVE Plain(s, OnRxTimeout(s))
  <1>1. OnRxTimeout(s) \in {Retransmit(s), GoToRxOrSleep(s)}
      BY DEF OnRxTimeout
  <1> QED
      BY <1>1, PlainHelpers

\* The transceiver entering a state does.
LEMMA EnterPlain == ASSUME NEW s, Shape(s), NEW target PROVE Plain(s, Enter(s, target))
  BY DEF Plain, Enter, Shape, Fields

\* A well-formed table has a length below MAX_DEVICES and all its slots.
LEMMA TableShape ==
    ASSUME NEW s, TableOK(s)
    PROVE  /\ Shape(s) /\ s.length \in 0..MAX_DEVICES - 1 /\ s.length \in Nat /\ MAX_DEVICES \in Nat
           /\ DOMAIN s.peers = 1..MAX_DEVICES
           /\ \A i \in 1..MAX_DEVICES : DOMAIN s.peers[i] = {"id", "mid", "synced"}
           /\ 1..s.length \subseteq 1..MAX_DEVICES
  BY CountAssumption DEF TableOK, PeersOK

\* A peer is added in a slot of its own.
LEMMA PeerAddSlots ==
    ASSUME NEW s, TableOK(s), NEW id
    PROVE  LET t == PeerAdd(s, id) IN Numbered(s, t) /\ SameSlots(s, t)
  <1> DEFINE k == s.length + 1
             p == [[s.peers EXCEPT ![k].id = id] EXCEPT ![k].synced = FALSE]
             t == PeerAdd(s, id)
  <1>1. t.length = k /\ t.peers = p /\ t.heard = s.heard
      BY DEF PeerAdd, TableOK, Shape, Fields
  <1>2. \A i \in 1..s.length : i \in 1..MAX_DEVICES /\ i # k
      BY TableShape
  <1>3. \A i \in 1..MAX_DEVICES : i # k => p[i] = s.peers[i]
      BY TableShape
  <1>4. k >= s.length
      BY TableShape
  <1> HIDE DEF p, t, k
  <1> QED
      BY <1>1, <1>2, <1>3, <1>4 DEF Numbered, SameSlots, t

\* Queueing a message leaves the table alone.
LEMMA QueuePutPlain == ASSUME NEW s, Shape(s), NEW m PROVE Plain(s, QueuePut(s, m))
  BY DEF Plain, QueuePut, Shape, Fields

\* The call that adds a peer takes no slot from another and changes no number.
LEMMA PublicAddSlots ==
    ASSUME NEW s, TableOK(s), NEW id \in Identities
    PROVE  LET t == PublicAdd(s, id) IN Numbered(s, t) /\ SameSlots(s, t)
  <1>1. CASE CanAdd(s, id)
    <2> DEFINE t == PeerAdd(s, id)
    <2>1. Numbered(s, t) /\ SameSlots(s, t)
        BY PeerAddSlots
    <2>2. Shape(t)
        BY PeerAddTouches, TableShape DEF Untouched
    <2>3. PublicAdd(s, id) = QueuePut(t, Message("attach", id, 0))
        BY <1>1 DEF PublicAdd
    <2> HIDE DEF t
    <2>4. Plain(t, PublicAdd(s, id))
        BY <2>2, <2>3, QueuePutPlain
    <2> QED
        BY <2>1, <2>4 DEF Plain, Numbered, SameSlots
  <1>2. CASE ~CanAdd(s, id)
    <2>1. PublicAdd(s, id) = s
        BY <1>2 DEF PublicAdd
    <2>2. s.length >= s.length
        BY TableShape
    <2> QED
        BY <2>1, <2>2 DEF Numbered, SameSlots
  <1> QED
      BY <1>1, <1>2

\* A peer that is removed leaves the table shorter.
LEMMA PeerRemoveTabled ==
    ASSUME NEW s, TableOK(s), NEW id, NEW f, IsPeer(s, id) PROVE Tabled(s, f, PeerRemove(s, id))
  <1> DEFINE t == PeerRemove(s, id)
  <1>1. t.length = s.length - 1
      BY DEF PeerRemove, TableOK, Shape, Fields
  <1>2. s.length \in Nat /\ s.length # 0
      BY TableShape DEF IsPeer
  <1> HIDE DEF t
  <1>3. Tabled(s, f, t)
      BY <1>1, <1>2, LostTabled
  <1> QED
      BY <1>3 DEF t

\* The call that removes one changes nothing or loses it.
LEMMA PublicRemoveTabled ==
    ASSUME NEW s, TableOK(s), NEW id, NEW f PROVE Tabled(s, f, PublicRemove(s, id))
  <1>1. CASE IsPeer(s, id)
    <2> DEFINE t == PeerRemove(s, id)
    <2>1. Tabled(s, f, t)
        BY <1>1, PeerRemoveTabled
    <2>2. Shape(t)
        BY PeerRemoveTouches, TableShape DEF Untouched
    <2>3. PublicRemove(s, id) = QueuePut(t, Message("detach", id, 0))
        BY <1>1 DEF PublicRemove
    <2> HIDE DEF t
    <2> QED
        BY <2>1, <2>2, <2>3, QueuePutPlain, ThenPlain
  <1>2. CASE ~IsPeer(s, id)
    <2>1. PublicRemove(s, id) = s
        BY <1>2 DEF PublicRemove
    <2> QED
        BY <2>1, PlainTabled DEF Plain
  <1> QED
      BY <1>1, <1>2

\* The call that removes all of them loses them or had none.
LEMMA PurgeTabled ==
    ASSUME NEW s, TableOK(s), NEW f PROVE Tabled(s, f, PurgeAll(s))
  <1>0. Nobody(s) \in {0, 1} /\ Nobody(s) <= s.length
      BY InUseIs DEF TableOK
  <1>1. CASE s.length = Nobody(s)
    <2>1. PurgeAll(s) = s
        BY <1>1 DEF PurgeAll
    <2> QED
        BY <2>1, PlainTabled DEF Plain
  <1>2. CASE s.length # Nobody(s)
    <2> DEFINE t == PurgeAll(s)
    <2>1. t.length = Nobody(s)
        BY <1>2 DEF PurgeAll, TableOK, Shape, Fields
    <2>2. s.length \in Nat /\ t.length \in Nat /\ t.length < s.length
        BY <1>0, <1>2, <2>1, TableShape
    <2> HIDE DEF t
    <2>3. Tabled(s, f, t)
        BY <2>2, LostTabled
    <2> QED
        BY <2>3 DEF t
  <1> QED
      BY <1>1, <1>2

\* A pairing puts a peer in the first slot and changes no number.
LEMMA PairedNumbered ==
    ASSUME NEW s, TableOK(s), NEW id PROVE Numbered(s, Paired(s, id))
  <1> DEFINE p == [[s.peers EXCEPT ![1].id = id] EXCEPT ![1].synced = FALSE]
             t == [s EXCEPT !.peers[1].id = id, !.peers[1].synced = FALSE,
                   !.length = 1, !.sent_subs = 0, !.save = TRUE, !.planned = TRUE]
  <1>1. t.peers = p /\ t.heard = s.heard
      BY DEF TableOK, Shape, Fields
  <1>2. \A i \in 1..s.length : p[i].mid = s.peers[i].mid
      BY TableShape
  <1>3. Paired(s, id) \in {s, t}
      BY DEF Paired
  <1> HIDE DEF t, p
  <1>4. Numbered(s, s) /\ Numbered(s, t)
      BY <1>1, <1>2 DEF Numbered
  <1> QED
      BY <1>3, <1>4

\* The messages that are heard.
LEMMA HeardAckTabled ==
    ASSUME NEW s, TableOK(s), NEW f PROVE Tabled(s, f, HeardAck(s, f))
  <1>1. CASE s.state # "wait" \/ ~Acknowledges(s, f)
      BY <1>1, PlainTabled DEF HeardAck, Plain
  <1>2. CASE ~(s.state # "wait" \/ ~Acknowledges(s, f))
    <2> DEFINE t == CASE s.tx.kind = "pairing" ->
                           IF f.kind = "ackpair" THEN Paired(s, f.to) ELSE s
                      [] s.tx.kind = "sub" -> [s EXCEPT !.sent_subs = @ + 1]
                      [] OTHER -> IF f.kind = "acksubs" THEN [s EXCEPT !.sent_subs = 0] ELSE s
               u == IF s.rx_after_ack THEN OpenWindow(t) ELSE t
               v == [u EXCEPT !.count = 0, !.ack = TRUE, !.done = @ \cup {s.tx}]
               w == GoToRxOrSleep(v)
               More == [s EXCEPT !.sent_subs = @ + 1]
               None == [s EXCEPT !.sent_subs = 0]
    <2>1. HeardAck(s, f) = w
        BY <1>2 DEF HeardAck
    <2>2. t \in {Paired(s, f.to), s, More, None}
        OBVIOUS
    <2>3. Plain(s, s) /\ Plain(s, More) /\ Plain(s, None) /\ Shape(s) /\ Shape(More) /\ Shape(None)
        BY TableShape DEF Plain, Shape, Fields
    <2>4. Numbered(s, Paired(s, f.to)) /\ Shape(Paired(s, f.to))
        BY TableShape, PairedNumbered, PairedTouches DEF Untouched
    <2> HIDE DEF t, More, None
    <2>5. Tabled(s, f, t) /\ Shape(t)
        BY <2>2, <2>3, <2>4, PlainTabled, NumberedTabled
    <2>6. Plain(t, u) /\ Shape(u)
      <3>1. Plain(t, t) /\ Plain(t, OpenWindow(t)) /\ Shape(OpenWindow(t))
          BY <2>5, PlainHelpers, WindowTouches DEF Untouched
      <3> QED
          BY <2>5, <3>1
    <2> HIDE DEF u
    <2>7. Plain(u, v) /\ Shape(v)
        BY <2>6 DEF Plain, Shape, Fields
    <2> HIDE DEF v
    <2>8. Plain(v, w)
        BY <2>7, PlainHelpers
    <2>9. Plain(t, w)
        BY <2>6, <2>7, <2>8 DEF Plain
    <2> QED
        BY <2>1, <2>5, <2>9, ThenPlain
  <1> QED
      BY <1>1, <1>2

\* The number of f is noted in a slot of its sender.
LEMMA NotedTabled ==
    ASSUME NEW s, TableOK(s), NEW t, TableOK(t), Numbered(s, t), SameSlots(s, t),
           NEW f \in Messages, IsPeer(t, f.from),
           NEW u, u.length = t.length, u.heard = t.heard,
           DOMAIN u.peers = 1..MAX_DEVICES,
           \A i \in 1..MAX_DEVICES : /\ u.peers[i].id = t.peers[i].id
                                     /\ i # SlotOf(t, f.from) => u.peers[i].mid = t.peers[i].mid
                                     /\ i = SlotOf(t, f.from) => u.peers[i].mid = f.id
    PROVE  Tabled(s, f, u)
  <1>1. s.length \in Nat /\ t.length \in Nat /\ 1..s.length \subseteq 1..MAX_DEVICES
      BY TableShape
  <1> DEFINE k == SlotOf(t, f.from)
  <1>2. k \in 1..t.length /\ t.peers[k].id = f.from
      BY <1>1, SlotIs
  <1>3. ASSUME NEW i \in 1..s.length
        PROVE  \/ u.peers[i].mid = s.peers[i].mid
               \/ IsPeer(s, f.from) /\ i = SlotOf(s, f.from) /\ u.peers[i].mid = f.id
    <2>0. i \in 1..MAX_DEVICES
        BY <1>1
    <2>1. CASE i # k
      <3>1. u.peers[i].mid = t.peers[i].mid
          BY <2>0, <2>1
      <3> QED
          BY <3>1 DEF Numbered
    <2>2. CASE i = k
      <3>1. s.peers[i].id = f.from
          BY <1>2, <2>2 DEF SameSlots
      <3>2. IsPeer(s, f.from)
          BY <3>1 DEF IsPeer
      <3>3. SlotOf(s, f.from) = k
          BY <1>1, <3>2, SlotStays
      <3>4. u.peers[i].mid = f.id
          BY <2>0, <2>2
      <3> QED
          BY <2>2, <3>2, <3>3, <3>4
    <2> QED
        BY <2>1, <2>2
  <1>4. u.heard = s.heard
      BY DEF Numbered
  <1> QED
      BY <1>3, <1>4 DEF Tabled

\* One slot of a table noted.
Noting(s, i, mid, synced) == [s EXCEPT !.peers[i].mid = mid, !.peers[i].synced = synced]

\* Noting a number in a slot changes that number alone.
LEMMA NotingPeers ==
    ASSUME NEW s, TableOK(s), NEW i, NEW mid, NEW synced
    PROVE  LET t == Noting(s, i, mid, synced) IN
           /\ Shape(t) /\ t.length = s.length /\ t.heard = s.heard
           /\ DOMAIN t.peers = 1..MAX_DEVICES
           /\ \A j \in 1..MAX_DEVICES : /\ t.peers[j].id = s.peers[j].id
                                        /\ j # i => t.peers[j].mid = s.peers[j].mid
                                        /\ j = i => t.peers[j].mid = mid
  <1> DEFINE t == Noting(s, i, mid, synced)
             p == [[s.peers EXCEPT ![i].mid = mid] EXCEPT ![i].synced = synced]
  <1>1. /\ Shape(t) /\ t.length = s.length /\ t.heard = s.heard /\ t.peers = p
      BY TableShape DEF Noting, Shape, Fields
  <1>2. DOMAIN p = 1..MAX_DEVICES
      BY TableShape
  <1>3. \A j \in 1..MAX_DEVICES : /\ p[j].id = s.peers[j].id
                                  /\ j # i => p[j].mid = s.peers[j].mid
                                  /\ j = i => p[j].mid = mid
      BY TableShape
  <1> HIDE DEF p, t
  <1> QED
      BY <1>1, <1>2, <1>3 DEF t

\* A pairing message's number is noted with its sender.
LEMMA HeardPairingTabled ==
    ASSUME NEW s, TableOK(s), NEW f \in Messages, f.from \in Identities
    PROVE  Tabled(s, f, HeardPairing(s, f))
  <1> DEFINE t == IF s.pairing_mode THEN PublicAdd(s, f.from) ELSE s
             u == SendAck(t, f, "ackpair")
             i == SlotOf(t, f.from)
             v == [u EXCEPT !.peers[i].mid = f.id, !.peers[i].synced = TRUE]
  <1>1. HeardPairing(s, f) = IF ~IsPeer(t, f.from) THEN t ELSE v
      BY DEF HeardPairing
  <1>2. TableOK(t)
      BY PublicAddTable
  <1>3. Numbered(s, t) /\ SameSlots(s, t)
    <2>1. Numbered(s, s) /\ SameSlots(s, s)
        BY TableShape DEF Numbered, SameSlots
    <2> QED
        BY <2>1, PublicAddSlots
  <1> HIDE DEF t
  <1>4. Plain(t, u) /\ TableOK(u)
      BY <1>2, TableShape, PlainHelpers, SendAckTable
  <1> HIDE DEF u, i
  <1>5. /\ v.length = u.length /\ v.heard = u.heard
        /\ DOMAIN v.peers = 1..MAX_DEVICES
        /\ \A j \in 1..MAX_DEVICES : /\ v.peers[j].id = u.peers[j].id
                                     /\ j # i => v.peers[j].mid = u.peers[j].mid
                                     /\ j = i => v.peers[j].mid = f.id
    <2>1. PICK b : b = TRUE
        OBVIOUS
    <2>2. v = Noting(u, i, f.id, b)
        BY <2>1 DEF Noting
    <2> HIDE DEF v
    <2> QED
        BY <1>4, <2>2, NotingPeers
  <1> HIDE DEF v
  <1>6. ASSUME IsPeer(t, f.from)
        PROVE  Tabled(s, f, v)
    <2>1. /\ v.length = t.length /\ v.heard = t.heard
          /\ \A j \in 1..MAX_DEVICES : /\ v.peers[j].id = t.peers[j].id
                                       /\ j # SlotOf(t, f.from) => v.peers[j].mid = t.peers[j].mid
                                       /\ j = SlotOf(t, f.from) => v.peers[j].mid = f.id
        BY <1>4, <1>5 DEF Plain, i
    <2> QED
        BY <1>2, <1>3, <1>5, <1>6, <2>1, NotedTabled
  <1> QED
      BY <1>1, <1>3, <1>6, NumberedTabled

\* An attachment changes no number, a detachment loses a peer.
LEMMA HeardAttachTabled ==
    ASSUME NEW s, TableOK(s), NEW f, f.from \in Identities, f.kind \in {"attach", "detach"}
    PROVE  Tabled(s, f, HeardAttach(s, f))
  <1> DEFINE a == [s EXCEPT !.pairing_request = TRUE, !.planned = TRUE]
             t == CASE f.to # MyId(s) -> s
                    [] f.to = MyId(s) /\ f.kind = "attach" -> a
                    [] f.to = MyId(s) /\ f.kind = "detach" ->
                         IF IsPeer(s, f.from) THEN PeerRemove(s, f.from) ELSE s
  <1>1. HeardAttach(s, f) = SendAck(t, f, "ack")
      BY DEF HeardAttach
  <1>2. Plain(s, s) /\ Plain(s, a) /\ Shape(s) /\ Shape(a)
      BY TableShape DEF Plain, Shape, Fields
  <1>3. \/ t = s \/ t = a
        \/ IsPeer(s, f.from) /\ t = PeerRemove(s, f.from)
      OBVIOUS
  <1> HIDE DEF a, t
  <1>4. Tabled(s, f, t) /\ Shape(t)
    <2>1. Tabled(s, f, s) /\ Tabled(s, f, a)
        BY <1>2, PlainTabled
    <2>2. IsPeer(s, f.from) => Tabled(s, f, PeerRemove(s, f.from)) /\ Shape(PeerRemove(s, f.from))
        BY <1>2, PeerRemoveTabled, PeerRemoveTouches DEF Untouched
    <2> QED
        BY <1>2, <1>3, <2>1, <2>2
  <1>5. Plain(t, SendAck(t, f, "ack"))
      BY <1>4, PlainHelpers
  <1> QED
      BY <1>1, <1>4, <1>5, ThenPlain

\* A message that is taken has its number noted with its sender.
LEMMA AcceptTabled ==
    ASSUME NEW s, TableOK(s), NEW f \in Messages, f.from \in Identities, IsPeer(s, f.from), IsNew(s, f)
    PROVE  Tabled(s, f, Accept(s, f))
  <1> DEFINE i == SlotOf(s, f.from)
             restarted == s.mode = "gateway" /\ (~s.peers[i].synced \/ s.peers[i].mid > f.id)
             kind == IF restarted THEN "acksubs" ELSE "ack"
             u == [s EXCEPT !.peers[i].mid = f.id, !.peers[i].synced = TRUE]
             t == [s EXCEPT !.peers[i].mid = f.id, !.peers[i].synced = TRUE,
                            !.rxq = IF Fits(s) THEN Append(@, f) ELSE @,
                            !.planned = TRUE,
                            !.heard = Append(@, f)]
  <1>1. Accept(s, f) = SendAck(t, f, kind)
      BY DEF Accept
  <1>2. i \in 1..s.length /\ 1..s.length \subseteq 1..MAX_DEVICES
      BY SlotIs, TableShape
  <1>3. Mid(s, f.from) # f.id
      BY DEF Mid, IsNew
  <1> HIDE DEF kind
  <1>4. /\ \A j \in 1..MAX_DEVICES : /\ u.peers[j].id = s.peers[j].id
                                     /\ j # i => u.peers[j].mid = s.peers[j].mid
                                     /\ j = i => u.peers[j].mid = f.id
    <2>1. PICK b : b = TRUE
        OBVIOUS
    <2>2. u = Noting(s, i, f.id, b)
        BY <2>1 DEF Noting
    <2> HIDE DEF i, u
    <2> QED
        BY <2>2, NotingPeers
  <1> HIDE DEF i
  <1>5. Shape(t) /\ t.peers = u.peers /\ t.heard = Append(s.heard, f)
      BY TableShape DEF Shape, Fields
  <1> HIDE DEF u, t
  <1>6. Tabled(s, f, t)
    <2>1. \A j \in 1..s.length : t.peers[j].mid = s.peers[j].mid \/ (j = i /\ t.peers[j].mid = f.id)
        BY <1>2, <1>4, <1>5
    <2>2. t.peers[i].mid = f.id
        BY <1>2, <1>4, <1>5
    <2> QED
        BY <1>3, <1>5, <2>1, <2>2 DEF Tabled, i
  <1>7. Plain(t, SendAck(t, f, kind))
      BY <1>5, PlainHelpers
  <1> QED
      BY <1>1, <1>6, <1>7, ThenPlain

\* A peer's message is noted, taken or ignored.
LEMMA HeardDataTabled ==
    ASSUME NEW s, TableOK(s), NEW f \in Messages, f.from \in Identities
    PROVE  Tabled(s, f, HeardData(s, f))
  <1> DEFINE i == SlotOf(s, f.from)
             u == [s EXCEPT !.peers[i].mid = f.id, !.peers[i].synced = FALSE]
  <1>1. \/ HeardData(s, f) \in {s, PublicAdd(s, f.from)}
        \/ IsPeer(s, f.from) /\ HeardData(s, f) = u
        \/ IsPeer(s, f.from) /\ IsNew(s, f) /\ HeardData(s, f) = Accept(s, f)
      BY DEF HeardData
  <1>2. Numbered(s, s) /\ SameSlots(s, s) /\ Numbered(s, PublicAdd(s, f.from))
    <2>1. Numbered(s, s) /\ SameSlots(s, s)
        BY TableShape DEF Numbered, SameSlots
    <2> QED
        BY <2>1, PublicAddSlots
  <1>3. ASSUME IsPeer(s, f.from)
        PROVE  Tabled(s, f, u)
    <2>1. PICK b : b = FALSE
        OBVIOUS
    <2>2. u = Noting(s, i, f.id, b)
        BY <2>1 DEF Noting
    <2> HIDE DEF u
    <2>3. /\ u.length = s.length /\ u.heard = s.heard
          /\ DOMAIN u.peers = 1..MAX_DEVICES
          /\ \A j \in 1..MAX_DEVICES : /\ u.peers[j].id = s.peers[j].id
                                       /\ j # i => u.peers[j].mid = s.peers[j].mid
                                       /\ j = i => u.peers[j].mid = f.id
      <3> HIDE DEF i
      <3> QED
          BY <2>2, NotingPeers
    <2> QED
        BY <1>2, <1>3, <2>3, NotedTabled
  <1> HIDE DEF u
  <1>4. Tabled(s, f, s) /\ Tabled(s, f, PublicAdd(s, f.from))
      BY <1>2, NumberedTabled
  <1> QED
      BY <1>1, <1>3, <1>4, AcceptTabled

\* Any packet.
LEMMA HeardTabled ==
    ASSUME NEW s, TableOK(s), NEW f, f \in Messages \/ f.kind \in AckKinds
    PROVE  Tabled(s, f, Heard(s, f))
  <1>0. f \in Messages => f.from \in Identities
      BY MessageIs, IdAssumption
  <1>1. CASE f.kind \in AckKinds
    <2>1. Heard(s, f) = HeardAck(s, f)
        BY <1>1 DEF Heard, AckKinds
    <2> QED
        BY <2>1, HeardAckTabled
  <1>2. CASE f.kind = "pairing" /\ f \in Messages
    <2>1. Heard(s, f) = HeardPairing(s, f)
        BY <1>2 DEF Heard, AckKinds
    <2> QED
        BY <1>0, <1>2, <2>1, HeardPairingTabled
  <1>3. CASE f.kind \in {"attach", "detach"} /\ f \in Messages
    <2>1. Heard(s, f) = HeardAttach(s, f)
        BY <1>3 DEF Heard, AckKinds
    <2> QED
        BY <1>0, <1>3, <2>1, HeardAttachTabled
  <1>4. CASE f.kind \notin AckKinds \cup {"pairing", "attach", "detach"} /\ f \in Messages
    <2>1. Heard(s, f) = HeardData(s, f)
        BY <1>4 DEF Heard
    <2> QED
        BY <1>0, <1>4, <2>1, HeardDataTabled
  <1> QED
      BY <1>1, <1>2, <1>3, <1>4

\* Any packet, read in time or late.
LEMMA OnRxDoneTabled ==
    ASSUME NEW s, TableOK(s), NEW f, f \in Messages \/ f.kind \in AckKinds
    PROVE  Tabled(s, f, OnRxDone(s, f))
  <1> DEFINE t == GoToRxOrSleep(s)
  <1>1. OnRxDone(s, f) \in {Retransmit(s), Heard(t, f), Heard(s, f)}
      BY DEF OnRxDone
  <1>2. Plain(s, Retransmit(s)) /\ Plain(s, t) /\ TableOK(t) /\ s.length \in Nat
      BY TableShape, PlainHelpers, IdleTable
  <1> HIDE DEF t
  <1>3. Tabled(s, f, Retransmit(s))
      BY <1>2, PlainTabled
  <1>4. Tabled(s, f, Heard(t, f))
      BY <1>2, HeardTabled, PlainThen
  <1> QED
      BY <1>1, <1>3, <1>4, HeardTabled

\* The tasks and the calls.
LEMMA SpiritRunTabled ==
    ASSUME NEW s, TableOK(s), PacketOK(s) PROVE Tabled(s, s.received, SpiritRun(s))
  <1> DEFINE t == IF TimedOut(s) THEN OnRxTimeout(s) ELSE s
             d == [t EXCEPT !.desired = "sleep"]
             e == [t EXCEPT !.expired = FALSE]
             f == s.received
             x == OnTxDone(d)
             r == OnRxDone(e, t.received)
  <1>0. Shape(s) /\ s.length \in Nat
      BY TableShape
  <1>1. TableOK(t) /\ Plain(s, t) /\ t.received = f
    <2>1. Plain(s, s) /\ Plain(s, OnRxTimeout(s)) /\ OnRxTimeout(s).received = f
        BY <1>0, OnRxTimeoutPlain, OnRxTimeoutMoves DEF Plain, Moves, Still
    <2> QED
        BY <2>1, OnRxTimeoutTable
  <1>2. \/ SpiritRun(s) \in {Enter(t, t.desired), CheckTx(t), t}
        \/ t.received # Nothing /\ SpiritRun(s) = CheckRx(t)
      BY DEF SpiritRun
  <1> HIDE DEF t
  <1>3. Shape(t)
      BY <1>1, TableShape
  <1>4. Plain(t, d) /\ Kept(t, e) /\ Plain(t, e) /\ Shape(d)
      BY <1>3 DEF Plain, Kept, Shape, Fields
  <1>5. CheckTx(t) = Enter(x, x.desired) /\ CheckRx(t) = [r EXCEPT !.received = Nothing]
      BY DEF CheckTx, CheckRx
  <1> HIDE DEF d, e
  <1>6. Plain(d, x) /\ Shape(x)
      BY <1>4, OnTxDonePlain, OnTxDoneMoves DEF Moves, Still
  <1> HIDE DEF x
  <1>7. Plain(s, CheckTx(t)) /\ Plain(s, Enter(t, t.desired))
      BY <1>1, <1>3, <1>4, <1>5, <1>6, EnterPlain DEF Plain
  <1>8. ASSUME t.received # Nothing
        PROVE  Tabled(s, f, CheckRx(t))
    <2>1. TableOK(e) /\ (f \in Messages \/ f.kind \in AckKinds)
        BY <1>1, <1>4, <1>8, KeptOK DEF PacketOK
    <2>2. Tabled(e, f, r) /\ Handles(e, f, r)
        BY <1>1, <2>1, OnRxDoneTabled, OnRxDoneHandles, TableShape
    <2> HIDE DEF r
    <2>3. Plain(r, CheckRx(t))
        BY <1>5, <2>2 DEF Handles, Step, Plain, Shape, Fields
    <2>4. Plain(s, e)
        BY <1>1, <1>4 DEF Plain
    <2> QED
        BY <1>0, <2>2, <2>3, <2>4, PlainThen, ThenPlain
  <1> QED
      BY <1>1, <1>2, <1>7, <1>8, PlainTabled

\* The radio's task leaves the table alone.
LEMMA RadioRunPlain ==
    ASSUME NEW s, Shape(s), NEW t \in AfterSave(s) PROVE Plain(s, RadioRun(t))
  <1> DEFINE u == [s EXCEPT !.planned = FALSE]
  <1>1. Shape(u) /\ Plain(s, u)
      BY DEF Plain, Shape, Fields
  <1>2. t = u \/ (\E image : t = [u EXCEPT !.stored = image, !.save = FALSE])
        \/ (\E image : t = [u EXCEPT !.stored = image, !.planned = TRUE, !.faults = @ - 1])
      BY DEF AfterSave
  <1> HIDE DEF u
  <1>3. Shape(t) /\ Plain(s, t)
    <2>1. CASE t = u
        BY <1>1, <2>1
    <2>2. ASSUME NEW image, t = [u EXCEPT !.stored = image, !.save = FALSE]
          PROVE  Shape(t) /\ Plain(s, t)
        BY <1>1, <2>2 DEF Plain, Shape, Fields
    <2>3. ASSUME NEW image, t = [u EXCEPT !.stored = image, !.planned = TRUE, !.faults = @ - 1]
          PROVE  Shape(t) /\ Plain(s, t)
        BY <1>1, <2>3 DEF Plain, Shape, Fields
    <2> QED
        BY <1>2, <2>1, <2>2, <2>3
  <1> DEFINE q == [t EXCEPT !.pairing_request = FALSE, !.left = TRUE]
             r == [t EXCEPT !.pairing_request = FALSE, !.left = FALSE]
             o == [t EXCEPT !.left = FALSE]
             v == [t EXCEPT !.rxq = SubSeq(@, FirstStray(t) + 1, Len(@)), !.left = TRUE]
             w == [t EXCEPT !.rxq = <<>>, !.left = FALSE]
             p == [w EXCEPT !.pub = Tail(@)]
             m == Head(w.pub)
  <1>4. RadioRun(t) \in {q, StartTx(r, "pairing", NoId, 0), StartTx(o, "sub", NoId, t.sent_subs),
                         v, w, StartTx(p, m.kind, m.to, m.n)}
      BY DEF RadioRun, Publish
  <1>5. Plain(t, q) /\ Plain(t, r) /\ Shape(r) /\ Plain(t, o) /\ Shape(o) /\ Plain(t, v) /\ Plain(t, w) /\ Shape(w)
      BY <1>3 DEF Plain, Shape, Fields
  <1> HIDE DEF q, r, o, v, w, m
  <1>6. Plain(t, p) /\ Shape(p)
      BY <1>5 DEF Plain, Shape, Fields
  <1> HIDE DEF p
  <1>7. \A a, kind, to, n : Shape(a) => Plain(a, StartTx(a, kind, to, n))
      BY DEF Plain, StartTx, Shape, Fields
  <1>8. Plain(r, StartTx(r, "pairing", NoId, 0)) /\ Plain(o, StartTx(o, "sub", NoId, t.sent_subs))
        /\ Plain(p, StartTx(p, m.kind, m.to, m.n))
      BY <1>3, <1>5, <1>6, <1>7
  <1>9. Plain(t, RadioRun(t))
      BY <1>4, <1>5, <1>6, <1>8 DEF Plain
  <1> QED
      BY <1>3, <1>9 DEF Plain

\* A call leaves the numbers alone, or loses a peer.
LEMMA CallTabled ==
    ASSUME NEW s, TableOK(s), NEW c \in Calls, c.op # "reboot", NEW f
    PROVE  Tabled(s, f, CallResult(s, c))
  <1>0. Shape(s)
      BY TableShape
  <1>1. c.op \in {"pub", "clear", "pairing_request", "pairing_mode", "automatic_pairing",
                  "add", "remove", "purge", "listen", "rx_after_ack"}
      BY DEF Calls
  <1>2. CASE c.op = "pub"
    <2> DEFINE t == QueuePut(s, c.message)
    <2>1. Plain(s, t) /\ Shape(t)
        BY <1>0, QueuePutPlain, QueuePutTouches DEF Untouched
    <2>2. CallResult(s, c) = [t EXCEPT !.planned = @ \/ Len(s.pub) < PubCapacity]
        BY <1>2 DEF CallResult
    <2> HIDE DEF t
    <2>3. Plain(s, CallResult(s, c))
        BY <2>1, <2>2 DEF Plain, Shape, Fields
    <2> QED
        BY <2>3, PlainTabled
  <1>3. CASE c.op = "listen"
    <2> DEFINE t == OpenWindow(s)
    <2>1. Plain(s, t) /\ Shape(t)
        BY <1>0, PlainHelpers, WindowTouches DEF Untouched
    <2>2. CallResult(s, c) = [t EXCEPT !.planned = TRUE]
        BY <1>3 DEF CallResult
    <2> HIDE DEF t
    <2>3. Plain(s, CallResult(s, c))
        BY <2>1, <2>2 DEF Plain, Shape, Fields
    <2> QED
        BY <2>3, PlainTabled
  <1>4. CASE c.op \in {"add", "remove"}
    <2>1. /\ c.op = "add" => CallResult(s, c) = PublicAdd(s, c.id)
          /\ c.op = "remove" => CallResult(s, c) = PublicRemove(s, c.id)
        BY DEF CallResult
    <2>2. c.id \in Identities
        BY <1>4 DEF Calls
    <2>3. Tabled(s, f, PublicAdd(s, c.id))
        BY <2>2, PublicAddSlots, NumberedTabled
    <2> QED
        BY <1>4, <2>1, <2>3, PublicRemoveTabled
  <1>5. CASE c.op = "purge"
    <2>1. CallResult(s, c) = PurgeAll(s)
        BY <1>5 DEF CallResult
    <2> QED
        BY <2>1, PurgeTabled
  <1>6. CASE c.op \in {"clear", "pairing_request", "pairing_mode", "automatic_pairing", "rx_after_ack"}
    <2> DEFINE a == [s EXCEPT !.pub = <<>>]
               b == [s EXCEPT !.fits = c.fits, !.pairing_request = TRUE, !.planned = TRUE]
               d == [s EXCEPT !.pairing_mode = c.on]
               e == [s EXCEPT !.automatic_pairing = c.on]
               g == [s EXCEPT !.rx_after_ack = c.on]
    <2>1. Plain(s, a) /\ Plain(s, b) /\ Plain(s, d) /\ Plain(s, e) /\ Plain(s, g)
        BY <1>0 DEF Plain, Shape, Fields
    <2>2. CallResult(s, c) \in {a, b, d, e, g}
        BY <1>6 DEF CallResult
    <2> HIDE DEF a, b, d, e, g
    <2> QED
        BY <2>1, <2>2, PlainTabled
  <1> QED
      BY <1>1, <1>2, <1>3, <1>4, <1>5, <1>6

-------------------------------------------------------------------------------
(***************************************************************************)
(* What is taken, once and in order.                                       *)
(***************************************************************************)
\* A message of the latest start of a station, and what receiver r has noted of
\* sender s: the number of the last message taken, which none in transit is behind.
SinceStart(s, i) == \A k \in i..Len(s.heard) : s.heard[k] # Nothing
Notes(s, r) ==
    \A i \in 1..Len(r.heard) : SinceStart(r, i) /\ r.heard[i].from = s.serial =>
        /\ r.heard[i].boot <= s.boots
        /\ r.heard[i].boot = s.boots =>
               /\ IsPeer(r, s.serial)
               /\ Mid(r, s.serial) \in r.heard[i].id .. s.message_id
               /\ r.received \in Messages /\ r.received.from = s.serial
                    => Mid(r, s.serial) <= r.received.id
Noted == \A n, m \in Stations : Notes(node[n], node[m])

\* No station loses a peer or gives its place away, but in a start.
Steady == \A n \in Stations : node'[n].boots # node[n].boots \/ SameSlots(node[n], node'[n])

\* Entries of a station's history that are of its latest start stay so when it
\* goes on, and are still all there.
LEMMA SinceLonger ==
    ASSUME NEW s, NumbersOK(s), NEW t, NumbersOK(t), Longer(s, t),
           NEW i \in 1..Len(s.heard), SinceStart(t, i)
    PROVE  SinceStart(s, i)
  <1>1. \A k \in i..Len(s.heard) : k \in 1..Len(s.heard)
      BY DEF NumbersOK
  <1>2. \A k \in i..Len(s.heard) : k \in i..Len(t.heard) /\ t.heard[k] = s.heard[k]
      BY <1>1 DEF Longer, NumbersOK
  <1> QED
      BY <1>2 DEF SinceStart

\* What a receiver r has noted of a sender s, when both go on: the sender to s2,
\* the receiver to r2 by a handler of f.
LEMMA NotesStep ==
    ASSUME NEW s, NumbersOK(s), NEW s2, NumbersOK(s2), NEW r, NumbersOK(r), NEW r2, NumbersOK(r2),
           s2.serial = s.serial, s2.boots = s.boots, s.message_id <= s2.message_id,
           r.length \in Nat, r2.length \in Nat, SameSlots(r, r2), Longer(r, r2),
           Tabled(r, r.received, r2), r2.received \in {r.received, Nothing},
           r.received \in Messages /\ r.received.from = s.serial => Recent(s, r.received),
           Notes(s, r)
    PROVE  Notes(s2, r2)
  <1> DEFINE f == r.received
             n == s.serial
  <1> SUFFICES ASSUME NEW i \in 1..Len(r2.heard), SinceStart(r2, i), r2.heard[i].from = n
               PROVE  /\ r2.heard[i].boot <= s.boots
                      /\ r2.heard[i].boot = s.boots =>
                           /\ IsPeer(r2, n)
                           /\ Mid(r2, n) \in r2.heard[i].id .. s2.message_id
                           /\ r2.received \in Messages /\ r2.received.from = n
                                => Mid(r2, n) <= r2.received.id
      BY DEF Notes
  <1>0. s.message_id \in Nat /\ s2.message_id \in Nat /\ s.boots \in Nat
        /\ r.heard \in Seq(Messages \cup {Nothing}) /\ r2.heard \in Seq(Messages \cup {Nothing})
      BY DEF NumbersOK
  <1>1. ASSUME f \in Messages, f.from = n
        PROVE  f.boot = s.boots /\ f.id \in Nat /\ f.id <= s.message_id
      BY <1>1, MessageIs DEF Recent
  <1>2. ASSUME IsPeer(r, n)
        PROVE  /\ IsPeer(r2, n)
               /\ \/ Mid(r2, n) = Mid(r, n)
                  \/ f \in Messages /\ f.from = n /\ Mid(r2, n) = f.id
    <2>1. IsPeer(r2, n) /\ SlotOf(r2, n) = SlotOf(r, n)
        BY <1>2, SlotStays
    <2>2. PICK k \in 1..r.length : k = SlotOf(r, n) /\ r.peers[k].id = n
        BY <1>2, SlotIs
    <2>3. \/ r2.peers[k].mid = r.peers[k].mid
          \/ /\ f \in Messages /\ IsPeer(r, f.from) /\ k = SlotOf(r, f.from)
             /\ r2.peers[k].mid = f.id
        BY DEF Tabled
    <2>4. f \in Messages /\ IsPeer(r, f.from) /\ k = SlotOf(r, f.from) => f.from = n
        BY <2>2, SlotIs
    <2> QED
        BY <2>1, <2>2, <2>3, <2>4 DEF Mid
  <1>3. r2.received = f \/ r2.received \notin Messages
      BY MessageIs
  <1>4. CASE i \in 1..Len(r.heard)
    <2>1. SinceStart(r, i) /\ r2.heard[i] = r.heard[i]
        BY <1>4, SinceLonger DEF Longer
    <2>2. r.heard[i] \in Messages
        BY <1>0, <1>4, <2>1 DEF SinceStart
    <2>3. PICK e \in Messages : e = r.heard[i]
        BY <2>2
    <2>4. e.id \in Nat /\ e.from = n
        BY <2>1, <2>3, MessageIs
    <2>5. e.boot <= s.boots
        BY <1>4, <2>1, <2>3 DEF Notes
    <2>6. ASSUME e.boot = s.boots
          PROVE  /\ IsPeer(r2, n)
                 /\ Mid(r2, n) \in e.id .. s2.message_id
                 /\ r2.received \in Messages /\ r2.received.from = n
                      => Mid(r2, n) <= r2.received.id
      <3>1. /\ IsPeer(r, n) /\ Mid(r, n) \in e.id .. s.message_id
            /\ f \in Messages /\ f.from = n => Mid(r, n) <= f.id
          BY <1>4, <2>1, <2>3, <2>6 DEF Notes
      <3>2. CASE Mid(r2, n) = Mid(r, n)
        <4>1. Mid(r2, n) \in e.id .. s2.message_id
          <5>1. PICK x, low, high, top : /\ x = Mid(r, n) /\ low = e.id
                                         /\ high = s.message_id /\ top = s2.message_id
              OBVIOUS
          <5>2. x \in low..high /\ low \in Nat /\ high \in Nat /\ top \in Nat /\ high <= top
              BY <1>0, <2>4, <3>1, <5>1
          <5>3. x \in low..top
              BY <5>2
          <5> QED
              BY <3>2, <5>1, <5>3
        <4>2. r2.received \in Messages /\ r2.received.from = n => Mid(r2, n) <= r2.received.id
            BY <1>3, <3>1, <3>2
        <4> QED
            BY <1>2, <3>1, <4>1, <4>2
      <3>3. CASE f \in Messages /\ f.from = n /\ Mid(r2, n) = f.id
        <4>1. Mid(r2, n) \in e.id .. s2.message_id
          <5>1. PICK x, low, mid, high, top :
                   /\ x = f.id /\ low = e.id /\ mid = Mid(r, n)
                   /\ high = s.message_id /\ top = s2.message_id
              OBVIOUS
          <5>2. /\ mid \in low..high /\ mid <= x /\ x <= high /\ high <= top
                /\ x \in Nat /\ low \in Nat /\ high \in Nat /\ top \in Nat
              BY <1>0, <1>1, <2>4, <3>1, <3>3, <5>1
          <5>3. x \in low..top
              BY <5>2
          <5> QED
              BY <3>3, <5>1, <5>3
        <4>2. r2.received \in Messages => Mid(r2, n) <= r2.received.id
            BY <1>1, <1>3, <3>3
        <4> QED
            BY <1>2, <3>1, <4>1, <4>2
      <3> QED
          BY <1>2, <3>1, <3>2, <3>3
    <2> QED
        BY <2>1, <2>3, <2>5, <2>6
  <1>5. CASE i \notin 1..Len(r.heard)
    <2>1. /\ f \in Messages /\ IsPeer(r, f.from)
          /\ r2.heard = Append(r.heard, f) /\ r2.peers[SlotOf(r, f.from)].mid = f.id
        BY <1>5 DEF Tabled
    <2>2. r2.heard[i] = f
      <3>1. Len(r2.heard) = Len(r.heard) + 1 /\ r2.heard[Len(r.heard) + 1] = f
            /\ Len(r.heard) \in Nat
          BY <1>0, <2>1, AppendProperties
      <3>2. i = Len(r.heard) + 1
          BY <1>5, <3>1
      <3> QED
          BY <3>1, <3>2
    <2>3. f.from = n
        BY <2>2
    <2>4. IsPeer(r2, n) /\ SlotOf(r2, n) = SlotOf(r, n)
        BY <2>1, <2>3, SlotStays
    <2>5. Mid(r2, n) = f.id
        BY <2>1, <2>3, <2>4 DEF Mid
    <2>6. f.boot = s.boots /\ f.id \in Nat /\ f.id <= s.message_id
        BY <1>1, <2>1, <2>3
    <2>7. Mid(r2, n) \in f.id .. s2.message_id
        BY <1>0, <2>5, <2>6
    <2>8. r2.received \in Messages => Mid(r2, n) <= r2.received.id
        BY <1>3, <2>5, <2>6
    <2>9. f.boot <= s.boots
        BY <1>0, <2>6
    <2> HIDE DEF f, n
    <2> QED
        BY <2>2, <2>4, <2>7, <2>8, <2>9
  <1> QED
      BY <1>4, <1>5

\* A history in order, and one that grows in order.
InOrder(h) ==
    \A i, j \in 1..Len(h) :
        (i < j /\ (\A k \in i..j : h[k] # Nothing) /\ h[i].from = h[j].from) =>
            \/ h[i].boot < h[j].boot
            \/ h[i].boot = h[j].boot /\ h[i].id < h[j].id

\* A message that is taken is later than all its sender's taken since the start.
LEMMA OrderStep ==
    ASSUME NEW s, NumbersOK(s), NEW r, NumbersOK(r), NEW f \in Messages, r.received = f, f.from = s.serial,
           Recent(s, f), Notes(s, r), IsPeer(r, f.from), Mid(r, f.from) # f.id, InOrder(r.heard)
    PROVE  InOrder(Append(r.heard, f))
  <1> DEFINE h == r.heard
             g == Append(h, f)
             l == Len(h)
  <1>1. /\ h \in Seq(Messages \cup {Nothing}) /\ l \in Nat /\ s.boots \in Nat /\ s.message_id \in Nat
      BY DEF NumbersOK
  <1>2. Len(g) = l + 1 /\ g[l + 1] = f /\ \A i \in 1..l : g[i] = h[i]
      BY <1>1, AppendProperties
  <1>3. f.boot = s.boots /\ f.id \in Nat /\ f.boot \in Nat
      BY MessageIs DEF Recent
  <1> SUFFICES ASSUME NEW i \in 1..Len(g), NEW j \in 1..Len(g), i < j,
                      \A k \in i..j : g[k] # Nothing, g[i].from = g[j].from
               PROVE  \/ g[i].boot < g[j].boot
                      \/ g[i].boot = g[j].boot /\ g[i].id < g[j].id
      BY DEF InOrder
  <1>4. i \in 1..l /\ g[i] = h[i]
      BY <1>1, <1>2
  <1>5. CASE j \in 1..l
    <2>1. g[j] = h[j]
        BY <1>2, <1>5
    <2>2. \A k \in i..j : h[k] # Nothing
      <3>1. \A k \in i..j : k \in 1..l
          BY <1>1, <1>4, <1>5
      <3> QED
          BY <1>2, <3>1
    <2> HIDE DEF g, l
    <2>3. h[i].from = h[j].from
        BY <1>4, <2>1
    <2>4. \/ h[i].boot < h[j].boot
          \/ h[i].boot = h[j].boot /\ h[i].id < h[j].id
        BY <1>4, <1>5, <2>2, <2>3 DEF InOrder, l
    <2> QED
        BY <1>4, <2>1, <2>4
  <1>6. CASE j \notin 1..l
    <2>1. j = l + 1 /\ g[j] = f
        BY <1>1, <1>2, <1>6
    <2>2. SinceStart(r, i)
      <3>1. \A k \in i..l : k \in i..j /\ k \in 1..l
          BY <1>1, <1>4, <2>1
      <3> HIDE DEF g, l
      <3> QED
          BY <1>2, <3>1 DEF SinceStart, l
    <2>3. i \in i..l
        BY <1>1, <1>4
    <2>4. h[i] # Nothing
        BY <2>2, <2>3 DEF SinceStart
    <2>5. h[i] \in Messages
        BY <1>1, <1>4, <2>4
    <2>6. PICK e \in Messages : e = h[i]
        BY <2>5
    <2>7. e.id \in Nat /\ e.boot \in Nat /\ e.from = s.serial
        BY <1>4, <2>1, <2>6, MessageIs
    <2>8. e.boot <= s.boots
        BY <1>4, <2>2, <2>6, <2>7 DEF Notes
    <2>9. ASSUME e.boot = s.boots
          PROVE  e.id < f.id
      <3>1. Mid(r, s.serial) \in e.id .. s.message_id /\ Mid(r, s.serial) <= f.id
          BY <1>4, <2>2, <2>6, <2>7, <2>9 DEF Notes
      <3> QED
          BY <1>1, <1>3, <2>7, <3>1
    <2>10. e.boot < f.boot \/ (e.boot = f.boot /\ e.id < f.id)
        BY <1>1, <1>3, <2>7, <2>8, <2>9
    <2> HIDE DEF g
    <2> QED
        BY <1>4, <2>1, <2>6, <2>10
  <1> QED
      BY <1>5, <1>6

\* What was heard before a start counts no more.
LEMMA OrderCut ==
    ASSUME NEW h, h \in Seq(Messages \cup {Nothing}), InOrder(h)
    PROVE  InOrder(Append(h, Nothing))
  <1> DEFINE g == Append(h, Nothing)
             l == Len(h)
  <1>1. l \in Nat /\ Len(g) = l + 1 /\ g[l + 1] = Nothing /\ \A i \in 1..l : g[i] = h[i]
      BY AppendProperties
  <1> SUFFICES ASSUME NEW i \in 1..Len(g), NEW j \in 1..Len(g), i < j,
                      \A k \in i..j : g[k] # Nothing, g[i].from = g[j].from
               PROVE  \/ g[i].boot < g[j].boot
                      \/ g[i].boot = g[j].boot /\ g[i].id < g[j].id
      BY DEF InOrder
  <1>2. j # l + 1
    <2>1. j \in i..j
        BY <1>1
    <2>2. g[j] # Nothing
        BY <2>1
    <2> QED
        BY <1>1, <2>2
  <1>3. i \in 1..l /\ j \in 1..l
      BY <1>1, <1>2
  <1>4. \A k \in i..j : k \in 1..l
      BY <1>1, <1>3
  <1>5. g[i] = h[i] /\ g[j] = h[j] /\ \A k \in i..j : h[k] # Nothing
      BY <1>1, <1>3, <1>4
  <1> HIDE DEF g, l
  <1>6. \/ h[i].boot < h[j].boot
        \/ h[i].boot = h[j].boot /\ h[i].id < h[j].id
      BY <1>3, <1>5 DEF InOrder, l
  <1> QED
      BY <1>5, <1>6

\* Everything about the order of what is taken.
Ordered == Noted /\ \A m \in Stations : InOrder(node[m].heard)

\* The property, station by station.
LEMMA OrderedIs == AtMostOnceInOrder <=> \A m \in Stations : InOrder(node[m].heard)
  BY DEF AtMostOnceInOrder, InOrder

\* A handler of one station that loses no peer.
LEMMA StepOrdered ==
    ASSUME Linked, Tables, Transit, Ordered, NEW n \in Stations, NEW t, OneChanges(n, t),
           StepOn(node[n], t), Tabled(node[n], node[n].received, t), TableOK(t),
           SameSlots(node[n], t)
    PROVE  Ordered'
  <1>0. NumbersOK(node[n]) /\ Step(node[n], node[n].received, t)
      BY DEF Transit, StepOn
  <1>1. /\ NumbersOK(t) /\ node[n].message_id <= t.message_id
        /\ t.serial = node[n].serial /\ t.boots = node[n].boots /\ Longer(node[n], t)
        /\ t.received \in {node[n].received, Nothing}
    <2>1. NumbersOK(t) /\ t.message_id >= node[n].message_id
        BY <1>0, StepNumbers
    <2>2. node[n].message_id <= t.message_id
        BY <1>0, <2>1 DEF NumbersOK
    <2> QED
        BY <1>0, <2>1, <2>2, StepLonger DEF Step, StepOn
  <1>2. ASSUME NEW m \in Stations
        PROVE  /\ NumbersOK(node[m]) /\ node[m].serial = m /\ node[m].length \in Nat
               /\ node[m].message_id <= node[m].message_id
               /\ SameSlots(node[m], node[m]) /\ Longer(node[m], node[m])
               /\ Tabled(node[m], node[m].received, node[m])
    <2>1. NumbersOK(node[m]) /\ node[m].serial = m /\ node[m].length \in Nat
        BY LinkedStation, TableShape DEF Transit, Tables
    <2>2. node[m].message_id <= node[m].message_id /\ node[m].length >= node[m].length
        BY <2>1 DEF NumbersOK
    <2> QED
        BY <2>1, <2>2, PlainTabled DEF SameSlots, Longer, Plain
  <1>3. t.length \in Nat
      BY TableShape
  <1>4. \A m \in Stations : node'[m] = IF m = n THEN t ELSE node[m]
      BY DEF OneChanges
  <1>5. ASSUME NEW m \in Stations
        PROVE  /\ NumbersOK(node'[m]) /\ node'[m].serial = m /\ node'[m].length \in Nat
               /\ node'[m].boots = node[m].boots /\ node[m].message_id <= node'[m].message_id
               /\ SameSlots(node[m], node'[m]) /\ Longer(node[m], node'[m])
               /\ Tabled(node[m], node[m].received, node'[m])
               /\ node'[m].received \in {node[m].received, Nothing}
    <2>1. CASE m = n
      <3>1. node'[m] = t
          BY <1>4, <2>1
      <3> QED
          BY <1>1, <1>2, <1>3, <2>1, <3>1
    <2>2. CASE m # n
      <3>1. node'[m] = node[m]
          BY <1>4, <2>2
      <3> QED
          BY <1>2, <3>1
    <2> QED
        BY <2>1, <2>2
  <1>6. ASSUME NEW m \in Stations, node[m].received \in Messages
        PROVE  LET f == node[m].received IN f.from \in Stations /\ Recent(node[f.from], f)
      BY <1>6, ReceivedFrom
  <1>7. ASSUME NEW a \in Stations, NEW b \in Stations
        PROVE  Notes(node'[a], node'[b])
    <2>1. Notes(node[a], node[b])
        BY DEF Ordered, Noted
    <2>2. PICK s, s2, r, r2 : s = node[a] /\ s2 = node'[a] /\ r = node[b] /\ r2 = node'[b]
        OBVIOUS
    <2>3. /\ NumbersOK(s) /\ NumbersOK(s2) /\ s2.serial = s.serial /\ s2.boots = s.boots
          /\ s.message_id <= s2.message_id /\ s.serial = a
        BY <1>2, <1>5, <2>2
    <2>4. /\ NumbersOK(r) /\ NumbersOK(r2) /\ r.length \in Nat /\ r2.length \in Nat
          /\ SameSlots(r, r2) /\ Longer(r, r2) /\ Tabled(r, r.received, r2)
          /\ r2.received \in {r.received, Nothing}
        BY <1>2, <1>5, <2>2
    <2>5. r.received \in Messages /\ r.received.from = s.serial => Recent(s, r.received)
        BY <1>6, <2>2, <2>3
    <2>6. Notes(s2, r2)
        BY <2>1, <2>2, <2>3, <2>4, <2>5, NotesStep
    <2> QED
        BY <2>2, <2>6
  <1>8. ASSUME NEW m \in Stations
        PROVE  InOrder(node'[m].heard)
    <2>1. InOrder(node[m].heard)
        BY DEF Ordered
    <2>2. PICK r, r2, f : r = node[m] /\ r2 = node'[m] /\ f = node[m].received
        OBVIOUS
    <2>3. CASE r2.heard = r.heard
        BY <2>1, <2>2, <2>3
    <2>4. CASE r2.heard # r.heard
      <3>1. /\ f \in Messages /\ IsPeer(r, f.from) /\ Mid(r, f.from) # f.id
            /\ r2.heard = Append(r.heard, f)
          BY <1>5, <2>2, <2>4 DEF Tabled
      <3>2. PICK k \in Stations : k = f.from /\ Recent(node[k], f)
          BY <1>6, <2>2, <3>1
      <3>3. Notes(node[k], node[m]) /\ NumbersOK(node[k]) /\ node[k].serial = k /\ NumbersOK(node[m])
          BY <1>2 DEF Ordered, Noted
      <3>4. InOrder(Append(r.heard, f))
          BY <2>1, <2>2, <3>1, <3>2, <3>3, OrderStep
      <3> QED
          BY <2>2, <3>1, <3>4
    <2> QED
        BY <2>3, <2>4
  <1> QED
      BY <1>7, <1>8 DEF Ordered, Noted

\* A task or a call, as far as the table goes.
LEMMA TaskTabled ==
    ASSUME Inductive, Transit, NEW n \in Stations, SpiritTask(n) \/ RadioTask(n) \/ Call(n)
    PROVE  Tabled(node[n], node[n].received, node'[n])
  <1> DEFINE s == node[n]
             f == node[n].received
  <1>0. Linked /\ TableOK(s) /\ Shape(s) /\ ReceivedOK(n)
      BY TableShape DEF Inductive, Tables, Transit
  <1>1. CASE SpiritTask(n)
    <2>1. PacketOK(s)
        BY <1>0 DEF PacketOK, ReceivedOK
    <2>2. Tabled(s, f, SpiritRun(s))
        BY <1>0, <2>1, SpiritRunTabled
    <2>3. node'[n] = SpiritRun(s)
        BY <1>0, <1>1 DEF SpiritTask, Linked
    <2> QED
        BY <2>2, <2>3
  <1>2. CASE RadioTask(n)
    <2>1. PICK r \in AfterSave(s) : node' = [node EXCEPT ![n] = RadioRun(r)]
        BY <1>2 DEF RadioTask
    <2>2. Tabled(s, f, RadioRun(r))
        BY <1>0, RadioRunPlain, PlainTabled
    <2>3. node'[n] = RadioRun(r)
        BY <1>0, <2>1 DEF Linked
    <2> QED
        BY <2>2, <2>3
  <1>3. CASE Call(n)
    <2> DEFINE c == Head(todo[n])
    <2>1. c \in Calls /\ c.op # "reboot"
        BY <1>3, HeadTailProperties DEF Call, Inductive, Plans
    <2>2. node'[n] = CallResult(s, c)
        BY <1>0, <1>3 DEF Call, Linked
    <2> HIDE DEF c
    <2>3. Tabled(s, f, CallResult(s, c))
        BY <1>0, <2>1, CallTabled
    <2> QED
        BY <2>2, <2>3
  <1> QED
      BY <1>1, <1>2, <1>3

\* Tasks and calls that lose no peer keep the order.
LEMMA TasksOrdered ==
    ASSUME Inductive, Transit, NoWrap, Ordered, Steady, NEW n \in Stations,
           SpiritTask(n) \/ RadioTask(n) \/ Call(n)
    PROVE  Ordered'
  <1>1. PICK t : OneChanges(n, t) /\ StepOn(node[n], t)
      BY TaskSteps DEF Inductive
  <1>2. node'[n] = t
      BY <1>1 DEF OneChanges
  <1>3. Tabled(node[n], node[n].received, t)
      BY <1>2, TaskTabled
  <1>4. TableOK(t)
      BY <1>2, TablesStep DEF Tables
  <1>5. SameSlots(node[n], t)
      BY <1>1, <1>2 DEF Steady, StepOn, Step
  <1> QED
      BY <1>1, <1>3, <1>4, <1>5, StepOrdered DEF Inductive

\* Time.
LEMMA TimeOrdered ==
    ASSUME Linked, Tables, Transit, Ordered, NEW n \in Stations,
           Time(n)
    PROVE  Ordered'
  <1>1. PICK t : OneChanges(n, t) /\ StepOn(node[n], t) /\ Plain(node[n], t)
      BY TimeSteps
  <1>2. node'[n] = t
      BY <1>1 DEF OneChanges
  <1>4. Tabled(node[n], node[n].received, t)
      BY <1>1, PlainTabled
  <1>5. TableOK(t)
      BY <1>2, TimeTables DEF Tables
  <1>6. SameSlots(node[n], t)
    <2>1. node[n].length \in Nat
        BY TableShape DEF Tables
    <2> QED
        BY <1>1, <2>1 DEF Plain, SameSlots
  <1> QED
      BY <1>1, <1>4, <1>5, <1>6, StepOrdered

\* What is noted of a sender that only goes on the air, by a receiver that only
\* hears it.
LEMMA NotesSame ==
    ASSUME NEW s, NumbersOK(s), NEW s2, NEW r, NEW r2, r.length \in Nat, NumbersOK(r),
           s2.serial = s.serial, s2.boots = s.boots, s2.message_id = s.message_id,
           r2.heard = r.heard, r2.peers = r.peers, r2.length = r.length,
           \/ r2.received = r.received
           \/ r2.received \in Messages /\ r2.received.from = s.serial
                => r2.received.id = s.message_id,
           Notes(s, r)
    PROVE  Notes(s2, r2)
  <1> DEFINE n == s.serial
  <1> SUFFICES ASSUME NEW i \in 1..Len(r2.heard), SinceStart(r2, i), r2.heard[i].from = n
               PROVE  /\ r2.heard[i].boot <= s.boots
                      /\ r2.heard[i].boot = s.boots =>
                           /\ IsPeer(r2, n)
                           /\ Mid(r2, n) \in r2.heard[i].id .. s2.message_id
                           /\ r2.received \in Messages /\ r2.received.from = n
                                => Mid(r2, n) <= r2.received.id
      BY DEF Notes
  <1>1. i \in 1..Len(r.heard) /\ SinceStart(r, i) /\ r.heard[i].from = n
      BY DEF SinceStart
  <1>2. SameSlots(r, r2) /\ r2.length \in Nat
      BY DEF SameSlots
  <1>3. ASSUME IsPeer(r, n)
        PROVE  IsPeer(r2, n) /\ Mid(r2, n) = Mid(r, n)
      BY <1>2, <1>3, SlotStays DEF Mid
  <1>4. r.heard[i].boot <= s.boots
      BY <1>1 DEF Notes
  <1>5. ASSUME r.heard[i].boot = s.boots
        PROVE  /\ IsPeer(r, n) /\ Mid(r, n) \in r.heard[i].id .. s.message_id
               /\ r.received \in Messages /\ r.received.from = n => Mid(r, n) <= r.received.id
      BY <1>1, <1>5 DEF Notes
  <1> HIDE DEF n
  <1>6. ASSUME r.heard[i].boot = s.boots
        PROVE  /\ IsPeer(r2, n) /\ Mid(r2, n) \in r.heard[i].id .. s2.message_id
               /\ r2.received \in Messages /\ r2.received.from = n => Mid(r2, n) <= r2.received.id
    <2>1. IsPeer(r2, n) /\ Mid(r2, n) = Mid(r, n) /\ Mid(r, n) <= s.message_id
        BY <1>3, <1>5, <1>6
    <2>2. CASE r2.received = r.received
        BY <1>5, <1>6, <2>1, <2>2
    <2>3. CASE r2.received \in Messages /\ r2.received.from = n => r2.received.id = s.message_id
        BY <1>5, <1>6, <2>1, <2>3
    <2> QED
        BY <2>2, <2>3 DEF n
  <1> QED
      BY <1>4, <1>6

\* A transmission keeps the order.
LEMMA TransmitOrdered ==
    ASSUME Linked, Tables, Transit, Ordered, NEW n \in Stations, Transmit(n)
    PROVE  Ordered'
  <1> DEFINE f == node[n].tx
  <1>1. ASSUME NEW m \in Stations
        PROVE  /\ Same(node[m], node'[m])
               /\ node'[m].peers = node[m].peers /\ node'[m].length = node[m].length
               /\ \/ node'[m].received = node[m].received
                  \/ m # n /\ node'[m].received = f
      BY TransmitChanges
  <1>2. f \in Messages => f.from = n /\ f.id = node[n].message_id
      BY OnTheAir, MessageIs
  <1> HIDE DEF f
  <1>3. ASSUME NEW a \in Stations, NEW b \in Stations
        PROVE  Notes(node'[a], node'[b])
    <2>1. PICK s, s2, r, r2 : s = node[a] /\ s2 = node'[a] /\ r = node[b] /\ r2 = node'[b]
        OBVIOUS
    <2>2. NumbersOK(s) /\ NumbersOK(r) /\ Notes(s, r) /\ r.length \in Nat /\ s.serial = a
        BY <2>1, LinkedStation, TableShape DEF Transit, Ordered, Noted, Tables
    <2>3. /\ s2.serial = s.serial /\ s2.boots = s.boots /\ s2.message_id = s.message_id
          /\ r2.heard = r.heard /\ r2.peers = r.peers /\ r2.length = r.length
          /\ r2.received = r.received \/ r2.received = f
        BY <1>1, <2>1 DEF Same
    <2>4. f \in Messages /\ f.from = s.serial => f.id = s.message_id
        BY <1>2, <2>1, <2>2
    <2>5. Notes(s2, r2)
      <3>1. CASE r2.received = r.received
          BY <2>2, <2>3, <3>1, NotesSame
      <3>2. CASE r2.received = f
          BY <2>2, <2>3, <2>4, <3>2, NotesSame
      <3> QED
          BY <2>3, <3>1, <3>2
    <2> QED
        BY <2>1, <2>5
  <1>4. \A m \in Stations : InOrder(node'[m].heard)
      BY <1>1 DEF Same, Ordered
  <1> QED
      BY <1>3, <1>4 DEF Ordered, Noted

\* A start: nothing has been taken since, and the station's messages from before
\* it are behind.
LEMMA RebootOrdered ==
    ASSUME Linked, Transit, Ordered, NEW n \in Stations, Reboot(n)
    PROVE  Ordered'
  <1>1. PICK t : /\ OneChanges(n, t) /\ t.serial = n /\ t.boots = node[n].boots + 1
                 /\ t.heard = Append(node[n].heard, Nothing)
      BY RebootChanges
  <1>2. /\ node'[n] = t /\ node[n].boots \in Nat
        /\ \A m \in Stations \ {n} : node'[m] = node[m]
      BY <1>1 DEF OneChanges, Transit, NumbersOK
  <1>3. ASSUME NEW m \in Stations
        PROVE  node[m].heard \in Seq(Messages \cup {Nothing}) /\ node[m].serial = m
               /\ InOrder(node[m].heard)
      BY LinkedStation DEF Transit, NumbersOK, Ordered
  <1>4. ASSUME NEW i \in 1..Len(t.heard)
        PROVE  ~SinceStart(t, i)
    <2> DEFINE l == Len(node[n].heard)
    <2>1. l \in Nat /\ Len(t.heard) = l + 1 /\ t.heard[l + 1] = Nothing
        BY <1>1, <1>3, AppendProperties
    <2>2. l + 1 \in i..Len(t.heard)
        BY <2>1
    <2> QED
        BY <2>1, <2>2 DEF SinceStart
  <1>5. \A s : Notes(s, t)
      BY <1>4 DEF Notes
  <1>6. ASSUME NEW b \in Stations \ {n}
        PROVE  Notes(t, node[b])
    <2> SUFFICES ASSUME NEW i \in 1..Len(node[b].heard), SinceStart(node[b], i),
                        node[b].heard[i].from = n
                 PROVE  node[b].heard[i].boot <= t.boots /\ node[b].heard[i].boot # t.boots
        BY <1>1 DEF Notes
    <2>1. node[b].heard[i].boot <= node[n].boots
        BY <1>3 DEF Ordered, Noted, Notes
    <2>2. i \in i..Len(node[b].heard)
        BY <1>3
    <2>3. node[b].heard[i] \in Messages
        BY <1>3, <2>2 DEF SinceStart
    <2>4. node[b].heard[i].boot \in Nat
        BY <2>3, MessageIs
    <2> QED
        BY <1>1, <1>2, <2>1, <2>4
  <1>7. ASSUME NEW a \in Stations, NEW b \in Stations
        PROVE  Notes(node'[a], node'[b])
    <2>1. CASE b = n
        BY <1>2, <1>5, <2>1
    <2>2. CASE b # n /\ a = n
        BY <1>2, <1>6, <2>2
    <2>3. CASE b # n /\ a # n
        BY <1>2, <2>3 DEF Ordered, Noted
    <2> QED
        BY <2>1, <2>2, <2>3
  <1>8. ASSUME NEW m \in Stations
        PROVE  InOrder(node'[m].heard)
    <2>1. CASE m = n
      <3>1. InOrder(Append(node[n].heard, Nothing))
          BY <1>3, OrderCut
      <3> QED
          BY <1>1, <1>2, <2>1, <3>1
    <2>2. CASE m # n
        BY <1>2, <1>3, <2>2
    <2> QED
        BY <2>1, <2>2
  <1> QED
      BY <1>7, <1>8 DEF Ordered, Noted

\* Nothing has been taken at first.
LEMMA InitOrdered == Init => Ordered
  <1> SUFFICES ASSUME Init PROVE Ordered
      OBVIOUS
  <1>1. \A m \in Stations : 1..Len(node[m].heard) = {}
      BY InitFresh
  <1> QED
      BY <1>1 DEF Ordered, Noted, Notes, InOrder

\* Every step that loses no peer keeps the order.
LEMMA OrderedStep ==
    ASSUME Inductive, Answered, NoWrap, Ordered, [Next]_vars, [Steady]_vars
    PROVE  Ordered'
  <1>0. Linked /\ Tables /\ Transit
      BY DEF Inductive, Answered
  <1>1. CASE UNCHANGED vars
    <2>1. node' = node
        BY <1>1 DEF vars
    <2> QED
        BY <2>1 DEF Ordered, Noted
  <1>2. ASSUME NEW n \in Stations, SpiritTask(n) \/ RadioTask(n) \/ Call(n), Steady
        PROVE  Ordered'
      BY <1>0, <1>2, TasksOrdered
  <1>3. ASSUME NEW n \in Stations, Reboot(n)
        PROVE  Ordered'
      BY <1>0, <1>3, RebootOrdered
  <1>4. ASSUME NEW n \in Stations, Transmit(n)
        PROVE  Ordered'
      BY <1>0, <1>4, TransmitOrdered
  <1>5. ASSUME NEW n \in Stations, Time(n)
        PROVE  Ordered'
      BY <1>0, <1>5, TimeOrdered
  <1> QED
      BY <1>1, <1>2, <1>3, <1>4, <1>5 DEF Next, Time

\* Between two of its own starts a station of any network takes each message of a
\* peer at most once and in the order they were sent, whatever is repeated, lost
\* or late and whenever the peer starts again, as long as no station's message
\* numbers come round and no station loses a peer other than by a start
\* (twr_radio.c:859-906).
THEOREM TakenOnceInOrder == Spec /\ []NoWrap /\ [][Steady]_vars => []AtMostOnceInOrder
  <1>1. Inductive /\ Answered /\ NoWrap /\ Ordered /\ [Next]_vars /\ [Steady]_vars => Ordered'
      BY OrderedStep
  <1>2. Ordered => AtMostOnceInOrder
      BY OrderedIs DEF Ordered
  <1> QED
      BY <1>1, <1>2, InitOrdered, TransitHolds, InductiveHolds, PTL DEF Spec

-------------------------------------------------------------------------------
(***************************************************************************)
(* Work and the radio's task.                                              *)
(***************************************************************************)
\* Something waits for the radio's task.
Waiting(s) == \/ s.pub # <<>> \/ s.rxq # <<>> \/ s.pairing_request
              \/ s.ack /\ s.sent_subs # s.subs
\* It is planned, or the task ended early and left it.
WorkOK(s) == /\ Shape(s)
             /\ (Idle(s) /\ Waiting(s)) => (s.planned = TRUE \/ s.left = TRUE)

\* What else a handler may do: leave all of this alone, or plan the task, or
\* leave the radio busy.
Unconcerned(s, t) ==
    /\ Shape(t) /\ t.state = s.state /\ t.pub = s.pub /\ t.rxq = s.rxq
    /\ t.pairing_request = s.pairing_request /\ t.ack = s.ack
    /\ t.sent_subs = s.sent_subs /\ t.subs = s.subs /\ t.planned = s.planned /\ t.left = s.left
Busy(t) == Shape(t) /\ (t.planned = TRUE \/ ~Idle(t))

\* Either keeps the work planned.
LEMMA WorkKeeps ==
    ASSUME NEW s, WorkOK(s), NEW t, Unconcerned(s, t) \/ Busy(t)
    PROVE  WorkOK(t)
  <1>1. CASE Unconcerned(s, t)
      BY <1>1 DEF WorkOK, Unconcerned, Waiting, Idle
  <1>2. CASE Busy(t)
      BY <1>2 DEF WorkOK, Busy
  <1> QED
      BY <1>1, <1>2

\* The radio listens, sleeps or sends: it is busy or its task is planned.
LEMMA RadioBusy ==
    ASSUME NEW s, Shape(s)
    PROVE  /\ Busy(GoToRxOrSleep(s)) /\ Busy(Retransmit(s)) /\ Busy(WaitForAck(s))
           /\ Busy(Resume(s)) /\ \A kind, to, n : Busy(StartTx(s, kind, to, n))
  <1>1. Busy(Sleep(s)) /\ Busy(Listen(s))
      BY DEF Busy, Sleep, Listen, Shape, Fields
  <1>2. Busy(GoToRxOrSleep(s))
      BY <1>1 DEF GoToRxOrSleep
  <1>3. Busy(Retransmit(s)) /\ Busy(WaitForAck(s))
      BY DEF Busy, Retransmit, WaitForAck, Idle, Shape, Fields
  <1>4. Busy(Resume(s))
      BY DEF Busy, Resume, WaitForAck, Idle, Shape, Fields
  <1>5. \A kind, to, n : Busy(StartTx(s, kind, to, n))
      BY DEF Busy, StartTx, Idle, Shape, Fields
  <1> QED
      BY <1>2, <1>3, <1>4, <1>5

\* An acknowledgement is sent, or cannot be.
LEMMA SendAckBusy ==
    ASSUME NEW s, Shape(s), NEW f, NEW kind
    PROVE  SendAck(s, f, kind) = s \/ Busy(SendAck(s, f, kind))
  <1> DEFINE ack == Frame(f.from, f.id, kind, MyId(s), 0, 0)
             wait == [s EXCEPT !.cache = s.tx, !.cached_count = s.count, !.state = "txack"]
             rx == [s EXCEPT !.state = "rxack"]
             Sending(k) == [k EXCEPT !.tx = ack, !.count = 2, !.desired = "tx"]
  <1>1. SendAck(s, f, kind) \in {s, Sending(wait), Sending(rx)}
      BY DEF SendAck
  <1>2. /\ Shape(wait) /\ wait.state = "txack"
        /\ Shape(rx) /\ rx.state = "rxack"
      BY DEF Shape, Fields
  <1> HIDE DEF wait, rx, ack
  <1>3. Busy(Sending(wait)) /\ Busy(Sending(rx))
      BY <1>2 DEF Busy, Idle, Shape, Fields
  <1> QED
      BY <1>1, <1>3

\* A change of the table plans the task; so do the calls that make it.
LEMMA TableBusy ==
    ASSUME NEW s, Shape(s), NEW id
    PROVE  /\ Busy(PeerAdd(s, id)) /\ Busy(PeerRemove(s, id))
           /\ PublicAdd(s, id) = s \/ Busy(PublicAdd(s, id))
           /\ PublicRemove(s, id) = s \/ Busy(PublicRemove(s, id))
           /\ PurgeAll(s) = s \/ Busy(PurgeAll(s))
  <1>1. ASSUME NEW t, Busy(t), t.planned = TRUE, NEW m
        PROVE  Busy(QueuePut(t, m))
      BY <1>1 DEF Busy, QueuePut, Shape, Fields
  <1>2. Busy(PeerAdd(s, id)) /\ PeerAdd(s, id).planned = TRUE
      BY DEF Busy, PeerAdd, Shape, Fields
  <1>3. Busy(PeerRemove(s, id)) /\ PeerRemove(s, id).planned = TRUE
      BY DEF Busy, PeerRemove, Shape, Fields
  <1>4. PublicAdd(s, id) = s \/ Busy(PublicAdd(s, id))
      BY <1>1, <1>2 DEF PublicAdd
  <1>5. PublicRemove(s, id) = s \/ Busy(PublicRemove(s, id))
      BY <1>1, <1>3 DEF PublicRemove
  <1>6. PurgeAll(s) = s \/ Busy(PurgeAll(s))
      BY DEF Busy, PurgeAll, Shape, Fields
  <1> QED
      BY <1>2, <1>3, <1>4, <1>5, <1>6

\* The end of a transmission.
LEMMA OnTxDoneBusy == ASSUME NEW s, Shape(s) PROVE Busy(OnTxDone(s))
  <1> DEFINE t == [s EXCEPT !.count = IF @ > 0 THEN @ - 1 ELSE @]
             w == WaitForAck(t)
             v == [w EXCEPT !.ack = FALSE]
             d == [t EXCEPT !.desired = "tx"]
  <1>1. \/ OnTxDone(s) \in {v, Resume(t), GoToRxOrSleep(t)}
        \/ t.state \in {"rxack", "txack"} /\ OnTxDone(s) = d
      BY DEF OnTxDone
  <1>2. Shape(t)
      BY DEF Shape, Fields
  <1> HIDE DEF t
  <1>3. Busy(w) /\ Busy(Resume(t)) /\ Busy(GoToRxOrSleep(t))
      BY <1>2, RadioBusy
  <1>4. Busy(v)
      BY <1>2 DEF Busy, WaitForAck, Idle, Shape, Fields
  <1>5. t.state \in {"rxack", "txack"} => Busy(d)
      BY <1>2 DEF Busy, Idle, Shape, Fields
  <1> HIDE DEF w, v, d
  <1>6. Busy(OnTxDone(s))
      BY <1>1, <1>3, <1>4, <1>5
  <1> QED
      BY <1>6

\* A timeout.
LEMMA OnRxTimeoutBusy == ASSUME NEW s, Shape(s) PROVE Busy(OnRxTimeout(s))
  <1>1. OnRxTimeout(s) \in {Retransmit(s), GoToRxOrSleep(s)}
      BY DEF OnRxTimeout
  <1> QED
      BY <1>1, RadioBusy

\* An acknowledgement that counts ends the wait.
LEMMA HeardAckBusy ==
    ASSUME NEW s, Shape(s), NEW f PROVE HeardAck(s, f) = s \/ Busy(HeardAck(s, f))
  <1> DEFINE more == [s EXCEPT !.sent_subs = @ + 1]
             none == [s EXCEPT !.sent_subs = 0]
             Ended(t) == LET u == IF s.rx_after_ack THEN OpenWindow(t) ELSE t
                         IN [u EXCEPT !.count = 0, !.ack = TRUE, !.done = @ \cup {s.tx}]
  <1>1. HeardAck(s, f) = s \/ \E t \in {s, Paired(s, f.to), more, none} :
                                 HeardAck(s, f) = GoToRxOrSleep(Ended(t))
      BY DEF HeardAck
  <1>2. \A t \in {s, Paired(s, f.to), more, none} : Shape(t)
      BY DEF Paired, Shape, Fields
  <1> HIDE DEF more, none
  <1>3. ASSUME NEW t, Shape(t)
        PROVE  Shape(Ended(t))
      BY <1>3 DEF OpenWindow, Shape, Fields
  <1> HIDE DEF Ended
  <1>4. ASSUME NEW t \in {s, Paired(s, f.to), more, none}
        PROVE  Busy(GoToRxOrSleep(Ended(t)))
      BY <1>2, <1>3, RadioBusy
  <1> QED
      BY <1>1, <1>4

\* A pairing message, an attachment: noted, and acknowledged.
LEMMA HeardPairingWork ==
    ASSUME NEW s, WorkOK(s), NEW f PROVE WorkOK(HeardPairing(s, f))
  <1> DEFINE t == IF s.pairing_mode THEN PublicAdd(s, f.from) ELSE s
             u == SendAck(t, f, "ackpair")
             i == SlotOf(t, f.from)
             v == [u EXCEPT !.peers[i].mid = f.id, !.peers[i].synced = TRUE]
  <1>1. HeardPairing(s, f) = IF ~IsPeer(t, f.from) THEN t ELSE v
      BY DEF HeardPairing
  <1>2. WorkOK(t)
      BY TableBusy, WorkKeeps DEF WorkOK
  <1> HIDE DEF t
  <1>3. WorkOK(u)
      BY <1>2, SendAckBusy, WorkKeeps DEF WorkOK
  <1> HIDE DEF u, i
  <1>4. Unconcerned(u, v)
      BY <1>3 DEF WorkOK, Unconcerned, Shape, Fields
  <1> HIDE DEF v
  <1> QED
      BY <1>1, <1>2, <1>3, <1>4, WorkKeeps

\* An attachment is acknowledged too.
LEMMA HeardAttachWork ==
    ASSUME NEW s, WorkOK(s), NEW f, f.kind \in {"attach", "detach"}
    PROVE  WorkOK(HeardAttach(s, f))
  <1> DEFINE a == [s EXCEPT !.pairing_request = TRUE, !.planned = TRUE]
             t == CASE f.to # MyId(s) -> s
                    [] f.to = MyId(s) /\ f.kind = "attach" -> a
                    [] f.to = MyId(s) /\ f.kind = "detach" ->
                         IF IsPeer(s, f.from) THEN PeerRemove(s, f.from) ELSE s
  <1>1. HeardAttach(s, f) = SendAck(t, f, "ack")
      BY DEF HeardAttach
  <1>2. Busy(a)
      BY DEF WorkOK, Busy, Shape, Fields
  <1> HIDE DEF a
  <1>3. t \in {s, a, PeerRemove(s, f.from)}
      OBVIOUS
  <1> HIDE DEF t
  <1>4. WorkOK(t)
      BY <1>2, <1>3, TableBusy, WorkKeeps DEF WorkOK
  <1> QED
      BY <1>1, <1>4, SendAckBusy, WorkKeeps DEF WorkOK

\* A message of a peer: whatever is put in the receive queue plans the task.
LEMMA AcceptWork ==
    ASSUME NEW s, WorkOK(s), NEW f PROVE WorkOK(Accept(s, f))
  <1> DEFINE i == SlotOf(s, f.from)
             restarted == s.mode = "gateway" /\ (~s.peers[i].synced \/ s.peers[i].mid > f.id)
             kind == IF restarted THEN "acksubs" ELSE "ack"
             t == [s EXCEPT !.peers[i].mid = f.id, !.peers[i].synced = TRUE,
                            !.rxq = IF Fits(s) THEN Append(@, f) ELSE @,
                            !.planned = TRUE,
                            !.heard = Append(@, f)]
  <1>1. Accept(s, f) = SendAck(t, f, kind)
      BY DEF Accept
  <1>2. Shape(t) /\ t.planned = TRUE
      BY DEF WorkOK, Shape, Fields
  <1> HIDE DEF t, kind
  <1>3. WorkOK(t)
      BY <1>2 DEF WorkOK
  <1> QED
      BY <1>1, <1>3, SendAckBusy, WorkKeeps DEF WorkOK

\* A packet of a peer, new or not, or of a stranger.
LEMMA HeardDataWork ==
    ASSUME NEW s, WorkOK(s), NEW f PROVE WorkOK(HeardData(s, f))
  <1> DEFINE i == SlotOf(s, f.from)
             u == [s EXCEPT !.peers[i].mid = f.id, !.peers[i].synced = FALSE]
  <1>1. HeardData(s, f) \in {s, PublicAdd(s, f.from), u, Accept(s, f)}
      BY DEF HeardData
  <1>2. Unconcerned(s, u)
      BY DEF WorkOK, Unconcerned, Shape, Fields
  <1> HIDE DEF u
  <1> QED
      BY <1>1, <1>2, TableBusy, WorkKeeps, AcceptWork DEF WorkOK

\* Any packet, in time or late.
LEMMA OnRxDoneWork ==
    ASSUME NEW s, WorkOK(s), NEW f PROVE WorkOK(OnRxDone(s, f))
  <1>1. ASSUME NEW t, WorkOK(t)
        PROVE  WorkOK(Heard(t, f))
    <2>1. WorkOK(HeardAck(t, f))
        BY <1>1, HeardAckBusy, WorkKeeps DEF WorkOK
    <2>2. WorkOK(HeardPairing(t, f)) /\ WorkOK(HeardData(t, f))
        BY <1>1, HeardPairingWork, HeardDataWork
    <2>3. f.kind \in {"attach", "detach"} => WorkOK(HeardAttach(t, f))
        BY <1>1, HeardAttachWork
    <2> QED
        BY <2>1, <2>2, <2>3 DEF Heard
  <1>2. OnRxDone(s, f) \in {Retransmit(s), Heard(GoToRxOrSleep(s), f), Heard(s, f)}
      BY DEF OnRxDone
  <1>3. WorkOK(Retransmit(s)) /\ WorkOK(GoToRxOrSleep(s))
      BY RadioBusy, WorkKeeps DEF WorkOK
  <1> QED
      BY <1>1, <1>2, <1>3

\* The transceiver's task.
LEMMA SpiritRunWork ==
    ASSUME NEW s, WorkOK(s) PROVE WorkOK(SpiritRun(s))
  <1> DEFINE t == IF TimedOut(s) THEN OnRxTimeout(s) ELSE s
             d == [t EXCEPT !.desired = "sleep"]
             e == [t EXCEPT !.expired = FALSE]
             x == OnTxDone(d)
             r == OnRxDone(e, t.received)
             c == [r EXCEPT !.received = Nothing]
  <1>1. SpiritRun(s) \in {t, Enter(t, t.desired), Enter(x, x.desired), c}
      BY DEF SpiritRun, CheckTx, CheckRx
  <1>2. WorkOK(t)
      BY OnRxTimeoutBusy, WorkKeeps DEF WorkOK
  <1> HIDE DEF t
  <1>3. Unconcerned(t, d) /\ Unconcerned(t, e)
      BY <1>2 DEF WorkOK, Unconcerned, Shape, Fields
  <1>4. WorkOK(d) /\ WorkOK(e)
      BY <1>2, <1>3, WorkKeeps
  <1> HIDE DEF d, e
  <1>5. WorkOK(x)
      BY <1>4, OnTxDoneBusy, WorkKeeps DEF WorkOK
  <1>6. WorkOK(r)
      BY <1>4, OnRxDoneWork
  <1> HIDE DEF x, r
  <1>7. ASSUME NEW u, WorkOK(u), NEW target
        PROVE  WorkOK(Enter(u, target))
    <2>1. Unconcerned(u, Enter(u, target))
        BY <1>7 DEF WorkOK, Unconcerned, Enter, Shape, Fields
    <2> QED
        BY <1>7, <2>1, WorkKeeps
  <1>8. Unconcerned(r, c)
      BY <1>6 DEF WorkOK, Unconcerned, Shape, Fields
  <1> HIDE DEF c
  <1>9. WorkOK(c)
      BY <1>6, <1>8, WorkKeeps
  <1> QED
      BY <1>1, <1>2, <1>5, <1>7, <1>9

\* The radio's task: it sends, or leaves nothing to do, or notes that it ended
\* early.
LEMMA RadioRunWork ==
    ASSUME NEW s, WorkOK(s), NEW t \in AfterSave(s)
    PROVE  WorkOK(RadioRun(t))
  <1> DEFINE u == [s EXCEPT !.planned = FALSE]
  <1>1. Shape(u)
      BY DEF WorkOK, Shape, Fields
  <1>2. t = u \/ (\E image : t = [u EXCEPT !.stored = image, !.save = FALSE])
        \/ (\E image : t = [u EXCEPT !.stored = image, !.planned = TRUE, !.faults = @ - 1])
      BY DEF AfterSave
  <1> HIDE DEF u
  <1>3. Shape(t)
    <2>1. ASSUME NEW image, t = [u EXCEPT !.stored = image, !.save = FALSE]
          PROVE  Shape(t)
        BY <1>1, <2>1 DEF Shape, Fields
    <2>2. ASSUME NEW image, t = [u EXCEPT !.stored = image, !.planned = TRUE, !.faults = @ - 1]
          PROVE  Shape(t)
        BY <1>1, <2>2 DEF Shape, Fields
    <2> QED
        BY <1>1, <1>2, <2>1, <2>2
  <1> DEFINE q == [t EXCEPT !.pairing_request = FALSE, !.left = TRUE]
             r == [t EXCEPT !.pairing_request = FALSE, !.left = FALSE]
             o == [t EXCEPT !.left = FALSE]
             v == [t EXCEPT !.rxq = SubSeq(@, FirstStray(t) + 1, Len(@)), !.left = TRUE]
             w == [t EXCEPT !.rxq = <<>>, !.left = FALSE]
             p == [w EXCEPT !.pub = Tail(@)]
             m == Head(w.pub)
  <1>4. \/ RadioRun(t) \in {q, StartTx(r, "pairing", NoId, 0), v, StartTx(p, m.kind, m.to, m.n)}
        \/ RadioRun(t) = StartTx(o, "sub", NoId, t.sent_subs)
        \/ /\ ~t.pairing_request /\ ~(t.ack /\ t.sent_subs # t.subs)
           /\ w.pub = <<>> /\ RadioRun(t) = w
      BY DEF RadioRun, Publish
  <1>5. /\ Shape(q) /\ q.left = TRUE /\ Shape(v) /\ v.left = TRUE
        /\ Shape(r) /\ Shape(o)
        /\ Shape(w) /\ w.rxq = <<>>
        /\ w.pairing_request = t.pairing_request /\ w.ack = t.ack
        /\ w.sent_subs = t.sent_subs /\ w.subs = t.subs
      BY <1>3 DEF Shape, Fields
  <1> HIDE DEF q, r, o, v, w, m
  <1>6. Shape(p)
      BY <1>5 DEF Shape, Fields
  <1> HIDE DEF p
  <1>7. \A a, kind, to, n : Shape(a) => WorkOK(StartTx(a, kind, to, n))
    <2> SUFFICES ASSUME NEW a, Shape(a), NEW kind, NEW to, NEW n
                 PROVE  WorkOK(StartTx(a, kind, to, n))
        OBVIOUS
    <2>1. Shape(StartTx(a, kind, to, n)) /\ StartTx(a, kind, to, n).state = "tx"
        BY DEF StartTx, Shape, Fields
    <2> QED
        BY <2>1 DEF WorkOK, Idle
  <1>8. WorkOK(q) /\ WorkOK(v)
      BY <1>5 DEF WorkOK
  <1>9. CASE /\ ~t.pairing_request /\ ~(t.ack /\ t.sent_subs # t.subs)
             /\ w.pub = <<>> /\ RadioRun(t) = w
    <2>1. ~Waiting(w)
        BY <1>5, <1>9 DEF Waiting
    <2> QED
        BY <1>5, <1>9, <2>1 DEF WorkOK
  <1> QED
      BY <1>3, <1>4, <1>5, <1>6, <1>7, <1>8, <1>9

\* The application's calls.
LEMMA CallWork ==
    ASSUME NEW s, WorkOK(s), NEW c \in Calls, c.op # "reboot"
    PROVE  WorkOK(CallResult(s, c))
  <1>0. Shape(s)
      BY DEF WorkOK
  <1>1. c.op \in {"pub", "clear", "pairing_request", "pairing_mode", "automatic_pairing",
                  "add", "remove", "purge", "listen", "rx_after_ack"}
      BY DEF Calls
  <1>2. CASE c.op = "pub"
    <2> DEFINE t == QueuePut(s, c.message)
               u == [t EXCEPT !.planned = @ \/ Len(s.pub) < PubCapacity]
    <2>1. CallResult(s, c) = u
        BY <1>2 DEF CallResult
    <2>2. CASE Len(s.pub) < PubCapacity
      <3>1. Shape(t)
          BY <1>0 DEF QueuePut, Shape, Fields
      <3> HIDE DEF t
      <3>2. Shape(u) /\ u.planned = (t.planned \/ Len(s.pub) < PubCapacity)
          BY <3>1 DEF Shape, Fields
      <3> HIDE DEF u
      <3>3. u.planned = TRUE
          BY <2>2, <3>2
      <3> QED
          BY <2>1, <3>2, <3>3 DEF WorkOK
    <2>3. CASE ~(Len(s.pub) < PubCapacity)
      <3>1. t = s
          BY <2>3 DEF QueuePut
      <3>2. /\ Shape(u) /\ u.rxq = s.rxq /\ u.state = s.state /\ u.pub = s.pub
            /\ u.pairing_request = s.pairing_request /\ u.ack = s.ack
            /\ u.sent_subs = s.sent_subs /\ u.subs = s.subs
            /\ u.planned = (s.planned \/ Len(s.pub) < PubCapacity) /\ u.left = s.left
          BY <1>0, <3>1 DEF Shape, Fields
      <3> HIDE DEF u, t
      <3>3. s.planned = TRUE => u.planned = TRUE
          BY <3>2
      <3> QED
          BY <2>1, <3>2, <3>3 DEF WorkOK, Waiting, Idle
    <2> QED
        BY <2>2, <2>3
  <1>3. CASE c.op = "clear"
    <2> DEFINE u == [s EXCEPT !.pub = <<>>]
    <2>1. /\ Shape(u) /\ u.rxq = s.rxq /\ u.state = s.state /\ u.pub = <<>>
          /\ u.pairing_request = s.pairing_request /\ u.ack = s.ack
          /\ u.sent_subs = s.sent_subs /\ u.subs = s.subs /\ u.planned = s.planned
          /\ u.left = s.left
        BY <1>0 DEF Shape, Fields
    <2>2. CallResult(s, c) = u
        BY <1>3 DEF CallResult
    <2> HIDE DEF u
    <2>3. Idle(u) /\ Waiting(u) => Idle(s) /\ Waiting(s)
        BY <2>1 DEF Idle, Waiting
    <2> QED
        BY <2>1, <2>2, <2>3 DEF WorkOK
  <1>4. CASE c.op \in {"add", "remove", "purge"}
    <2>1. CallResult(s, c) \in {PublicAdd(s, c.id), PublicRemove(s, c.id), PurgeAll(s)}
        BY <1>4 DEF CallResult
    <2> QED
        BY <1>0, <2>1, TableBusy, WorkKeeps
  <1>5. CASE c.op \in {"pairing_request", "listen", "pairing_mode", "automatic_pairing", "rx_after_ack"}
    <2> DEFINE a == [s EXCEPT !.fits = c.fits, !.pairing_request = TRUE, !.planned = TRUE]
               b == [OpenWindow(s) EXCEPT !.planned = TRUE]
               d == [s EXCEPT !.pairing_mode = c.on]
               e == [s EXCEPT !.automatic_pairing = c.on]
               g == [s EXCEPT !.rx_after_ack = c.on]
    <2>1. CallResult(s, c) \in {a, b, d, e, g}
        BY <1>5 DEF CallResult
    <2>2. Busy(a) /\ Busy(b)
        BY <1>0 DEF Busy, OpenWindow, Shape, Fields
    <2>3. Unconcerned(s, d) /\ Unconcerned(s, e) /\ Unconcerned(s, g)
        BY <1>0 DEF Unconcerned, Shape, Fields
    <2> HIDE DEF a, b, d, e, g
    <2> QED
        BY <2>1, <2>2, <2>3, WorkKeeps
  <1> QED
      BY <1>1, <1>2, <1>3, <1>4, <1>5

\* A start plans the task.
LEMMA BootedWork ==
    ASSUME NEW id, NEW mode, NEW stored
    PROVE  LET b == Booted(id, mode, stored) IN
           Shape(b) /\ b.planned = TRUE
  <1> DEFINE b == Booted(id, mode, stored)
             known == Load(stored)
             s == [serial |-> id, identified |-> FALSE, mode |-> mode, stored |-> stored, save |-> FALSE,
     boots |-> 0, faults |-> 0, state |-> "sleep", message_id |-> 0, count |-> 0, ack |-> FALSE,
     tx |-> Nothing, cache |-> Nothing, cached_count |-> 0,
     peers |-> [i \in 1..MAX_DEVICES |->
                  [id |-> IF i <= Len(known) THEN known[i] ELSE NoId,
                   mid |-> 0, synced |-> FALSE]],
     length |-> Len(known),
     pairing_request |-> FALSE, fits |-> TRUE, left |-> FALSE, pairing_mode |-> FALSE, automatic_pairing |-> FALSE,
     subs |-> 0, sent_subs |-> 0, pub |-> <<>>, rxq |-> <<>>,
     timeout |-> "never", late |-> FALSE, window |-> FALSE, rx_after_ack |-> FALSE,
     planned |-> FALSE,
     desired |-> "sleep", current |-> "init", received |-> Nothing, sent |-> FALSE,
     expired |-> FALSE,
     aired |-> 0, heard |-> <<>>, done |-> {}]
  <1>1. b \in {Sleep(s), Listen(s)}
      BY DEF Booted, GoToRxOrSleep
  <1>2. Shape(s)
      BY DEF Shape, Fields
  <1> HIDE DEF s, b
  <1>3. /\ Shape(Sleep(s)) /\ Sleep(s).planned = TRUE
        /\ Shape(Listen(s)) /\ Listen(s).planned = TRUE
      BY <1>2 DEF Sleep, Listen, Shape, Fields
  <1>4. Shape(b) /\ b.planned = TRUE
      BY <1>1, <1>3
  <1> QED
      BY <1>4 DEF b

\* Every station's work is planned.
AllPlanned == \A m \in Stations : WorkOK(node[m])

\* It is at first.
LEMMA InitWork == Init => AllPlanned
  <1> SUFFICES ASSUME Init, NEW n \in Stations PROVE WorkOK(node[n])
      BY DEF AllPlanned
  <1> DEFINE st(scenario) == [slots |-> [i \in 1..MAX_DEVICES |->
                                    IF i <= Len(scenario[n].known)
                                    THEN scenario[n].known[i] ELSE NoId],
                      length |-> Len(scenario[n].known)]
  <1>1. PICK scenario \in Scenarios :
        node[n] = [Booted(n, scenario[n].mode, st(scenario))
                EXCEPT !.identified = scenario[n].identified,
                       !.subs = scenario[n].subs, !.faults = scenario[n].faults]
      BY DEF Init
  <1> DEFINE b == Booted(n, scenario[n].mode, st(scenario))
             t == [b EXCEPT !.identified = scenario[n].identified,
                       !.subs = scenario[n].subs, !.faults = scenario[n].faults]
  <1> HIDE DEF st
  <1>2. Shape(b) /\ b.planned = TRUE
      BY BootedWork
  <1> HIDE DEF b
  <1>3. Shape(t) /\ t.planned = TRUE
      BY <1>2 DEF Shape, Fields
  <1>4. node[n] = t
      BY <1>1 DEF b
  <1> HIDE DEF t
  <1> QED
      BY <1>3, <1>4 DEF WorkOK

\* A step of one station that keeps its work planned.
LEMMA OneWork ==
    ASSUME Linked, AllPlanned, NEW n \in Stations, NEW t, node' = [node EXCEPT ![n] = t], WorkOK(t)
    PROVE  AllPlanned'
  BY OneChange DEF AllPlanned, OneChanges

\* Every step keeps it so.
LEMMA WorkStep ==
    ASSUME Inductive, AllPlanned, [Next]_vars
    PROVE  AllPlanned'
  <1>0. Linked /\ \A n \in Stations : WorkOK(node[n]) /\ Shape(node[n])
      BY DEF Inductive, AllPlanned, WorkOK
  <1>1. CASE UNCHANGED vars
      BY <1>1 DEF vars, AllPlanned
  <1>2. ASSUME NEW n \in Stations, SpiritTask(n)
        PROVE  AllPlanned'
    <2>1. node' = [node EXCEPT ![n] = SpiritRun(node[n])]
        BY <1>2 DEF SpiritTask
    <2> QED
        BY <1>0, <2>1, SpiritRunWork, OneWork
  <1>3. ASSUME NEW n \in Stations, RadioTask(n)
        PROVE  AllPlanned'
    <2>1. PICK s \in AfterSave(node[n]) : node' = [node EXCEPT ![n] = RadioRun(s)]
        BY <1>3 DEF RadioTask
    <2> QED
        BY <1>0, <2>1, RadioRunWork, OneWork
  <1>4. ASSUME NEW n \in Stations, Call(n)
        PROVE  AllPlanned'
    <2> DEFINE c == Head(todo[n])
    <2>1. c \in Calls /\ c.op # "reboot"
        BY <1>4, HeadTailProperties DEF Call, Inductive, Plans
    <2>2. node' = [node EXCEPT ![n] = CallResult(node[n], c)]
        BY <1>4 DEF Call
    <2> HIDE DEF c
    <2> QED
        BY <1>0, <2>1, <2>2, CallWork, OneWork
  <1>5. ASSUME NEW n \in Stations, Reboot(n)
        PROVE  AllPlanned'
    <2>1. PICK image \in Images(node[n]), repair \in {FALSE, node[n].save} :
          node' = [node EXCEPT ![n] =
            [Booted(n, node[n].mode, image) EXCEPT
                !.subs = node[n].subs, !.faults = node[n].faults, !.save = repair,
                !.boots = node[n].boots + 1,
                !.heard = Append(node[n].heard, Nothing), !.done = node[n].done]]
        BY <1>0, <1>5 DEF Reboot, Linked
    <2> DEFINE b == Booted(n, node[n].mode, image)
               t == [b EXCEPT
                !.subs = node[n].subs, !.faults = node[n].faults, !.save = repair,
                !.boots = node[n].boots + 1,
                !.heard = Append(node[n].heard, Nothing), !.done = node[n].done]
    <2>2. Shape(b) /\ b.planned = TRUE
        BY BootedWork
    <2>3. node' = [node EXCEPT ![n] = t]
        BY <2>1
    <2> HIDE DEF b
    <2>4. Shape(t) /\ t.planned = TRUE
        BY <2>2 DEF Shape, Fields
    <2> HIDE DEF t
    <2>5. WorkOK(t)
        BY <2>4 DEF WorkOK
    <2> QED
        BY <1>0, <2>3, <2>5, OneWork
  <1>6. ASSUME NEW n \in Stations, Transmit(n)
        PROVE  AllPlanned'
    <2> DEFINE sender == [node[n] EXCEPT !.sent = TRUE,
                             !.aired = IF node[n].tx.kind \in AckKinds THEN @ ELSE @ + 1]
               hearer(m) == [node[m] EXCEPT !.received = node[n].tx]
    <2>1. PICK hearers \in SUBSET (Stations \ {n}) :
          node' = [m \in Stations |->
            CASE m \in hearers -> hearer(m)
              [] m = n -> sender
              [] OTHER -> node[m]]
        BY <1>6 DEF Transmit
    <2>2. Unconcerned(node[n], sender)
        BY <1>0 DEF Unconcerned, Shape, Fields
    <2>3. \A m \in Stations : Unconcerned(node[m], hearer(m))
        BY <1>0 DEF Unconcerned, Shape, Fields
    <2> HIDE DEF sender, hearer
    <2> SUFFICES ASSUME NEW m \in Stations PROVE WorkOK(node'[m])
        BY DEF AllPlanned
    <2>4. CASE m \in hearers
      <3>1. node'[m] = hearer(m)
          BY <2>1, <2>4
      <3> QED
          BY <1>0, <2>3, <3>1, WorkKeeps
    <2>5. CASE m \notin hearers /\ m = n
      <3>1. node'[m] = sender
          BY <2>1, <2>5
      <3> QED
          BY <1>0, <2>2, <2>5, <3>1, WorkKeeps
    <2>6. CASE m \notin hearers /\ m # n
      <3>1. node'[m] = node[m]
          BY <2>1, <2>6
      <3> QED
          BY <1>0, <3>1
    <2> QED
        BY <2>4, <2>5, <2>6
  <1>7. ASSUME NEW n \in Stations, Time(n)
        PROVE  AllPlanned'
    <2> DEFINE late == [node[n] EXCEPT !.late = TRUE, !.window = @ /\ node[n].timeout # "window"]
               expired == [node[n] EXCEPT !.expired = TRUE]
               closed == [node[n] EXCEPT !.window = FALSE]
               named == [node[n] EXCEPT !.identified = TRUE]
    <2>1. PICK t \in {late, expired, closed, named} : node' = [node EXCEPT ![n] = t]
      <3>1. CASE Deadline(n)
        <4>1. node' = [node EXCEPT ![n] = late]
            BY <1>0, <3>1 DEF Deadline, Linked
        <4> QED
            BY <4>1
      <3>2. CASE Expire(n)
        <4>1. node' = [node EXCEPT ![n] = expired]
            BY <1>0, <3>2 DEF Expire, Linked
        <4> QED
            BY <4>1
      <3>3. CASE CloseWindow(n)
        <4>1. node' = [node EXCEPT ![n] = closed]
            BY <1>0, <3>3 DEF CloseWindow, Linked
        <4> QED
            BY <4>1
      <3>4. CASE ReadSerial(n)
        <4>1. node' = [node EXCEPT ![n] = named]
            BY <1>0, <3>4 DEF ReadSerial, Linked
        <4> QED
            BY <4>1
      <3> QED
          BY <1>7, <3>1, <3>2, <3>3, <3>4 DEF Time
    <2>2. /\ Unconcerned(node[n], late) /\ Unconcerned(node[n], expired)
          /\ Unconcerned(node[n], closed) /\ Unconcerned(node[n], named)
        BY <1>0 DEF Unconcerned, Shape, Fields
    <2> HIDE DEF late, expired, closed, named
    <2>3. WorkOK(t)
        BY <1>0, <2>1, <2>2, WorkKeeps
    <2> QED
        BY <1>0, <2>1, <2>3, OneWork
  <1> QED
      BY <1>1, <1>2, <1>3, <1>4, <1>5, <1>6, <1>7 DEF Next, Time

\* Work never waits for an unplanned task, in every network and for every history,
\* unless the task last ended early, on names that do not fit in a packet or on a
\* message for a subscription the station does not have (twr_radio.c:319-493, the
\* exceptions are lines 352 and 435).
THEOREM WorkIsPlanned == Spec => []WorkPlanned
  <1>1. Inductive /\ AllPlanned /\ [Next]_vars => AllPlanned'
      BY WorkStep
  <1>2. AllPlanned => WorkPlanned
      BY DEF AllPlanned, WorkOK, WorkPlanned, Waiting
  <1> QED
      BY <1>1, <1>2, InitWork, InductiveHolds, PTL DEF Spec
===============================================================================
