----------------------------- MODULE RadioLinkMC -----------------------------
(* A gateway and a node: pairing, publishing both ways, attaching.             *)
EXTENDS RadioLink

CONSTANTS gw, nd, other  \* other is out of reach

Pub(n) == [op |-> "pub", message |-> Message("pub", NoId, n)]
Data(to, order) == [op |-> "pub", message |-> Message("subdata", to, order)]
Restart == [op |-> "reboot"]
Switch(call, on) == [op |-> call, on |-> on]
Station(mode, known, subs, calls) ==
    [mode |-> mode, known |-> known, identified |-> TRUE, subs |-> subs, faults |-> 0,
     calls |-> calls]
Faulty(station) == [station EXCEPT !.faults = 1]
Unread(station) == [station EXCEPT !.identified = FALSE]
Pair == [op |-> "pairing_request", fits |-> TRUE]
Scene(gateway, station) == [n \in Stations |-> IF n = gw THEN gateway ELSE station]

\* A sleeping node pairs and publishes.
Pairing == Scene(
    Station("gateway", <<>>, 0, <<Switch("pairing_mode", TRUE)>>),
    Station("sleeping", <<>>, 0, <<Pair>>))

\* Known to each other, both publish, the node keeps listening after an answer.
Exchange == Scene(
    Station("gateway", <<nd>>, 0, <<Data(nd, 0)>>),
    Station("sleeping", <<gw>>, 1, <<Switch("rx_after_ack", TRUE), Pub(1)>>))

\* A listening node is attached, then dropped, while it learns who it is.
Attaching == Scene(
    Station("gateway", <<>>, 0, <<[op |-> "add", id |-> nd], [op |-> "remove", id |-> nd]>>),
    Unread(Station("listening", <<>>, 0, <<>>)))

\* An unknown node is taken in when it is heard.
Automatic == Scene(
    Station("gateway", <<>>, 0, <<Switch("automatic_pairing", TRUE)>>),
    Station("sleeping", <<>>, 0, <<Pub(1)>>))

\* A sleeping node listens for what the gateway sends, and withdraws a message.
Listening == Scene(
    Station("gateway", <<nd>>, 0, <<Data(nd, 0)>>),
    Station("sleeping", <<gw>>, 1, <<Pub(1), [op |-> "listen"], [op |-> "clear"]>>))

\* A listening node overhears a message to a station that is not there, and is
\* sent one for a subscription it does not have.
Strayed == Scene(
    Station("gateway", <<nd>>, 0, <<Data(other, 0), Data(nd, 0)>>),
    Station("listening", <<gw>>, 0, <<>>))

\* A gateway that restarts asks for the subscriptions again.
RestartingGateway == Scene(
    Station("gateway", <<nd>>, 0, <<Restart>>),
    Station("sleeping", <<gw>>, 1, <<Pub(1), Pub(2)>>))

\* A node that restarts numbers its messages anew.
RestartingNode == Scene(
    Station("gateway", <<nd>>, 0, <<>>),
    Station("sleeping", <<gw>>, 0, <<Pub(1), Pub(2), Restart, Pub(1), Pub(2)>>))

\* The table of a gateway shrinks while its memory and its power fail.
Losing == Scene(
    Faulty(Station("gateway", <<nd, other>>, 0,
                   <<[op |-> "remove", id |-> nd], Restart, [op |-> "purge"], Restart>>)),
    Station("listening", <<>>, 0, <<>>))

\* A node changes its gateway while its memory and its power fail.
Moving == Scene(
    Station("gateway", <<nd>>, 0, <<>>),
    Faulty(Station("sleeping", <<other>>, 0, <<Pair, Restart, Restart>>)))

\* A node pairs with a gateway that does not know its own identity yet, and
\* attaches and drops other peers.
Unnamed == Scene(
    Unread(Station("gateway", <<nd>>, 0, <<>>)),
    Station("sleeping", <<other>>, 0,
            <<Pair, [op |-> "add", id |-> other], [op |-> "purge"], Restart>>))

\* A node whose names are too long asks to be paired beside what it publishes.
LongNames == Scene(
    Station("gateway", <<nd>>, 0, <<>>),
    Station("sleeping", <<gw>>, 0, <<Pub(1), [Pair EXCEPT !.fits = FALSE], Pub(2)>>))

All == {RestartingGateway, RestartingNode, Losing, Moving, Unnamed, LongNames,
        Pairing, Exchange, Attaching, Automatic, Listening, Strayed}

\* What must come to an end: messages that cross, restarts, and a table that moves.
Conversation == {Exchange, RestartingNode, Losing, Moving}
===============================================================================
