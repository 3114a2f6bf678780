-------------------------------- MODULE Stream --------------------------------
(***************************************************************************)
(* internal/alerts and the event stream of internal/server: the bounded     *)
(* feed of alerts, and the channels through which the server pushes frames  *)
(* to the clients of GET /api/events.  The UI shows what has been written   *)
(* to its connection.                                                       *)
(***************************************************************************)
EXTENDS Integers, Sequences, FiniteSets

CONSTANTS Clients,      \* connections of the event stream
          Cap,          \* frames a channel holds: 16 in the code
          Keep,         \* alerts the feed keeps: 200 in the code
          Adders        \* goroutines that add alerts

ASSUME StreamAssumption == Cap \in Nat \ {0} /\ Keep \in Nat \ {0}

VARIABLES items,        \* Feed.items, oldest first
          raised,       \* all alerts since the start, for the properties
          adding,       \* alert an adder has appended and not yet broadcast
          conn,         \* "off", "subscribed", "summed" or "live"
          chan,         \* sseSubs: the frames in a client's channel
          wire,         \* last snapshot written to a client
          told,         \* alerts written to a client since it subscribed
          missed,       \* alerts whose frame was dropped for a client
          since         \* Len(raised) when the client subscribed

stream == <<items, raised, adding, conn, chan, wire, told, missed, since>>
feed == <<items, raised>>
clients == <<conn, wire, told, since>>

NoAlert == [id |-> 0]
NoSnapshot == <<>>
Subscribed(c) == conn[c] # "off"

StreamInit ==
    /\ items = <<>> /\ raised = <<>>
    /\ adding = [a \in Adders |-> NoAlert]
    /\ conn = [c \in Clients |-> "off"]
    /\ chan = [c \in Clients |-> <<>>]
    /\ wire = [c \in Clients |-> NoSnapshot]
    /\ told = [c \in Clients |-> {}]
    /\ missed = [c \in Clients |-> {}]
    /\ since = [c \in Clients |-> 0]

\* A restart of the daemon ends the connections and empties the feed.
StreamForgets ==
    /\ items' = <<>> /\ raised' = <<>>
    /\ adding' = [a \in Adders |-> NoAlert]
    /\ conn' = [c \in Clients |-> "off"]
    /\ chan' = [c \in Clients |-> <<>>]
    /\ wire' = [c \in Clients |-> NoSnapshot]
    /\ told' = [c \in Clients |-> {}]
    /\ missed' = [c \in Clients |-> {}]
    /\ since' = [c \in Clients |-> 0]

\* Mutant: the oldest alerts stay.
TrimmedOldest(s) == IF Len(s) > Keep THEN SubSeq(s, 1, Keep) ELSE s
Trimmed(s) == IF Len(s) > Keep THEN SubSeq(s, Len(s) - Keep + 1, Len(s)) ELSE s

\* Feed.Add up to the release of the lock: append and trim.
Add(a, alert) ==
    /\ adding[a] = NoAlert
    /\ LET named == [alert EXCEPT !.id = Len(raised) + 1]
       IN  /\ items' = Trimmed(Append(items, named))
           /\ raised' = Append(raised, named)
           /\ adding' = [adding EXCEPT ![a] = named]

Alert(typ) == [id |-> 0, typ |-> typ]

Full(c) == Len(chan[c]) >= Cap
AlertOf(frame) == IF frame.event = "alert" THEN {frame.data.id} ELSE {}

\* Mutant: a full channel makes room by its oldest frame.
BroadcastDropsOldest(frame) ==
    /\ chan' = [c \in Clients |->
            IF ~Subscribed(c) THEN chan[c]
            ELSE Append(IF Full(c) THEN Tail(chan[c]) ELSE chan[c], frame)]
    /\ UNCHANGED missed
\* Every subscriber whose channel has room gets the frame; for the others it is lost.
Broadcast(frame) ==
    /\ chan' = [c \in Clients |->
            IF Subscribed(c) /\ ~Full(c) THEN Append(chan[c], frame) ELSE chan[c]]
    /\ missed' = [c \in Clients |->
            IF Subscribed(c) /\ Full(c) THEN missed[c] \union AlertOf(frame) ELSE missed[c]]

\* Feed.Add after the release of the lock: the callback that New registers.
Notify(a) ==
    /\ adding[a] # NoAlert
    /\ Broadcast([event |-> "alert", data |-> adding[a]])
    /\ adding' = [adding EXCEPT ![a] = NoAlert]
    /\ UNCHANGED <<feed, clients>>

\* handleSSE: the channel is registered before the first snapshot is built.
Subscribe(c) ==
    /\ conn[c] = "off"
    /\ conn' = [conn EXCEPT ![c] = "subscribed"]
    /\ chan' = [chan EXCEPT ![c] = <<>>]
    /\ told' = [told EXCEPT ![c] = {}]
    /\ missed' = [missed EXCEPT ![c] = {}]
    /\ since' = [since EXCEPT ![c] = Len(raised)]
    /\ UNCHANGED <<feed, adding, wire>>

\* A frame goes from the channel to the connection.
Receive(c) ==
    /\ conn[c] = "live" /\ chan[c] # <<>>
    /\ LET frame == Head(chan[c])
       IN  /\ wire' = IF frame.event = "snapshot" THEN [wire EXCEPT ![c] = frame.data] ELSE wire
           /\ told' = [told EXCEPT ![c] = @ \union AlertOf(frame)]
    /\ chan' = [chan EXCEPT ![c] = Tail(@)]
    /\ UNCHANGED <<feed, adding, conn, missed, since>>

\* The request's context ends: the channel is removed.
Leave(c) ==
    /\ conn[c] # "off"
    /\ conn' = [conn EXCEPT ![c] = "off"]
    /\ chan' = [chan EXCEPT ![c] = <<>>]
    /\ wire' = [wire EXCEPT ![c] = NoSnapshot]
    /\ UNCHANGED <<feed, adding, told, missed, since>>

-----------------------------------------------------------------------------
(* Properties                                                               *)

\* The feed is the newest alerts in the order in which they were added, never
\* more than it may keep (alerts.go:46-48).
FeedKeepsNewest ==
    /\ Len(items) = IF Len(raised) < Keep THEN Len(raised) ELSE Keep
    /\ \A i \in DOMAIN items : items[i] = raised[Len(raised) - Len(items) + i]

\* A client whose channel is empty has been told of every alert that was added
\* since it subscribed, except of those whose frame met a full channel: no
\* interleaving of adders, broadcasts and connections loses another one.
InFlight == {adding[a].id : a \in Adders}
AlertsAccounted ==
    \A c \in Clients : conn[c] = "live" /\ chan[c] = <<>> =>
        \A id \in since[c] + 1 .. Len(raised) : id \in told[c] \union missed[c] \union InFlight
=============================================================================
