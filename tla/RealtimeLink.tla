---------------------------- MODULE RealtimeLink ----------------------------
(***************************************************************************)
(* The socket of each browser (RealtimeService), the rooms the views hold  *)
(* (useTaskRealtime), and the gateway they connect to.  A view that mounts *)
(* asks for its room and reads its data; a connection that drops loses its *)
(* rooms and what was on the wire; the client that reconnects asks for its *)
(* rooms again and its views read their data again.  Requests for rooms go *)
(* over the socket, reads over HTTP: the two are not ordered.              *)
(*                                                                         *)
(* socket.io, as the code uses it: what a client emits while it is not     *)
(* connected waits and is sent, in order, once it is; the server notices   *)
(* a dropped connection some time later; a client the gateway disconnects  *)
(* does not connect again.                                                 *)
(***************************************************************************)
EXTENDS Integers, Sequences, FiniteSets

CONSTANTS
    Client,          \* browsers
    Room,            \* task:{id} and user:{id} rooms
    Held,            \* rooms whose views are connected and at rest at the start
    MaxConnections,  \* the gateway's cap
    MaxDrops,        \* bound: connections lost
    MaxMounts,       \* bound: views mounted
    MaxChanges       \* bound: committed changes

ASSUME LinkAssumption ==
    /\ IsFiniteSet(Client)
    /\ Held \subseteq Room /\ IsFiniteSet(Held)
    /\ Held # {} => Cardinality(Client) <= MaxConnections
    /\ MaxConnections \in Nat /\ MaxDrops \in Nat
    /\ MaxMounts \in Nat /\ MaxChanges \in Nat

VARIABLES
    link,        \* link[c]: "opening", "up", "down" or "rejected"
    joined,      \* joined[c]: joinedUserIds and joinedTaskIds
    outbox,      \* outbox[c]: what the socket has still to deliver
    rooms,       \* rooms[c]: rooms of the client's connection at the gateway
    wire,        \* wire[c]: rooms whose change is on its way to the client
    reads,       \* reads[c]: rooms whose view has a read under way, the last one
    failed,      \* failed[c]: rooms whose last read failed, as a toast has said
    missed,      \* missed[c][r]: why the view of r lacks a change, or ""
    zombies,     \* dropped connections the gateway still counts
    drops, mounts, changes

vars == <<link, joined, outbox, rooms, wire, reads, failed, missed, zombies, drops, mounts,
          changes>>

Packet == [op : {"join", "leave"}, room : Room]

Join(r) == [op |-> "join", room |-> r]

Leave(r) == [op |-> "leave", room |-> r]

Init ==
    /\ link = [c \in Client |-> IF Held = {} THEN "opening" ELSE "up"]
    /\ joined = [c \in Client |-> Held]
    /\ outbox = [c \in Client |-> <<>>]
    /\ rooms = [c \in Client |-> Held]
    /\ wire = [c \in Client |-> {}]
    /\ reads = [c \in Client |-> {}] /\ failed = [c \in Client |-> {}]
    /\ missed = [c \in Client |-> [r \in Room |-> ""]]
    /\ zombies = 0 /\ drops = 0 /\ mounts = 0 /\ changes = 0

----------------------------------------------------------------------------
(* The view of room r mounts: joinUser or joinTask, and its first read. *)
Mount(c, r) ==
    /\ mounts < MaxMounts
    /\ r \notin joined[c]
    /\ mounts' = mounts + 1
    /\ joined' = [joined EXCEPT ![c] = @ \cup {r}]
    /\ outbox' = [outbox EXCEPT ![c] = Append(@, Join(r))]
    /\ reads' = [reads EXCEPT ![c] = @ \cup {r}]
    /\ UNCHANGED <<link, rooms, wire, failed, missed, zombies, drops, changes>>

(* Its cleanup unsubscribes and leaves the room. *)
Unmount(c, r) ==
    /\ r \in joined[c]
    /\ joined' = [joined EXCEPT ![c] = @ \ {r}]
    /\ outbox' = [outbox EXCEPT ![c] = Append(@, Leave(r))]
    /\ wire' = [wire EXCEPT ![c] = @ \ {r}]
    /\ reads' = [reads EXCEPT ![c] = @ \ {r}]
    /\ failed' = [failed EXCEPT ![c] = @ \ {r}]
    /\ missed' = [missed EXCEPT ![c][r] = ""]
    /\ UNCHANGED <<link, rooms, zombies, drops, mounts, changes>>

(* Fault: the new connection itself counts against the cap only later. *)
OverCapLate(n) == n > MaxConnections + 1

(* The new connection is among the sockets counted. *)
OverCap(n) == n > MaxConnections

Sockets == Cardinality({c \in Client : link[c] = "up"}) + zombies

(* handleConnection *)
Connect(c) ==
    /\ link[c] = "opening"
    /\ link' = [link EXCEPT ![c] = IF OverCap(Sockets + 1) THEN "rejected" ELSE "up"]
    /\ UNCHANGED <<joined, outbox, rooms, wire, reads, failed, missed, zombies, drops, mounts,
                   changes>>

(* The gateway takes the client's next packet. *)
DeliverPacket(c) ==
    /\ link[c] = "up"
    /\ outbox[c] # <<>>
    /\ LET p == Head(outbox[c])
       IN  rooms' = [rooms EXCEPT ![c] = IF p.op = "join" THEN @ \cup {p.room}
                                         ELSE @ \ {p.room}]
    /\ outbox' = [outbox EXCEPT ![c] = Tail(@)]
    /\ UNCHANGED <<link, joined, wire, reads, failed, missed, zombies, drops, mounts, changes>>

(* Connection and rooms are gone, and what was on the wire both ways.       *)
Drop(c) ==
    /\ drops < MaxDrops
    /\ link[c] = "up"
    /\ drops' = drops + 1
    /\ zombies' = zombies + 1
    /\ link' = [link EXCEPT ![c] = "down"]
    /\ rooms' = [rooms EXCEPT ![c] = {}]
    /\ outbox' = [outbox EXCEPT ![c] = <<>>]
    /\ wire' = [wire EXCEPT ![c] = {}]
    /\ missed' = [missed EXCEPT ![c] = [r \in Room |-> IF r \in wire[c] THEN "gap" ELSE @[r]]]
    /\ UNCHANGED <<joined, reads, failed, mounts, changes>>

(* Fault: the end of a refused connection is counted too. *)
ReapRefused ==
    /\ zombies > 0 \/ \E c \in Client : link[c] = "rejected"
    /\ zombies' = zombies - 1
    /\ UNCHANGED <<link, joined, outbox, rooms, wire, reads, failed, missed, drops, mounts,
                   changes>>

(* handleDisconnect: the ping timeout has passed. *)
Reap ==
    /\ zombies > 0
    /\ zombies' = zombies - 1
    /\ UNCHANGED <<link, joined, outbox, rooms, wire, reads, failed, missed, drops, mounts,
                   changes>>

Rejoins(c) ==
    {s \in [1..Cardinality(joined[c]) -> {Join(r) : r \in joined[c]}] :
        \A r \in joined[c] : \E i \in DOMAIN s : s[i] = Join(r)}

(* Fault: only the views are told. *)
ReconnectWithoutRejoin(c) ==
    /\ link[c] = "down"
    /\ link' = [link EXCEPT ![c] = "opening"]
    /\ reads' = [reads EXCEPT ![c] = joined[c]]
    /\ failed' = [failed EXCEPT ![c] = {}]
    /\ UNCHANGED <<joined, outbox, rooms, wire, missed, zombies, drops, mounts, changes>>

(* Fault: the views are not told. *)
ReconnectWithoutRead(c) ==
    /\ link[c] = "down"
    /\ link' = [link EXCEPT ![c] = "opening"]
    /\ \E s \in Rejoins(c) : outbox' = [outbox EXCEPT ![c] = @ \o s]
    /\ UNCHANGED <<joined, rooms, wire, reads, failed, missed, zombies, drops, mounts, changes>>

(* handleReconnect: every room still held is asked for again, and           *)
(* realtime:reconnected makes every view mounted read again.                *)
Reconnect(c) ==
    /\ link[c] = "down"
    /\ link' = [link EXCEPT ![c] = "opening"]
    /\ \E s \in Rejoins(c) : outbox' = [outbox EXCEPT ![c] = @ \o s]
    /\ reads' = [reads EXCEPT ![c] = joined[c]]
    /\ failed' = [failed EXCEPT ![c] = {}]
    /\ UNCHANGED <<joined, rooms, wire, missed, zombies, drops, mounts, changes>>

(* A read is answered from the database as it is now, *)
ServeRead(c, r) ==
    /\ r \in reads[c]
    /\ reads' = [reads EXCEPT ![c] = @ \ {r}]
    /\ failed' = [failed EXCEPT ![c] = @ \ {r}]
    /\ missed' = [missed EXCEPT ![c][r] = ""]
    /\ UNCHANGED <<link, joined, outbox, rooms, wire, zombies, drops, mounts, changes>>

(* or fails: the store shows a toast, and nothing reads again by itself.    *)
FailRead(c, r) ==
    /\ r \in reads[c]
    /\ reads' = [reads EXCEPT ![c] = @ \ {r}]
    /\ failed' = [failed EXCEPT ![c] = @ \cup {r}]
    /\ UNCHANGED <<link, joined, outbox, rooms, wire, missed, zombies, drops, mounts, changes>>

Told(c, r) == link[c] = "up" /\ r \in rooms[c]

MissedAfter(c, r) ==
    IF r \notin joined[c] \/ Told(c, r) THEN missed[c][r]
    ELSE IF link[c] = "down" \/ missed[c][r] = "gap" THEN "gap"
    ELSE "unsubscribed"

(* A change is committed and published to a room. *)
Change(r) ==
    /\ changes < MaxChanges
    /\ changes' = changes + 1
    /\ wire' = [c \in Client |-> IF Told(c, r) /\ r \in joined[c] THEN wire[c] \cup {r}
                                 ELSE wire[c]]
    /\ missed' = [c \in Client |-> [missed[c] EXCEPT ![r] = MissedAfter(c, r)]]
    /\ UNCHANGED <<link, joined, outbox, rooms, reads, failed, zombies, drops, mounts>>

Receive(c, r) ==
    /\ r \in wire[c]
    /\ wire' = [wire EXCEPT ![c] = @ \ {r}]
    /\ UNCHANGED <<link, joined, outbox, rooms, reads, failed, missed, zombies, drops, mounts,
                   changes>>

Recovery(c) == Connect(c) \/ DeliverPacket(c) \/ Reconnect(c)

Next ==
    \/ \E c \in Client : Recovery(c) \/ Drop(c)
    \/ \E c \in Client, r \in Room :
          \/ Mount(c, r) \/ Unmount(c, r)
          \/ ServeRead(c, r) \/ FailRead(c, r) \/ Receive(c, r)
    \/ \E r \in Room : Change(r)
    \/ Reap

Spec == Init /\ [][Next]_vars

(* The socket keeps trying to connect and to send what it holds. *)
FairSpec == Spec /\ \A c \in Client : WF_vars(Recovery(c))

----------------------------------------------------------------------------
(* Every variable has its type. *)
TypeOK ==
    /\ link \in [Client -> {"opening", "up", "down", "rejected"}]
    /\ joined \in [Client -> SUBSET Room]
    /\ outbox \in [Client -> Seq(Packet)]
    /\ rooms \in [Client -> SUBSET Room]
    /\ wire \in [Client -> SUBSET Room]
    /\ reads \in [Client -> SUBSET Room] /\ failed \in [Client -> SUBSET Room]
    /\ missed \in [Client -> [Room -> {"", "gap", "unsubscribed"}]]
    /\ zombies \in Nat /\ drops \in Nat /\ mounts \in Nat /\ changes \in Nat

(* "Re-sending every room this client still holds restores the exact        *)
(* subscriptions it had before the drop" (handleReconnect): with nothing    *)
(* left to send, the connection is in exactly the rooms the views hold,     *)
(* also when rooms were left or asked for while it was down.                *)
SubscriptionsRestored ==
    \A c \in Client : (link[c] = "up" /\ outbox[c] = <<>>) => rooms[c] = joined[c]

(* What was missed while the connection was down is read again: a view      *)
(* that lacks such a change has its read under way once the socket is back, *)
(* or that read has failed since, and the user was told.  No view goes on   *)
(* without the change as if nothing had been missed.                        *)
GapIsRead ==
    \A c \in Client, r \in Room :
        (missed[c][r] = "gap" /\ link[c] # "down") => r \in reads[c] \cup failed[c]

(* The gateway never keeps more connections than its cap. *)
ConnectionsCapped == Sockets <= MaxConnections

(* What holds of the connections at every moment, however they drop, are    *)
(* refused and come back: types, the cap, and the rooms restored.           *)
LinkInv ==
    /\ TypeOK
    /\ ConnectionsCapped
    /\ SubscriptionsRestored

(* A dropped connection comes back with the rooms of its views, unless the  *)
(* gateway refused it.                                                      *)
Restored(c) == link[c] = "up" /\ rooms[c] = joined[c]

SubscriptionsReturn ==
    \A c \in Client : link[c] = "down" ~> (link[c] = "rejected" \/ Restored(c))

(* "... refetch and close that gap themselves" (handleReconnect): a view at *)
(* rest, its rooms restored, its read answered and its events received, has *)
(* missed no change.                                                        *)
NothingMissed ==
    \A c \in Client :
        (link[c] = "up" /\ outbox[c] = <<>> /\ wire[c] = {} /\ reads[c] \cup failed[c] = {}) =>
            \A r \in joined[c] : missed[c][r] = ""
=============================================================================
