------------------------------ MODULE SyncProofs ------------------------------
(***************************************************************************)
(* Proofs about what keeps an open page in step with the service: the      *)
(* connection (RealtimeLink), for any number of browsers, rooms, drops,    *)
(* mounts and changes and any cap of the gateway; and the drawer's         *)
(* timeline (HistoryPanel), for any number of tasks, calls and openings    *)
(* and any page size.                                                      *)
(*                                                                         *)
(* That a connection is back in its rooms once nothing is left to send is  *)
(* not inductive: the packets still to be sent decide what it will be in.  *)
(* The invariant says of every room that the last packet about it is the   *)
(* view's last word, and that where no packet is left, gateway and view    *)
(* agree; while the connection is down only the first half holds, and the  *)
(* rejoins of the reconnect bring the second one back.                     *)
(*                                                                         *)
(* Likewise the timeline: what it will be is decided by the calls still in *)
(* flight, so its invariant is about the last page among them and about    *)
(* the reads of the task that a page is still to follow.                   *)
(***************************************************************************)
EXTENDS RealtimeLink, HistoryPanel, FiniteSetTheorems, SequenceTheorems, TLAPS

(* The last packet about a room asks for it or leaves it as the views do. *)
LastWord(packets, held) ==
    \A i \in DOMAIN packets :
        (\A j \in DOMAIN packets : j > i => packets[j].room # packets[i].room) =>
            (packets[i].op = "join" <=> packets[i].room \in held)

(* A room no packet is about is held at both ends or at none. *)
Agreed(packets, there, held) ==
    \A r \in Room :
        (\A i \in DOMAIN packets : packets[i].room # r) => (r \in there <=> r \in held)

(* What a connection will be in is decided: held, queued or agreed. *)
RoomsOf(c) ==
    /\ IsFiniteSet(joined[c])
    /\ LastWord(outbox[c], joined[c])
    /\ link[c] = "down" => rooms[c] = {}
    /\ link[c] # "down" => Agreed(outbox[c], rooms[c], joined[c])

(* Changes are sent to, and missed by, mounted views only. *)
ViewsOf(c) ==
    /\ wire[c] \subseteq joined[c]
    /\ \A r \in Room : missed[c][r] # "" => r \in joined[c]
    /\ \A r \in Room : (missed[c][r] = "gap" /\ link[c] # "down") => r \in reads[c] \cup failed[c]

(* The inductive invariant of the connections. *)
LinkIInv ==
    /\ TypeOK
    /\ ConnectionsCapped
    /\ \A c \in Client : RoomsOf(c) /\ ViewsOf(c)

----------------------------------------------------------------------------
(* A view that mounts or unmounts has the last word on its room. *)
LEMMA AppendPacket ==
  ASSUME NEW packets \in Seq(Packet), NEW p \in Packet,
         NEW held \in SUBSET Room, NEW now \in SUBSET Room,
         now = IF p.op = "join" THEN held \cup {p.room} ELSE held \ {p.room},
         LastWord(packets, held)
  PROVE  /\ Append(packets, p) \in Seq(Packet)
         /\ LastWord(Append(packets, p), now)
         /\ \A there \in SUBSET Room :
               Agreed(packets, there, held) => Agreed(Append(packets, p), there, now)
<1> DEFINE longer == Append(packets, p)
           n == Len(packets)
<1>1. /\ longer \in Seq(Packet) /\ n \in Nat
      /\ DOMAIN packets = 1..n /\ DOMAIN longer = 1..(n + 1)
      /\ \A i \in 1..n : longer[i] = packets[i]
      /\ longer[n + 1] = p
  OBVIOUS
<1>2. \A i \in 1..n : packets[i] \in Packet
  BY <1>1
<1> HIDE DEF longer, n
<1>3. LastWord(longer, now)
  <2> SUFFICES ASSUME NEW i \in 1..(n + 1),
                      \A j \in 1..(n + 1) : j > i => longer[j].room # longer[i].room
               PROVE  longer[i].op = "join" <=> longer[i].room \in now
    BY <1>1 DEF LastWord
  <2>1. CASE i = n + 1
    BY <1>1, <2>1 DEF Packet
  <2>2. CASE i \in 1..n
    <3>1. longer[i] = packets[i] /\ n + 1 > i
      BY <1>1, <2>2
    <3>2. p.room # packets[i].room
      BY <1>1, <3>1
    <3>3. packets[i].op = "join" <=> packets[i].room \in held
      <4>1. \A j \in 1..n : j > i => packets[j].room # packets[i].room
        BY <1>1, <2>2
      <4> QED
        BY <1>1, <2>2, <4>1 DEF LastWord
    <3> QED
      BY <3>1, <3>2, <3>3
  <2> QED
    BY <1>1, <2>1, <2>2
<1>4. ASSUME NEW there \in SUBSET Room, Agreed(packets, there, held)
      PROVE  Agreed(longer, there, now)
  <2> SUFFICES ASSUME NEW r \in Room, \A i \in 1..(n + 1) : longer[i].room # r
               PROVE  r \in there <=> r \in now
    BY <1>1 DEF Agreed
  <2>1. p.room # r
    BY <1>1
  <2>2. \A i \in 1..n : packets[i].room # r
    BY <1>1
  <2>3. r \in there <=> r \in held
    BY <1>1, <1>4, <2>2 DEF Agreed
  <2> QED
    BY <2>1, <2>3
<1> QED
  BY <1>1, <1>3, <1>4 DEF longer

(* A packet delivered settles its room, unless a later one is about it. *)
LEMMA DeliverHead ==
  ASSUME NEW packets \in Seq(Packet), packets # <<>>,
         NEW held \in SUBSET Room, NEW there \in SUBSET Room, NEW now \in SUBSET Room,
         now = IF Head(packets).op = "join" THEN there \cup {Head(packets).room}
               ELSE there \ {Head(packets).room},
         LastWord(packets, held), Agreed(packets, there, held)
  PROVE  /\ Tail(packets) \in Seq(Packet)
         /\ LastWord(Tail(packets), held)
         /\ Agreed(Tail(packets), now, held)
<1> DEFINE rest == Tail(packets)
           n == Len(packets)
           p == packets[1]
<1>1. /\ rest \in Seq(Packet) /\ n \in Nat \ {0} /\ p = Head(packets)
      /\ DOMAIN packets = 1..n /\ DOMAIN rest = 1..(n - 1)
      /\ \A i \in 1..(n - 1) : rest[i] = packets[i + 1]
  OBVIOUS
<1>2. p \in Packet
  BY <1>1
<1> HIDE DEF rest, n, p
<1>3. LastWord(rest, held)
  <2> SUFFICES ASSUME NEW i \in 1..(n - 1),
                      \A j \in 1..(n - 1) : j > i => rest[j].room # rest[i].room
               PROVE  rest[i].op = "join" <=> rest[i].room \in held
    BY <1>1 DEF LastWord
  <2>1. i + 1 \in 1..n /\ rest[i] = packets[i + 1]
    BY <1>1
  <2>2. ASSUME NEW j \in 1..n, j > i + 1
        PROVE  packets[j].room # packets[i + 1].room
    <3>1. j - 1 \in 1..(n - 1) /\ j - 1 > i
      BY <1>1, <2>2
    <3>2. rest[j - 1] = packets[(j - 1) + 1] /\ (j - 1) + 1 = j
      BY <1>1, <2>2, <3>1
    <3> QED
      BY <2>1, <3>1, <3>2
  <2> QED
    BY <1>1, <2>1, <2>2 DEF LastWord
<1>4. Agreed(rest, now, held)
  <2> SUFFICES ASSUME NEW r \in Room, \A i \in 1..(n - 1) : rest[i].room # r
               PROVE  r \in now <=> r \in held
    BY <1>1 DEF Agreed
  <2>1. ASSUME NEW j \in 1..n, j > 1
        PROVE  packets[j].room # r
    <3>1. j - 1 \in 1..(n - 1)
      BY <1>1, <2>1
    <3>2. rest[j - 1] = packets[(j - 1) + 1] /\ (j - 1) + 1 = j
      BY <1>1, <2>1, <3>1
    <3> QED
      BY <3>1, <3>2
  <2>2. CASE p.room = r
    <3>1. p.op = "join" <=> r \in held
      <4>1. 1 \in 1..n /\ packets[1] = p
        BY <1>1 DEF p
      <4> QED
        BY <1>1, <2>1, <2>2, <4>1 DEF LastWord
    <3> QED
      BY <1>1, <2>2, <3>1
  <2>3. CASE p.room # r
    <3>1. \A i \in 1..n : packets[i].room # r
      BY <1>1, <2>1, <2>3 DEF p
    <3> QED
      BY <1>1, <2>3, <3>1 DEF Agreed
  <2> QED
    BY <2>2, <2>3
<1> QED
  BY <1>1, <1>3, <1>4 DEF rest

(* The rejoins of a reconnect, after whatever was asked for meanwhile, bring *)
(* a new connection to what the views hold.                                  *)
LEMMA RejoinAll ==
  ASSUME NEW packets \in Seq(Packet), NEW held \in SUBSET Room,
         NEW n \in Nat, NEW s \in [1..n -> {Join(r) : r \in held}],
         \A r \in held : \E i \in DOMAIN s : s[i] = Join(r),
         LastWord(packets, held)
  PROVE  /\ packets \o s \in Seq(Packet)
         /\ LastWord(packets \o s, held)
         /\ Agreed(packets \o s, {}, held)
<1> DEFINE all == packets \o s
           m == Len(packets)
<1>1. \A i \in 1..n : s[i] \in Packet /\ s[i].op = "join" /\ s[i].room \in held
  BY DEF Packet, Join
<1>2. s \in Seq(Packet) /\ DOMAIN s = 1..n /\ Len(s) = n
  BY <1>1
<1>3. /\ all \in Seq(Packet) /\ m \in Nat
      /\ DOMAIN packets = 1..m /\ DOMAIN all = 1..(m + n)
      /\ \A i \in 1..m : all[i] = packets[i]
      /\ \A i \in 1..n : all[m + i] = s[i]
  <2>1. all \in Seq(Packet) /\ Len(all) = m + n /\ m \in Nat
    BY <1>2
  <2>2. \A i \in 1..(m + n) : all[i] = IF i <= m THEN packets[i] ELSE s[i - m]
    BY <1>2, ConcatProperties
  <2>3. \A i \in 1..n : m + i \in 1..(m + n) /\ ~(m + i <= m) /\ (m + i) - m = i
    BY <2>1
  <2>4. DOMAIN packets = 1..m /\ DOMAIN all = 1..(m + n)
    BY <2>1
  <2> HIDE DEF all, m
  <2>5. \A i \in 1..n : all[m + i] = s[i]
    BY <2>2, <2>3
  <2>6. \A i \in 1..m : all[i] = packets[i]
    BY <2>1, <2>2
  <2> QED
    BY <2>1, <2>4, <2>5, <2>6
<1> HIDE DEF all, m
<1>4. \A i \in (m + 1)..(m + n) : all[i].op = "join" /\ all[i].room \in held
  <2> TAKE i \in (m + 1)..(m + n)
  <2>1. i - m \in 1..n /\ m + (i - m) = i
    BY <1>3
  <2> QED
    BY ZenonT(60), <1>1, <1>3, <2>1
<1>5. \A r \in held : \E i \in 1..n : all[m + i].room = r
  <2> TAKE r \in held
  <2>1. PICK i \in 1..n : s[i] = Join(r)
    BY <1>2
  <2>2. all[m + i] = Join(r)
    BY <1>3, <2>1
  <2>3. Join(r).room = r
    BY DEF Join
  <2> QED
    BY <2>2, <2>3
<1>6. LastWord(all, held)
  <2> SUFFICES ASSUME NEW i \in 1..(m + n),
                      \A j \in 1..(m + n) : j > i => all[j].room # all[i].room
               PROVE  all[i].op = "join" <=> all[i].room \in held
    BY <1>3 DEF LastWord
  <2>1. CASE i \in (m + 1)..(m + n)
    BY <1>4, <2>1
  <2>2. CASE i \in 1..m
    <3>1. all[i].room \notin held
      <4> SUFFICES ASSUME all[i].room \in held
                   PROVE  FALSE
        OBVIOUS
      <4>1. PICK k \in 1..n : all[m + k].room = all[i].room
        BY <1>5
      <4>2. m + k \in 1..(m + n) /\ m + k > i
        BY SMTT(60), <1>3, <2>2
      <4> QED
        BY <4>1, <4>2
    <3>2. \A j \in 1..m : j > i => packets[j].room # packets[i].room
      BY <1>3, <2>2
    <3>3. all[i] = packets[i]
      BY <1>3, <2>2
    <3> QED
      BY <1>3, <2>2, <3>1, <3>2, <3>3 DEF LastWord
  <2> QED
    BY <1>3, <2>1, <2>2
<1>7. Agreed(all, {}, held)
  <2> SUFFICES ASSUME NEW r \in Room, \A i \in 1..(m + n) : all[i].room # r, r \in held
               PROVE  FALSE
    BY <1>3 DEF Agreed
  <2>1. PICK k \in 1..n : all[m + k].room = r
    BY <1>5
  <2> QED
    BY SMTT(60), <1>3, <2>1
<1> QED
  BY <1>3, <1>6, <1>7 DEF all

(* The sockets of the gateway, when one more or one less is up. *)
Up == {c \in Client : link[c] = "up"}

LEMMA UpCount == IsFiniteSet(Up) /\ Cardinality(Up) \in Nat
BY LinkAssumption, FS_Subset, FS_CardinalityType DEF Up
----------------------------------------------------------------------------
LEMMA NoPackets == DOMAIN <<>> = {}
OBVIOUS

LEMMA LinkInit == Init => LinkIInv
<1> SUFFICES ASSUME Init PROVE LinkIInv
  OBVIOUS
<1>1. TypeOK
  <2>1. outbox \in [Client -> Seq(Packet)]
    BY EmptySeq DEF Init
  <2>2. missed \in [Client -> [Room -> {"", "gap", "unsubscribed"}]]
    BY DEF Init
  <2>3. link \in [Client -> {"opening", "up", "down", "rejected"}]
    BY DEF Init
  <2>4. joined \in [Client -> SUBSET Room] /\ rooms \in [Client -> SUBSET Room]
    BY LinkAssumption DEF Init
  <2>5. /\ wire \in [Client -> SUBSET Room] /\ reads \in [Client -> SUBSET Room]
        /\ failed \in [Client -> SUBSET Room]
    BY DEF Init
  <2> QED
    BY <2>1, <2>2, <2>3, <2>4, <2>5 DEF Init, TypeOK
<1>2. ConnectionsCapped
  <2>1. CASE Held = {}
    <3>1. Up = {}
      BY <2>1 DEF Init, Up
    <3>2. Cardinality(Up) = 0 /\ zombies = 0
      BY <3>1, FS_EmptySet DEF Init
    <3> QED
      BY <3>2, LinkAssumption DEF ConnectionsCapped, Sockets, Up
  <2>2. CASE Held # {}
    <3>1. Up = Client
      BY <2>2 DEF Init, Up
    <3>2. Cardinality(Up) <= MaxConnections /\ Cardinality(Up) \in Nat /\ zombies = 0
      BY <2>2, <3>1, FS_CardinalityType, LinkAssumption DEF Init
    <3> QED
      BY <3>2, LinkAssumption DEF ConnectionsCapped, Sockets, Up
  <2> QED
    BY <2>1, <2>2
<1>3. ASSUME NEW c \in Client
      PROVE  RoomsOf(c) /\ ViewsOf(c)
  <2>1. /\ link[c] \in {"opening", "up"} /\ joined[c] = Held /\ outbox[c] = <<>>
        /\ rooms[c] = Held /\ wire[c] = {} /\ \A r \in Room : missed[c][r] = ""
    BY DEF Init
  <2>2. DOMAIN outbox[c] = {}
    BY <2>1, NoPackets
  <2> QED
    BY <2>1, <2>2, LinkAssumption DEF RoomsOf, ViewsOf, LastWord, Agreed
<1> QED
  BY <1>1, <1>2, <1>3 DEF LinkIInv

(* A step that leaves the sockets alone keeps the cap. *)
LEMMA CapKept ==
  ASSUME ConnectionsCapped, link' = link, zombies' = zombies
  PROVE  ConnectionsCapped'
BY DEF ConnectionsCapped, Sockets

(* The part of the invariant about a client the step does not touch. *)
LEMMA ClientKept ==
  ASSUME NEW c \in Client, RoomsOf(c), ViewsOf(c),
         link'[c] = link[c], joined'[c] = joined[c], outbox'[c] = outbox[c],
         rooms'[c] = rooms[c], wire'[c] = wire[c], reads'[c] = reads[c],
         failed'[c] = failed[c], missed'[c] = missed[c]
  PROVE  RoomsOf(c)' /\ ViewsOf(c)'
BY DEF RoomsOf, ViewsOf

LEMMA PacketTypes ==
  ASSUME NEW r \in Room
  PROVE  /\ Join(r) \in Packet /\ Join(r).op = "join" /\ Join(r).room = r
         /\ Leave(r) \in Packet /\ Leave(r).op # "join" /\ Leave(r).room = r
BY DEF Join, Leave, Packet

LEMMA AppendJoin ==
  ASSUME NEW packets \in Seq(Packet), NEW r \in Room,
         NEW held \in SUBSET Room, LastWord(packets, held)
  PROVE  /\ Append(packets, Join(r)) \in Seq(Packet)
         /\ LastWord(Append(packets, Join(r)), held \cup {r})
         /\ \A there \in SUBSET Room : Agreed(packets, there, held) =>
               Agreed(Append(packets, Join(r)), there, held \cup {r})
<1> DEFINE now == held \cup {r}
<1>1. now = IF Join(r).op = "join" THEN held \cup {Join(r).room} ELSE held \ {Join(r).room}
  BY PacketTypes
<1>2. now \in SUBSET Room /\ Join(r) \in Packet
  BY PacketTypes
<1> HIDE DEF now
<1>3. /\ Append(packets, Join(r)) \in Seq(Packet)
      /\ LastWord(Append(packets, Join(r)), now)
      /\ \A there \in SUBSET Room : Agreed(packets, there, held) =>
            Agreed(Append(packets, Join(r)), there, now)
  BY <1>1, <1>2, AppendPacket
<1> QED
  BY <1>3 DEF now

LEMMA AppendLeave ==
  ASSUME NEW packets \in Seq(Packet), NEW r \in Room,
         NEW held \in SUBSET Room, LastWord(packets, held)
  PROVE  /\ Append(packets, Leave(r)) \in Seq(Packet)
         /\ LastWord(Append(packets, Leave(r)), held \ {r})
         /\ \A there \in SUBSET Room : Agreed(packets, there, held) =>
               Agreed(Append(packets, Leave(r)), there, held \ {r})
<1> DEFINE now == held \ {r}
<1>1. now = IF Leave(r).op = "join" THEN held \cup {Leave(r).room} ELSE held \ {Leave(r).room}
  BY PacketTypes
<1>2. now \in SUBSET Room /\ Leave(r) \in Packet
  BY PacketTypes
<1> HIDE DEF now
<1>3. /\ Append(packets, Leave(r)) \in Seq(Packet)
      /\ LastWord(Append(packets, Leave(r)), now)
      /\ \A there \in SUBSET Room : Agreed(packets, there, held) =>
            Agreed(Append(packets, Leave(r)), there, now)
  BY <1>1, <1>2, AppendPacket
<1> QED
  BY <1>3 DEF now

LEMMA Counters ==
  ASSUME LinkIInv
  PROVE  zombies \in Nat /\ drops \in Nat /\ mounts \in Nat /\ changes \in Nat
BY DEF LinkIInv, TypeOK

LEMMA MountStep ==
  ASSUME LinkIInv, NEW c \in Client, NEW r \in Room, Mount(c, r)
  PROVE  LinkIInv'
<1> USE DEF LinkIInv, TypeOK
<1>1. /\ joined'[c] = joined[c] \cup {r}
      /\ outbox'[c] = Append(outbox[c], Join(r))
      /\ reads'[c] = reads[c] \cup {r}
      /\ UNCHANGED <<link, rooms, wire, failed, missed, zombies>>
  BY DEF Mount
<1>2. /\ Append(outbox[c], Join(r)) \in Seq(Packet)
      /\ LastWord(outbox'[c], joined'[c])
      /\ Agreed(outbox[c], rooms[c], joined[c]) => Agreed(outbox'[c], rooms[c], joined'[c])
  <2>1. outbox[c] \in Seq(Packet) /\ joined[c] \in SUBSET Room /\ rooms[c] \in SUBSET Room
    OBVIOUS
  <2>2. LastWord(outbox[c], joined[c])
    BY DEF RoomsOf
  <2>3. /\ Append(outbox[c], Join(r)) \in Seq(Packet)
        /\ LastWord(Append(outbox[c], Join(r)), joined[c] \cup {r})
        /\ Agreed(outbox[c], rooms[c], joined[c]) =>
              Agreed(Append(outbox[c], Join(r)), rooms[c], joined[c] \cup {r})
    BY <2>1, <2>2, AppendJoin
  <2> QED
    BY <1>1, <2>3
<1>3. TypeOK'
  <2>1. outbox' \in [Client -> Seq(Packet)]
    BY <1>2 DEF Mount
  <2>2. joined' \in [Client -> SUBSET Room] /\ reads' \in [Client -> SUBSET Room]
    BY DEF Mount
  <2>3. mounts' \in Nat
    <3> HIDE DEF LinkIInv, TypeOK
    <3> QED
      BY Counters DEF Mount
  <2>4. UNCHANGED <<link, rooms, wire, failed, missed, zombies, drops, changes>>
    BY DEF Mount
  <2> QED
    BY <2>1, <2>2, <2>3, <2>4
<1>4. RoomsOf(c)' /\ ViewsOf(c)'
  <2>1. IsFiniteSet(joined[c] \cup {r})
    BY FS_AddElement DEF RoomsOf
  <2> QED
    BY <1>1, <1>2, <2>1 DEF RoomsOf, ViewsOf
<1>5. ASSUME NEW d \in Client, d # c
      PROVE  RoomsOf(d)' /\ ViewsOf(d)'
  BY <1>5, ClientKept DEF Mount
<1> QED
  BY <1>1, <1>3, <1>4, <1>5, CapKept

LEMMA UnmountStep ==
  ASSUME LinkIInv, NEW c \in Client, NEW r \in Room, Unmount(c, r)
  PROVE  LinkIInv'
<1> USE DEF LinkIInv, TypeOK
<1>1. /\ joined'[c] = joined[c] \ {r}
      /\ outbox'[c] = Append(outbox[c], Leave(r))
      /\ wire'[c] = wire[c] \ {r} /\ reads'[c] = reads[c] \ {r}
      /\ failed'[c] = failed[c] \ {r}
      /\ missed'[c] = [missed[c] EXCEPT ![r] = ""]
      /\ UNCHANGED <<link, rooms, zombies>>
  BY DEF Unmount
<1>2. /\ Append(outbox[c], Leave(r)) \in Seq(Packet)
      /\ LastWord(outbox'[c], joined'[c])
      /\ Agreed(outbox[c], rooms[c], joined[c]) => Agreed(outbox'[c], rooms[c], joined'[c])
  <2>1. outbox[c] \in Seq(Packet) /\ joined[c] \in SUBSET Room /\ rooms[c] \in SUBSET Room
    OBVIOUS
  <2>2. LastWord(outbox[c], joined[c])
    BY DEF RoomsOf
  <2>3. /\ Append(outbox[c], Leave(r)) \in Seq(Packet)
        /\ LastWord(Append(outbox[c], Leave(r)), joined[c] \ {r})
        /\ Agreed(outbox[c], rooms[c], joined[c]) =>
              Agreed(Append(outbox[c], Leave(r)), rooms[c], joined[c] \ {r})
    BY <2>1, <2>2, AppendLeave
  <2> QED
    BY <1>1, <2>3
<1>3. TypeOK'
  BY <1>2 DEF Unmount
<1>4. RoomsOf(c)' /\ ViewsOf(c)'
  <2>3. IsFiniteSet(joined[c])
    BY DEF RoomsOf
  <2>1. IsFiniteSet(joined[c] \ {r})
    BY <2>3, FS_RemoveElement
  <2>4. missed[c] \in [Room -> {"", "gap", "unsubscribed"}] /\ missed'[c] = [missed[c] EXCEPT ![r] = ""]
    BY <1>1
  <2>2. \A q \in Room : missed'[c][q] = IF q = r THEN "" ELSE missed[c][q]
    BY <2>4
  <2> QED
    BY <1>1, <1>2, <2>1, <2>2 DEF RoomsOf, ViewsOf
<1>5. ASSUME NEW d \in Client, d # c
      PROVE  RoomsOf(d)' /\ ViewsOf(d)'
  BY <1>5, ClientKept DEF Unmount
<1> QED
  BY ZenonT(60), <1>1, <1>3, <1>4, <1>5, CapKept
LEMMA ConnectStep ==
  ASSUME LinkIInv, NEW c \in Client, Connect(c)
  PROVE  LinkIInv'
<1> USE DEF LinkIInv, TypeOK
<1>1. /\ link[c] = "opening" /\ link'[c] \in {"up", "rejected"}
      /\ \A d \in Client \ {c} : link'[d] = link[d]
      /\ UNCHANGED <<joined, outbox, rooms, wire, reads, failed, missed, zombies>>
  BY DEF Connect
<1>2. TypeOK'
  BY DEF Connect
<1>3. ConnectionsCapped'
  <2> HIDE DEF LinkIInv, TypeOK
  <2> ConnectionsCapped
    BY DEF LinkIInv
  <2>1. CASE OverCap(Sockets + 1)
    <3>1. Up' = Up
      BY <1>1, <2>1 DEF Connect, Up
    <3> QED
      BY <1>1, <3>1 DEF ConnectionsCapped, Sockets, Up
  <2>2. CASE ~OverCap(Sockets + 1)
    <3>1. Up' = Up \cup {c} /\ c \notin Up
      BY <1>1, <2>2 DEF Connect, Up
    <3>2. Cardinality(Up') = Cardinality(Up) + 1
      BY <3>1, UpCount, FS_AddElement
    <3>3. Sockets = Cardinality(Up) + zombies /\ Sockets' = Cardinality(Up') + zombies'
      BY DEF Sockets, Up
    <3>4. Cardinality(Up) \in Nat /\ zombies \in Nat /\ MaxConnections \in Nat
      BY UpCount, Counters, LinkAssumption
    <3>5. Cardinality(Up) + zombies + 1 <= MaxConnections
      BY <2>2, <3>3, <3>4 DEF OverCap
    <3> QED
      BY <1>1, <3>2, <3>3, <3>4, <3>5 DEF ConnectionsCapped
  <2> QED
    BY <2>1, <2>2
<1>4. RoomsOf(c)' /\ ViewsOf(c)'
  BY <1>1 DEF RoomsOf, ViewsOf
<1>5. ASSUME NEW d \in Client, d # c
      PROVE  RoomsOf(d)' /\ ViewsOf(d)'
  BY <1>1, <1>5, ClientKept
<1> QED
  BY <1>2, <1>3, <1>4, <1>5

LEMMA DeliverStep ==
  ASSUME LinkIInv, NEW c \in Client, DeliverPacket(c)
  PROVE  LinkIInv'
<1> USE DEF LinkIInv, TypeOK
<1> DEFINE p == Head(outbox[c])
           now == IF p.op = "join" THEN rooms[c] \cup {p.room} ELSE rooms[c] \ {p.room}
<1>1. /\ link[c] = "up" /\ rooms'[c] = now /\ outbox'[c] = Tail(outbox[c])
      /\ \A d \in Client \ {c} : rooms'[d] = rooms[d] /\ outbox'[d] = outbox[d]
      /\ UNCHANGED <<link, joined, wire, reads, failed, missed, zombies>>
  BY DEF DeliverPacket
<1>2. outbox[c] \in Seq(Packet) /\ outbox[c] # <<>>
  BY DEF DeliverPacket
<1>3. p \in Packet
  BY <1>2, HeadTailProperties
<1>4. now \in SUBSET Room
  BY <1>3 DEF Packet
<1>5. rooms' = [rooms EXCEPT ![c] = now] /\ outbox' = [outbox EXCEPT ![c] = Tail(outbox[c])]
  BY DEF DeliverPacket
<1>6. /\ Tail(outbox[c]) \in Seq(Packet)
      /\ LastWord(Tail(outbox[c]), joined[c])
      /\ Agreed(Tail(outbox[c]), now, joined[c])
  <2>1. LastWord(outbox[c], joined[c]) /\ Agreed(outbox[c], rooms[c], joined[c])
    BY <1>1 DEF RoomsOf
  <2>2. joined[c] \in SUBSET Room /\ rooms[c] \in SUBSET Room
    OBVIOUS
  <2> QED
    BY <1>2, <1>4, <2>1, <2>2, DeliverHead
<1> HIDE DEF now, p
<1>7. TypeOK'
  <2>1. outbox' \in [Client -> Seq(Packet)] /\ rooms' \in [Client -> SUBSET Room]
    BY <1>4, <1>5, <1>6
  <2> QED
    BY <2>1 DEF DeliverPacket
<1>8. RoomsOf(c)' /\ ViewsOf(c)'
  BY <1>1, <1>6 DEF RoomsOf, ViewsOf
<1>9. ASSUME NEW d \in Client, d # c
      PROVE  RoomsOf(d)' /\ ViewsOf(d)'
  BY <1>1, <1>9, ClientKept
<1> QED
  BY <1>1, <1>7, <1>8, <1>9, CapKept

LEMMA DropStep ==
  ASSUME LinkIInv, NEW c \in Client, Drop(c)
  PROVE  LinkIInv'
<1> USE DEF LinkIInv, TypeOK
<1>1. /\ link[c] = "up" /\ link'[c] = "down" /\ rooms'[c] = {} /\ outbox'[c] = <<>>
      /\ wire'[c] = {} /\ zombies' = zombies + 1
      /\ \A r \in Room : missed'[c][r] = IF r \in wire[c] THEN "gap" ELSE missed[c][r]
      /\ UNCHANGED <<joined, reads, failed>>
  BY DEF Drop
<1>2. TypeOK'
  <2>1. outbox' \in [Client -> Seq(Packet)]
    BY EmptySeq DEF Drop
  <2>2. missed' \in [Client -> [Room -> {"", "gap", "unsubscribed"}]]
    BY DEF Drop
  <2>3. /\ link' \in [Client -> {"opening", "up", "down", "rejected"}]
        /\ rooms' \in [Client -> SUBSET Room] /\ wire' \in [Client -> SUBSET Room]
    BY DEF Drop
  <2>4. drops' \in Nat /\ zombies' \in Nat
    <3> HIDE DEF LinkIInv, TypeOK
    <3> QED
      BY Counters DEF Drop
  <2>5. UNCHANGED <<joined, reads, failed, mounts, changes>>
    BY DEF Drop
  <2> QED
    BY <2>1, <2>2, <2>3, <2>4, <2>5
<1>3. ConnectionsCapped'
  <2> HIDE DEF LinkIInv, TypeOK
  <2> ConnectionsCapped
    BY DEF LinkIInv
  <2>1. Up' = Up \ {c} /\ c \in Up
    BY <1>1 DEF Drop, Up
  <2>2. Cardinality(Up') = Cardinality(Up) - 1
    BY <2>1, UpCount, FS_RemoveElement
  <2>3. Sockets = Cardinality(Up) + zombies /\ Sockets' = Cardinality(Up') + zombies'
    BY DEF Sockets, Up
  <2>4. Cardinality(Up) \in Nat /\ zombies \in Nat /\ MaxConnections \in Nat
    BY UpCount, Counters, LinkAssumption
  <2> QED
    BY <1>1, <2>2, <2>3, <2>4 DEF ConnectionsCapped
<1>4. RoomsOf(c)' /\ ViewsOf(c)'
  <2>1. DOMAIN outbox'[c] = {}
    BY <1>1, NoPackets
  <2> QED
    BY <1>1, <2>1 DEF RoomsOf, ViewsOf, LastWord
<1>5. ASSUME NEW d \in Client, d # c
      PROVE  RoomsOf(d)' /\ ViewsOf(d)'
  BY <1>5, ClientKept DEF Drop
<1> QED
  BY <1>2, <1>3, <1>4, <1>5

LEMMA ReapStep ==
  ASSUME LinkIInv, Reap
  PROVE  LinkIInv'
<1> USE DEF LinkIInv, TypeOK
<1>1. /\ zombies' = zombies - 1 /\ zombies \in Nat \ {0} /\ zombies' \in Nat
      /\ UNCHANGED <<link, joined, outbox, rooms, wire, reads, failed, missed, drops, mounts, changes>>
  <2> HIDE DEF LinkIInv, TypeOK
  <2> QED
    BY Counters DEF Reap
<1>2. ConnectionsCapped'
  <2> HIDE DEF LinkIInv, TypeOK
  <2> ConnectionsCapped
    BY DEF LinkIInv
  <2>1. Sockets = Cardinality(Up) + zombies /\ Sockets' = Cardinality(Up) + zombies'
    BY <1>1 DEF Sockets, Up
  <2>2. Cardinality(Up) \in Nat /\ MaxConnections \in Nat
    BY UpCount, LinkAssumption
  <2> QED
    BY <1>1, <2>1, <2>2 DEF ConnectionsCapped
<1>3. ASSUME NEW d \in Client
      PROVE  RoomsOf(d)' /\ ViewsOf(d)'
  BY <1>1, ClientKept
<1> QED
  BY <1>1, <1>2, <1>3
LEMMA ReconnectStep ==
  ASSUME LinkIInv, NEW c \in Client, Reconnect(c)
  PROVE  LinkIInv'
<1> USE DEF LinkIInv, TypeOK
<1>1. PICK s \in Rejoins(c) : outbox' = [outbox EXCEPT ![c] = @ \o s]
  BY DEF Reconnect
<1>2. /\ link[c] = "down" /\ link'[c] = "opening" /\ outbox'[c] = outbox[c] \o s
      /\ reads'[c] = joined[c]
      /\ UNCHANGED <<joined, rooms, wire, missed, zombies>>
  BY <1>1 DEF Reconnect
<1>3. /\ outbox[c] \o s \in Seq(Packet)
      /\ LastWord(outbox[c] \o s, joined[c])
      /\ Agreed(outbox[c] \o s, {}, joined[c])
  <2>1. /\ outbox[c] \in Seq(Packet) /\ joined[c] \in SUBSET Room
        /\ LastWord(outbox[c], joined[c])
    BY DEF RoomsOf
  <2>2. Cardinality(joined[c]) \in Nat
    BY FS_CardinalityType DEF RoomsOf
  <2>3. /\ s \in [1..Cardinality(joined[c]) -> {Join(r) : r \in joined[c]}]
        /\ \A r \in joined[c] : \E i \in DOMAIN s : s[i] = Join(r)
    BY <1>1 DEF Rejoins
  <2> QED
    BY <2>1, <2>2, <2>3, RejoinAll
<1>4. TypeOK'
  <2>1. outbox' \in [Client -> Seq(Packet)]
    BY <1>1, <1>3
  <2> QED
    BY <2>1 DEF Reconnect
<1>5. ConnectionsCapped'
  <2>1. Up' = Up
    BY DEF Reconnect, Up
  <2> QED
    BY <1>2, <2>1 DEF ConnectionsCapped, Sockets, Up
<1>6. RoomsOf(c)' /\ ViewsOf(c)'
  BY <1>2, <1>3 DEF RoomsOf, ViewsOf
<1>7. ASSUME NEW d \in Client, d # c
      PROVE  RoomsOf(d)' /\ ViewsOf(d)'
  BY <1>1, <1>7, ClientKept DEF Reconnect
<1> QED
  BY <1>4, <1>5, <1>6, <1>7

LEMMA ServeReadStep ==
  ASSUME LinkIInv, NEW c \in Client, NEW r \in Room, ServeRead(c, r)
  PROVE  LinkIInv'
<1> USE DEF LinkIInv, TypeOK
<1>1. /\ reads'[c] = reads[c] \ {r} /\ failed'[c] = failed[c] \ {r}
      /\ \A q \in Room : missed'[c][q] = IF q = r THEN "" ELSE missed[c][q]
      /\ UNCHANGED <<link, joined, outbox, rooms, wire, zombies>>
  BY DEF ServeRead
<1>2. TypeOK'
  BY DEF ServeRead
<1>3. RoomsOf(c)' /\ ViewsOf(c)'
  BY <1>1 DEF RoomsOf, ViewsOf
<1>4. ASSUME NEW d \in Client, d # c
      PROVE  RoomsOf(d)' /\ ViewsOf(d)'
  BY <1>4, ClientKept DEF ServeRead
<1> QED
  BY <1>1, <1>2, <1>3, <1>4, CapKept

LEMMA FailReadStep ==
  ASSUME LinkIInv, NEW c \in Client, NEW r \in Room, FailRead(c, r)
  PROVE  LinkIInv'
<1> USE DEF LinkIInv, TypeOK
<1>1. /\ reads'[c] = reads[c] \ {r} /\ failed'[c] = failed[c] \cup {r}
      /\ UNCHANGED <<link, joined, outbox, rooms, wire, missed, zombies>>
  BY DEF FailRead
<1>2. TypeOK'
  BY DEF FailRead
<1>3. RoomsOf(c)' /\ ViewsOf(c)'
  BY <1>1 DEF RoomsOf, ViewsOf
<1>4. ASSUME NEW d \in Client, d # c
      PROVE  RoomsOf(d)' /\ ViewsOf(d)'
  BY <1>4, ClientKept DEF FailRead
<1> QED
  BY <1>1, <1>2, <1>3, <1>4, CapKept

(* A change is missed by the views it does not reach, as a gap only while   *)
(* their connection is down.                                                *)
LEMMA ChangeStep ==
  ASSUME LinkIInv, NEW r \in Room, Change(r)
  PROVE  LinkIInv'
<1> USE DEF LinkIInv, TypeOK
<1>1. ASSUME NEW c \in Client
      PROVE  /\ wire'[c] \in SUBSET Room /\ wire'[c] \subseteq joined[c]
             /\ MissedAfter(c, r) \in {"", "gap", "unsubscribed"}
             /\ MissedAfter(c, r) # "" => r \in joined[c]
             /\ MissedAfter(c, r) = "gap" => missed[c][r] = "gap" \/ link[c] = "down"
  <2>1. wire'[c] \in SUBSET Room /\ wire'[c] \subseteq joined[c]
    BY <1>1 DEF Change, ViewsOf
  <2>2. missed[c][r] \in {"", "gap", "unsubscribed"} /\ (missed[c][r] # "" => r \in joined[c])
    BY <1>1 DEF ViewsOf
  <2> QED
    BY <2>1, <2>2 DEF MissedAfter
<1>2. \A c \in Client, q \in Room :
         missed'[c][q] = IF q = r THEN MissedAfter(c, r) ELSE missed[c][q]
  BY DEF Change
<1>3. TypeOK'
  <2>1. wire' \in [Client -> SUBSET Room]
    BY <1>1 DEF Change
  <2>2. missed' \in [Client -> [Room -> {"", "gap", "unsubscribed"}]]
    BY <1>1 DEF Change
  <2>3. changes' \in Nat
    <3> HIDE DEF LinkIInv, TypeOK
    <3> QED
      BY Counters DEF Change
  <2>4. UNCHANGED <<link, joined, outbox, rooms, reads, failed, zombies, drops, mounts>>
    BY DEF Change
  <2> QED
    BY <2>1, <2>2, <2>3, <2>4
<1>4. ASSUME NEW c \in Client
      PROVE  RoomsOf(c)' /\ ViewsOf(c)'
  <2>1. UNCHANGED <<link, joined, outbox, rooms, reads, failed>>
    BY DEF Change
  <2>2. RoomsOf(c)'
    BY <1>4, <2>1 DEF RoomsOf
  <2>3. ViewsOf(c)'
    BY ZenonT(60), <1>1, <1>2, <1>4, <2>1 DEF ViewsOf
  <2> QED
    BY <2>2, <2>3
<1>5. ConnectionsCapped'
  BY CapKept DEF Change
<1> QED
  BY <1>3, <1>4, <1>5

LEMMA ReceiveStep ==
  ASSUME LinkIInv, NEW c \in Client, NEW r \in Room, Receive(c, r)
  PROVE  LinkIInv'
<1> USE DEF LinkIInv, TypeOK
<1>1. /\ wire'[c] = wire[c] \ {r}
      /\ UNCHANGED <<link, joined, outbox, rooms, reads, failed, missed, zombies>>
  BY DEF Receive
<1>2. TypeOK'
  BY DEF Receive
<1>3. RoomsOf(c)' /\ ViewsOf(c)'
  BY <1>1 DEF RoomsOf, ViewsOf
<1>4. ASSUME NEW d \in Client, d # c
      PROVE  RoomsOf(d)' /\ ViewsOf(d)'
  BY <1>4, ClientKept DEF Receive
<1> QED
  BY <1>1, <1>2, <1>3, <1>4, CapKept

LEMMA LinkNext == LinkIInv /\ [Next]_vars => LinkIInv'
<1> SUFFICES ASSUME LinkIInv, [Next]_vars PROVE LinkIInv'
  OBVIOUS
<1>1. CASE UNCHANGED vars
  BY <1>1 DEF LinkIInv, TypeOK, ConnectionsCapped, Sockets, RoomsOf, ViewsOf, vars
<1>2. CASE \E c \in Client : Recovery(c) \/ Drop(c)
  BY <1>2, ConnectStep, DeliverStep, ReconnectStep, DropStep DEF Recovery
<1>3. CASE \E c \in Client, r \in Room :
              \/ Mount(c, r) \/ Unmount(c, r)
              \/ ServeRead(c, r) \/ FailRead(c, r) \/ Receive(c, r)
  BY <1>3, MountStep, UnmountStep, ServeReadStep, FailReadStep, ReceiveStep
<1>4. CASE \E r \in Room : Change(r)
  BY <1>4, ChangeStep
<1>5. CASE Reap
  BY <1>5, ReapStep
<1> QED
  BY <1>1, <1>2, <1>3, <1>4, <1>5 DEF Next

(* With nothing left to send there is no last word but the gateway's own    *)
(* rooms, which agree.                                                      *)
LEMMA LinkIInvImplies == LinkIInv => LinkInv /\ GapIsRead
<1> SUFFICES ASSUME LinkIInv PROVE LinkInv /\ GapIsRead
  OBVIOUS
<1>1. GapIsRead
  BY DEF LinkIInv, ViewsOf, GapIsRead
<1>2. SubscriptionsRestored
  <2> SUFFICES ASSUME NEW c \in Client, link[c] = "up", outbox[c] = <<>>
               PROVE  rooms[c] = joined[c]
    BY DEF SubscriptionsRestored
  <2>1. Agreed(<<>>, rooms[c], joined[c])
    BY DEF LinkIInv, RoomsOf
  <2>2. \A r \in Room : r \in rooms[c] <=> r \in joined[c]
    BY <2>1, NoPackets DEF Agreed
  <2>3. rooms[c] \subseteq Room /\ joined[c] \subseteq Room
    BY DEF LinkIInv, TypeOK
  <2> QED
    BY <2>2, <2>3
<1> QED
  BY <1>1, <1>2 DEF LinkInv, LinkIInv

(* The connections at every moment: the cap of the gateway is kept, and a   *)
(* connection that has sent what it had to is in exactly the rooms its      *)
(* views hold (handleConnection, handleReconnect), whatever was mounted,    *)
(* left, dropped and refused meanwhile.                                     *)
THEOREM LinkConnections == Spec => []LinkInv
<1> QED
  BY LinkInit, LinkNext, LinkIInvImplies, PTL DEF Spec

(* A view that lacks a change made while its connection was down has its    *)
(* read under way as soon as the socket is back (realtime:reconnected), or  *)
(* that read has failed and a toast has said so: no gap is passed over in   *)
(* silence.                                                                 *)
THEOREM LinkGapIsRead == Spec => []GapIsRead
<1> QED
  BY LinkInit, LinkNext, LinkIInvImplies, PTL DEF Spec

----------------------------------------------------------------------------
(* A read in flight, and an entry of a timeline: a task and its trail's place. *)
Call == [kind : {"task", "history"}, task : Task, after : Nat, upTo : Nat]

(* An entry of a timeline: its task, and its place in the trail. *)
Entry == Task \X Nat

(* Calls for a page of the history; the last of them on the queue. *)
IsPage(call) == call.kind = "history"

(* No page of the timeline is in flight. *)
NoPage(q) == \A i \in 1..Len(q) : ~IsPage(q[i])

(* Call i is the last page in flight. *)
LastPage(q, i) ==
    /\ i \in 1..Len(q) /\ IsPage(q[i])
    /\ \A j \in 1..Len(q) : j > i => ~IsPage(q[j])

(* A copy shows a version its task's trail has had. *)
Served(tr, c) == c.task \in Task /\ c.upTo \in 1..Len(tr[c.task])

(* Every entry of a trail has its transaction's own time. *)
Timed(tr, be) ==
    /\ be \in [Task -> Seq(Nat)]
    /\ \A t \in Task :
          /\ Len(be[t]) = Len(tr[t])
          /\ \A m \in 1..Len(tr[t]) : be[t][m] # 0
          /\ \A m, n \in 1..Len(tr[t]) : be[t][m] = be[t][n] => m = n

(* The state is typed, and nothing held or answered is ahead of its trail. *)
Types(tr, be, sh, cp, it, nx, q) ==
    /\ tr \in [Task -> Seq(Nat)] /\ \A t \in Task : Len(tr[t]) > 0
    /\ Timed(tr, be)
    /\ sh \in Task \cup {NoTask}
    /\ cp = NoCopy \/ (cp \in [task : Task, upTo : Nat] /\ Served(tr, cp))
    /\ it \in Seq(Entry) /\ nx \in Nat
    /\ \A i \in 1..Len(it) : it[i][2] \in 1..Len(tr[it[i][1]])
    /\ q \in Seq(Call)
    /\ \A i \in 1..Len(q) : q[i].upTo <= Len(tr[q[i].task])

(* When the transaction of a timeline's entry began. *)
TimeOf(be, entry) == be[entry[1]][entry[2]]

(* The timeline holds entry n of task t. *)
Has(it, t, n) == \E i \in 1..Len(it) : it[i] = <<t, n>>

(* The cursor is where the timeline ends, and a page after the first is    *)
(* asked for from there, behind no other page: LoadMore's guard.           *)
Cursor(be, it, nx, q) ==
    /\ nx # 0 => it # <<>> /\ nx = TimeOf(be, it[Len(it)])
    /\ \A i \in 1..Len(q) : (IsPage(q[i]) /\ q[i].after # 0) =>
          q[i].after = nx /\ \A j \in 1..Len(q) : j < i => ~IsPage(q[j])

(* The timeline is of one task and in order of time. *)
InOrder(be, it) ==
    \A i, j \in 1..Len(it) :
        /\ it[i][1] = it[j][1]
        /\ i < j => TimeOf(be, it[i]) < TimeOf(be, it[j])

(* What is missing before an entry of it came late. *)
OnlyLate(tr, be, it) ==
    \A i \in 1..Len(it) : \A n \in 1..Len(tr[it[i][1]]) :
        (be[it[i][1]][n] < TimeOf(be, it[i]) /\ ~Has(it, it[i][1], n)) =>
            \E j \in 1..Len(it) : be[it[i][1]][n] < TimeOf(be, it[j]) /\ it[j][2] < n

Whole(tr, be, it) == InOrder(be, it) /\ OnlyLate(tr, be, it)

(* Pages that append are of the timeline's task, and once the last page in *)
(* flight is taken the timeline is of the task the drawer shows.           *)
OfShown(sh, cp, it, nx, q) ==
    /\ cp = NoCopy => it = <<>> /\ nx = 0 /\ NoPage(q)
    /\ \A i \in 1..Len(q) : (IsPage(q[i]) /\ q[i].after # 0) => q[i].task = it[1][1]
    /\ (sh # NoTask /\ cp # NoCopy) =>
          /\ \A i : LastPage(q, i) => q[i].task = sh
          /\ NoPage(q) => it # <<>> /\ it[1][1] = sh

(* Without moves back a trail counts up, and only a close ends it. *)
Counted(tr) ==
    \A t \in Task : \A i \in 1..Len(tr[t]) :
        tr[t][i] = i \/ (tr[t][i] = 0 /\ i = Len(tr[t]))

(* Answers come in the order of the calls and never tell less than earlier ones. *)
InStep(q) ==
    \A i, j \in 1..Len(q) : (i < j /\ q[j].upTo # 0) =>
        /\ q[i].upTo # 0
        /\ q[i].task = q[j].task => q[i].upTo <= q[j].upTo

(* A read of the task, and a page that is asked for after it. *)
OfTask(q, i, t) == i \in 1..Len(q) /\ ~IsPage(q[i]) /\ q[i].task = t

(* The first page is asked for after call i. *)
PagedAfter(q, i) == \E k \in 1..Len(q) : k > i /\ IsPage(q[k]) /\ q[k].after = 0

(* No page in flight is a first one. *)
Rest(q) == \A i \in 1..Len(q) : IsPage(q[i]) => q[i].after # 0

(* Every entry the copy reflects is in the timeline, or behind its cursor. *)
Offers(be, it, nx, cp) ==
    \A n \in 1..cp.upTo : Has(it, cp.task, n) \/ (nx # 0 /\ nx < be[cp.task][n])

(* What is still in flight brings the drawer up to its task: a copy of      *)
(* another task is followed by a read of the shown one with a page behind  *)
(* it, and the last page in flight reaches what the copy reflects, or the   *)
(* timeline and the pages behind its cursor do.                             *)
Follows(be, sh, cp, it, nx, q) ==
    sh # NoTask =>
       IF cp = NoCopy
       THEN Len(q) > 0 /\ q[Len(q)].task = sh
       ELSE /\ cp.task # sh => \E j \in 1..Len(q) : OfTask(q, j, sh) /\ PagedAfter(q, j)
            /\ \A i \in 1..Len(q) : (~IsPage(q[i]) /\ q[i].task # sh) =>
                  \E j \in 1..Len(q) : j > i /\ OfTask(q, j, sh) /\ PagedAfter(q, j)
            /\ cp.task = sh =>
                  /\ \A i : LastPage(q, i) => q[i].upTo = 0 \/ q[i].upTo >= cp.upTo
                  /\ Rest(q) => Offers(be, it, nx, cp)

(* What holds under each setting: the cursor whenever answers keep their   *)
(* order and no other call re-enables the control, the whole timeline when *)
(* no call fails, and its keeping up when no task moves back either.       *)
Facts(se, tr, be, sh, cp, it, nx, q) ==
    /\ Types(tr, be, sh, cp, it, nx, q)
    /\ Cursor(be, it, nx, q)
    /\ se.reliable => Whole(tr, be, it) /\ OfShown(sh, cp, it, nx, q)
    /\ se = Calm => Counted(tr) /\ InStep(q) /\ Follows(be, sh, cp, it, nx, q)

(* The inductive invariant of the drawer's timeline. *)
HistoryIInv ==
    /\ setting \in Settings
    /\ (setting.fifo /\ setting.flag) =>
          Facts(setting, trail, began, shown, copy, items, next, calls)

(* The facts before a step, and after it. *)
FactsHold == Facts(setting, trail, began, shown, copy, items, next, calls)

FactsKept == Facts(setting, trail', began', shown', copy', items', next', calls')
----------------------------------------------------------------------------
(* The queue of calls: what it is after one joins at the end, or the first  *)
(* leaves.                                                                  *)
LEMMA Joins ==
  ASSUME NEW S, NEW q \in Seq(S), NEW c \in S
  PROVE  \E p \in Seq(S) :
            /\ p = q \o <<c>> /\ Len(p) = Len(q) + 1
            /\ \A i \in 1..Len(q) : p[i] = q[i]
            /\ p[Len(q) + 1] = c
<1>1. <<c>> \in Seq(S) /\ Len(<<c>>) = 1 /\ <<c>>[1] = c
  OBVIOUS
<1>2. PICK r \in Seq(S) : r = <<c>>
  BY <1>1
<1>3. /\ q \o r \in Seq(S) /\ Len(q \o r) = Len(q) + Len(r)
      /\ \A i \in 1 .. Len(q) + Len(r) : (q \o r)[i] = IF i <= Len(q) THEN q[i] ELSE r[i - Len(q)]
  BY ConcatProperties
<1>4. Len(q) \in Nat /\ Len(r) = 1 /\ r[1] = c
  BY <1>1, <1>2
<1>5. \A i \in 1..Len(q) : (q \o r)[i] = q[i]
  BY <1>3, <1>4
<1>6. (q \o r)[Len(q) + 1] = c
  BY <1>3, <1>4
<1> QED
  BY <1>2, <1>3, <1>4, <1>5, <1>6

LEMMA CallJoins ==
  ASSUME NEW q \in Seq(Call), NEW c \in Call
  PROVE  \E p \in Seq(Call) :
            /\ p = q \o <<c>> /\ Len(p) = Len(q) + 1
            /\ \A i \in 1..Len(q) : p[i] = q[i]
            /\ p[Len(q) + 1] = c
BY ZenonT(60), Joins

LEMMA Leaves ==
  ASSUME NEW S, NEW q \in Seq(S), 1 \in DOMAIN q
  PROVE  /\ Len(q) \in Nat /\ Len(q) >= 1
         /\ RemoveAt(q, 1) \in Seq(S) /\ Len(RemoveAt(q, 1)) = Len(q) - 1
         /\ \A i \in 1..(Len(q) - 1) : RemoveAt(q, 1)[i] = q[i + 1]
<1> DEFINE n == Len(q)
<1>1. n \in Nat /\ n >= 1 /\ q # <<>>
  OBVIOUS
<1>2. SubSeq(q, 1, 1 - 1) = <<>>
  BY SubSeqEmpty
<1>3. Tail(q) = SubSeq(q, 1 + 1, Len(q))
  BY <1>1, TailIsSubSeq
<1>4. Tail(q) \in Seq(S) /\ Len(Tail(q)) = n - 1 /\ \A i \in 1 .. (n - 1) : Tail(q)[i] = q[i + 1]
  BY <1>1, HeadTailProperties
<1>5. <<>> \o Tail(q) = Tail(q)
  BY <1>4, ConcatEmptySeq
<1>6. RemoveAt(q, 1) = Tail(q)
  BY <1>2, <1>3, <1>5 DEF RemoveAt
<1> QED
  BY <1>1, <1>4, <1>6
----------------------------------------------------------------------------
(* A call joins. *)
LEMMA JoinTypes ==
  ASSUME NEW tr, NEW be, NEW sh, NEW cp, NEW it, NEW nx, NEW q, NEW c \in Call,
         Types(tr, be, sh, cp, it, nx, q), c.upTo = 0
  PROVE  Types(tr, be, sh, cp, it, nx, q \o <<c>>)
<1>1. q \in Seq(Call)
  BY DEF Types
<1>2. PICK p \in Seq(Call) :
        /\ p = q \o <<c>> /\ Len(p) = Len(q) + 1
        /\ \A i \in 1..Len(q) : p[i] = q[i]
        /\ p[Len(q) + 1] = c
  BY <1>1, CallJoins
<1>3. Len(q) \in Nat /\ c.task \in Task /\ Len(tr[c.task]) \in Nat
  BY <1>1 DEF Types, Call
<1>4. \A i \in 1..Len(p) : p[i].upTo <= Len(tr[p[i].task])
  BY <1>1, <1>2, <1>3 DEF Types
<1> QED
  BY <1>2, <1>4 DEF Types

LEMMA JoinCursor ==
  ASSUME NEW be, NEW it, NEW nx, NEW q \in Seq(Call), NEW c \in Call, Cursor(be, it, nx, q),
         IsPage(c) => c.after = 0 \/ (c.after = nx /\ NoPage(q))
  PROVE  Cursor(be, it, nx, q \o <<c>>)
<1>1. PICK p \in Seq(Call) :
        /\ p = q \o <<c>> /\ Len(p) = Len(q) + 1
        /\ \A i \in 1..Len(q) : p[i] = q[i]
        /\ p[Len(q) + 1] = c
  BY CallJoins
<1>2. Len(q) \in Nat
  OBVIOUS
<1>3. ASSUME NEW i \in 1..Len(p), IsPage(p[i]), p[i].after # 0
      PROVE  p[i].after = nx /\ \A j \in 1..Len(p) : j < i => ~IsPage(p[j])
  <2>1. CASE i \in 1..Len(q)
    BY <1>1, <1>2, <1>3, <2>1 DEF Cursor
  <2>2. CASE i = Len(q) + 1
    BY <1>1, <1>2, <1>3, <2>2 DEF NoPage
  <2> QED
    BY <1>1, <1>2, <2>1, <2>2
<1> QED
  BY <1>1, <1>3 DEF Cursor

LEMMA JoinOfShown ==
  ASSUME NEW sh0, NEW sh, NEW cp, NEW it, NEW nx, NEW q \in Seq(Call), NEW c \in Call,
         OfShown(sh0, cp, it, nx, q),
         IsPage(c) => /\ cp # NoCopy /\ c.task = sh
                      /\ c.after # 0 => c.task = it[1][1],
         ~IsPage(c) => sh = sh0 \/ cp = NoCopy
  PROVE  OfShown(sh, cp, it, nx, q \o <<c>>)
<1>1. PICK p \in Seq(Call) :
        /\ p = q \o <<c>> /\ Len(p) = Len(q) + 1
        /\ \A i \in 1..Len(q) : p[i] = q[i]
        /\ p[Len(q) + 1] = c
  BY CallJoins
<1>2. Len(q) \in Nat
  OBVIOUS
<1>3. cp = NoCopy => it = <<>> /\ nx = 0 /\ NoPage(p)
  BY <1>1, <1>2 DEF OfShown, NoPage
<1>4. ASSUME NEW i \in 1..Len(p), IsPage(p[i]), p[i].after # 0
      PROVE  p[i].task = it[1][1]
  BY <1>1, <1>2, <1>4 DEF OfShown
<1>5. ASSUME sh # NoTask, cp # NoCopy
      PROVE  /\ \A i : LastPage(p, i) => p[i].task = sh
             /\ NoPage(p) => it # <<>> /\ it[1][1] = sh
  <2>1. CASE IsPage(c)
    BY <1>1, <1>2, <1>5, <2>1 DEF LastPage, NoPage
  <2>2. CASE ~IsPage(c)
    <3>1. sh = sh0
      BY <1>5, <2>2
    <3>2. ASSUME NEW i, LastPage(p, i)
          PROVE  LastPage(q, i) /\ p[i] = q[i]
      BY <1>1, <1>2, <2>2, <3>2 DEF LastPage
    <3>3. NoPage(p) => NoPage(q)
      BY <1>1, <1>2 DEF NoPage
    <3> QED
      BY <1>5, <3>1, <3>2, <3>3 DEF OfShown
  <2> QED
    BY <2>1, <2>2
<1> QED
  BY <1>1, <1>3, <1>4, <1>5 DEF OfShown

LEMMA JoinInStep ==
  ASSUME NEW q \in Seq(Call), NEW c \in Call, InStep(q), c.upTo = 0
  PROVE  InStep(q \o <<c>>)
<1>1. PICK p \in Seq(Call) :
        /\ p = q \o <<c>> /\ Len(p) = Len(q) + 1
        /\ \A i \in 1..Len(q) : p[i] = q[i]
        /\ p[Len(q) + 1] = c
  BY CallJoins
<1>2. Len(q) \in Nat
  OBVIOUS
<1>3. ASSUME NEW i \in 1..Len(p), NEW j \in 1..Len(p), i < j, p[j].upTo # 0
      PROVE  p[i].upTo # 0 /\ (p[i].task = p[j].task => p[i].upTo <= p[j].upTo)
  BY <1>1, <1>2, <1>3 DEF InStep
<1> QED
  BY <1>1, <1>3 DEF InStep

(* A first page joins for the shown task: it will show all there is. *)
LEMMA JoinPageFollows ==
  ASSUME NEW be, NEW sh, NEW cp, NEW it, NEW nx, NEW q \in Seq(Call), NEW c \in Call,
         IsPage(c), c.upTo = 0, c.after = 0, cp # NoCopy,
         cp.task # sh => \E j \in 1..Len(q) : OfTask(q, j, sh),
         \A i \in 1..Len(q) : (~IsPage(q[i]) /\ q[i].task # sh) =>
             \E j \in 1..Len(q) : j > i /\ OfTask(q, j, sh)
  PROVE  Follows(be, sh, cp, it, nx, q \o <<c>>)
<1>1. PICK p \in Seq(Call) :
        /\ p = q \o <<c>> /\ Len(p) = Len(q) + 1
        /\ \A i \in 1..Len(q) : p[i] = q[i]
        /\ p[Len(q) + 1] = c
  BY CallJoins
<1>2. Len(q) \in Nat
  OBVIOUS
<1>3. ASSUME NEW j \in 1..Len(q), OfTask(q, j, sh)
      PROVE  j \in 1..Len(p) /\ OfTask(p, j, sh) /\ PagedAfter(p, j)
  BY <1>1, <1>2, <1>3 DEF OfTask, PagedAfter
<1>4. cp.task # sh => \E j \in 1..Len(p) : OfTask(p, j, sh) /\ PagedAfter(p, j)
  BY <1>3
<1>5. ASSUME NEW i \in 1..Len(p), ~IsPage(p[i]), p[i].task # sh
      PROVE  \E j \in 1..Len(p) : j > i /\ OfTask(p, j, sh) /\ PagedAfter(p, j)
  BY <1>1, <1>2, <1>3, <1>5
<1>6. \A i : LastPage(p, i) => p[i].upTo = 0
  BY <1>1, <1>2 DEF LastPage
<1>7. ~Rest(p)
  <2>1. Len(q) + 1 \in 1..Len(p)
    BY <1>1, <1>2
  <2> QED
    BY <1>1, <2>1 DEF Rest
<1> QED
  BY <1>1, <1>4, <1>5, <1>6, <1>7 DEF Follows

(* The next page joins: it is behind no other call that matters. *)
LEMMA JoinMoreFollows ==
  ASSUME NEW be, NEW sh, NEW cp, NEW it, NEW nx, NEW q \in Seq(Call), NEW c \in Call,
         IsPage(c), c.upTo = 0, c.task = sh, sh # NoTask, cp # NoCopy,
         NoPage(q), Follows(be, sh, cp, it, nx, q)
  PROVE  Follows(be, sh, cp, it, nx, q \o <<c>>)
<1>1. PICK p \in Seq(Call) :
        /\ p = q \o <<c>> /\ Len(p) = Len(q) + 1
        /\ \A i \in 1..Len(q) : p[i] = q[i]
        /\ p[Len(q) + 1] = c
  BY CallJoins
<1>2. Len(q) \in Nat
  OBVIOUS
<1>3. (\A j : ~PagedAfter(q, j)) /\ Rest(q)
  BY DEF PagedAfter, NoPage, Rest
<1>4. cp.task = sh /\ \A i \in 1..Len(q) : ~IsPage(q[i]) => q[i].task = sh
  BY <1>3 DEF Follows
<1>5. \A i \in 1..Len(p) : ~IsPage(p[i]) => p[i].task = sh
  BY <1>1, <1>2, <1>4
<1>6. \A i : LastPage(p, i) => p[i].upTo = 0
  BY <1>1, <1>2 DEF LastPage
<1>7. Offers(be, it, nx, cp)
  BY <1>3, <1>4 DEF Follows
<1> QED
  BY <1>1, <1>4, <1>5, <1>6, <1>7 DEF Follows
----------------------------------------------------------------------------
(* The first call leaves. *)
(* p is what is left of q once its head is taken. *)
Left(q, p) == p \in Seq(Call) /\ Len(q) = Len(p) + 1 /\ \A i \in 1..Len(p) : p[i] = q[i + 1]

LEMMA CallLeaves ==
  ASSUME NEW q \in Seq(Call), 1 \in DOMAIN q
  PROVE  Left(q, RemoveAt(q, 1))
<1>1. /\ Len(q) \in Nat /\ Len(q) >= 1
      /\ RemoveAt(q, 1) \in Seq(Call) /\ Len(RemoveAt(q, 1)) = Len(q) - 1
      /\ \A i \in 1..(Len(q) - 1) : RemoveAt(q, 1)[i] = q[i + 1]
  BY Leaves
<1> QED
  BY <1>1 DEF Left

(* A call of what is left is the next one of what was there. *)
LEMMA LeftIndex ==
  ASSUME NEW q \in Seq(Call), NEW p, Left(q, p)
  PROVE  /\ Len(p) \in Nat /\ Len(q) = Len(p) + 1 /\ 1 \in 1..Len(q)
         /\ \A i \in 1..Len(p) : i + 1 \in 1..Len(q) /\ p[i] = q[i + 1]
         /\ \A i \in 1..Len(q) : i # 1 => i - 1 \in 1..Len(p) /\ p[i - 1] = q[i]
         /\ \A i : LastPage(p, i) => LastPage(q, i + 1) /\ p[i] = q[i + 1]
         /\ NoPage(p) => (IF IsPage(q[1]) THEN LastPage(q, 1) ELSE NoPage(q))
<1>1. Len(p) \in Nat /\ Len(q) = Len(p) + 1 /\ 1 \in 1..Len(q)
  BY DEF Left
<1>2. ASSUME NEW i \in 1..Len(p)
      PROVE  i + 1 \in 1..Len(q) /\ p[i] = q[i + 1]
  BY <1>1 DEF Left
<1>3. ASSUME NEW i \in 1..Len(q), i # 1
      PROVE  i - 1 \in 1..Len(p) /\ p[i - 1] = q[i]
  <2>1. i - 1 \in 1..Len(p) /\ (i - 1) + 1 = i
    BY <1>1, <1>3
  <2> QED
    BY <1>2, <2>1
<1>4. ASSUME NEW i, LastPage(p, i)
      PROVE  LastPage(q, i + 1) /\ p[i] = q[i + 1]
  <2>1. i \in 1..Len(p) /\ IsPage(p[i])
    BY <1>4 DEF LastPage
  <2>2. ASSUME NEW j \in 1..Len(q), j > i + 1
        PROVE  ~IsPage(q[j])
    <3>1. j - 1 \in 1..Len(p) /\ p[j - 1] = q[j] /\ j - 1 > i
      BY <1>1, <1>3, <2>1, <2>2
    <3> QED
      BY <1>4, <3>1 DEF LastPage
  <2> QED
    BY <1>2, <2>1, <2>2 DEF LastPage
<1>5. ASSUME NoPage(p)
      PROVE  IF IsPage(q[1]) THEN LastPage(q, 1) ELSE NoPage(q)
  <2>1. \A i \in 1..Len(q) : i # 1 => ~IsPage(q[i])
    BY <1>3, <1>5 DEF NoPage
  <2>2. 1 \in 1..Len(q) /\ \A j \in 1..Len(q) : j > 1 => j # 1
    BY <1>1
  <2>3. CASE IsPage(q[1])
    BY <2>1, <2>2, <2>3 DEF LastPage
  <2>4. CASE ~IsPage(q[1])
    BY <2>1, <2>2, <2>4 DEF NoPage
  <2> QED
    BY <2>3, <2>4
<1> QED
  BY <1>1, <1>2, <1>3, <1>4, <1>5

LEMMA LeaveTypes ==
  ASSUME NEW tr, NEW be, NEW sh, NEW cp, NEW it, NEW nx, NEW q, NEW p,
         Types(tr, be, sh, cp, it, nx, q), Left(q, p)
  PROVE  Types(tr, be, sh, cp, it, nx, p)
<1>1. q \in Seq(Call) /\ p \in Seq(Call)
  BY DEF Types, Left
<1>2. \A i \in 1..Len(p) : i + 1 \in 1..Len(q) /\ p[i] = q[i + 1]
  BY <1>1, LeftIndex
<1>3. \A i \in 1..Len(p) : p[i].upTo <= Len(tr[p[i].task])
  BY <1>2 DEF Types
<1> QED
  BY <1>1, <1>3 DEF Types

LEMMA LeaveCursor ==
  ASSUME NEW be, NEW it, NEW nx, NEW q \in Seq(Call), NEW p, Cursor(be, it, nx, q), Left(q, p)
  PROVE  Cursor(be, it, nx, p)
<1>1. /\ Len(p) \in Nat /\ Len(q) = Len(p) + 1
      /\ \A i \in 1..Len(p) : i + 1 \in 1..Len(q) /\ p[i] = q[i + 1]
  BY LeftIndex
<1>2. ASSUME NEW i \in 1..Len(p), IsPage(p[i]), p[i].after # 0
      PROVE  p[i].after = nx /\ \A j \in 1..Len(p) : j < i => ~IsPage(p[j])
  <2>1. \A j \in 1..Len(p) : j < i => j + 1 < i + 1
    BY <1>1
  <2> QED
    BY <1>1, <1>2, <2>1 DEF Cursor
<1> QED
  BY <1>2 DEF Cursor

LEMMA LeaveOfShown ==
  ASSUME NEW sh, NEW cp, NEW cp2, NEW it, NEW nx, NEW q \in Seq(Call), NEW p,
         OfShown(sh, cp, it, nx, q), Left(q, p), ~IsPage(q[1]),
         cp2 # NoCopy, sh # NoTask => cp # NoCopy
  PROVE  OfShown(sh, cp2, it, nx, p)
<1>1. /\ \A i \in 1..Len(p) : i + 1 \in 1..Len(q) /\ p[i] = q[i + 1]
      /\ \A i : LastPage(p, i) => LastPage(q, i + 1) /\ p[i] = q[i + 1]
      /\ NoPage(p) => NoPage(q)
  BY LeftIndex
<1> QED
  BY SMTT(60), <1>1 DEF OfShown

LEMMA LeaveInStep ==
  ASSUME NEW q \in Seq(Call), NEW p, InStep(q), Left(q, p)
  PROVE  InStep(p)
<1>1. /\ Len(p) \in Nat /\ Len(q) = Len(p) + 1
      /\ \A i \in 1..Len(p) : i + 1 \in 1..Len(q) /\ p[i] = q[i + 1]
  BY LeftIndex
<1>2. \A i, j \in 1..Len(p) : i < j => i + 1 < j + 1
  BY <1>1
<1> QED
  BY <1>1, <1>2 DEF InStep

(* What was behind the first call, and paged, still is. *)
LEMMA LeavePaged ==
  ASSUME NEW q \in Seq(Call), NEW p, NEW sh, Left(q, p)
  PROVE  \A j \in 1..Len(q) : (j # 1 /\ OfTask(q, j, sh)) =>
            /\ j - 1 \in 1..Len(p) /\ OfTask(p, j - 1, sh)
            /\ PagedAfter(q, j) => PagedAfter(p, j - 1)
<1>1. /\ Len(p) \in Nat /\ Len(q) = Len(p) + 1
      /\ \A i \in 1..Len(q) : i # 1 => i - 1 \in 1..Len(p) /\ p[i - 1] = q[i]
  BY LeftIndex
<1>2. ASSUME NEW j \in 1..Len(q), j # 1, OfTask(q, j, sh)
      PROVE  j - 1 \in 1..Len(p) /\ OfTask(p, j - 1, sh)
  BY <1>1, <1>2 DEF OfTask
<1>3. ASSUME NEW j \in 1..Len(q), j # 1, PagedAfter(q, j)
      PROVE  PagedAfter(p, j - 1)
  <2>1. PICK k \in 1..Len(q) : k > j /\ IsPage(q[k]) /\ q[k].after = 0
    BY <1>3 DEF PagedAfter
  <2>2. k # 1 /\ k - 1 > j - 1
    BY <1>1, <1>3, <2>1
  <2>3. k - 1 \in 1..Len(p) /\ IsPage(p[k - 1]) /\ p[k - 1].after = 0
    BY <1>1, <2>1, <2>2
  <2> QED
    BY <2>2, <2>3 DEF PagedAfter
<1> QED
  BY <1>2, <1>3

(* With no first page in what is left there was none, the head being no page. *)
LEMMA LeaveRest ==
  ASSUME NEW q \in Seq(Call), NEW p, Left(q, p), ~IsPage(q[1])
  PROVE  Rest(p) => Rest(q)
<1>1. \A i \in 1..Len(q) : i # 1 => i - 1 \in 1..Len(p) /\ p[i - 1] = q[i]
  BY LeftIndex
<1> QED
  BY <1>1 DEF Rest

(* The calls for another task that are left have the shown task's behind. *)
LEMMA LeaveFollowed ==
  ASSUME NEW q \in Seq(Call), NEW p, NEW sh, Left(q, p),
         \A i \in 1..Len(q) : (~IsPage(q[i]) /\ q[i].task # sh) =>
             \E j \in 1..Len(q) : j > i /\ OfTask(q, j, sh) /\ PagedAfter(q, j)
  PROVE  \A i \in 1..Len(p) : (~IsPage(p[i]) /\ p[i].task # sh) =>
             \E j \in 1..Len(p) : j > i /\ OfTask(p, j, sh) /\ PagedAfter(p, j)
<1>1. /\ Len(p) \in Nat /\ Len(q) = Len(p) + 1
      /\ \A i \in 1..Len(p) : i + 1 \in 1..Len(q) /\ p[i] = q[i + 1]
  BY LeftIndex
<1>2. ASSUME NEW i \in 1..Len(p), ~IsPage(p[i]), p[i].task # sh
      PROVE  \E j \in 1..Len(p) : j > i /\ OfTask(p, j, sh) /\ PagedAfter(p, j)
  <2>1. PICK j \in 1..Len(q) : j > i + 1 /\ OfTask(q, j, sh) /\ PagedAfter(q, j)
    BY <1>1, <1>2
  <2>2. j # 1 /\ j - 1 > i
    BY <1>1, <2>1
  <2>3. j - 1 \in 1..Len(p) /\ OfTask(p, j - 1, sh) /\ PagedAfter(p, j - 1)
    BY <2>1, <2>2, LeavePaged
  <2> QED
    BY <2>2, <2>3
<1> QED
  BY <1>2
----------------------------------------------------------------------------
(* The times of a trail's entries are numbers, one for each. *)
LEMMA TimesAre ==
  ASSUME NEW tr \in [Task -> Seq(Nat)], NEW be, Timed(tr, be), NEW t \in Task
  PROVE  /\ \A n \in 1..Len(tr[t]) : be[t][n] \in Nat /\ be[t][n] # 0
         /\ \A m, n \in 1..Len(tr[t]) : be[t][m] = be[t][n] => m = n
<1>1. PICK b \in Seq(Nat) : b = be[t]
  BY DEF Timed
<1>2. Len(b) = Len(tr[t])
  BY <1>1 DEF Timed
<1>3. \A n \in 1..Len(b) : b[n] \in Nat
  OBVIOUS
<1> QED
  BY <1>1, <1>2, <1>3 DEF Timed

(* What a page holds of what the database read shows. *)
LEMMA PageIs ==
  ASSUME NEW c \in Call, c.upTo # 0, trail \in [Task -> Seq(Nat)], Timed(trail, began),
         c.upTo <= Len(trail[c.task]), NEW page \in Pages(c)
  PROVE  /\ page \in Seq(Nat) /\ Len(page) \in Nat
         /\ \A i \in 1..Len(page) :
               page[i] \in 1..c.upTo /\ c.after < began[c.task][page[i]]
         /\ \A i, j \in 1..Len(page) :
               i < j => began[c.task][page[i]] < began[c.task][page[j]]
         /\ \A n \in 1..c.upTo :
               (c.after < began[c.task][n] /\ ~In(page, n)) =>
                  \A i \in 1..Len(page) : began[c.task][page[i]] < began[c.task][n]
         /\ NextCursor(c, page) \in Nat
         /\ IF NextCursor(c, page) = 0
            THEN \A n \in 1..c.upTo : c.after < began[c.task][n] => In(page, n)
            ELSE Len(page) > 0 /\ NextCursor(c, page) = began[c.task][page[Len(page)]]
         /\ c.after = 0 => Len(page) > 0
<1>1. /\ c.upTo \in Nat /\ c.after \in Nat /\ c.task \in Task
      /\ PageSize \in Nat /\ PageSize # 0 /\ Len(trail[c.task]) \in Nat
  BY HistoryAssumption DEF Call
<1>2. \A n \in 1..c.upTo : began[c.task][n] \in Nat /\ began[c.task][n] # 0
  BY SMTT(60), <1>1, TimesAre
<1>3. PICK m \in 0..PageSize : page \in [1..m -> Beyond(c)]
  BY DEF Pages, BoundedSeq, SeqOf
<1>4. m \in Nat /\ page \in [1..m -> Nat] /\ DOMAIN page = 1..m
      /\ \A i \in 1..m : page[i] \in 1..c.upTo /\ c.after < began[c.task][page[i]]
  BY <1>1, <1>3 DEF Beyond
<1>5. page \in Seq(Nat) /\ Len(page) = m
  BY <1>4
<1>6. \A i, j \in 1..m : i < j => began[c.task][page[i]] < began[c.task][page[j]]
  BY <1>4 DEF Pages, Sooner
<1>7. ASSUME NEW n \in 1..c.upTo, c.after < began[c.task][n], ~In(page, n)
      PROVE  /\ n \in Beyond(c) /\ m = PageSize
             /\ \A i \in 1..m : began[c.task][page[i]] < began[c.task][n]
  BY <1>4, <1>5, <1>7 DEF Pages, Sooner, Beyond
<1>8. ASSUME \E n \in Beyond(c) : ~In(page, n)
      PROVE  /\ m > 0 /\ NextCursor(c, page) = began[c.task][page[m]]
             /\ NextCursor(c, page) \in Nat /\ NextCursor(c, page) # 0
  <2>1. m > 0 /\ m \in 1..m
    BY <1>1, <1>4, <1>7, <1>8 DEF Beyond
  <2>2. Last(page) = page[m] /\ page[m] \in 1..c.upTo
    BY <1>4, <1>5, <2>1 DEF Last
  <2> QED
    BY <1>2, <1>8, <2>1, <2>2 DEF NextCursor
<1>9. ASSUME ~(\E n \in Beyond(c) : ~In(page, n))
      PROVE  NextCursor(c, page) = 0 /\ \A n \in 1..c.upTo : c.after < began[c.task][n] => In(page, n)
  BY <1>9 DEF NextCursor, Beyond
<1>10. ASSUME c.after = 0
       PROVE  m > 0
  <2>1. 1 \in 1..c.upTo /\ c.after < began[c.task][1]
    BY <1>1, <1>2, <1>10
  <2>2. CASE In(page, 1)
    BY <1>4, <2>2 DEF In
  <2>3. CASE ~In(page, 1)
    BY <1>1, <1>7, <2>1, <2>3
  <2> QED
    BY <2>2, <2>3
<1> QED
  BY <1>4, <1>5, <1>6, <1>7, <1>8, <1>9, <1>10

(* How many entries were there before the page's. *)
Before(c) == IF c.after = 0 THEN 0 ELSE Len(items)

LEMMA MergedIs ==
  ASSUME NEW c \in Call, NEW page \in Seq(Nat), items \in Seq(Entry)
  PROVE  \E it \in Seq(Entry), b \in Nat :
            /\ it = Merged(c, page) /\ b = Before(c)
            /\ Len(page) \in Nat /\ Len(it) = b + Len(page)
            /\ \A i \in 1..b : it[i] = items[i]
            /\ \A i \in 1..Len(page) : it[b + i] = <<c.task, page[i]>>
<1>1. PICK n \in Nat : n = Len(page)
  OBVIOUS
<1>2. Entries(c, page) = [i \in 1..n |-> <<c.task, page[i]>>]
  BY <1>1 DEF Entries
<1>3. \A i \in 1..n : <<c.task, page[i]>> \in Entry
  BY <1>1 DEF Entry, Call
<1>4. Entries(c, page) \in [1..n -> Entry]
  BY <1>2, <1>3
<1>5. PICK pg \in Seq(Entry) : pg = Entries(c, page) /\ Len(pg) = n
  BY <1>4
<1>6. \A i \in 1..n : pg[i] = <<c.task, page[i]>>
  BY <1>2, <1>5
<1>7. CASE c.after = 0
  <2>1. pg = Merged(c, page) /\ Before(c) = 0
    BY <1>5, <1>7 DEF Merged, Before
  <2>2. PICK b \in Nat : b = 0
    OBVIOUS
  <2>3. b = Before(c) /\ Len(pg) = b + n /\ \A i \in 1..b : pg[i] = items[i]
    BY <1>5, <2>1, <2>2
  <2>4. \A i \in 1..n : pg[b + i] = <<c.task, page[i]>>
    BY <1>6, <2>2
  <2> QED
    BY <1>1, <2>1, <2>3, <2>4
<1>8. CASE c.after # 0
  <2>1. PICK b \in Nat : b = Len(items)
    OBVIOUS
  <2>2. /\ items \o pg \in Seq(Entry) /\ Len(items \o pg) = Len(items) + Len(pg)
        /\ \A i \in 1 .. Len(items) + Len(pg) :
              (items \o pg)[i] = IF i <= Len(items) THEN items[i] ELSE pg[i - Len(items)]
    BY ConcatProperties
  <2>3. PICK it \in Seq(Entry) : it = items \o pg
    BY <2>2
  <2>4. Len(it) = b + n /\ \A i \in 1 .. b + n : it[i] = IF i <= b THEN items[i] ELSE pg[i - b]
    BY <1>5, <2>1, <2>2, <2>3
  <2>5. \A i \in 1..b : it[i] = items[i]
    BY <2>1, <2>4
  <2>6. ASSUME NEW i \in 1..n
        PROVE  it[b + i] = <<c.task, page[i]>>
    <3>1. b + i \in 1 .. b + n /\ ~(b + i <= b) /\ (b + i) - b = i
      BY <2>1
    <3> QED
      BY <1>6, <2>4, <3>1
  <2>7. it = Merged(c, page) /\ b = Before(c)
    BY <1>5, <1>8, <2>1, <2>3 DEF Merged, Before
  <2> QED
    BY <1>1, <2>4, <2>5, <2>6, <2>7
<1> QED
  BY <1>7, <1>8

(* The call answered is a page of the queue's head. *)
LEMMA TakenCursor ==
  ASSUME NEW q \in Seq(Call), NEW p, Left(q, p), IsPage(q[1]), q[1].upTo # 0,
         trail \in [Task -> Seq(Nat)], Timed(trail, began), q[1].upTo <= Len(trail[q[1].task]),
         NEW page \in Pages(q[1]), items \in Seq(Entry), Cursor(began, items, next, q)
  PROVE  /\ Cursor(began, Merged(q[1], page), NextCursor(q[1], page), p)
         /\ Merged(q[1], page) \in Seq(Entry) /\ NextCursor(q[1], page) \in Nat
<1>1. /\ Len(p) \in Nat /\ Len(q) = Len(p) + 1 /\ 1 \in 1..Len(q)
      /\ \A i \in 1..Len(p) : i + 1 \in 1..Len(q) /\ p[i] = q[i + 1]
  BY LeftIndex
<1>2. PICK c \in Call : c = q[1]
  BY <1>1
<1>3. /\ page \in Seq(Nat) /\ Len(page) \in Nat /\ NextCursor(c, page) \in Nat
      /\ NextCursor(c, page) # 0 =>
            Len(page) > 0 /\ NextCursor(c, page) = began[c.task][page[Len(page)]]
  BY <1>2, PageIs
<1>4. PICK it \in Seq(Entry), b \in Nat :
        /\ it = Merged(c, page) /\ b = Before(c)
        /\ Len(page) \in Nat /\ Len(it) = b + Len(page)
        /\ \A i \in 1..b : it[i] = items[i]
        /\ \A i \in 1..Len(page) : it[b + i] = <<c.task, page[i]>>
  BY <1>3, MergedIs
<1>5. ASSUME NextCursor(c, page) # 0
      PROVE  it # <<>> /\ NextCursor(c, page) = TimeOf(began, it[Len(it)])
  <2>1. Len(page) \in 1..Len(page) /\ Len(it) # 0 /\ Len(<<>>) = 0
    BY <1>3, <1>4, <1>5
  <2>2. it[Len(it)] = <<c.task, page[Len(page)]>> /\ it # <<>>
    BY <1>4, <2>1
  <2> QED
    BY <1>3, <1>5, <2>2 DEF TimeOf
<1>6. ASSUME NEW i \in 1..Len(p), IsPage(p[i])
      PROVE  p[i].after = 0
  <2>1. 1 < i + 1 /\ i + 1 \in 1..Len(q) /\ p[i] = q[i + 1]
    BY <1>1
  <2> QED
    BY <1>1, <1>6, <2>1 DEF Cursor
<1> QED
  BY <1>2, <1>3, <1>4, <1>5, <1>6 DEF Cursor

LEMMA TakenWhole ==
  ASSUME NEW sh, NEW cp, NEW q \in Seq(Call), 1 \in 1..Len(q), IsPage(q[1]), q[1].upTo # 0,
         Types(trail, began, sh, cp, items, next, q), NEW page \in Pages(q[1]),
         Cursor(began, items, next, q), Whole(trail, began, items),
         OfShown(sh, cp, items, next, q)
  PROVE  /\ Whole(trail, began, Merged(q[1], page))
         /\ Merged(q[1], page) # <<>> /\ Merged(q[1], page)[1][1] = q[1].task
<1>1. PICK c \in Call : c = q[1]
  OBVIOUS
<1>2. PICK t \in Task : t = c.task
  BY DEF Call
<1>3. /\ trail \in [Task -> Seq(Nat)] /\ Timed(trail, began) /\ items \in Seq(Entry)
      /\ c.upTo <= Len(trail[t]) /\ c.after \in Nat /\ c.upTo \in Nat /\ Len(trail[t]) \in Nat
      /\ \A i \in 1..Len(items) : items[i][2] \in 1..Len(trail[items[i][1]])
  <2>1. /\ trail \in [Task -> Seq(Nat)] /\ Timed(trail, began) /\ items \in Seq(Entry)
        /\ \A i \in 1..Len(items) : items[i][2] \in 1..Len(trail[items[i][1]])
    BY DEF Types
  <2>2. c.after \in Nat /\ c.upTo \in Nat
    BY DEF Call
  <2>3. trail[t] \in Seq(Nat)
    BY <2>1
  <2>4. c.upTo <= Len(trail[t]) /\ Len(trail[t]) \in Nat
    BY <1>1, <1>2, <2>3 DEF Types
  <2> QED
    BY <2>1, <2>2, <2>4
<1>4. \A n \in 1..Len(trail[t]) : began[t][n] \in Nat /\ began[t][n] # 0
  BY <1>3, TimesAre
<1>5. \A m, n \in 1..Len(trail[t]) : began[t][m] = began[t][n] => m = n
  BY <1>3, TimesAre
<1>6. PICK pg \in Seq(Nat) : pg = page
  BY <1>1, <1>2, <1>3, PageIs
<1>7. /\ Len(pg) \in Nat
      /\ \A i \in 1..Len(pg) : pg[i] \in 1..c.upTo /\ c.after < began[t][pg[i]]
      /\ \A i, j \in 1..Len(pg) : i < j => began[t][pg[i]] < began[t][pg[j]]
      /\ \A n \in 1..c.upTo : (c.after < began[t][n] /\ ~In(pg, n)) =>
            \A i \in 1..Len(pg) : began[t][pg[i]] < began[t][n]
      /\ c.after = 0 => Len(pg) > 0
  BY <1>1, <1>2, <1>3, <1>6, PageIs
<1>8. PICK it \in Seq(Entry), b \in Nat :
        /\ it = Merged(c, page) /\ b = Before(c)
        /\ Len(it) = b + Len(pg)
        /\ \A i \in 1..b : it[i] = items[i]
        /\ \A i \in 1..Len(pg) : it[b + i] = <<t, pg[i]>>
  BY ZenonT(60), <1>2, <1>3, <1>6, MergedIs
<1>9. c.after # 0 => /\ c.after = next /\ items # <<>> /\ next = TimeOf(began, items[Len(items)])
                     /\ t = items[1][1] /\ b = Len(items) /\ b \in 1..b
  BY <1>1, <1>2, <1>3, <1>8 DEF Cursor, OfShown, Before
<1>10. ASSUME NEW i \in 1..b
       PROVE  /\ i \in 1..Len(items) /\ b = Len(items) /\ c.after # 0
              /\ it[i] = items[i] /\ items[i][1] = t /\ items[i][2] \in 1..Len(trail[t])
              /\ TimeOf(began, items[i]) = began[t][items[i][2]]
              /\ TimeOf(began, items[i]) <= c.after
  <2>0. c.after # 0
    <3>1. ASSUME c.after = 0 PROVE FALSE
      <4>1. b = 0
        BY <1>8, <3>1 DEF Before
      <4> QED
        BY <4>1
    <3> QED
      BY <3>1
  <2>1. c.after # 0 /\ b = Len(items) /\ i \in 1..Len(items)
    BY <1>9, <2>0
  <2>2. items[i][1] = t /\ 1 \in 1..Len(items) /\ items[b][1] = t
    <3>1. 1 \in 1..Len(items) /\ b \in 1..Len(items) /\ items[1][1] = t
      BY <1>9, <2>1
    <3>2. \A k \in 1..Len(items) : items[k][1] = items[1][1]
      BY <3>1 DEF Whole, InOrder
    <3> QED
      BY <2>1, <3>1, <3>2
  <2>3. items[i][2] \in 1..Len(trail[t]) /\ items[b][2] \in 1..Len(trail[t])
    BY <1>3, <1>9, <2>1, <2>2
  <2>4. TimeOf(began, items[i]) \in Nat /\ TimeOf(began, items[i]) = began[t][items[i][2]]
    BY <1>4, <2>2, <2>3 DEF TimeOf
  <2>5. i < b => TimeOf(began, items[i]) < TimeOf(began, items[b])
    BY <1>9, <2>1 DEF Whole, InOrder
  <2>6. TimeOf(began, items[b]) = c.after
    BY <1>9, <2>1
  <2>7. TimeOf(began, items[i]) <= c.after
    <3>1. CASE i = b
      BY <1>3, <2>6, <3>1
    <3>2. CASE i # b
      BY <1>3, <2>4, <2>5, <2>6, <3>2
    <3> QED
      BY <3>1, <3>2
  <2> QED
    BY <1>8, <2>1, <2>2, <2>3, <2>4, <2>7
<1>11. ASSUME NEW i \in 1..Len(it), ~(i \in 1..b)
       PROVE  /\ i - b \in 1..Len(pg) /\ i > b /\ it[i] = <<t, pg[i - b]>>
              /\ pg[i - b] \in 1..c.upTo /\ pg[i - b] \in 1..Len(trail[t])
              /\ TimeOf(began, it[i]) = began[t][pg[i - b]] /\ c.after < TimeOf(began, it[i])
  <2>1. i - b \in 1..Len(pg) /\ b + (i - b) = i /\ i > b
    BY <1>7, <1>8, <1>11
  <2>2. it[i] = <<t, pg[i - b]>> /\ pg[i - b] \in 1..c.upTo /\ c.after < began[t][pg[i - b]]
    BY <1>7, <1>8, <2>1
  <2>3. TimeOf(began, it[i]) = began[t][pg[i - b]]
    BY <2>2 DEF TimeOf
  <2> QED
    BY SMTT(60), <1>3, <2>1, <2>2, <2>3
<1>12. ASSUME NEW i \in 1..Len(it)
       PROVE  it[i][1] = t /\ it[i][2] \in 1..Len(trail[t]) /\ TimeOf(began, it[i]) = began[t][it[i][2]]
              /\ TimeOf(began, it[i]) \in Nat
  <2>1. CASE i \in 1..b
    <3>1. /\ it[i] = items[i] /\ items[i][1] = t /\ items[i][2] \in 1..Len(trail[t])
          /\ TimeOf(began, items[i]) = began[t][items[i][2]]
      BY <1>10, <2>1
    <3>2. began[t][items[i][2]] \in Nat
      BY <1>4, <3>1
    <3> QED
      BY <3>1, <3>2
  <2>2. CASE ~(i \in 1..b)
    <3>1. /\ it[i] = <<t, pg[i - b]>> /\ pg[i - b] \in 1..Len(trail[t])
          /\ TimeOf(began, it[i]) = began[t][pg[i - b]]
      BY <1>11, <2>2
    <3>2. it[i][1] = t /\ it[i][2] = pg[i - b]
      BY <3>1
    <3>3. began[t][pg[i - b]] \in Nat
      BY <1>4, <3>1
    <3> QED
      BY <3>1, <3>2, <3>3
  <2> QED
    BY <2>1, <2>2
<1>13. InOrder(began, it)
  <2>1. ASSUME NEW i \in 1..Len(it), NEW j \in 1..Len(it), i < j
        PROVE  TimeOf(began, it[i]) < TimeOf(began, it[j])
    <3>1. CASE j \in 1..b
      <4>1. i \in 1..b
        BY <1>8, <2>1, <3>1
      <4> QED
        BY <1>10, <2>1, <3>1, <4>1 DEF Whole, InOrder
    <3>2. CASE i \in 1..b /\ ~(j \in 1..b)
      BY SMTT(60), <1>3, <1>10, <1>11, <1>12, <3>2
    <3>3. CASE ~(i \in 1..b)
      <4>1. ~(j \in 1..b)
        BY <1>11, <2>1, <3>3
      <4>2. i - b < j - b
        BY <1>8, <2>1
      <4> QED
        BY ZenonT(60), <1>7, <1>11, <3>3, <4>1, <4>2
    <3> QED
      BY <3>1, <3>2, <3>3
  <2> QED
    BY <1>12, <2>1 DEF InOrder
<1>14. OnlyLate(trail, began, it)
  <2> SUFFICES ASSUME NEW i \in 1..Len(it), NEW n \in 1..Len(trail[t]),
                      began[t][n] < TimeOf(began, it[i]), ~Has(it, t, n)
               PROVE  \E j \in 1..Len(it) : began[t][n] < TimeOf(began, it[j]) /\ it[j][2] < n
    BY <1>12 DEF OnlyLate
  <2>1. began[t][n] \in Nat /\ n \in Nat
    BY <1>4
  <2>2. ASSUME NEW j \in 1..b
        PROVE  items[j] # <<t, n>> /\ j \in 1..Len(it)
    <3>1. j \in 1..Len(it) /\ it[j] = items[j]
      BY <1>7, <1>8
    <3> QED
      BY <3>1 DEF Has
  <2>3. CASE c.after # 0 /\ began[t][n] < c.after
    <3>1. b \in 1..b /\ b = Len(items) /\ items[b][1] = t /\ began[t][n] < TimeOf(began, items[b])
      BY <1>9, <1>10, <2>3
    <3>2. ~Has(items, t, n)
      BY <2>2, <3>1 DEF Has
    <3>3. PICK j \in 1..b : began[t][n] < TimeOf(began, items[j]) /\ items[j][2] < n
      BY <3>1, <3>2 DEF Whole, OnlyLate
    <3> QED
      BY <1>10, <2>2, <3>3
  <2>4. CASE c.after # 0 /\ began[t][n] = c.after
    <3>1. b \in 1..b /\ b = Len(items) /\ items[b][1] = t /\ began[t][items[b][2]] = c.after
          /\ items[b][2] \in 1..Len(trail[t])
      BY <1>9, <1>10, <2>4
    <3>2. items[b][2] = n
      <4>1. PICK m \in 1..Len(trail[t]) : m = items[b][2]
        BY <3>1
      <4>2. began[t][m] = began[t][n]
        BY <2>4, <3>1, <4>1
      <4> QED
        BY <1>5, <4>1, <4>2
    <3>3. items[b] = <<t, n>>
      <4>1. items[b] \in Entry
        BY <1>3, <3>1
      <4> QED
        BY <3>1, <3>2, <4>1 DEF Entry
    <3> QED
      BY <2>2, <3>1, <3>3
  <2>5. CASE c.after < began[t][n]
    <3>1. ~(i \in 1..b)
      BY SMTT(60), <1>3, <1>10, <1>12, <2>1, <2>5
    <3>2. ~In(pg, n)
      <4>1. ASSUME NEW j \in 1..Len(pg), pg[j] = n
            PROVE  FALSE
        <5>1. b + j \in 1..Len(it) /\ it[b + j] = <<t, n>>
          BY SMTT(60), <1>7, <1>8, <4>1
        <5> QED
          BY <5>1 DEF Has
      <4>2. DOMAIN pg = 1..Len(pg)
        OBVIOUS
      <4> QED
        BY <4>1, <4>2 DEF In
    <3>3. n > c.upTo
      <4>1. ASSUME n \in 1..c.upTo
            PROVE  FALSE
        <5>1. began[t][pg[i - b]] < began[t][n]
          BY <1>7, <1>11, <2>5, <3>1, <3>2, <4>1
        <5>2. TimeOf(began, it[i]) < began[t][n] /\ TimeOf(began, it[i]) \in Nat
          BY <1>11, <1>12, <3>1, <5>1
        <5> QED
          BY <2>1, <5>2
      <4> QED
        BY <1>3, <2>1, <4>1
    <3>4. it[i][2] < n
      <4>1. it[i] = <<t, pg[i - b]>> /\ pg[i - b] \in 1..c.upTo
        BY <1>11, <3>1
      <4>2. it[i][2] = pg[i - b]
        BY <4>1
      <4> QED
        BY SMTT(60), <1>3, <2>1, <3>3, <4>1, <4>2
    <3> QED
      BY <3>4
  <2>6. began[t][n] < c.after \/ began[t][n] = c.after \/ c.after < began[t][n]
    BY SMTT(60), <1>3, <2>1
  <2>7. c.after = 0 => c.after < began[t][n]
    BY <1>3, <1>4, <2>1
  <2> QED
    BY <2>3, <2>4, <2>5, <2>6, <2>7
<1>15. Len(it) > 0 /\ it # <<>> /\ it[1][1] = t
  <2>1. Len(it) > 0 /\ Len(<<>>) = 0
    <3>1. CASE c.after = 0
      BY <1>7, <1>8, <3>1
    <3>2. CASE c.after # 0
      BY <1>7, <1>8, <1>9, <3>2
    <3> QED
      BY <3>1, <3>2
  <2>2. 1 \in 1..Len(it)
    BY <2>1
  <2> QED
    BY <1>12, <2>1, <2>2
<1> QED
  BY <1>1, <1>2, <1>8, <1>13, <1>14, <1>15 DEF Whole

(* What the page's read showed is in the timeline then, or behind its cursor. *)
LEMMA TakenOffers ==
  ASSUME NEW c \in Call, c.upTo # 0, trail \in [Task -> Seq(Nat)], Timed(trail, began),
         c.upTo <= Len(trail[c.task]), NEW page \in Pages(c), items \in Seq(Entry),
         NEW n \in 1..c.upTo,
         c.after # 0 => Has(items, c.task, n) \/ c.after < began[c.task][n]
  PROVE  \/ Has(Merged(c, page), c.task, n)
         \/ NextCursor(c, page) # 0 /\ NextCursor(c, page) < began[c.task][n]
<1>1. c.task \in Task /\ c.upTo \in Nat /\ c.after \in Nat /\ Len(trail[c.task]) \in Nat
  BY DEF Call
<1>2. began[c.task][n] \in Nat /\ began[c.task][n] # 0
  BY <1>1, TimesAre
<1>3. PICK pg \in Seq(Nat) : pg = page
  BY PageIs
<1>4. PICK it \in Seq(Entry), b \in Nat :
        /\ it = Merged(c, page) /\ b = Before(c)
        /\ Len(pg) \in Nat /\ Len(it) = b + Len(pg)
        /\ \A i \in 1..b : it[i] = items[i]
        /\ \A i \in 1..Len(pg) : it[b + i] = <<c.task, pg[i]>>
  BY <1>3, MergedIs
<1>5. CASE c.after # 0 /\ Has(items, c.task, n)
  <2>1. PICK i \in 1..Len(items) : items[i] = <<c.task, n>>
    BY <1>5 DEF Has
  <2>2. i \in 1..b /\ i \in 1..Len(it)
    BY <1>4, <1>5 DEF Before
  <2> QED
    BY <1>4, <2>1, <2>2 DEF Has
<1>6. CASE c.after < began[c.task][n] /\ In(pg, n)
  <2>1. PICK i \in 1..Len(pg) : pg[i] = n
    BY <1>6 DEF In
  <2>2. b + i \in 1..Len(it) /\ it[b + i] = <<c.task, n>>
    BY SMTT(60), <1>4, <2>1
  <2> QED
    BY <1>4, <2>2 DEF Has
<1>7. CASE c.after < began[c.task][n] /\ ~In(pg, n)
  <2>1. NextCursor(c, page) # 0
    BY <1>3, <1>7, PageIs
  <2>2. Len(pg) > 0 /\ NextCursor(c, page) = began[c.task][pg[Len(pg)]]
    BY <1>3, <2>1, PageIs
  <2>3. Len(pg) \in 1..Len(pg)
    BY <1>4, <2>2
  <2>4. began[c.task][pg[Len(pg)]] < began[c.task][n]
    BY <1>3, <1>7, <2>3, PageIs
  <2> QED
    BY <2>1, <2>2, <2>4
<1>8. c.after = 0 => c.after < began[c.task][n]
  BY <1>2
<1> QED
  BY <1>5, <1>6, <1>7, <1>8

LEMMA TakenOfShown ==
  ASSUME NEW be, NEW sh, NEW cp, NEW it, NEW nx, NEW it0, NEW nx0, NEW q \in Seq(Call),
         NEW p, Left(q, p), IsPage(q[1]), OfShown(sh, cp, it0, nx0, q), Cursor(be, it0, nx0, q),
         it # <<>>, it[1][1] = q[1].task
  PROVE  OfShown(sh, cp, it, nx, p)
<1>1. /\ Len(p) \in Nat /\ Len(q) = Len(p) + 1 /\ 1 \in 1..Len(q)
      /\ \A i \in 1..Len(p) : i + 1 \in 1..Len(q) /\ p[i] = q[i + 1]
      /\ \A i : LastPage(p, i) => LastPage(q, i + 1) /\ p[i] = q[i + 1]
      /\ NoPage(p) => LastPage(q, 1)
  BY LeftIndex
<1>2. cp # NoCopy
  BY <1>1 DEF OfShown, NoPage
<1>3. \A i \in 1..Len(p) : 1 < i + 1
  BY <1>1
<1>4. \A i \in 1..Len(p) : IsPage(p[i]) => p[i].after = 0
  BY <1>1, <1>3 DEF Cursor
<1>5. sh # NoTask => /\ \A i : LastPage(p, i) => p[i].task = sh
                     /\ NoPage(p) => it # <<>> /\ it[1][1] = sh
  BY <1>1, <1>2 DEF OfShown
<1> QED
  BY <1>2, <1>4, <1>5 DEF OfShown
----------------------------------------------------------------------------
(* The actions. *)
LEMMA NoCopyTask == NoCopy.task \notin Task
BY HistoryAssumption DEF NoCopy

LEMMA FetchIs ==
  ASSUME NEW t \in Task, NEW n \in Nat
  PROVE  /\ FetchTask(t) \in Call /\ ~IsPage(FetchTask(t))
         /\ FetchTask(t).upTo = 0 /\ FetchTask(t).after = 0 /\ FetchTask(t).task = t
         /\ FetchHistory(t, n) \in Call /\ IsPage(FetchHistory(t, n))
         /\ FetchHistory(t, n).upTo = 0 /\ FetchHistory(t, n).after = n
         /\ FetchHistory(t, n).task = t
BY DEF FetchTask, FetchHistory, Call, IsPage

LEMMA CalmReliable == Calm.reliable
BY DEF Calm

(* A task call joins, for the drawer that is shown or opens. *)
LEMMA JoinTaskFollows ==
  ASSUME NEW be, NEW sh0, NEW sh \in Task, NEW cp, NEW it, NEW nx, NEW q \in Seq(Call),
         NEW c \in Call, ~IsPage(c), c.task = sh, Follows(be, sh0, cp, it, nx, q),
         sh0 = sh \/ cp = NoCopy
  PROVE  Follows(be, sh, cp, it, nx, q \o <<c>>)
<1>1. PICK p \in Seq(Call) :
        /\ p = q \o <<c>> /\ Len(p) = Len(q) + 1
        /\ \A i \in 1..Len(q) : p[i] = q[i]
        /\ p[Len(q) + 1] = c
  BY CallJoins
<1>2. Len(q) \in Nat /\ sh # NoTask
  BY HistoryAssumption
<1>3. CASE cp = NoCopy
  BY <1>1, <1>2, <1>3 DEF Follows
<1>4. CASE cp # NoCopy
  <2>1. \A j \in 1..Len(q) : j \in 1..Len(p) /\ (OfTask(q, j, sh) => OfTask(p, j, sh))
    BY <1>1, <1>2 DEF OfTask
  <2>2. \A j \in 1..Len(q) : PagedAfter(q, j) => PagedAfter(p, j)
    BY <1>1, <1>2 DEF PagedAfter
  <2>3. \A i : LastPage(p, i) => LastPage(q, i) /\ p[i] = q[i]
    BY <1>1, <1>2 DEF LastPage
  <2>4. Rest(p) => Rest(q)
    BY <1>1, <1>2 DEF Rest
  <2>5. \A i \in 1..Len(p) : p[i].task # sh => i \in 1..Len(q) /\ p[i] = q[i]
    BY <1>1, <1>2
  <2>6. cp.task # sh => \E j \in 1..Len(p) : OfTask(p, j, sh) /\ PagedAfter(p, j)
    BY <1>2, <1>4, <2>1, <2>2 DEF Follows
  <2>7. ASSUME NEW i \in 1..Len(p), ~IsPage(p[i]), p[i].task # sh
        PROVE  \E j \in 1..Len(p) : j > i /\ OfTask(p, j, sh) /\ PagedAfter(p, j)
    <3>1. \E j \in 1..Len(q) : j > i /\ OfTask(q, j, sh) /\ PagedAfter(q, j)
      BY <1>2, <1>4, <2>5, <2>7 DEF Follows
    <3> QED
      BY <2>1, <2>2, <3>1
  <2>8. cp.task = sh => /\ \A i : LastPage(p, i) => p[i].upTo = 0 \/ p[i].upTo >= cp.upTo
                        /\ Rest(p) => Offers(be, it, nx, cp)
    BY <1>2, <1>4, <2>3, <2>4 DEF Follows
  <2> QED
    BY <1>1, <1>4, <2>6, <2>7, <2>8 DEF Follows
<1> QED
  BY <1>3, <1>4

LEMMA StepRefetch ==
  ASSUME FactsHold, Refetch
  PROVE  FactsKept
<1>1. /\ shown # NoTask /\ calls' = calls \o <<FetchTask(shown)>>
      /\ trail' = trail /\ began' = began /\ shown' = shown /\ copy' = copy /\ items' = items /\ next' = next
  BY DEF Refetch, Ask
<1>2. /\ Types(trail, began, shown, copy, items, next, calls) /\ Cursor(began, items, next, calls)
      /\ setting.reliable => Whole(trail, began, items) /\ OfShown(shown, copy, items, next, calls)
      /\ setting = Calm => /\ Counted(trail) /\ InStep(calls)
                           /\ Follows(began, shown, copy, items, next, calls)
  BY DEF FactsHold, Facts
<1>3. shown \in Task /\ calls \in Seq(Call)
  BY <1>1, <1>2 DEF Types
<1>4. PICK c \in Call : c = FetchTask(shown) /\ ~IsPage(c) /\ c.upTo = 0 /\ c.after = 0 /\ c.task = shown
  BY <1>3, FetchIs
<1>6. Types(trail, began, shown, copy, items, next, calls \o <<c>>)
  BY <1>2, <1>4, JoinTypes
<1>7. Cursor(began, items, next, calls \o <<c>>)
  BY <1>2, <1>3, <1>4, JoinCursor
<1>8. setting.reliable => OfShown(shown, copy, items, next, calls \o <<c>>)
  BY <1>2, <1>3, <1>4, JoinOfShown
<1>9. setting = Calm => InStep(calls \o <<c>>)
  BY <1>2, <1>3, <1>4, JoinInStep
<1>10. setting = Calm => Follows(began, shown, copy, items, next, calls \o <<c>>)
  BY <1>2, <1>3, <1>4, JoinTaskFollows
<1> QED
  BY <1>1, <1>2, <1>4, <1>6, <1>7, <1>8, <1>9, <1>10 DEF FactsKept, Facts

LEMMA StepClose ==
  ASSUME FactsHold, Close
  PROVE  FactsKept
<1>1. /\ shown' = NoTask /\ calls' = calls /\ trail' = trail /\ began' = began
      /\ copy' = copy /\ items' = items /\ next' = next
  BY DEF Close
<1>2. Types(trail, began, NoTask, copy, items, next, calls)
  BY DEF FactsHold, Facts, Types
<1>3. setting.reliable => OfShown(NoTask, copy, items, next, calls)
  BY DEF FactsHold, Facts, OfShown
<1>4. setting = Calm => Follows(began, NoTask, copy, items, next, calls)
  BY DEF Follows
<1> QED
  BY <1>1, <1>2, <1>3, <1>4 DEF FactsHold, FactsKept, Facts

LEMMA StepOpen ==
  ASSUME FactsHold, NEW t \in Task, Open(t)
  PROVE  FactsKept
<1>1. /\ shown = NoTask /\ shown' = t
      /\ calls' = calls \o (<<FetchTask(t)>> \o (IF copy = NoCopy THEN <<>> ELSE <<FetchHistory(t, 0)>>))
      /\ trail' = trail /\ began' = began /\ copy' = copy /\ items' = items /\ next' = next
  BY DEF Open, Ask
<1>2. /\ Types(trail, began, shown, copy, items, next, calls) /\ Cursor(began, items, next, calls)
      /\ setting.reliable => Whole(trail, began, items) /\ OfShown(shown, copy, items, next, calls)
      /\ setting = Calm => Counted(trail) /\ InStep(calls)
  BY DEF FactsHold, Facts
<1>3. calls \in Seq(Call) /\ t # NoTask
  BY <1>2, HistoryAssumption DEF Types
<1>4. PICK c \in Call : c = FetchTask(t) /\ ~IsPage(c) /\ c.upTo = 0 /\ c.after = 0 /\ c.task = t
  BY FetchIs
<1>5. PICK d \in Call : d = FetchHistory(t, 0) /\ IsPage(d) /\ d.upTo = 0 /\ d.after = 0 /\ d.task = t
  BY FetchIs
<1>6. PICK q \in Seq(Call) :
        /\ q = calls \o <<c>> /\ Len(q) = Len(calls) + 1
        /\ \A i \in 1..Len(calls) : q[i] = calls[i]
        /\ q[Len(calls) + 1] = c
  BY <1>3, CallJoins
<1>7. Len(trail[t]) \in Nat /\ Len(calls) \in Nat
  BY <1>2, <1>3 DEF Types
<1>8. Types(trail, began, t, copy, items, next, calls)
  BY <1>2 DEF Types
<1>9. Types(trail, began, t, copy, items, next, q) /\ Cursor(began, items, next, q)
  BY <1>2, <1>3, <1>4, <1>6, <1>8, JoinTypes, JoinCursor
<1>10. setting = Calm => InStep(q)
  BY <1>2, <1>3, <1>4, <1>6, <1>7, JoinInStep
<1>11. <<c>> \in Seq(Call) /\ <<d>> \in Seq(Call)
  OBVIOUS
<1>12. CASE copy = NoCopy
  <2>1. calls' = q
    BY <1>1, <1>4, <1>6, <1>11, <1>12, ConcatEmptySeq
  <2>2. setting.reliable => OfShown(t, copy, items, next, q)
    BY <1>2, <1>3, <1>4, <1>6, <1>12, JoinOfShown
  <2>3. Follows(began, t, copy, items, next, q)
    BY <1>4, <1>6, <1>7, <1>12 DEF Follows
  <2> QED
    BY <1>1, <1>2, <1>9, <1>10, <2>1, <2>2, <2>3 DEF FactsKept, Facts
<1>13. CASE copy # NoCopy
  <2>1. calls' = q \o <<d>>
    <3>1. calls' = calls \o (<<c>> \o <<d>>)
      BY <1>1, <1>4, <1>5, <1>13
    <3>2. (calls \o <<c>>) \o <<d>> = calls \o (<<c>> \o <<d>>)
      BY <1>3, <1>11, ConcatAssociative
    <3> QED
      BY <1>6, <3>1, <3>2
  <2>2. Types(trail, began, t, copy, items, next, q \o <<d>>) /\ Cursor(began, items, next, q \o <<d>>)
    BY <1>5, <1>9, JoinTypes, JoinCursor
  <2>3. setting = Calm => InStep(q \o <<d>>)
    BY <1>5, <1>7, <1>10, JoinInStep
  <2>4. setting.reliable => OfShown(t, copy, items, next, q \o <<d>>)
    <3>1. setting.reliable => OfShown(NoTask, copy, items, next, q)
      BY <1>1, <1>2, <1>3, <1>4, <1>6, JoinOfShown
    <3> QED
      BY <1>5, <1>13, <3>1, JoinOfShown
  <2>5. OfTask(q, Len(calls) + 1, t) /\ Len(calls) + 1 \in 1..Len(q)
    BY <1>4, <1>6, <1>7 DEF OfTask
  <2>6. \A i \in 1..Len(q) : (~IsPage(q[i]) /\ q[i].task # t) =>
            \E j \in 1..Len(q) : j > i /\ OfTask(q, j, t)
    <3> TAKE i \in 1..Len(q)
    <3> HAVE ~IsPage(q[i]) /\ q[i].task # t
    <3>1. Len(calls) + 1 > i
      BY <1>4, <1>6, <1>7
    <3> QED
      BY <2>5, <3>1
  <2>7. Follows(began, t, copy, items, next, q \o <<d>>)
    BY <1>5, <1>13, <2>5, <2>6, JoinPageFollows
  <2> QED
    BY <1>1, <1>2, <2>1, <2>2, <2>3, <2>4, <2>7 DEF FactsKept, Facts
<1> QED
  BY <1>12, <1>13

LEMMA StepLoadMore ==
  ASSUME setting.flag, FactsHold, LoadMore
  PROVE  FactsKept
<1>1. /\ shown # NoTask /\ copy # NoCopy /\ next # 0 /\ ~PageInFlight
      /\ calls' = calls \o <<FetchHistory(shown, next)>> /\ shown' = shown
      /\ trail' = trail /\ began' = began /\ copy' = copy /\ items' = items /\ next' = next
  BY DEF LoadMore, Ask
<1>2. /\ Types(trail, began, shown, copy, items, next, calls) /\ Cursor(began, items, next, calls)
      /\ setting.reliable => Whole(trail, began, items) /\ OfShown(shown, copy, items, next, calls)
      /\ setting = Calm => /\ Counted(trail) /\ InStep(calls)
                           /\ Follows(began, shown, copy, items, next, calls)
  BY DEF FactsHold, Facts
<1>3. shown \in Task /\ calls \in Seq(Call) /\ next \in Nat
  BY <1>1, <1>2 DEF Types
<1>4. PICK c \in Call : c = FetchHistory(shown, next) /\ IsPage(c) /\ c.upTo = 0 /\ c.after = next
                        /\ c.task = shown
  BY <1>3, FetchIs
<1>5. NoPage(calls)
  BY <1>1, <1>3 DEF PageInFlight, NoPage, IsPage
<1>6. Types(trail, began, shown, copy, items, next, calls \o <<c>>)
  BY <1>2, <1>4, JoinTypes
<1>7. Cursor(began, items, next, calls \o <<c>>)
  BY <1>2, <1>3, <1>4, <1>5, JoinCursor
<1>8. setting.reliable => items # <<>> /\ items[1][1] = shown
  BY <1>1, <1>2, <1>5 DEF OfShown
<1>9. setting.reliable => OfShown(shown, copy, items, next, calls \o <<c>>)
  BY <1>1, <1>2, <1>3, <1>4, <1>8, JoinOfShown
<1>10. setting = Calm => /\ InStep(calls \o <<c>>)
                         /\ Follows(began, shown, copy, items, next, calls \o <<c>>)
  BY <1>1, <1>2, <1>3, <1>4, <1>5, JoinInStep, JoinMoreFollows
<1> QED
  BY <1>1, <1>2, <1>4, <1>6, <1>7, <1>9, <1>10 DEF FactsKept, Facts

(* A trail only grows at its end. *)
LEMMA StepMove ==
  ASSUME FactsHold, NEW t \in Task, Move(t)
  PROVE  FactsKept
<1>1. PICK s : /\ s \in {Last(trail[t]) + 1, Last(trail[t]) - 1, 0}
               /\ s = Last(trail[t]) - 1 => setting.reversals /\ s > 0
               /\ trail' = [trail EXCEPT ![t] = Append(@, s)]
  BY DEF Move
<1>2. /\ Last(trail[t]) # 0 /\ shown' = shown /\ calls' = calls
      /\ copy' = copy /\ items' = items /\ next' = next
  BY DEF Move
<1>3. /\ Types(trail, began, shown, copy, items, next, calls)
      /\ setting = Calm => Counted(trail) /\ InStep(calls)
  BY DEF FactsHold, Facts
<1>4. trail \in [Task -> Seq(Nat)] /\ Len(trail[t]) > 0
  BY <1>3 DEF Types
<1>5. PICK b \in Seq(Nat) : b = trail[t] /\ Len(b) > 0
  BY <1>4
<1>6. Last(b) = b[Len(b)] /\ b[Len(b)] \in Nat /\ Len(b) \in Nat
  BY <1>5 DEF Last
<1>7. s \in Nat
  <2>1. PICK k \in Nat : k = Last(trail[t])
    BY <1>5, <1>6
  <2>2. s = k + 1 \/ (s = k - 1 /\ s > 0) \/ s = 0
    BY <1>1, <2>1
  <2> QED
    BY <2>2
<1>8. PICK a \in Seq(Nat) : a = Append(b, s)
  <2>1. Append(b, s) \in Seq(Nat)
    BY <1>5, <1>7, AppendProperties
  <2> QED
    BY <2>1
<1>9. Len(a) = Len(b) + 1 /\ a[Len(b) + 1] = s /\ \A i \in 1..Len(b) : a[i] = b[i]
  BY <1>5, <1>7, <1>8, AppendProperties
<1>10. PICK tr : tr = trail'
  OBVIOUS
<1>11. tr = [trail EXCEPT ![t] = a]
  BY <1>1, <1>5, <1>8, <1>10
<1>12. tr \in [Task -> Seq(Nat)] /\ tr[t] = a /\ \A u \in Task \ {t} : tr[u] = trail[u]
  BY <1>4, <1>11
<1>13. \A u \in Task : Len(trail[u]) \in Nat /\ Len(tr[u]) \in Nat /\ Len(trail[u]) <= Len(tr[u])
  <2> TAKE u \in Task
  <2>1. CASE u = t
    BY <1>4, <1>5, <1>6, <1>9, <1>12, <2>1
  <2>2. CASE u # t
    <3>1. tr[u] = trail[u] /\ trail[u] \in Seq(Nat)
      BY <1>4, <1>12, <2>2
    <3>2. Len(trail[u]) \in Nat
      BY <3>1
    <3> QED
      BY <3>1, <3>2
  <2> QED
    BY <2>1, <2>2
<1>16. PICK at \in Nat : /\ at # 0 /\ \A u \in Task : at \notin Range(began[u])
                         /\ began' = [began EXCEPT ![t] = Append(@, at)]
  <2>1. PICK at \in 2 .. MaxMoves + 1 :
           /\ \A u \in Task : at \notin Range(began[u])
           /\ began' = [began EXCEPT ![t] = Append(@, at)]
    BY DEF Move
  <2>2. at \in Nat /\ at # 0
    BY HistoryAssumption
  <2> QED
    BY <2>1, <2>2
<1>17. Timed(trail, began)
  BY <1>3 DEF Types
<1>18. PICK e \in Seq(Nat) : e = began[t] /\ Len(e) = Len(b)
  BY <1>5, <1>17 DEF Timed
<1>19. PICK f \in Seq(Nat) : f = Append(e, at)
  <2>1. Append(e, at) \in Seq(Nat)
    BY AppendProperties
  <2> QED
    BY <2>1
<1>20. Len(f) = Len(b) + 1 /\ f[Len(b) + 1] = at /\ \A m \in 1..Len(b) : f[m] = e[m] /\ e[m] # at
  <2>1. Len(f) = Len(e) + 1 /\ f[Len(e) + 1] = at /\ \A m \in 1..Len(e) : f[m] = e[m]
    BY <1>19, AppendProperties
  <2>2. \A m \in 1..Len(e) : e[m] # at
    BY <1>16, <1>18 DEF Range
  <2> QED
    BY <1>18, <2>1, <2>2
<1>21. PICK be : be = began' /\ be \in [Task -> Seq(Nat)] /\ be[t] = f
                 /\ \A u \in Task \ {t} : be[u] = began[u]
  <2>1. began \in [Task -> Seq(Nat)]
    BY <1>17 DEF Timed
  <2> QED
    BY <1>16, <1>18, <1>19, <2>1
<1>22. \A u \in Task : \A m \in 1..Len(trail[u]) : be[u][m] = began[u][m]
  <2> TAKE u \in Task
  <2>1. CASE u = t
    BY <1>5, <1>18, <1>20, <1>21, <2>1
  <2>2. CASE u # t
    BY <1>21, <2>2
  <2> QED
    BY <2>1, <2>2
<1>23. Timed(tr, be)
  <2>1. ASSUME NEW u \in Task
        PROVE  /\ Len(be[u]) = Len(tr[u])
               /\ \A m \in 1..Len(tr[u]) : be[u][m] # 0
               /\ \A m, n \in 1..Len(tr[u]) : be[u][m] = be[u][n] => m = n
    <3>1. CASE u # t
      BY <1>12, <1>17, <1>21, <3>1 DEF Timed
    <3>2. CASE u = t
      <4>1. Len(be[u]) = Len(tr[u]) /\ Len(tr[u]) = Len(b) + 1 /\ tr[u] = a /\ be[u] = f
        BY <1>9, <1>12, <1>20, <1>21, <3>2
      <4>2. /\ \A m \in 1..Len(b) : e[m] # 0
            /\ \A m, n \in 1..Len(b) : e[m] = e[n] => m = n
        <5>1. /\ \A m \in 1..Len(trail[t]) : began[t][m] # 0
              /\ \A m, n \in 1..Len(trail[t]) : began[t][m] = began[t][n] => m = n
          BY <1>17 DEF Timed
        <5> QED
          BY <1>5, <1>18, <5>1
      <4>5. \A m \in 1 .. Len(b) + 1 : m \in 1..Len(b) \/ m = Len(b) + 1
        BY <1>6
      <4>3. \A m \in 1 .. Len(b) + 1 : f[m] # 0
        BY <1>16, <1>20, <4>2, <4>5
      <4>4. \A m, n \in 1 .. Len(b) + 1 : f[m] = f[n] => m = n
        BY <1>20, <4>2, <4>5
      <4> QED
        BY <4>1, <4>3, <4>4
    <3> QED
      BY <3>1, <3>2
  <2> QED
    BY <1>21, <2>1 DEF Timed
<1>24. ASSUME NEW i \in 1..Len(items)
       PROVE  /\ items[i] \in Entry /\ items[i][1] \in Task /\ items[i][2] \in Nat
              /\ items[i][2] \in 1..Len(trail[items[i][1]])
              /\ TimeOf(be, items[i]) = TimeOf(began, items[i])
  <2>1. items[i] \in Entry /\ items[i][2] \in 1..Len(trail[items[i][1]])
    BY <1>3 DEF Types
  <2> QED
    BY <1>22, <2>1 DEF Entry, TimeOf
<1>14. Types(tr, be, shown, copy, items, next, calls)
  <2>1. \A u \in Task : Len(tr[u]) > 0
    BY <1>3, <1>13 DEF Types
  <2>2. copy = NoCopy \/ (copy \in [task : Task, upTo : Nat] /\ Served(tr, copy))
    BY SMTT(60), <1>3, <1>13 DEF Types, Served
  <2>3. ASSUME NEW i \in 1..Len(items)
        PROVE  items[i][2] \in 1..Len(tr[items[i][1]])
    <3>1. PICK u \in Task, n \in Nat : u = items[i][1] /\ n = items[i][2] /\ n \in 1..Len(trail[u])
      BY <1>24
    <3>2. n \in 1..Len(tr[u])
      BY <1>13, <3>1
    <3> QED
      BY <3>1, <3>2
  <2>4. \A i \in 1..Len(calls) : calls[i].upTo <= Len(tr[calls[i].task])
    <3> TAKE i \in 1..Len(calls)
    <3>1. calls[i] \in Call /\ calls[i].upTo <= Len(trail[calls[i].task])
      BY <1>3 DEF Types
    <3>2. calls[i].task \in Task /\ calls[i].upTo \in Nat
      BY <3>1 DEF Call
    <3> QED
      BY <1>13, <3>1, <3>2
  <2> QED
    BY <1>3, <1>12, <1>23, <2>1, <2>2, <2>3, <2>4 DEF Types
<1>25. Cursor(be, items, next, calls)
  <2>1. next # 0 => items # <<>> /\ next = TimeOf(began, items[Len(items)])
    BY DEF FactsHold, Facts, Cursor
  <2>2. items # <<>> => Len(items) \in 1..Len(items)
    BY <1>3 DEF Types
  <2>3. next # 0 => items # <<>> /\ next = TimeOf(be, items[Len(items)])
    BY <1>24, <2>1, <2>2
  <2> QED
    BY <2>3 DEF FactsHold, Facts, Cursor
<1>26. ASSUME setting.reliable
       PROVE  Whole(tr, be, items)
  <2>1. InOrder(began, items) /\ OnlyLate(trail, began, items)
    BY <1>26 DEF FactsHold, Facts, Whole
  <2>2. InOrder(be, items)
    BY <1>24, <2>1 DEF InOrder
  <2>3. OnlyLate(tr, be, items)
    <3> SUFFICES ASSUME NEW i \in 1..Len(items), NEW n \in 1..Len(tr[items[i][1]]),
                        be[items[i][1]][n] < TimeOf(be, items[i]), ~Has(items, items[i][1], n)
                 PROVE  \E j \in 1..Len(items) :
                           be[items[i][1]][n] < TimeOf(be, items[j]) /\ items[j][2] < n
      BY DEF OnlyLate
    <3>1. CASE n \in 1..Len(trail[items[i][1]])
      <4>1. PICK j \in 1..Len(items) :
               began[items[i][1]][n] < TimeOf(began, items[j]) /\ items[j][2] < n
        <5>1. be[items[i][1]][n] = began[items[i][1]][n]
          BY <1>22, <1>24, <3>1
        <5>2. began[items[i][1]][n] < TimeOf(began, items[i])
          BY <1>24, <5>1
        <5> QED
          BY <2>1, <3>1, <5>2 DEF OnlyLate
      <4>2. be[items[i][1]][n] = began[items[i][1]][n] /\ TimeOf(be, items[j]) = TimeOf(began, items[j])
        BY <1>22, <1>24, <3>1
      <4> QED
        BY <4>1, <4>2
    <3>2. CASE ~(n \in 1..Len(trail[items[i][1]]))
      <4>1. items[i][2] \in 1..Len(trail[items[i][1]]) /\ items[i][1] \in Task
        BY <1>24
      <4>2. items[i][2] < n
        BY <1>13, <3>2, <4>1
      <4> QED
        BY <4>2
    <3> QED
      BY <3>1, <3>2
  <2> QED
    BY <2>2, <2>3 DEF Whole
<1>27. ASSUME setting = Calm
       PROVE  Follows(be, shown, copy, items, next, calls)
  <2>1. Follows(began, shown, copy, items, next, calls)
    BY <1>27 DEF FactsHold, Facts
  <2>2. ASSUME copy # NoCopy, Offers(began, items, next, copy)
        PROVE  Offers(be, items, next, copy)
    <3>1. copy.task \in Task /\ copy.upTo \in 1..Len(trail[copy.task])
      BY <1>3, <2>2 DEF Types, Served
    <3>2. \A n \in 1..copy.upTo : n \in 1..Len(trail[copy.task])
      BY <1>13, <3>1
    <3> QED
      BY <1>22, <2>2, <3>1, <3>2 DEF Offers
  <2> QED
    BY <2>1, <2>2 DEF Follows
<1>15. ASSUME setting = Calm
       PROVE  Counted(tr)
  <2>1. ~setting.reversals
    BY <1>15 DEF Calm
  <2>8. Counted(trail)
    BY <1>3, <1>15
  <2>9. \A i \in 1..Len(b) : b[i] = i \/ (b[i] = 0 /\ i = Len(b))
    BY <1>5, <2>8 DEF Counted
  <2>2. b[Len(b)] = Len(b)
    BY <1>2, <1>5, <1>6, <2>9
  <2>3. s = Len(b) + 1 \/ s = 0
    BY <1>1, <1>5, <1>6, <2>1, <2>2
  <2>4. \A i \in 1..Len(b) : b[i] = i
    BY <1>3, <1>5, <1>6, <1>15, <2>2 DEF Counted
  <2>5. \A i \in 1..Len(a) : a[i] = i \/ (a[i] = 0 /\ i = Len(a))
    <3> TAKE i \in 1..Len(a)
    <3>1. i \in 1..Len(b) \/ i = Len(b) + 1
      BY <1>6, <1>9
    <3>2. CASE i \in 1..Len(b)
      BY <1>9, <2>4, <3>2
    <3>3. CASE i = Len(b) + 1
      BY <1>9, <2>3, <3>3
    <3> QED
      BY <3>1, <3>2, <3>3
  <2>6. \A u \in Task : u # t =>
           \A i \in 1..Len(tr[u]) : tr[u][i] = i \/ (tr[u][i] = 0 /\ i = Len(tr[u]))
    BY <1>3, <1>12, <1>15 DEF Counted
  <2>10. Counted(tr)
    BY <1>12, <2>5, <2>6 DEF Counted
  <2> QED
    BY <2>10
<1> QED
  BY <1>2, <1>10, <1>14, <1>15, <1>21, <1>25, <1>26, <1>27 DEF FactsHold, FactsKept, Facts

(* In a calm world a longer trail shows another status. *)
LEMMA StatusTells ==
  ASSUME NEW t \in Task, Counted(trail), trail \in [Task -> Seq(Nat)],
         NEW m \in 1..Len(trail[t]), NEW n \in 1..Len(trail[t])
  PROVE  trail[t][m] = trail[t][n] => m = n
<1>1. PICK b \in Seq(Nat) : b = trail[t]
  OBVIOUS
<1>2. \A i \in 1..Len(b) : b[i] = i \/ (b[i] = 0 /\ i = Len(b))
  BY <1>1 DEF Counted
<1>3. m \in 1..Len(b) /\ n \in 1..Len(b) /\ Len(b) \in Nat
  BY <1>1
<1>4. b[m] = b[n] => m = n
  BY SMTT(60), <1>2, <1>3
<1> QED
  BY <1>1, <1>4

LEMMA StepHear ==
  ASSUME FactsHold, Hear
  PROVE  FactsKept
<1>1. PICK n \in 1 .. Len(trail[copy.task]) :
        /\ n > copy.upTo \/ Sooner(copy.task, copy.upTo, n)
        /\ copy' = [copy EXCEPT !.upTo = n]
        /\ calls' = calls \o Follow([copy EXCEPT !.upTo = n])
  BY DEF Hear, Ask
<1>2. /\ copy # NoCopy /\ shown' = shown /\ trail' = trail /\ began' = began /\ items' = items /\ next' = next
  BY DEF Hear
<1>3. /\ Types(trail, began, shown, copy, items, next, calls) /\ Cursor(began, items, next, calls)
      /\ setting.reliable => Whole(trail, began, items) /\ OfShown(shown, copy, items, next, calls)
      /\ setting = Calm => /\ Counted(trail) /\ InStep(calls)
                           /\ Follows(began, shown, copy, items, next, calls)
  BY DEF FactsHold, Facts
<1>4. calls \in Seq(Call)
  BY <1>3 DEF Types
<1>5. copy \in [task : Task, upTo : Nat] /\ copy.upTo \in 1..Len(trail[copy.task]) /\ copy.task \in Task
  <2>1. copy \in [task : Task, upTo : Nat] /\ Served(trail, copy)
    BY <1>2, <1>3 DEF Types
  <2> QED
    BY <2>1 DEF Served
<1>6. PICK k \in Nat : k = Len(trail[copy.task])
  <2>1. trail \in [Task -> Seq(Nat)]
    BY <1>3 DEF Types
  <2>2. trail[copy.task] \in Seq(Nat)
    BY <1>5, <2>1
  <2>3. Len(trail[copy.task]) \in Nat
    BY <2>2
  <2> QED
    BY <2>3
<1>7. n \in Nat /\ n \in 1..k /\ n # copy.upTo
  <2>1. began[copy.task][copy.upTo] \in Nat
    BY <1>3, <1>5, TimesAre DEF Types
  <2> QED
    BY <1>1, <1>5, <1>6, <2>1 DEF Sooner
<1>8. PICK cp \in [task : Task, upTo : Nat] : cp = [copy EXCEPT !.upTo = n]
  BY <1>5, <1>7
<1>9. cp.task = copy.task /\ cp.upTo = n
  BY <1>5, <1>8
<1>10. cp # NoCopy
  BY <1>5, <1>9, NoCopyTask
<1>11. Types(trail, began, shown, cp, items, next, calls)
  <2>1. Served(trail, cp)
    BY <1>5, <1>6, <1>7, <1>9 DEF Served
  <2> QED
    BY <1>3, <1>8, <2>1 DEF Types
<1>12. setting.reliable => OfShown(shown, cp, items, next, calls)
  BY <1>2, <1>3, <1>10 DEF OfShown
<1>13. CASE Follow(cp) = <<>>
  <2>1. calls' = calls
    BY <1>1, <1>4, <1>8, <1>13, ConcatEmptySeq
  <2>2. ASSUME setting = Calm
        PROVE  Follows(began, shown, cp, items, next, calls)
    <3>1. CASE shown = NoTask
      BY <3>1 DEF Follows
    <3>2. CASE shown # NoTask
      <4>1. Status(cp) = Status(copy)
        BY <1>13, <3>2 DEF Follow
      <4>2. trail[copy.task][n] = trail[copy.task][copy.upTo]
        BY <1>9, <4>1 DEF Status
      <4>3. n = copy.upTo
        BY <1>3, <1>5, <1>6, <1>7, <2>2, <4>2, StatusTells DEF Types
      <4> QED
        BY <1>5, <1>7, <4>3
    <3> QED
      BY <3>1, <3>2
  <2> QED
    BY <1>1, <1>2, <1>3, <1>8, <1>11, <1>12, <2>1, <2>2 DEF FactsKept, Facts
<1>14. CASE Follow(cp) # <<>>
  <2>1. shown # NoTask /\ Follow(cp) = <<FetchHistory(shown, 0)>>
    BY <1>14 DEF Follow
  <2>2. shown \in Task
    BY <1>3, <2>1 DEF Types
  <2>3. PICK d \in Call : d = FetchHistory(shown, 0) /\ IsPage(d) /\ d.upTo = 0 /\ d.after = 0 /\ d.task = shown
    BY <2>2, FetchIs
  <2>4. calls' = calls \o <<d>>
    BY <1>1, <1>8, <2>1, <2>3
  <2>5. Types(trail, began, shown, cp, items, next, calls \o <<d>>)
    BY <1>11, <2>3, JoinTypes
  <2>6. Cursor(began, items, next, calls \o <<d>>)
    BY <1>3, <1>4, <2>3, JoinCursor
  <2>7. setting.reliable => OfShown(shown, cp, items, next, calls \o <<d>>)
    BY <1>4, <1>10, <1>12, <2>3, JoinOfShown
  <2>9. setting = Calm => InStep(calls \o <<d>>)
    BY <1>3, <1>4, <2>3, JoinInStep
  <2>10. setting = Calm => Follows(began, shown, cp, items, next, calls \o <<d>>)
    <3> SUFFICES ASSUME setting = Calm PROVE Follows(began, shown, cp, items, next, calls \o <<d>>)
      OBVIOUS
    <3>1. cp.task # shown => \E j \in 1..Len(calls) : OfTask(calls, j, shown)
      BY <1>2, <1>3, <1>9, <2>1 DEF Follows
    <3>2. \A i \in 1..Len(calls) : (~IsPage(calls[i]) /\ calls[i].task # shown) =>
             \E j \in 1..Len(calls) : j > i /\ OfTask(calls, j, shown)
      BY <1>2, <1>3, <2>1 DEF Follows
    <3> QED
      BY <1>4, <1>10, <2>3, <3>1, <3>2, JoinPageFollows
  <2> QED
    BY <1>1, <1>2, <1>3, <1>8, <2>4, <2>5, <2>6, <2>7, <2>9, <2>10 DEF FactsKept, Facts
<1> QED
  BY <1>13, <1>14

(* The server answers: only how far the call reaches is new. *)
Answers(q, p, i, n) ==
    /\ p \in Seq(Call) /\ Len(p) = Len(q)
    /\ \A j \in 1..Len(q) : /\ p[j].kind = q[j].kind /\ p[j].task = q[j].task
                            /\ p[j].after = q[j].after
                            /\ p[j].upTo = IF j = i THEN n ELSE q[j].upTo

LEMMA CallAnswered ==
  ASSUME NEW q \in Seq(Call), NEW i \in 1..Len(q), NEW n \in Nat
  PROVE  Answers(q, [q EXCEPT ![i].upTo = n], i, n)
<1>1. PICK m \in Nat : m = Len(q) /\ q \in [1..m -> Call]
  OBVIOUS
<1>2. PICK d \in Call : d = [q[i] EXCEPT !.upTo = n]
  BY <1>1 DEF Call
<1>3. q[i] \in Call
  BY <1>1
<1>4. d.kind = q[i].kind /\ d.task = q[i].task /\ d.after = q[i].after /\ d.upTo = n
  BY <1>2, <1>3 DEF Call
<1>5. PICK p : p = [q EXCEPT ![i] = d]
  OBVIOUS
<1>6. p \in [1..m -> Call] /\ \A j \in 1..m : p[j] = IF j = i THEN d ELSE q[j]
  BY <1>1, <1>5
<1>7. p \in Seq(Call) /\ Len(p) = m
  BY <1>6
<1>8. p = [q EXCEPT ![i].upTo = n]
  BY <1>2, <1>5
<1>9. Answers(q, p, i, n)
  BY <1>1, <1>4, <1>6, <1>7 DEF Answers
<1> QED
  BY <1>8, <1>9

LEMMA AnswersPages ==
  ASSUME NEW q \in Seq(Call), NEW p, NEW i, NEW n, Answers(q, p, i, n)
  PROVE  /\ Len(p) = Len(q)
         /\ \A j \in 1..Len(q) : IsPage(p[j]) <=> IsPage(q[j])
         /\ NoPage(p) <=> NoPage(q)
         /\ \A j : LastPage(p, j) <=> LastPage(q, j)
         /\ Rest(p) <=> Rest(q)
         /\ \A j, t : OfTask(p, j, t) <=> OfTask(q, j, t)
         /\ \A j : PagedAfter(p, j) <=> PagedAfter(q, j)
<1>1. Len(p) = Len(q) /\ \A j \in 1..Len(q) : /\ IsPage(p[j]) <=> IsPage(q[j])
                                              /\ p[j].task = q[j].task /\ p[j].after = q[j].after
  BY DEF Answers, IsPage
<1>2. NoPage(p) <=> NoPage(q)
  BY <1>1 DEF NoPage
<1>3. \A j : LastPage(p, j) <=> LastPage(q, j)
  BY <1>1 DEF LastPage
<1>4. \A j, t : OfTask(p, j, t) <=> OfTask(q, j, t)
  BY <1>1 DEF OfTask
<1>5. \A j : PagedAfter(p, j) <=> PagedAfter(q, j)
  BY <1>1 DEF PagedAfter
<1>6. Rest(p) <=> Rest(q)
  BY <1>1 DEF Rest
<1> QED
  BY <1>1, <1>2, <1>3, <1>4, <1>5, <1>6

LEMMA StepServe ==
  ASSUME setting.fifo, FactsHold, NEW i \in DOMAIN calls, Serve(i)
  PROVE  FactsKept
<1>1. PICK n \in Visible(calls[i]) : calls' = [calls EXCEPT ![i].upTo = n]
  BY DEF Serve
<1>2. /\ calls[i].upTo = 0 /\ \A j \in 1..i-1 : calls[j].upTo # 0
      /\ trail' = trail /\ began' = began /\ shown' = shown /\ copy' = copy /\ items' = items /\ next' = next
  BY DEF Serve
<1>3. /\ Types(trail, began, shown, copy, items, next, calls) /\ Cursor(began, items, next, calls)
      /\ setting.reliable => Whole(trail, began, items) /\ OfShown(shown, copy, items, next, calls)
      /\ setting = Calm => /\ Counted(trail) /\ InStep(calls)
                           /\ Follows(began, shown, copy, items, next, calls)
  BY DEF FactsHold, Facts
<1>4. calls \in Seq(Call) /\ i \in 1..Len(calls) /\ Len(calls) \in Nat
  BY <1>3 DEF Types
<1>5. calls[i] \in Call
  BY <1>4
<1>6. PICK k \in Nat : k = Len(trail[calls[i].task]) /\ k > 0
  <2>1. calls[i].task \in Task
    BY <1>5 DEF Call
  <2> QED
    BY <1>3, <2>1 DEF Types
<1>7. n \in 1..k /\ (setting.primary => n = k)
  BY <1>6 DEF Visible
<1>8. n \in Nat /\ n # 0 /\ n <= k
  BY <1>7
<1>9. PICK p : p = calls' /\ Answers(calls, p, i, n)
  BY <1>1, <1>4, <1>8, CallAnswered
<1>10. /\ Len(p) = Len(calls) /\ p \in Seq(Call)
       /\ \A j \in 1..Len(calls) : IsPage(p[j]) <=> IsPage(calls[j])
       /\ NoPage(p) <=> NoPage(calls)
       /\ Rest(p) <=> Rest(calls)
       /\ \A j : LastPage(p, j) <=> LastPage(calls, j)
       /\ \A j, t : OfTask(p, j, t) <=> OfTask(calls, j, t)
       /\ \A j : PagedAfter(p, j) <=> PagedAfter(calls, j)
  <2>1. p \in Seq(Call)
    BY <1>9 DEF Answers
  <2> QED
    BY <1>4, <1>9, <2>1, AnswersPages
<1>11. \A j \in 1..Len(calls) : /\ p[j].task = calls[j].task /\ p[j].after = calls[j].after
                                /\ p[j].upTo = IF j = i THEN n ELSE calls[j].upTo
  BY <1>9 DEF Answers
<1>12. Types(trail, began, shown, copy, items, next, p)
  <2>1. \A j \in 1..Len(p) : p[j].upTo <= Len(trail[p[j].task])
    BY <1>3, <1>6, <1>8, <1>10, <1>11 DEF Types
  <2> QED
    BY <1>3, <1>10, <2>1 DEF Types
<1>13. Cursor(began, items, next, p)
  BY <1>3, <1>10, <1>11 DEF Cursor
<1>14. setting.reliable => OfShown(shown, copy, items, next, p)
  <2> SUFFICES ASSUME setting.reliable PROVE OfShown(shown, copy, items, next, p)
    OBVIOUS
  <2>1. \A j : LastPage(p, j) => p[j].task = calls[j].task
    BY <1>10, <1>11 DEF LastPage
  <2> QED
    BY <1>3, <1>10, <1>11, <2>1 DEF OfShown
<1>15. ASSUME setting = Calm
       PROVE  InStep(p)
  <2>1. n = k
    BY <1>7, <1>15 DEF Calm
  <2>3. ASSUME NEW j \in 1..Len(p), NEW l \in 1..Len(p), j < l, p[l].upTo # 0
        PROVE  p[j].upTo # 0 /\ (p[j].task = p[l].task => p[j].upTo <= p[l].upTo)
    <3>1. CASE l = i
      <4>1. j # i /\ j \in 1..i-1
        BY <1>4, <1>10, <2>3, <3>1
      <4>2. calls[j].upTo <= Len(trail[calls[j].task]) /\ calls[j].upTo # 0
        BY <1>2, <1>3, <1>10, <4>1 DEF Types
      <4> QED
        BY <1>6, <1>10, <1>11, <2>1, <3>1, <4>1, <4>2
    <3>2. CASE l # i
      <4>1. calls[l].upTo # 0 /\ j < l
        BY <1>10, <1>11, <2>3, <3>2
      <4>2. calls[j].upTo # 0 /\ (calls[j].task = calls[l].task => calls[j].upTo <= calls[l].upTo)
        BY <1>3, <1>10, <1>15, <4>1 DEF InStep
      <4>3. j # i
        BY <1>2, <4>2
      <4> QED
        BY <1>10, <1>11, <3>2, <4>2, <4>3
    <3> QED
      BY <3>1, <3>2
  <2> QED
    BY <2>3 DEF InStep
<1>16. ASSUME setting = Calm
       PROVE  Follows(began, shown, copy, items, next, p)
  <2>1. n = k /\ setting.reliable
    BY <1>7, <1>16 DEF Calm
  <2>2. SUFFICES ASSUME shown # NoTask
                 PROVE  Follows(began, shown, copy, items, next, p)
    BY DEF Follows
  <2>3. CASE copy = NoCopy
    <3>1. Len(calls) > 0 /\ calls[Len(calls)].task = shown
      BY <1>3, <1>16, <2>2, <2>3 DEF Follows
    <3>2. Len(calls) \in 1..Len(calls)
      BY <1>4, <3>1
    <3> QED
      BY <1>10, <1>11, <2>3, <3>1, <3>2 DEF Follows
  <2>4. CASE copy # NoCopy
    <3>1. copy.task # shown => \E j \in 1..Len(p) : OfTask(p, j, shown) /\ PagedAfter(p, j)
      BY <1>3, <1>10, <1>16, <2>2, <2>4 DEF Follows
    <3>2. \A l \in 1..Len(p) : (~IsPage(p[l]) /\ p[l].task # shown) =>
             \E j \in 1..Len(p) : j > l /\ OfTask(p, j, shown) /\ PagedAfter(p, j)
      BY <1>3, <1>10, <1>11, <1>16, <2>2, <2>4 DEF Follows
    <3>3. ASSUME copy.task = shown, NEW j, LastPage(p, j)
          PROVE  p[j].upTo = 0 \/ p[j].upTo >= copy.upTo
      <4>1. LastPage(calls, j) /\ j \in 1..Len(calls)
        BY <1>10, <3>3 DEF LastPage
      <4>2. CASE j = i
        <5>1. calls[i].task = shown
          BY <1>3, <2>1, <2>2, <2>4, <4>1, <4>2 DEF OfShown
        <5>2. copy.upTo <= k
          BY <1>3, <1>6, <2>4, <3>3, <5>1 DEF Types, Served
        <5> QED
          BY <1>11, <2>1, <4>1, <4>2, <5>2
      <4>3. CASE j # i
        <5>1. calls[j].upTo = 0 \/ calls[j].upTo >= copy.upTo
          BY <1>3, <1>16, <2>2, <2>4, <3>3, <4>1 DEF Follows
        <5> QED
          BY <1>11, <4>1, <4>3, <5>1
      <4> QED
        BY <4>2, <4>3
    <3>4. copy.task = shown => (Rest(p) => Offers(began, items, next, copy))
      BY <1>3, <1>10, <1>16, <2>2, <2>4 DEF Follows
    <3> QED
      BY <2>4, <3>1, <3>2, <3>3, <3>4 DEF Follows
  <2> QED
    BY <2>3, <2>4
<1> QED
  BY <1>2, <1>3, <1>9, <1>12, <1>13, <1>14, <1>15, <1>16 DEF FactsKept, Facts

LEMMA FirstCall ==
  ASSUME FactsHold, 1 \in DOMAIN calls
  PROVE  /\ calls \in Seq(Call) /\ 1 \in 1..Len(calls) /\ calls[1] \in Call
         /\ Left(calls, RemoveAt(calls, 1))
<1>1. calls \in Seq(Call)
  BY DEF FactsHold, Facts, Types
<1>2. 1 \in 1..Len(calls) /\ calls[1] \in Call
  BY <1>1
<1> QED
  BY <1>1, <1>2, CallLeaves

LEMMA StepTakeHistory ==
  ASSUME setting.fifo, FactsHold, NEW i \in DOMAIN calls, TakeHistory(i)
  PROVE  FactsKept
<1>0. PICK page \in Pages(calls[i]) :
        items' = Merged(calls[i], page) /\ next' = NextCursor(calls[i], page)
  BY DEF TakeHistory
<1>1. /\ i = 1 /\ calls[1].upTo # 0 /\ IsPage(calls[1]) /\ page \in Pages(calls[1])
      /\ items' = Merged(calls[1], page) /\ next' = NextCursor(calls[1], page)
      /\ calls' = RemoveAt(calls, 1)
      /\ trail' = trail /\ began' = began /\ shown' = shown /\ copy' = copy
  BY <1>0 DEF TakeHistory, Answered, Done, IsPage
<1>2. /\ Types(trail, began, shown, copy, items, next, calls) /\ Cursor(began, items, next, calls)
      /\ setting.reliable => Whole(trail, began, items) /\ OfShown(shown, copy, items, next, calls)
      /\ setting = Calm => /\ Counted(trail) /\ InStep(calls)
                           /\ Follows(began, shown, copy, items, next, calls)
  BY DEF FactsHold, Facts
<1>3. calls \in Seq(Call) /\ 1 \in 1..Len(calls)
  BY <1>1, FirstCall
<1>4. PICK p : p = RemoveAt(calls, 1) /\ Left(calls, p)
  BY <1>1, FirstCall
<1>5. PICK c \in Call : c = calls[1]
  BY <1>1, FirstCall
<1>6. PICK it : it = Merged(c, page)
  OBVIOUS
<1>7. PICK nx : nx = NextCursor(c, page)
  OBVIOUS
<1>8. /\ items \in Seq(Entry) /\ next \in Nat /\ trail \in [Task -> Seq(Nat)]
      /\ Timed(trail, began) /\ c.upTo <= Len(trail[c.task])
  BY <1>2, <1>3, <1>5 DEF Types
<1>9. Cursor(began, it, nx, p) /\ it \in Seq(Entry) /\ nx \in Nat
  BY <1>1, <1>2, <1>3, <1>4, <1>5, <1>6, <1>7, <1>8, TakenCursor
<1>10. PICK tr : tr = trail /\ tr \in [Task -> Seq(Nat)]
  BY <1>2 DEF Types
<1>11. Types(trail, began, shown, copy, items, next, p)
  BY <1>2, <1>4, LeaveTypes
<1>12. \A j \in 1..Len(it) : it[j][2] \in 1..Len(trail[it[j][1]])
  <2>1. page \in Seq(Nat) /\ \A j \in 1..Len(page) : page[j] \in 1..c.upTo
    BY <1>1, <1>5, <1>8, PageIs
  <2>2. PICK it2 \in Seq(Entry), b \in Nat :
            /\ it2 = Merged(c, page) /\ b = Before(c)
            /\ Len(page) \in Nat /\ Len(it2) = b + Len(page)
            /\ \A j \in 1..b : it2[j] = items[j]
            /\ \A j \in 1..Len(page) : it2[b + j] = <<c.task, page[j]>>
    BY <1>8, <2>1, MergedIs
  <2>3. c.upTo \in Nat /\ c.task \in Task /\ Len(trail[c.task]) \in Nat
    BY <1>8 DEF Call
  <2> TAKE j \in 1..Len(it)
  <2>5. CASE j <= b
    <3>1. j \in 1..b /\ j \in 1..Len(items)
      BY <1>6, <1>8, <2>2, <2>5 DEF Before
    <3>2. items[j][2] \in 1..Len(trail[items[j][1]])
      BY <1>2, <3>1 DEF Types
    <3> QED
      BY <1>6, <2>2, <3>1, <3>2
  <2>6. CASE j > b
    <3>1. j - b \in 1..Len(page) /\ b + (j - b) = j
      BY <1>6, <2>2, <2>6
    <3>2. it[j] = <<c.task, page[j - b]>> /\ page[j - b] \in 1..c.upTo
      BY <1>6, <2>1, <2>2, <3>1
    <3> QED
      BY <1>8, <2>3, <3>2
  <2> QED
    BY <1>6, <2>2, <2>5, <2>6
<1>13. Types(trail, began, shown, copy, it, nx, p)
  BY <1>9, <1>11, <1>12 DEF Types
<1>14. ASSUME setting.reliable
       PROVE  Whole(trail, began, it) /\ OfShown(shown, copy, it, nx, p)
  <2>1. Whole(trail, began, it) /\ it # <<>> /\ it[1][1] = c.task
    <3>1. /\ Whole(trail, began, Merged(calls[1], page))
          /\ Merged(calls[1], page) # <<>> /\ Merged(calls[1], page)[1][1] = calls[1].task
      BY ZenonT(60), <1>1, <1>2, <1>3, <1>14, TakenWhole
    <3> QED
      BY <1>5, <1>6, <3>1
  <2>2. OfShown(shown, copy, it, nx, p)
    BY <1>1, <1>2, <1>3, <1>4, <1>5, <1>14, <2>1, TakenOfShown
  <2> QED
    BY <2>1, <2>2
<1>15. setting = Calm => InStep(p)
  BY <1>2, <1>3, <1>4, LeaveInStep
<1>16. ASSUME setting = Calm
       PROVE  Follows(began, shown, copy, it, nx, p)
  <2>1. SUFFICES ASSUME shown # NoTask PROVE Follows(began, shown, copy, it, nx, p)
    BY DEF Follows
  <2>2. setting.reliable
    BY <1>16, CalmReliable
  <2>3. /\ Len(p) \in Nat
        /\ \A j : LastPage(p, j) => LastPage(calls, j + 1) /\ p[j] = calls[j + 1]
        /\ NoPage(p) => LastPage(calls, 1)
    BY <1>1, <1>3, <1>4, LeftIndex
  <2>4. copy # NoCopy
    BY <1>1, <1>2, <1>3, <2>2 DEF OfShown, NoPage
  <2>5. /\ copy.task # shown => \E j \in 1..Len(calls) : OfTask(calls, j, shown) /\ PagedAfter(calls, j)
        /\ \A l \in 1..Len(calls) : (~IsPage(calls[l]) /\ calls[l].task # shown) =>
              \E j \in 1..Len(calls) : j > l /\ OfTask(calls, j, shown) /\ PagedAfter(calls, j)
        /\ copy.task = shown =>
              /\ \A j : LastPage(calls, j) => calls[j].upTo = 0 \/ calls[j].upTo >= copy.upTo
              /\ Rest(calls) => Offers(began, items, next, copy)
    BY <1>2, <1>16, <2>1, <2>4 DEF Follows
  <2>6. copy.task # shown => \E j \in 1..Len(p) : OfTask(p, j, shown) /\ PagedAfter(p, j)
    <3> HAVE copy.task # shown
    <3>1. PICK j \in 1..Len(calls) : OfTask(calls, j, shown) /\ PagedAfter(calls, j)
      BY <2>5
    <3>2. j # 1
      BY <1>1, <3>1 DEF OfTask
    <3> QED
      BY ZenonT(60), <1>3, <1>4, <3>1, <3>2, LeavePaged
  <2>7. \A l \in 1..Len(p) : (~IsPage(p[l]) /\ p[l].task # shown) =>
           \E j \in 1..Len(p) : j > l /\ OfTask(p, j, shown) /\ PagedAfter(p, j)
    BY <1>3, <1>4, <2>5, LeaveFollowed
  <2>8. ASSUME copy.task = shown
        PROVE  /\ \A j : LastPage(p, j) => p[j].upTo = 0 \/ p[j].upTo >= copy.upTo
               /\ Rest(p) => Offers(began, it, nx, copy)
    <3>1. \A j : LastPage(p, j) => p[j].upTo = 0 \/ p[j].upTo >= copy.upTo
      BY <2>3, <2>5, <2>8
    <3>2. ASSUME Rest(p)
          PROVE  LastPage(calls, 1)
      <4>1. ASSUME NEW j \in 1..Len(p), IsPage(p[j])
            PROVE  FALSE
        <5>1. p[j] = calls[j + 1] /\ j + 1 \in 1..Len(calls) /\ 1 < j + 1
          BY <1>3, <1>4, <2>3, LeftIndex
        <5> QED
          BY <1>1, <1>2, <1>3, <3>2, <4>1, <5>1 DEF Cursor, Rest
      <4> QED
        BY <2>3, <4>1 DEF NoPage
    <3>3. ASSUME Rest(p)
          PROVE  Offers(began, it, nx, copy)
      <4>1. c.upTo >= copy.upTo /\ c.task = shown
        BY <1>1, <1>2, <1>5, <2>1, <2>2, <2>4, <2>5, <2>8, <3>2, <3>3 DEF OfShown
      <4>2. c.after # 0 => Offers(began, items, next, copy) /\ c.after = next
        <5>1. c.after # 0 => Rest(calls)
          <6>1. \A j \in 1..Len(calls) : IsPage(calls[j]) => j = 1
            BY <1>3, <3>2, <3>3 DEF LastPage
          <6> QED
            BY <1>5, <6>1 DEF Rest
        <5> QED
          BY <1>1, <1>2, <1>3, <1>5, <2>5, <2>8, <5>1 DEF Cursor
      <4>3. copy.upTo \in Nat /\ c.upTo \in Nat
        BY <1>2, <2>4 DEF Types, Call
      <4> SUFFICES ASSUME NEW n \in 1..copy.upTo
                   PROVE  Has(it, copy.task, n) \/ (nx # 0 /\ nx < began[copy.task][n])
        BY DEF Offers
      <4>4. n \in 1..c.upTo
        BY <4>1, <4>3
      <4>5. c.after # 0 => Has(items, c.task, n) \/ c.after < began[c.task][n]
        BY <2>8, <4>1, <4>2 DEF Offers
      <4> QED
        BY <1>1, <1>5, <1>6, <1>7, <1>8, <2>8, <4>1, <4>4, <4>5, TakenOffers
    <3> QED
      BY <3>1, <3>3
  <2> QED
    BY <2>4, <2>6, <2>7, <2>8 DEF Follows
<1> QED
  <2>1. items' = it /\ next' = nx /\ calls' = p
    BY <1>1, <1>4, <1>5, <1>6, <1>7
  <2>2. setting = Calm => Counted(trail)
    BY <1>2
  <2> QED
    BY <1>1, <1>9, <1>13, <1>14, <1>15, <1>16, <2>1, <2>2 DEF FactsKept, Facts

LEMMA StepFail ==
  ASSUME setting.fifo, FactsHold, NEW i \in DOMAIN calls, Fail(i)
  PROVE  FactsKept
<1>1. /\ i = 1 /\ ~setting.reliable /\ setting # Calm /\ calls' = RemoveAt(calls, 1)
      /\ trail' = trail /\ began' = began /\ shown' = shown /\ copy' = copy /\ items' = items /\ next' = next
  BY CalmReliable DEF Fail, Done
<1>2. /\ Types(trail, began, shown, copy, items, next, calls) /\ Cursor(began, items, next, calls)
  BY DEF FactsHold, Facts
<1>3. PICK p : p = RemoveAt(calls, 1) /\ Left(calls, p)
  BY <1>1, FirstCall
<1>4. calls \in Seq(Call)
  BY <1>2 DEF Types
<1>5. Types(trail, began, shown, copy, items, next, p)
  BY <1>2, <1>3, LeaveTypes
<1>6. Cursor(began, items, next, p)
  BY <1>2, <1>3, <1>4, LeaveCursor
<1> QED
  BY <1>1, <1>3, <1>5, <1>6 DEF FactsKept, Facts

(* The drawer's task is read: the new copy follows, at once or by a page.   *)
LEMMA TakeTaskFollows ==
  ASSUME shown # NoTask, calls \in Seq(Call), NEW p, Left(calls, p), ~IsPage(calls[1]),
         NEW cp \in [task : Task, upTo : Nat], cp.task = calls[1].task, cp.upTo = calls[1].upTo,
         cp # NoCopy, cp.upTo # 0, cp.upTo \in 1..Len(trail[cp.task]),
         Types(trail, began, shown, copy, items, next, calls),
         Counted(trail), InStep(calls),
         OfShown(shown, copy, items, next, calls), Follows(began, shown, copy, items, next, calls)
  PROVE  /\ (copy = NoCopy \/ Status(cp) # Status(copy)) =>
              /\ cp.task # shown => \E j \in 1..Len(p) : OfTask(p, j, shown)
              /\ \A i \in 1..Len(p) : (~IsPage(p[i]) /\ p[i].task # shown) =>
                    \E j \in 1..Len(p) : j > i /\ OfTask(p, j, shown)
         /\ (copy # NoCopy /\ Status(cp) = Status(copy)) => Follows(began, shown, cp, items, next, p)
<1>1. /\ Len(p) \in Nat /\ Len(calls) = Len(p) + 1 /\ 1 \in 1..Len(calls)
      /\ \A i \in 1..Len(p) : i + 1 \in 1..Len(calls) /\ p[i] = calls[i + 1]
      /\ \A i : LastPage(p, i) => LastPage(calls, i + 1) /\ p[i] = calls[i + 1]
      /\ NoPage(p) => NoPage(calls)
  BY LeftIndex
<1>2. CASE copy = NoCopy
  <2>1. NoPage(calls) /\ calls[Len(calls)].task = shown
    BY <1>2 DEF OfShown, Follows
  <2>2. CASE Len(p) = 0
    BY <1>1, <1>2, <2>1, <2>2
  <2>3. CASE Len(p) # 0
    <3>1. Len(p) \in 1..Len(p) /\ p[Len(p)] = calls[Len(calls)]
      BY <1>1, <2>3
    <3>2. OfTask(p, Len(p), shown)
      BY <1>1, <2>1, <3>1 DEF OfTask, NoPage
    <3>3. \A i \in 1..Len(p) : p[i].task # shown => Len(p) > i
      BY <1>1, <2>1, <3>1
    <3> QED
      BY <1>2, <3>1, <3>2, <3>3
  <2> QED
    BY <2>2, <2>3
<1>3. CASE copy # NoCopy
  <2>1. \A i \in 1..Len(calls) : (~IsPage(calls[i]) /\ calls[i].task # shown) =>
           \E j \in 1..Len(calls) : j > i /\ OfTask(calls, j, shown) /\ PagedAfter(calls, j)
    BY <1>3 DEF Follows
  <2>2. \A i \in 1..Len(p) : (~IsPage(p[i]) /\ p[i].task # shown) =>
           \E j \in 1..Len(p) : j > i /\ OfTask(p, j, shown) /\ PagedAfter(p, j)
    BY <2>1, LeaveFollowed
  <2>3. cp.task # shown => \E j \in 1..Len(p) : OfTask(p, j, shown) /\ PagedAfter(p, j)
    <3> HAVE cp.task # shown
    <3>1. PICK j \in 1..Len(calls) : j > 1 /\ OfTask(calls, j, shown) /\ PagedAfter(calls, j)
      BY <1>1, <2>1
    <3>2. j # 1
      BY <3>1
    <3> QED
      BY ZenonT(60), <3>1, <3>2, LeavePaged
  <2>4. ASSUME Status(cp) = Status(copy), cp.task = shown
        PROVE  /\ \A j : LastPage(p, j) => p[j].upTo = 0 \/ p[j].upTo >= cp.upTo
               /\ Rest(p) => Offers(began, items, next, cp)
    <3>1. CASE copy.task = shown
      <4>1. copy.upTo \in 1..Len(trail[shown]) /\ cp.upTo \in 1..Len(trail[shown])
        BY <1>3, <2>4, <3>1 DEF Types, Served
      <4>2. trail[shown][cp.upTo] = trail[shown][copy.upTo]
        BY <2>4, <3>1 DEF Status
      <4>3. cp.upTo = copy.upTo
        BY <2>4, <4>1, <4>2, StatusTells DEF Types
      <4>4. /\ \A j : LastPage(calls, j) => calls[j].upTo = 0 \/ calls[j].upTo >= copy.upTo
            /\ Rest(calls) => Offers(began, items, next, copy)
        BY <1>3, <3>1 DEF Follows
      <4>5. Rest(p) => Rest(calls)
        BY LeaveRest
      <4> QED
        BY <1>1, <2>4, <3>1, <4>3, <4>4, <4>5 DEF Offers
    <3>2. CASE copy.task # shown
      <4>1. PICK j \in 1..Len(calls) : OfTask(calls, j, shown) /\ PagedAfter(calls, j)
        BY <1>3, <3>2 DEF Follows
      <4>2. PICK k \in 1..Len(calls) : k > j /\ IsPage(calls[k]) /\ calls[k].after = 0
        BY <4>1 DEF PagedAfter
      <4>3. k # 1 /\ k - 1 \in 1..Len(p) /\ p[k - 1] = calls[k]
        BY <4>2, LeftIndex
      <4>4. ~Rest(p)
        BY <4>2, <4>3 DEF Rest
      <4>5. ASSUME NEW l, LastPage(p, l)
            PROVE  p[l].upTo = 0 \/ p[l].upTo >= cp.upTo
        <5>1. LastPage(calls, l + 1) /\ p[l] = calls[l + 1] /\ l \in 1..Len(p)
          BY <1>1, <4>5 DEF LastPage
        <5>2. calls[l + 1].task = shown
          BY <1>3, <5>1 DEF OfShown
        <5>3. 1 < l + 1 /\ l + 1 \in 1..Len(calls)
          BY <1>1, <5>1
        <5>4. calls[l + 1].upTo \in Nat
          <6>1. calls[l + 1] \in Call
            BY <5>3
          <6> QED
            BY <6>1 DEF Call
        <5>5. calls[l + 1].upTo # 0 => calls[1].upTo <= calls[l + 1].upTo
          BY <1>1, <2>4, <5>2, <5>3 DEF InStep
        <5> QED
          BY <5>1, <5>4, <5>5
      <4> QED
        BY <4>4, <4>5
    <3> QED
      BY <3>1, <3>2
  <2>5. Status(cp) = Status(copy) => Follows(began, shown, cp, items, next, p)
    BY <2>2, <2>3, <2>4 DEF Follows
  <2> QED
    BY <1>3, <2>2, <2>3, <2>5
<1> QED
  BY <1>2, <1>3

LEMMA StepTakeTask ==
  ASSUME setting.fifo, FactsHold, NEW i \in DOMAIN calls, TakeTask(i)
  PROVE  FactsKept
<1> DEFINE c0 == [task |-> calls[1].task, upTo |-> calls[1].upTo]
<1>1. /\ i = 1 /\ calls[1].upTo # 0 /\ ~IsPage(calls[1])
      /\ copy' = c0 /\ calls' = RemoveAt(calls, 1) \o Follow(c0)
      /\ trail' = trail /\ began' = began /\ shown' = shown /\ items' = items /\ next' = next
  BY DEF TakeTask, Answered, Done, IsPage
<1>2. /\ Types(trail, began, shown, copy, items, next, calls) /\ Cursor(began, items, next, calls)
      /\ setting.reliable => Whole(trail, began, items) /\ OfShown(shown, copy, items, next, calls)
      /\ setting = Calm => /\ Counted(trail) /\ InStep(calls)
                           /\ Follows(began, shown, copy, items, next, calls)
  BY DEF FactsHold, Facts
<1>3. calls \in Seq(Call) /\ 1 \in 1..Len(calls) /\ calls[1] \in Call
  BY <1>1, FirstCall
<1>4. PICK p \in Seq(Call) : p = RemoveAt(calls, 1) /\ Left(calls, p)
  <2>1. Left(calls, RemoveAt(calls, 1))
    BY <1>1, FirstCall
  <2> QED
    BY <2>1 DEF Left
<1>5. PICK cp \in [task : Task, upTo : Nat] :
        cp = c0 /\ cp.task = calls[1].task /\ cp.upTo = calls[1].upTo
  <2>1. calls[1].task \in Task /\ calls[1].upTo \in Nat
    BY <1>3 DEF Call
  <2>2. c0 \in [task : Task, upTo : Nat] /\ c0.task = calls[1].task /\ c0.upTo = calls[1].upTo
    BY <2>1
  <2> QED
    BY <2>2
<1> HIDE DEF c0
<1>6. cp # NoCopy /\ cp.upTo # 0
  BY <1>1, <1>5, NoCopyTask
<1>7. cp.upTo \in 1..Len(trail[cp.task])
  <2>2. calls[1].upTo <= Len(trail[calls[1].task])
    BY <1>2, <1>3 DEF Types
  <2>3. trail \in [Task -> Seq(Nat)] /\ cp.task \in Task
    BY <1>2 DEF Types
  <2>4. trail[cp.task] \in Seq(Nat)
    BY <2>3
  <2>1. Len(trail[cp.task]) \in Nat /\ calls[1].upTo <= Len(trail[calls[1].task])
    BY <2>2, <2>4
  <2> QED
    BY <1>5, <1>6, <2>1
<1>8. Types(trail, began, shown, cp, items, next, p)
  <2>1. Types(trail, began, shown, copy, items, next, p)
    BY <1>2, <1>4, LeaveTypes
  <2> QED
    BY <1>7, <2>1 DEF Types, Served
<1>9. Cursor(began, items, next, p)
  BY <1>2, <1>3, <1>4, LeaveCursor
<1>10. setting = Calm => InStep(p)
  BY <1>2, <1>3, <1>4, LeaveInStep
<1>11. setting = Calm => setting.reliable
  BY CalmReliable
<1>12. ASSUME setting = Calm, shown # NoTask
       PROVE  /\ (copy = NoCopy \/ Status(cp) # Status(copy)) =>
                   /\ cp.task # shown => \E j \in 1..Len(p) : OfTask(p, j, shown)
                   /\ \A l \in 1..Len(p) : (~IsPage(p[l]) /\ p[l].task # shown) =>
                         \E j \in 1..Len(p) : j > l /\ OfTask(p, j, shown)
              /\ (copy # NoCopy /\ Status(cp) = Status(copy)) => Follows(began, shown, cp, items, next, p)
  BY <1>1, <1>2, <1>3, <1>4, <1>5, <1>6, <1>7, <1>11, <1>12, TakeTaskFollows
<1>13. CASE shown # NoTask /\ (copy = NoCopy \/ Status(cp) # Status(copy))
  <2>1. shown \in Task
    BY <1>2, <1>13 DEF Types
  <2>2. PICK d \in Call : d = FetchHistory(shown, 0) /\ IsPage(d) /\ d.upTo = 0 /\ d.after = 0 /\ d.task = shown
    BY <2>1, FetchIs
  <2>3. calls' = p \o <<d>>
    BY <1>1, <1>4, <1>5, <1>13, <2>2 DEF Follow
  <2>4. Types(trail, began, shown, cp, items, next, p \o <<d>>)
    BY <1>8, <2>2, JoinTypes
  <2>5. Cursor(began, items, next, p \o <<d>>)
    BY <1>4, <1>9, <2>2, JoinCursor
  <2>6. setting.reliable => OfShown(shown, cp, items, next, p \o <<d>>)
    <3> HAVE setting.reliable
    <3>1. OfShown(NoTask, copy, items, next, calls)
      BY <1>2 DEF OfShown
    <3>2. OfShown(NoTask, cp, items, next, p)
      BY <1>1, <1>3, <1>4, <1>6, <3>1, LeaveOfShown
    <3> QED
      BY <1>4, <1>6, <2>2, <3>2, JoinOfShown
  <2>7. Len(trail[shown]) \in Nat
    BY <1>2, <2>1 DEF Types
  <2>8. setting = Calm => InStep(p \o <<d>>)
    BY <1>4, <1>10, <2>2, <2>7, JoinInStep
  <2>9. setting = Calm => Follows(began, shown, cp, items, next, p \o <<d>>)
    <3> HAVE setting = Calm
    <3>1. /\ cp.task # shown => \E j \in 1..Len(p) : OfTask(p, j, shown)
          /\ \A l \in 1..Len(p) : (~IsPage(p[l]) /\ p[l].task # shown) =>
                \E j \in 1..Len(p) : j > l /\ OfTask(p, j, shown)
      BY <1>12, <1>13
    <3> QED
      BY <1>4, <1>6, <2>2, <3>1, JoinPageFollows
  <2>10. copy' = cp
    BY <1>1, <1>5
  <2> QED
    BY <1>1, <1>2, <2>3, <2>4, <2>5, <2>6, <2>8, <2>9, <2>10 DEF FactsKept, Facts
<1>14. CASE ~(shown # NoTask /\ (copy = NoCopy \/ Status(cp) # Status(copy)))
  <2>1. calls' = p /\ copy' = cp
    BY <1>1, <1>4, <1>5, <1>14, ConcatEmptySeq DEF Follow
  <2>2. setting.reliable => OfShown(shown, cp, items, next, p)
    BY <1>1, <1>2, <1>3, <1>4, <1>6, <1>14, LeaveOfShown
  <2>3. setting = Calm => Follows(began, shown, cp, items, next, p)
    <3>1. CASE shown = NoTask
      BY <3>1 DEF Follows
    <3>2. CASE shown # NoTask
      BY <1>12, <1>14, <3>2
    <3> QED
      BY <3>1, <3>2
  <2> QED
    BY <1>1, <1>2, <1>8, <1>9, <1>10, <2>1, <2>2, <2>3 DEF FactsKept, Facts
<1> QED
  BY <1>13, <1>14
----------------------------------------------------------------------------
LEMMA HistoryInitial == HistoryInit => HistoryIInv
<1> SUFFICES ASSUME HistoryInit PROVE HistoryIInv
  OBVIOUS
<1>1. /\ setting \in Settings /\ trail = [t \in Task |-> <<1>>]
      /\ began = [t \in Task |-> <<1>>] /\ shown = NoTask
      /\ copy = NoCopy /\ items = <<>> /\ next = 0 /\ calls = <<>>
  BY DEF HistoryInit
<1>2. <<1>> \in Seq(Nat) /\ Len(<<1>>) = 1 /\ <<1>>[1] = 1
  OBVIOUS
<1>3. /\ trail \in [Task -> Seq(Nat)] /\ \A t \in Task : trail[t] = <<1>>
      /\ began \in [Task -> Seq(Nat)] /\ \A t \in Task : began[t] = <<1>>
  BY <1>1, <1>2
<1>10. Timed(trail, began)
  BY <1>2, <1>3 DEF Timed
<1>4. Len(calls) = 0 /\ Len(items) = 0 /\ calls \in Seq(Call) /\ items \in Seq(Entry)
  BY <1>1
<1>5. Types(trail, began, shown, copy, items, next, calls)
  BY <1>1, <1>2, <1>3, <1>4, <1>10 DEF Types
<1>6. Cursor(began, items, next, calls) /\ Whole(trail, began, items)
  BY <1>1, <1>4 DEF Cursor, Whole, InOrder, OnlyLate
<1>7. OfShown(shown, copy, items, next, calls)
  BY <1>1, <1>4 DEF OfShown, NoPage
<1>8. Counted(trail)
  BY <1>2, <1>3 DEF Counted
<1>9. InStep(calls) /\ Follows(began, shown, copy, items, next, calls)
  BY <1>1, <1>4 DEF InStep, Follows
<1> QED
  BY <1>1, <1>5, <1>6, <1>7, <1>8, <1>9 DEF HistoryIInv, Facts

LEMMA HistoryStep == HistoryIInv /\ [HistoryNext]_historyVars => HistoryIInv'
<1> SUFFICES ASSUME HistoryIInv, [HistoryNext]_historyVars PROVE HistoryIInv'
  OBVIOUS
<1>1. setting' = setting
  BY DEF HistoryNext, historyVars, Open, Move, Close, Refetch, LoadMore, Hear,
         Serve, TakeHistory, TakeTask, Fail
<1>2. setting \in Settings
  BY DEF HistoryIInv
<1>3. ASSUME setting.fifo, setting.flag
      PROVE  FactsKept
  <2>1. FactsHold
    BY <1>3 DEF HistoryIInv, FactsHold
  <2>2. CASE UNCHANGED historyVars
    BY <2>1, <2>2 DEF historyVars, FactsHold, FactsKept
  <2>3. ASSUME NEW t \in Task, Open(t) PROVE FactsKept
    BY <2>1, <2>3, StepOpen
  <2>4. ASSUME NEW t \in Task, Move(t) PROVE FactsKept
    BY <2>1, <2>4, StepMove
  <2>5. CASE Close
    BY <2>1, <2>5, StepClose
  <2>6. CASE Refetch
    BY <2>1, <2>6, StepRefetch
  <2>7. CASE LoadMore
    BY <1>3, <2>1, <2>7, StepLoadMore
  <2>8. CASE Hear
    BY <2>1, <2>8, StepHear
  <2>9. ASSUME NEW i \in DOMAIN calls, Serve(i) PROVE FactsKept
    BY <1>3, <2>1, <2>9, StepServe
  <2>10. ASSUME NEW i \in DOMAIN calls, TakeHistory(i) PROVE FactsKept
    BY <1>3, <2>1, <2>10, StepTakeHistory
  <2>11. ASSUME NEW i \in DOMAIN calls, TakeTask(i) PROVE FactsKept
    BY <1>3, <2>1, <2>11, StepTakeTask
  <2>12. ASSUME NEW i \in DOMAIN calls, Fail(i) PROVE FactsKept
    BY <1>3, <2>1, <2>12, StepFail
  <2> QED
    BY <2>2, <2>3, <2>4, <2>5, <2>6, <2>7, <2>8, <2>9, <2>10, <2>11, <2>12 DEF HistoryNext
<1> QED
  BY <1>1, <1>2, <1>3 DEF HistoryIInv, FactsKept

(* The inductive invariant holds in every state, for any tasks, page size   *)
(* and settings: every call of the drawer's store and every order of the   *)
(* answers keeps it.                                                        *)
THEOREM HistoryInductive == HistorySpec => []HistoryIInv
BY HistoryInitial, HistoryStep, PTL DEF HistorySpec

(* fetchTaskHistory's merging of pages puts together one task's entries, in *)
(* order, none twice, and leaves out only those committed late, for any     *)
(* tasks, trails, transactions that overlap and page size; and its cursor   *)
(* is where the timeline ends.                                              *)
THEOREM TimelineIsWhole == HistorySpec => []OrderlyTimelineWhole
<1>1. HistoryIInv => OrderlyTimelineWhole
  <2> SUFFICES ASSUME HistoryIInv PROVE OrderlyTimelineWhole
    OBVIOUS
  <2>1. Orderly => setting.fifo /\ setting.flag /\ setting.reliable
    BY DEF Orderly, Calm
  <2>2. (setting.fifo /\ setting.flag) => /\ items \in Seq(Entry)
                                          /\ Cursor(began, items, next, calls)
    BY DEF HistoryIInv, Facts, Types
  <2>3. (setting.fifo /\ setting.flag /\ next # 0) => items # <<>> /\ next = CursorAt(Last(items))
    BY <2>2 DEF Cursor, Last, CursorAt, TimeOf
  <2>4. Orderly => TimelineWhole
    <3> HAVE Orderly
    <3>1. Whole(trail, began, items) /\ DOMAIN items = 1..Len(items)
      BY <2>1, <2>2 DEF HistoryIInv, Facts
    <3>2. \A i, j \in DOMAIN items :
             /\ items[i][1] = items[j][1]
             /\ i < j => Sooner(items[i][1], items[i][2], items[j][2])
      BY <3>1 DEF Whole, InOrder, TimeOf, Sooner
    <3>3. ASSUME NEW i \in DOMAIN items, NEW n \in 1..Len(trail[items[i][1]]),
                 Sooner(items[i][1], n, items[i][2]), ~Shows(items[i][1], n)
          PROVE  \E j \in DOMAIN items :
                    Sooner(items[i][1], n, items[j][2]) /\ items[j][2] < n
      <4>1. PICK j \in DOMAIN items :
               began[items[i][1]][n] < TimeOf(began, items[j]) /\ items[j][2] < n
        BY <3>1, <3>3 DEF Whole, OnlyLate, Has, Shows, Sooner, TimeOf
      <4>2. items[j][1] = items[i][1]
        BY <3>2
      <4> QED
        BY <4>1, <4>2 DEF Sooner, TimeOf
    <3> QED
      BY <2>1, <2>3, <3>2, <3>3 DEF TimelineWhole
  <2> QED
    BY <2>3, <2>4 DEF OrderlyTimelineWhole
<1> QED
  BY <1>1, HistoryInductive, PTL

(* Once nothing is in flight the drawer's timeline is of the drawer's task  *)
(* and shows, or offers, every entry that the drawer's copy reflects, for   *)
(* any number of tasks, openings and calls.                                 *)
THEOREM TimelineKeepsUp == HistorySpec => []CalmTimelineFollows
<1>1. HistoryIInv => CalmTimelineFollows
  <2> SUFFICES ASSUME HistoryIInv, setting = Calm, shown # NoTask, calls = <<>>, copy.task = shown
               PROVE  /\ items # <<>> /\ items[1][1] = shown
                      /\ \A n \in 1..copy.upTo :
                            Shows(shown, n) \/ (next # 0 /\ next < began[shown][n])
    BY DEF CalmTimelineFollows, TimelineFollows
  <2>1. setting.fifo /\ setting.flag /\ setting.reliable
    BY DEF Calm
  <2>2. /\ OfShown(shown, copy, items, next, calls) /\ Follows(began, shown, copy, items, next, calls)
        /\ items \in Seq(Entry)
    BY <2>1 DEF HistoryIInv, Facts, Types
  <2>3. copy # NoCopy /\ NoPage(calls) /\ Rest(calls)
    BY DEF NoCopy, NoPage, Rest
  <2>4. Offers(began, items, next, copy)
    BY <2>2, <2>3 DEF Follows
  <2>5. items # <<>> /\ items[1][1] = shown
    BY <2>2, <2>3 DEF OfShown
  <2>6. DOMAIN items = 1..Len(items)
    BY <2>2
  <2>7. \A n \in 1..copy.upTo : Has(items, shown, n) \/ (next # 0 /\ next < began[shown][n])
    BY <2>4 DEF Offers
  <2> QED
    BY <2>5, <2>6, <2>7 DEF Has, Shows
<1> QED
  BY <1>1, HistoryInductive, PTL
=============================================================================
