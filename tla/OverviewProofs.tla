---------------------------- MODULE OverviewProofs ----------------------------
(***************************************************************************)
(* Proofs about Overview, for any pages, accounts, streams and limits: the *)
(* stream counters are exact, and no write that a page is owed is          *)
(* forgotten.                                                              *)
(*                                                                         *)
(* NothingForgotten alone is not inductive: an overview that is older than *)
(* what a page shows may be on its way to it.  Each of the two reads that  *)
(* can bring one, the broadcast's and the stream's own, is followed by a   *)
(* newer broadcast then (ReadFollowed, SnapshotFollowed).                  *)
(***************************************************************************)
EXTENDS Overview, FiniteSetTheorems, TLAPS

\* A broadcast that will read late enough for what page b is owed.
Coming(b) ==
  \/ unannounced > 0 \/ scheduled \/ changedWhileReading
  \/ reading # NoRead /\ reading >= due[b]

\* No more writes are still to be announced than there were.
AnnouncedLater == unannounced <= version

DueExists == \A b \in Boards : due[b] <= version

\* A page without a stream is owed nothing.
NothingOwedUnconnected ==
  \A b \in Boards :
    source[b] = NoRead => due[b] = 0 /\ initial[b] = NoRead /\ ~receivedLiveUpdate[b]

StreamMeansOpen == \A b \in Boards : source[b] # NoRead => board[b] = "open"

\* The timer is not set during a read.
TimerRests == scheduled => reading = NoRead

\* A write since the broadcast's read began will start another one.
ReadFollowed ==
  (reading # NoRead /\ reading < version) => unannounced > 0 \/ changedWhileReading

\* A first snapshot older than what is owed will be followed by a broadcast.
SnapshotFollowed ==
  \A b \in Boards :
    (initial[b] # NoRead /\ ~receivedLiveUpdate[b] /\ initial[b] < due[b]) => Coming(b)

Delivery ==
  /\ AnnouncedLater /\ DueExists /\ NothingOwedUnconnected /\ StreamMeansOpen
  /\ TimerRests /\ ReadFollowed /\ SnapshotFollowed /\ NothingForgotten

Inv == TypeOK /\ StreamsCounted /\ Delivery

-----------------------------------------------------------------------------
(* The streams *)

Held == {s \in Streams : owner[s] # Nobody}

LEMMA StreamsFinite ==
  /\ IsFiniteSet(Held) /\ Cardinality(Held) \in Nat
  /\ \A u \in Users : IsFiniteSet(StreamsOf(u)) /\ Cardinality(StreamsOf(u)) \in Nat
<1>1. IsFiniteSet(Streams) /\ Held \in SUBSET Streams /\ \A u \in Users : StreamsOf(u) \in SUBSET Streams
  BY OverviewAssumption DEF Held, StreamsOf
<1> QED
  BY <1>1, FS_Subset, FS_CardinalityType

LEMMA InitInv == Init => Inv
<1> SUFFICES ASSUME Init PROVE Inv
  OBVIOUS
<1> USE DEF Init
<1>1. TypeOK
  <2>1. 0 \in Versions /\ 0 \in 0 .. MaxPerUser /\ 0 \in 0 .. MaxTotal
    BY OverviewAssumption DEF Versions
  <2> QED
    BY <2>1 DEF TypeOK
<1>2. StreamsCounted
  <2>1. Held = {} /\ \A u \in Users : StreamsOf(u) = {}
    BY DEF Held, StreamsOf
  <2> QED
    BY <2>1, FS_EmptySet DEF StreamsCounted, Held
<1>3. Delivery
  BY DEF Delivery, AnnouncedLater, DueExists, NothingOwedUnconnected, StreamMeansOpen, TimerRests,
         ReadFollowed, SnapshotFollowed, NothingForgotten
<1> QED
  BY <1>1, <1>2, <1>3 DEF Inv

LEMMA SameStreams ==
  ASSUME StreamsCounted, UNCHANGED streams
  PROVE  StreamsCounted'
  BY DEF StreamsCounted, StreamsOf, streams

LEMMA ConnectCounted ==
  ASSUME TypeOK, StreamsCounted, NEW b \in Boards, NEW s \in Streams, Connect(b, s)
  PROVE  StreamsCounted'
<1>0. /\ owner[s] = Nobody /\ owner' = [owner EXCEPT ![s] = b] /\ b # Nobody /\ UserOf[b] \in Users
      /\ streamsByUser' = [streamsByUser EXCEPT ![UserOf[b]] = @ + 1]
      /\ totalStreams' = totalStreams + 1
  BY OverviewAssumption DEF Connect
<1>1. totalStreams' = Cardinality(Held')
  <2>1. s \notin Held /\ Held' = Held \cup {s}
    BY <1>0 DEF Held, TypeOK
  <2> QED
    BY <1>0, <2>1, StreamsFinite, FS_AddElement DEF StreamsCounted, Held
<1>2. ASSUME NEW u \in Users PROVE streamsByUser'[u] = Cardinality(StreamsOf(u)')
  <2>1. CASE u = UserOf[b]
    <3>1. s \notin StreamsOf(u) /\ StreamsOf(u)' = StreamsOf(u) \cup {s}
      BY <1>0, <2>1 DEF StreamsOf, TypeOK
    <3>2. streamsByUser'[u] = streamsByUser[u] + 1
      BY <1>0, <2>1 DEF TypeOK
    <3> QED
      BY <3>1, <3>2, StreamsFinite, FS_AddElement DEF StreamsCounted
  <2>2. CASE u # UserOf[b]
    <3>1. StreamsOf(u)' = StreamsOf(u)
      BY <1>0, <2>2 DEF StreamsOf, TypeOK
    <3>2. streamsByUser'[u] = streamsByUser[u]
      BY <1>0, <2>2 DEF TypeOK
    <3> QED
      BY <3>1, <3>2 DEF StreamsCounted
  <2> QED
    BY <2>1, <2>2
<1> QED
  BY <1>1, <1>2 DEF StreamsCounted, Held

LEMMA CloseCounted ==
  ASSUME TypeOK, StreamsCounted, NEW s \in Streams, Close(s)
  PROVE  /\ StreamsCounted'
         /\ streamsByUser[UserOf[owner[s]]] >= 1 /\ totalStreams >= 1
<1>a. UserOf[owner[s]] \in Users
  BY OverviewAssumption DEF Close, TypeOK
<1> PICK o \in Users : o = UserOf[owner[s]]
  BY <1>a
<1>0. /\ owner[s] # Nobody /\ owner' = [owner EXCEPT ![s] = Nobody]
      /\ streamsByUser' = [streamsByUser EXCEPT ![o] = @ - 1]
      /\ totalStreams' = totalStreams - 1
  BY DEF Close
<1>1. totalStreams' = Cardinality(Held') /\ totalStreams >= 1
  <2>1. s \in Held /\ Held' = Held \ {s}
    BY <1>0 DEF Held, TypeOK
  <2>2. Cardinality(Held') = Cardinality(Held) - 1 /\ IsFiniteSet(Held')
    BY <2>1, StreamsFinite, FS_RemoveElement
  <2>3. Cardinality(Held') \in Nat /\ totalStreams = Cardinality(Held)
    BY <2>2, FS_CardinalityType DEF StreamsCounted, Held
  <2> QED
    BY <1>0, <2>2, <2>3, StreamsFinite
<1>2. streamsByUser'[o] = Cardinality(StreamsOf(o)') /\ streamsByUser[o] >= 1
  <2>0. \A t \in Streams : owner'[t] = IF t = s THEN Nobody ELSE owner[t]
    BY <1>0 DEF TypeOK
  <2>1. s \in StreamsOf(o) /\ StreamsOf(o)' = StreamsOf(o) \ {s}
    BY <1>0, <2>0 DEF StreamsOf
  <2>2. Cardinality(StreamsOf(o)') = Cardinality(StreamsOf(o)) - 1 /\ IsFiniteSet(StreamsOf(o)')
    BY <1>0, <2>1, StreamsFinite, FS_RemoveElement
  <2>3. Cardinality(StreamsOf(o)') \in Nat /\ streamsByUser[o] = Cardinality(StreamsOf(o))
    BY <1>0, <2>2, FS_CardinalityType DEF StreamsCounted
  <2>4. streamsByUser'[o] = streamsByUser[o] - 1
    BY <1>0 DEF TypeOK
  <2> QED
    BY <1>0, <2>2, <2>3, <2>4, StreamsFinite
<1>3. ASSUME NEW u \in Users, u # o PROVE streamsByUser'[u] = Cardinality(StreamsOf(u)')
  <2>1. StreamsOf(u)' = StreamsOf(u)
    BY <1>0, <1>3 DEF StreamsOf, TypeOK
  <2>2. streamsByUser'[u] = streamsByUser[u]
    BY <1>0, <1>3 DEF TypeOK
  <2> QED
    BY <2>1, <2>2 DEF StreamsCounted
<1>4. ASSUME NEW u \in Users PROVE streamsByUser'[u] = Cardinality(StreamsOf(u)')
  <2>1. CASE u = o
    BY <1>2, <2>1 DEF StreamsOf
  <2>2. CASE u # o
    BY <1>3, <2>2
  <2> QED
    BY <2>1, <2>2
<1> QED
  BY <1>1, <1>2, <1>4 DEF StreamsCounted, Held

LEMMA CountedStep == Inv /\ [Next]_vars => StreamsCounted'
<1> SUFFICES ASSUME Inv, [Next]_vars PROVE StreamsCounted'
  OBVIOUS
<1>0. TypeOK /\ StreamsCounted
  BY DEF Inv
<1>1. ASSUME NEW b \in Boards, NEW s \in Streams, Connect(b, s) PROVE StreamsCounted'
  BY <1>0, <1>1, ConnectCounted
<1>2. ASSUME NEW s \in Streams, Close(s) PROVE StreamsCounted'
  BY <1>0, <1>2, CloseCounted
<1>3. CASE Restart
  <2>1. /\ owner' = [s \in Streams |-> Nobody]
        /\ streamsByUser' = [u \in Users |-> 0] /\ totalStreams' = 0
    BY <1>3 DEF Restart
  <2>2. Held' = {} /\ \A u \in Users : StreamsOf(u)' = {}
    BY <2>1 DEF Held, StreamsOf
  <2> QED
    BY <2>1, <2>2, FS_EmptySet DEF StreamsCounted, Held
<1>4. CASE SaveLands \/ Notify \/ StartBroadcast \/ Broadcast \/ BroadcastFails \/ UNCHANGED vars
  <2>1. UNCHANGED streams
    BY <1>4 DEF SaveLands, Notify, StartBroadcast, Broadcast, BroadcastFails, vars
  <2> QED
    BY <1>0, <2>1, SameStreams
<1>5. ASSUME NEW b \in Boards,
             FirstSnapshot(b) \/ FirstSnapshotFails(b) \/ Refuse(b) \/ Open(b) \/ Leave(b)
      PROVE  StreamsCounted'
  <2>1. UNCHANGED streams
    BY <1>5 DEF FirstSnapshot, FirstSnapshotFails, Refuse, Open, Leave
  <2> QED
    BY <1>0, <2>1, SameStreams
<1> QED
  BY <1>1, <1>2, <1>3, <1>4, <1>5 DEF Next

LEMMA TypeStep == Inv /\ [Next]_vars => TypeOK'
<1> SUFFICES ASSUME Inv, [Next]_vars PROVE TypeOK'
  OBVIOUS
<1>0. TypeOK /\ AnnouncedLater /\ StreamsCounted
  BY DEF Inv, Delivery
<1>1. /\ MaxVersion \in Nat /\ MaxPerUser \in Nat /\ MaxTotal \in Nat
      /\ \A b \in Boards : UserOf[b] \in Users
      /\ Nobody \notin Boards /\ NoRead \notin Nat
  BY OverviewAssumption
<1> USE <1>0, <1>1 DEF TypeOK, Versions
<1>2. CASE SaveLands
  BY <1>2 DEF SaveLands, AnnouncedLater, broadcaster, streams, connections, pages
<1>3. CASE Notify
  <2>1. due' \in [Boards -> Versions] /\ unannounced' \in Versions
    BY <1>3 DEF Notify
  <2>2. scheduled' \in BOOLEAN /\ changedWhileReading' \in BOOLEAN
    BY <1>3 DEF Notify, Schedule
  <2> QED
    BY <1>3, <2>1, <2>2 DEF Notify, streams, pages
<1>4. CASE StartBroadcast
  BY <1>4 DEF StartBroadcast, streams, connections, pages
<1>5. CASE Broadcast
  <2>1. PICK v \in reading..version : Show(Connected, v)
    BY <1>5 DEF Broadcast
  <2>2. v \in Versions
    BY <1>5, <2>1 DEF Broadcast
  <2>3. shown' \in [Boards -> Versions]
    BY <2>1, <2>2 DEF Show
  <2>4. receivedLiveUpdate' \in [Boards -> BOOLEAN]
    BY <1>5 DEF Broadcast
  <2> QED
    BY <1>5, <2>3, <2>4 DEF Broadcast, EndReading, streams
<1>6. CASE BroadcastFails
  <2>1. due' \in [Boards -> Versions]
    BY <1>6 DEF BroadcastFails
  <2> QED
    BY <1>6, <2>1 DEF BroadcastFails, EndReading, streams, pages
<1>7. CASE Restart
  <2>1. 0 \in Versions /\ 0 \in 0 .. MaxPerUser /\ 0 \in 0 .. MaxTotal
    OBVIOUS
  <2>2. due' \in [Boards -> Versions] /\ initial' \in [Boards -> Versions \cup {NoRead}]
    BY <1>7, <2>1 DEF Restart, Disconnected
  <2>3. /\ source' \in [Boards -> Streams \cup {NoRead}]
        /\ receivedLiveUpdate' \in [Boards -> BOOLEAN]
    BY <1>7 DEF Restart, Disconnected
  <2> QED
    BY <1>7, <2>1, <2>2, <2>3 DEF Restart
<1>8. ASSUME NEW s \in Streams, Close(s) PROVE TypeOK'
  <2>1. streamsByUser[UserOf[owner[s]]] >= 1 /\ totalStreams >= 1 /\ UserOf[owner[s]] \in Users
    BY <1>8, CloseCounted DEF Close
  <2>2. streamsByUser' \in [Users -> 0..MaxPerUser] /\ totalStreams' \in 0..MaxTotal
    BY <1>8, <2>1 DEF Close
  <2> QED
    BY <1>8, <2>2 DEF Close, broadcaster, connections, pages
<1>9. ASSUME NEW b \in Boards, NEW s \in Streams, Connect(b, s) PROVE TypeOK'
  <2>1. streamsByUser' \in [Users -> 0..MaxPerUser] /\ totalStreams' \in 0..MaxTotal
    BY <1>9 DEF Connect, HasRoom
  <2> QED
    BY <1>9, <2>1 DEF Connect, broadcaster
<1>10. ASSUME NEW b \in Boards, FirstSnapshot(b) PROVE TypeOK'
  <2>1. PICK v \in initial[b]..version : Show({b} \ {c \in Boards : receivedLiveUpdate[c]}, v)
    BY <1>10 DEF FirstSnapshot
  <2>2. v \in Versions
    BY <1>10, <2>1 DEF FirstSnapshot
  <2> QED
    BY <1>10, <2>1, <2>2 DEF FirstSnapshot, Show, broadcaster, streams
<1>11. ASSUME NEW b \in Boards, FirstSnapshotFails(b) PROVE TypeOK'
  BY <1>11 DEF FirstSnapshotFails, broadcaster, streams, pages
<1>12. ASSUME NEW b \in Boards, Refuse(b) \/ Open(b) PROVE TypeOK'
  BY <1>12 DEF Refuse, Open, Turn, broadcaster, streams, connections
<1>13. ASSUME NEW b \in Boards, Leave(b) PROVE TypeOK'
  <2>1. board' \in [Boards -> {"away", "opening", "open", "waiting"}]
    BY <1>13 DEF Leave, Turn
  <2>2. /\ source' \in [Boards -> Streams \cup {NoRead}]
        /\ receivedLiveUpdate' \in [Boards -> BOOLEAN]
        /\ initial' \in [Boards -> Versions \cup {NoRead}]
        /\ due' \in [Boards -> Versions]
    BY <1>13 DEF Leave, Disconnected
  <2> QED
    BY <1>13, <2>1, <2>2 DEF Leave, broadcaster, streams
<1>14. CASE UNCHANGED vars
  BY <1>14 DEF vars, broadcaster, streams, connections, pages
<1> QED
  BY <1>2, <1>3, <1>4, <1>5, <1>6, <1>7, <1>8, <1>9, <1>10, <1>11, <1>12, <1>13, <1>14 DEF Next

-----------------------------------------------------------------------------
(* What is owed *)

LEMMA DeliveryOfWrites ==
  ASSUME TypeOK, Delivery, SaveLands \/ Notify \/ StartBroadcast
  PROVE  Delivery'
<1>0. /\ version \in Nat /\ unannounced \in Nat
      /\ reading \in Nat \cup {NoRead} /\ NoRead \notin Nat
      /\ due \in [Boards -> Nat] /\ shown \in [Boards -> Nat]
      /\ initial \in [Boards -> Nat \cup {NoRead}]
      /\ scheduled \in BOOLEAN /\ changedWhileReading \in BOOLEAN
  BY OverviewAssumption DEF TypeOK, Versions
<1> USE <1>0 DEF Delivery
<1>1. CASE SaveLands
  <2>1. /\ version' = version + 1 /\ unannounced' = unannounced + 1
        /\ UNCHANGED <<scheduled, reading, changedWhileReading, board, source, receivedLiveUpdate,
                       initial, due, shown>>
    BY <1>1 DEF SaveLands, broadcaster, connections, pages
  <2>2. AnnouncedLater' /\ DueExists' /\ ReadFollowed'
    BY <2>1 DEF AnnouncedLater, DueExists, ReadFollowed
  <2>3. NothingOwedUnconnected' /\ StreamMeansOpen' /\ TimerRests'
    BY <2>1 DEF NothingOwedUnconnected, StreamMeansOpen, TimerRests
  <2>4. unannounced' > 0
    BY <2>1
  <2>5. SnapshotFollowed' /\ NothingForgotten'
    BY <2>4 DEF SnapshotFollowed, NothingForgotten, Coming
  <2> QED
    BY <2>2, <2>3, <2>5
<1>2. CASE Notify
  <2>1. /\ unannounced > 0 /\ unannounced' = unannounced - 1
        /\ due' = [b \in Boards |-> IF source[b] = NoRead THEN 0 ELSE version]
        /\ UNCHANGED <<version, reading, board, source, receivedLiveUpdate, initial, shown>>
    BY <1>2 DEF Notify, pages
  <2>2. \/ reading # NoRead /\ changedWhileReading' /\ scheduled' = scheduled
        \/ reading = NoRead /\ scheduled'
    BY <1>2 DEF Notify, Schedule
  <2>3. AnnouncedLater' /\ DueExists' /\ ReadFollowed' /\ TimerRests'
    BY <2>1, <2>2 DEF AnnouncedLater, DueExists, ReadFollowed, TimerRests
  <2>4. NothingOwedUnconnected' /\ StreamMeansOpen'
    BY <2>1 DEF NothingOwedUnconnected, StreamMeansOpen
  <2>5. SnapshotFollowed' /\ NothingForgotten'
    BY <2>2 DEF SnapshotFollowed, NothingForgotten, Coming
  <2> QED
    BY <2>3, <2>4, <2>5
<1>3. CASE StartBroadcast
  <2>1. /\ scheduled' = FALSE /\ reading' = version
        /\ UNCHANGED <<version, unannounced, changedWhileReading, board, source, receivedLiveUpdate,
                       initial, due, shown>>
    BY <1>3 DEF StartBroadcast, connections, pages
  <2>2. AnnouncedLater' /\ DueExists' /\ ReadFollowed' /\ TimerRests'
    BY <2>1 DEF AnnouncedLater, DueExists, ReadFollowed, TimerRests
  <2>3. NothingOwedUnconnected' /\ StreamMeansOpen'
    BY <2>1 DEF NothingOwedUnconnected, StreamMeansOpen
  <2>4. \A b \in Boards : reading' # NoRead /\ reading' >= due'[b]
    BY <2>1 DEF DueExists
  <2>5. SnapshotFollowed' /\ NothingForgotten'
    BY <2>4 DEF SnapshotFollowed, NothingForgotten, Coming
  <2> QED
    BY <2>2, <2>3, <2>5
<1> QED
  BY <1>1, <1>2, <1>3

\* A broadcast that comes back pays what was owed when it began, or is followed by another.
LEMMA DeliveryOfBroadcast ==
  ASSUME TypeOK, Delivery, Broadcast
  PROVE  Delivery'
<1>0. /\ version \in Nat /\ unannounced \in Nat
      /\ reading \in Nat /\ NoRead \notin Nat
      /\ due \in [Boards -> Nat] /\ shown \in [Boards -> Nat]
      /\ initial \in [Boards -> Nat \cup {NoRead}]
      /\ changedWhileReading \in BOOLEAN
  BY OverviewAssumption DEF TypeOK, Versions, Broadcast
<1>1. /\ reading' = NoRead /\ changedWhileReading' = FALSE /\ scheduled' = changedWhileReading
      /\ receivedLiveUpdate' = [b \in Boards |-> b \in Connected]
      /\ UNCHANGED <<version, unannounced, source, initial, due, board>>
  BY DEF Broadcast, EndReading
<1>2. PICK v \in reading..version : Show(Connected, v)
  BY DEF Broadcast
<1>3. \A b \in Boards : shown'[b] = IF source[b] # NoRead THEN v ELSE shown[b]
  BY <1>2 DEF Show, Connected
<1> USE <1>0 DEF Delivery
<1>4. AnnouncedLater' /\ DueExists' /\ TimerRests' /\ ReadFollowed'
  BY <1>1 DEF AnnouncedLater, DueExists, TimerRests, ReadFollowed
<1>5. NothingOwedUnconnected' /\ StreamMeansOpen'
  BY <1>1 DEF NothingOwedUnconnected, StreamMeansOpen, Connected
<1>6. SnapshotFollowed'
  BY <1>1 DEF SnapshotFollowed, NothingOwedUnconnected, Connected
<1>7. NothingForgotten'
  <2>1. ASSUME NEW b \in Boards, shown'[b] < due[b]
        PROVE  unannounced > 0 \/ changedWhileReading
    <3>1. source[b] # NoRead
      BY <1>3, <2>1 DEF NothingOwedUnconnected
    <3>2. v < due[b] /\ due[b] <= version /\ v \in Nat /\ reading <= v
      BY <1>3, <2>1, <3>1 DEF DueExists
    <3> QED
      BY <3>2 DEF ReadFollowed
  <2> QED
    BY <1>1, <2>1 DEF NothingForgotten
<1> QED
  BY <1>4, <1>5, <1>6, <1>7

LEMMA DeliveryOfFailures ==
  ASSUME TypeOK, Delivery, BroadcastFails \/ Restart
  PROVE  Delivery'
<1>0. /\ version \in Nat /\ unannounced \in Nat
      /\ due \in [Boards -> Nat] /\ shown \in [Boards -> Nat]
      /\ changedWhileReading \in BOOLEAN
      /\ initial \in [Boards -> Nat \cup {NoRead}]
      /\ NoRead \notin Nat
  BY OverviewAssumption DEF TypeOK, Versions
<1> USE <1>0 DEF Delivery
<1>1. CASE BroadcastFails
  <2>1. /\ reading' = NoRead /\ changedWhileReading' = FALSE /\ scheduled' = changedWhileReading
        /\ due' = [b \in Boards |-> IF changedWhileReading THEN due[b] ELSE 0]
        /\ UNCHANGED <<version, unannounced, source, initial, receivedLiveUpdate, board, shown>>
    BY <1>1 DEF BroadcastFails, EndReading, pages
  <2>2. AnnouncedLater' /\ DueExists' /\ TimerRests' /\ ReadFollowed'
    BY <2>1 DEF AnnouncedLater, DueExists, TimerRests, ReadFollowed
  <2>3. NothingOwedUnconnected' /\ StreamMeansOpen'
    BY <2>1 DEF NothingOwedUnconnected, StreamMeansOpen
  <2>4. SnapshotFollowed' /\ NothingForgotten'
    <3>1. CASE changedWhileReading
      BY <2>1, <3>1 DEF SnapshotFollowed, NothingForgotten, Coming
    <3>2. CASE ~changedWhileReading
      <4>1. \A b \in Boards : due'[b] = 0 /\ shown'[b] >= 0 /\ (initial'[b] # NoRead => initial'[b] >= 0)
        BY <2>1, <3>2
      <4>2. \A b \in Boards : ~(shown'[b] < due'[b]) /\ ~(initial'[b] # NoRead /\ initial'[b] < due'[b])
        BY <2>1, <4>1
      <4> QED
        BY <4>2 DEF SnapshotFollowed, NothingForgotten
    <3> QED
      BY <3>1, <3>2
  <2> QED
    BY <2>2, <2>3, <2>4
<1>2. CASE Restart
  <2>1. /\ unannounced' = 0 /\ scheduled' = FALSE /\ reading' = NoRead
        /\ UNCHANGED <<version, shown>>
        /\ \A b \in Boards : /\ source'[b] = NoRead /\ initial'[b] = NoRead
                             /\ due'[b] = 0 /\ ~receivedLiveUpdate'[b]
    BY <1>2 DEF Restart, Disconnected
  <2>2. AnnouncedLater' /\ DueExists' /\ TimerRests' /\ ReadFollowed'
    BY <2>1 DEF AnnouncedLater, DueExists, TimerRests, ReadFollowed
  <2>3. NothingOwedUnconnected' /\ StreamMeansOpen' /\ SnapshotFollowed'
    BY <2>1 DEF NothingOwedUnconnected, StreamMeansOpen, SnapshotFollowed
  <2>4. NothingForgotten'
    BY <2>1 DEF NothingForgotten
  <2> QED
    BY <2>2, <2>3, <2>4
<1> QED
  BY <1>1, <1>2

LEMMA DeliveryOfSnapshots ==
  ASSUME TypeOK, Delivery, NEW b \in Boards, FirstSnapshot(b) \/ FirstSnapshotFails(b)
  PROVE  Delivery'
<1>0. /\ version \in Nat /\ unannounced \in Nat
      /\ reading \in Nat \cup {NoRead} /\ NoRead \notin Nat
      /\ due \in [Boards -> Nat] /\ shown \in [Boards -> Nat]
      /\ initial \in [Boards -> Nat \cup {NoRead}] /\ initial[b] \in Nat
  BY OverviewAssumption DEF TypeOK, Versions, FirstSnapshot, FirstSnapshotFails
<1>1. /\ initial' = [initial EXCEPT ![b] = NoRead]
      /\ UNCHANGED <<version, unannounced, scheduled, reading, changedWhileReading, board, source,
                     receivedLiveUpdate>>
  BY DEF FirstSnapshot, FirstSnapshotFails, broadcaster, pages
<1> USE <1>0 DEF Delivery
<1>2. /\ \A c \in Boards : c # b => shown'[c] = shown[c] /\ due'[c] = due[c] /\ initial'[c] = initial[c]
      /\ due'[b] \in {0, due[b]} /\ initial'[b] = NoRead
      /\ \/ due'[b] = 0 /\ shown'[b] = shown[b]
         \/ due'[b] = due[b] /\ receivedLiveUpdate[b] /\ shown'[b] = shown[b]
         \/ due'[b] = due[b] /\ ~receivedLiveUpdate[b] /\ shown'[b] >= initial[b] /\ shown'[b] \in Nat
  <2>1. CASE FirstSnapshot(b)
    <3>1. PICK v \in initial[b]..version : Show({b} \ {c \in Boards : receivedLiveUpdate[c]}, v)
      BY <2>1 DEF FirstSnapshot
    <3>2. \A c \in Boards : shown'[c] = IF c = b /\ ~receivedLiveUpdate[b] THEN v ELSE shown[c]
      BY <3>1 DEF Show
    <3>3. due' = due
      BY <2>1 DEF FirstSnapshot
    <3> QED
      BY <1>1, <3>1, <3>2, <3>3
  <2>2. CASE FirstSnapshotFails(b)
    BY <1>1, <2>2 DEF FirstSnapshotFails, pages
  <2> QED
    BY <2>1, <2>2
<1>3. AnnouncedLater' /\ TimerRests' /\ ReadFollowed' /\ StreamMeansOpen'
  BY <1>1 DEF AnnouncedLater, TimerRests, ReadFollowed, StreamMeansOpen
<1>4. DueExists' /\ NothingOwedUnconnected'
  BY <1>1, <1>2 DEF DueExists, NothingOwedUnconnected
<1>5. SnapshotFollowed'
  BY <1>1, <1>2 DEF SnapshotFollowed, Coming
<1>6. NothingForgotten'
  <2>1. ASSUME NEW c \in Boards, shown'[c] < due'[c]
        PROVE  \/ Coming(c)'
               \/ initial'[c] # NoRead /\ initial'[c] >= due'[c] /\ ~receivedLiveUpdate'[c]
    <3>1. CASE c # b
      BY <1>1, <1>2, <2>1, <3>1 DEF NothingForgotten, Coming
    <3>2. CASE c = b
      <4>1. due'[b] = due[b]
        BY <1>2, <2>1, <3>2
      <4>2. CASE receivedLiveUpdate[b]
        BY <1>1, <1>2, <2>1, <3>2, <4>1, <4>2 DEF NothingForgotten, Coming
      <4>3. CASE ~receivedLiveUpdate[b]
        <5>1. Coming(b)
          BY <1>2, <2>1, <3>2, <4>1, <4>3 DEF NothingForgotten, SnapshotFollowed, Coming
        <5> QED
          BY <1>1, <3>2, <4>1, <5>1 DEF Coming
      <4> QED
        BY <4>2, <4>3
    <3> QED
      BY <3>1, <3>2
  <2> QED
    BY <2>1 DEF NothingForgotten, Coming
<1> QED
  BY <1>3, <1>4, <1>5, <1>6

LEMMA DeliveryOfPages ==
  ASSUME TypeOK, Delivery, NEW b \in Boards,
         (\E s \in Streams : Connect(b, s)) \/ Refuse(b) \/ Open(b) \/ Leave(b)
  PROVE  Delivery'
<1>0. /\ version \in Nat /\ unannounced \in Nat
      /\ reading \in Nat \cup {NoRead} /\ NoRead \notin Nat
      /\ due \in [Boards -> Nat] /\ shown \in [Boards -> Nat]
      /\ initial \in [Boards -> Nat \cup {NoRead}]
      /\ source \in [Boards -> Streams \cup {NoRead}] /\ NoRead \notin Streams
      /\ board \in [Boards -> {"away", "opening", "open", "waiting"}]
      /\ receivedLiveUpdate \in [Boards -> BOOLEAN]
  BY OverviewAssumption DEF TypeOK, Versions
<1> USE <1>0 DEF Delivery
<1>1. UNCHANGED <<version, unannounced, scheduled, reading, changedWhileReading, shown>>
  BY DEF Connect, Refuse, Open, Leave, broadcaster
<1>2. AnnouncedLater' /\ TimerRests' /\ ReadFollowed'
  BY <1>1 DEF AnnouncedLater, TimerRests, ReadFollowed
<1>3. ASSUME NEW s \in Streams, Connect(b, s) PROVE Delivery'
  <2>1. /\ board[b] = "opening" /\ board' = [board EXCEPT ![b] = "open"]
        /\ source' = [source EXCEPT ![b] = s]
        /\ initial' = [initial EXCEPT ![b] = version] /\ due' = [due EXCEPT ![b] = version]
        /\ receivedLiveUpdate' = receivedLiveUpdate
    BY <1>3 DEF Connect
  <2>2. ~receivedLiveUpdate[b]
    BY <2>1 DEF StreamMeansOpen, NothingOwedUnconnected
  <2>3. DueExists' /\ NothingOwedUnconnected' /\ StreamMeansOpen'
    BY <1>1, <2>1 DEF DueExists, NothingOwedUnconnected, StreamMeansOpen
  <2>4. SnapshotFollowed'
    BY <1>1, <2>1 DEF SnapshotFollowed, Coming
  <2>5. NothingForgotten'
    BY <1>1, <2>1, <2>2 DEF NothingForgotten
  <2> QED
    BY <1>2, <2>3, <2>4, <2>5
<1>4. CASE Refuse(b) \/ Open(b)
  <2>1. /\ UNCHANGED <<source, receivedLiveUpdate, initial, due>>
        /\ \A c \in Boards : c # b => board'[c] = board[c]
        /\ board[b] # "open"
    BY <1>4 DEF Refuse, Open, Turn, connections
  <2>2. DueExists' /\ NothingOwedUnconnected' /\ StreamMeansOpen'
    BY <1>1, <2>1 DEF DueExists, NothingOwedUnconnected, StreamMeansOpen
  <2>3. SnapshotFollowed' /\ NothingForgotten'
    BY <1>1, <2>1 DEF SnapshotFollowed, NothingForgotten, Coming
  <2> QED
    BY <1>2, <2>2, <2>3
<1>5. CASE Leave(b)
  <2>1. /\ \A c \in Boards : c # b => /\ board'[c] = board[c] /\ source'[c] = source[c]
                                      /\ initial'[c] = initial[c] /\ due'[c] = due[c]
                                      /\ receivedLiveUpdate'[c] = receivedLiveUpdate[c]
        /\ source'[b] = NoRead /\ initial'[b] = NoRead /\ due'[b] = 0 /\ ~receivedLiveUpdate'[b]
    BY <1>5 DEF Leave, Turn, Disconnected
  <2>2. DueExists' /\ NothingOwedUnconnected' /\ StreamMeansOpen'
    BY <1>1, <2>1 DEF DueExists, NothingOwedUnconnected, StreamMeansOpen
  <2>3. SnapshotFollowed' /\ NothingForgotten'
    BY <1>1, <2>1 DEF SnapshotFollowed, NothingForgotten, Coming
  <2> QED
    BY <1>2, <2>2, <2>3
<1> QED
  BY <1>3, <1>4, <1>5

LEMMA DeliveryStep == Inv /\ [Next]_vars => Delivery'
<1> SUFFICES ASSUME Inv, [Next]_vars PROVE Delivery'
  OBVIOUS
<1>0. TypeOK /\ Delivery
  BY DEF Inv
<1>1. ASSUME NEW s \in Streams, Close(s) PROVE Delivery'
  BY <1>0, <1>1
     DEF Close, broadcaster, connections, pages, Delivery, AnnouncedLater, DueExists,
         NothingOwedUnconnected, StreamMeansOpen, TimerRests, ReadFollowed, SnapshotFollowed,
         NothingForgotten, Coming
<1>2. CASE UNCHANGED vars
  BY <1>0, <1>2
     DEF vars, broadcaster, connections, pages, Delivery, AnnouncedLater, DueExists,
         NothingOwedUnconnected, StreamMeansOpen, TimerRests, ReadFollowed, SnapshotFollowed,
         NothingForgotten, Coming
<1> QED
  BY <1>0, <1>1, <1>2, DeliveryOfWrites, DeliveryOfBroadcast, DeliveryOfFailures,
     DeliveryOfSnapshots, DeliveryOfPages DEF Next

-----------------------------------------------------------------------------
(* The theorems *)

\* Inv is an inductive invariant of the overview.
THEOREM Invariance == Spec => []Inv
<1>1. Inv /\ [Next]_vars => Inv'
  BY TypeStep, CountedStep, DeliveryStep DEF Inv
<1> QED
  BY <1>1, InitInv, PTL DEF Spec

\* Every variable keeps its type; the stream limits hold and no counter falls below zero.
THEOREM TypeCorrect == Spec => []TypeOK
<1>1. Inv => TypeOK
  BY DEF Inv
<1> QED
  BY <1>1, Invariance, PTL

\* The stream counters are exact, however streams and pages come and go.
THEOREM StreamsAreCounted == Spec => []StreamsCounted
<1>1. Inv => StreamsCounted
  BY DEF Inv
<1> QED
  BY <1>1, Invariance, PTL

\* Whenever a page shows less than it is owed, something that will bring it is under way.
THEOREM NothingIsForgotten == Spec => []NothingForgotten
<1>1. Inv => NothingForgotten
  BY DEF Inv, Delivery
<1> QED
  BY <1>1, Invariance, PTL

=============================================================================
