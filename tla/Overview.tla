------------------------------ MODULE Overview ------------------------------
(***************************************************************************)
(* The live dashboard overview of apps/web: the broadcaster that re-reads  *)
(* the task store after its writes (server/utils/overview.ts), the event   *)
(* streams that carry each overview (server/api/events.get.ts), and the    *)
(* boards that hold them open and show the last overview they received     *)
(* (modules/dashboard/composables/useLiveOverview.ts).                     *)
(*                                                                         *)
(* The store is its version, and an overview the version it was read at.   *)
(* A read may return any version between its start and its end.            *)
(***************************************************************************)
EXTENDS Naturals, FiniteSets

CONSTANTS
  Boards,         \* pages that show the overview
  Users,
  UserOf,
  Streams,        \* the connections of one server process
  MaxPerUser,     \* MAX_STREAMS_PER_USER
  MaxTotal,       \* MAX_TOTAL_STREAMS
  MaxVersion,     \* bound: how many writes are considered
  NoRead,         \* no read, no response, no stream
  Nobody          \* the owner of a stream that is closed

ASSUME OverviewAssumption ==
  /\ UserOf \in [Boards -> Users]
  /\ MaxPerUser \in Nat /\ MaxTotal \in Nat /\ MaxVersion \in Nat
  /\ NoRead \notin Nat /\ NoRead \notin Streams
  /\ Nobody \notin Boards
  /\ IsFiniteSet(Streams)

Versions == 0..MaxVersion

VARIABLES
  version,               \* of the task store
  unannounced,           \* writes that have landed and whose notify() has not run
  scheduled,             \* the debounce timer is set
  reading,               \* the version the broadcast's read started at
  changedWhileReading,
  owner,                 \* whose each stream is; Nobody when it is closed
  streamsByUser,
  totalStreams,
  board,                 \* what each page does
  source,                \* the stream each page is connected to
  receivedLiveUpdate,    \* of that stream; what the server does for a stream without a page has
  initial,               \* no effect.  The version the stream's first snapshot is read from
  shown,                 \* the overview in the page's query cache
  due                    \* the version the page's stream owes it

broadcaster == <<scheduled, reading, changedWhileReading>>
streams == <<owner, streamsByUser, totalStreams>>
connections == <<source, receivedLiveUpdate, initial, due>>
pages == <<board, shown>>
vars == <<version, unannounced, broadcaster, streams, connections, pages>>

TypeOK ==
  /\ version \in Versions
  /\ unannounced \in Versions
  /\ scheduled \in BOOLEAN /\ changedWhileReading \in BOOLEAN
  /\ reading \in Versions \cup {NoRead}
  /\ owner \in [Streams -> Boards \cup {Nobody}]
  /\ streamsByUser \in [Users -> 0..MaxPerUser]
  /\ totalStreams \in 0..MaxTotal
  /\ board \in [Boards -> {"away", "opening", "open", "waiting"}]
  /\ source \in [Boards -> Streams \cup {NoRead}]
  /\ receivedLiveUpdate \in [Boards -> BOOLEAN]
  /\ initial \in [Boards -> Versions \cup {NoRead}]
  /\ due \in [Boards -> Versions]
  /\ shown \in [Boards -> Versions]

-----------------------------------------------------------------------------

Init ==
  /\ version = 0 /\ unannounced = 0
  /\ scheduled = FALSE /\ reading = NoRead /\ changedWhileReading = FALSE
  /\ owner = [s \in Streams |-> Nobody]
  /\ streamsByUser = [u \in Users |-> 0] /\ totalStreams = 0
  /\ board = [b \in Boards |-> "away"]
  /\ source = [b \in Boards |-> NoRead]
  /\ receivedLiveUpdate = [b \in Boards |-> FALSE]
  /\ initial = [b \in Boards |-> NoRead]
  /\ due = [b \in Boards |-> 0]
  /\ shown = [b \in Boards |-> 0]

-----------------------------------------------------------------------------
(* The store and the broadcaster *)

\* A save lands in the store; observeWrites announces it afterwards.
SaveLands ==
  /\ version < MaxVersion
  /\ version' = version + 1
  /\ unannounced' = unannounced + 1
  /\ UNCHANGED <<broadcaster, streams, connections, pages>>

\* Mutant: a change during a read is taken to be in what is read.
ScheduleUnlessReading ==
  /\ scheduled' = (scheduled \/ reading = NoRead)
  /\ UNCHANGED changedWhileReading

\* scheduleBroadcast()
Schedule ==
  IF reading # NoRead
    THEN changedWhileReading' = TRUE /\ UNCHANGED scheduled
    ELSE scheduled' = TRUE /\ UNCHANGED changedWhileReading

\* From now on every connected page is owed the store as it is.
Notify ==
  /\ unannounced > 0
  /\ unannounced' = unannounced - 1
  /\ Schedule
  /\ due' = [b \in Boards |-> IF source[b] = NoRead THEN 0 ELSE version]
  /\ UNCHANGED <<version, reading, streams, source, receivedLiveUpdate, initial, pages>>

\* broadcast(): the timer has run out and the read begins.
StartBroadcast ==
  /\ scheduled
  /\ scheduled' = FALSE
  /\ reading' = version
  /\ UNCHANGED <<version, unannounced, changedWhileReading, streams, connections, pages>>

\* Mutant: the change that arrived during the read is forgotten with it.
EndReadingForgetful ==
  /\ reading' = NoRead
  /\ changedWhileReading' = FALSE
  /\ UNCHANGED scheduled

\* The finally clause of broadcast().
EndReading ==
  /\ reading' = NoRead
  /\ changedWhileReading' = FALSE
  /\ scheduled' = changedWhileReading

\* Overviews that reach these pages.
Show(to, v) == shown' = [b \in Boards |-> IF b \in to THEN v ELSE shown[b]]

Connected == {b \in Boards : source[b] # NoRead}

\* The read is back: every listener pushes it to its connection, and the page at the other end, when
\* there still is one, shows it.
Broadcast ==
  /\ reading # NoRead
  /\ EndReading
  /\ receivedLiveUpdate' = [b \in Boards |-> b \in Connected]
  /\ \E v \in reading..version : Show(Connected, v)
  /\ UNCHANGED <<version, unannounced, streams, source, initial, due, board>>

\* The read fails, which is logged.  Unless a change arrived meanwhile, nobody reads again before the
\* next write: what was owed stays unpaid.
BroadcastFails ==
  /\ reading # NoRead
  /\ EndReading
  /\ due' = [b \in Boards |-> IF changedWhileReading THEN due[b] ELSE 0]
  /\ UNCHANGED <<version, unannounced, streams, source, receivedLiveUpdate, initial, pages>>

-----------------------------------------------------------------------------
(* The streams *)

\* Mutant: only the total is looked at.
HasRoomInTotal(b) == totalStreams < MaxTotal

HasRoom(b) == streamsByUser[UserOf[b]] < MaxPerUser /\ totalStreams < MaxTotal

\* GET /api/events: the stream is counted and subscribed, and its first snapshot is read beside it.
Connect(b, s) ==
  /\ board[b] = "opening" /\ HasRoom(b)
  /\ owner[s] = Nobody
  /\ owner' = [owner EXCEPT ![s] = b]
  /\ streamsByUser' = [streamsByUser EXCEPT ![UserOf[b]] = @ + 1]
  /\ totalStreams' = totalStreams + 1
  /\ source' = [source EXCEPT ![b] = s]
  /\ initial' = [initial EXCEPT ![b] = version]
  /\ due' = [due EXCEPT ![b] = version]
  /\ board' = [board EXCEPT ![b] = "open"]
  /\ UNCHANGED <<version, unannounced, broadcaster, receivedLiveUpdate, shown>>

\* Too many streams: the page gets an error.
Refuse(b) ==
  /\ board[b] = "opening" /\ ~HasRoom(b)
  /\ board' = [board EXCEPT ![b] = "waiting"]
  /\ UNCHANGED <<version, unannounced, broadcaster, streams, connections, shown>>

\* The first snapshot is read: it is sent unless a live overview went before it.
FirstSnapshot(b) ==
  /\ initial[b] # NoRead
  /\ initial' = [initial EXCEPT ![b] = NoRead]
  /\ \E v \in initial[b]..version : Show({b} \ {c \in Boards : receivedLiveUpdate[c]}, v)
  /\ UNCHANGED <<version, unannounced, broadcaster, streams, source, receivedLiveUpdate, due, board>>

\* The first read fails, and the page has nothing until the next write.
FirstSnapshotFails(b) ==
  /\ initial[b] # NoRead
  /\ initial' = [initial EXCEPT ![b] = NoRead]
  /\ due' = [due EXCEPT ![b] = 0]
  /\ UNCHANGED <<version, unannounced, broadcaster, streams, source, receivedLiveUpdate, pages>>

\* Mutant: only the total is given back.
CloseTotalOnly(s) ==
  /\ owner[s] # Nobody /\ \A b \in Boards : source[b] # s
  /\ owner' = [owner EXCEPT ![s] = Nobody]
  /\ totalStreams' = totalStreams - 1
  /\ UNCHANGED <<version, unannounced, broadcaster, streamsByUser, connections, pages>>

\* onClosed: the server notices that nobody is at the other end any more.
Close(s) ==
  /\ owner[s] # Nobody /\ \A b \in Boards : source[b] # s
  /\ owner' = [owner EXCEPT ![s] = Nobody]
  /\ streamsByUser' = [streamsByUser EXCEPT ![UserOf[owner[s]]] = @ - 1]
  /\ totalStreams' = totalStreams - 1
  /\ UNCHANGED <<version, unannounced, broadcaster, connections, pages>>

\* Connections end on the side of the page; what each page shows stays.
Disconnected(gone) ==
  /\ source' = [b \in Boards |-> IF b \in gone THEN NoRead ELSE source[b]]
  /\ receivedLiveUpdate' = [b \in Boards |-> receivedLiveUpdate[b] /\ b \notin gone]
  /\ initial' = [b \in Boards |-> IF b \in gone THEN NoRead ELSE initial[b]]
  /\ due' = [b \in Boards |-> IF b \in gone THEN 0 ELSE due[b]]

\* The server process dies and comes back with nothing in memory; every connection breaks.
Restart ==
  /\ unannounced' = 0
  /\ scheduled' = FALSE /\ reading' = NoRead /\ changedWhileReading' = FALSE
  /\ owner' = [s \in Streams |-> Nobody]
  /\ streamsByUser' = [u \in Users |-> 0] /\ totalStreams' = 0
  /\ Disconnected(Boards)
  /\ board' = [b \in Boards |-> IF board[b] = "away" THEN "away" ELSE "waiting"]
  /\ UNCHANGED <<version, shown>>

-----------------------------------------------------------------------------
(* The pages *)

Turn(b, from, to) == board[b] \in from /\ board' = [board EXCEPT ![b] = to]

\* The page is mounted, or its reconnect timer runs out, and it opens a stream.
Open(b) ==
  /\ Turn(b, {"away", "waiting"}, "opening")
  /\ UNCHANGED <<version, unannounced, broadcaster, streams, connections, shown>>

\* The connection breaks and the error handler arms the reconnect timer, or the page is left and its
\* timer and its stream go with it.
Leave(b) ==
  /\ Turn(b, {"opening", "open"}, "waiting") \/ Turn(b, {"opening", "open", "waiting"}, "away")
  /\ Disconnected({b})
  /\ UNCHANGED <<version, unannounced, broadcaster, streams, shown>>

-----------------------------------------------------------------------------

Next ==
  \/ SaveLands \/ Notify \/ StartBroadcast \/ Broadcast \/ BroadcastFails \/ Restart
  \/ \E s \in Streams : Close(s)
  \/ \E b \in Boards :
       \/ \E s \in Streams : Connect(b, s)
       \/ FirstSnapshot(b) \/ FirstSnapshotFails(b)
       \/ Refuse(b) \/ Open(b) \/ Leave(b)

\* Callbacks run, timers run out, reads and requests are answered.
Fairness ==
  /\ WF_vars(Notify) /\ WF_vars(StartBroadcast) /\ WF_vars(Broadcast \/ BroadcastFails)
  /\ \A b \in Boards : WF_vars(FirstSnapshot(b) \/ FirstSnapshotFails(b))

Spec == Init /\ [][Next]_vars /\ Fairness

-----------------------------------------------------------------------------

StreamsOf(u) == {s \in Streams : owner[s] # Nobody /\ UserOf[owner[s]] = u}

\* The counters say exactly how many streams are held, by each account and in all, so the limits are
\* neither passed nor reached by streams that are gone (events.get.ts:23-60).
StreamsCounted ==
  /\ \A u \in Users : streamsByUser[u] = Cardinality(StreamsOf(u))
  /\ totalStreams = Cardinality({s \in Streams : owner[s] # Nobody})

\* What a connected page is still owed is on its way: a write not announced yet, a broadcast that
\* will read late enough, or the stream's own first snapshot (overview.ts:40-46, 58-64).
NothingForgotten ==
  \A b \in Boards :
    shown[b] < due[b] =>
      \/ unannounced > 0 \/ scheduled \/ changedWhileReading
      \/ reading # NoRead /\ reading >= due[b]
      \/ initial[b] # NoRead /\ initial[b] >= due[b] /\ ~receivedLiveUpdate[b]

\* A page that stays connected comes to show the newest store its stream owes it, unless the read for
\* it failed.
BoardsCatchUp == \A b \in Boards : []<>(shown[b] >= due[b])

=============================================================================
