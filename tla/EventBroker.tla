------------------------------ MODULE EventBroker ------------------------------
(***************************************************************************)
(* The metadata event broker (metadata/managers/metadata/subscriber.go),   *)
(* the operations of the metadata manager that publish through it          *)
(* (movies.go, series.go beside it) and the GraphQL subscriptions that     *)
(* read from it (metadata/resolvers/subscriptions.go).                     *)
(*                                                                         *)
(* A publisher is one call of an operation; it keeps the mutex, if it took *)
(* one, while it publishes.  publish keeps the read lock until every       *)
(* subscriber's channel had room.  An event is <<publisher, n>>: its       *)
(* payload is a pointer that is followed only when a subscription converts *)
(* the event, which RefreshAllMovieMetadata makes visible.                 *)
(***************************************************************************)
EXTENDS Integers, Sequences, RWMutex

CONSTANTS
  Client,        \* GraphQL subscriptions, each is opened at most once
  Publisher,     \* calls that publish, each is made at most once
  None,
  Kind,          \* the kinds of media that change: a subset of AllKinds
  MaxMovies,     \* how many items RefreshAll...Metadata finds, at most
  Buffer,        \* capacity of a subscriber's channel: 2
  PublishBuffer, \* capacity of the channel to the GraphQL library: 10
  Disconnects,   \* may clients go away?
  Removes        \* does anybody call RemoveSubscriber?

AllKinds == {"movie", "series", "season", "episode"}
Change   == {"added", "updated", "deleted"}
Mutex    == {"moviesCreationMutex", "seriesCreationMutex",
             "seriesLock", "seasonLock", "episodeLock"}

ASSUME EventBrokerAssumption ==
  /\ None \notin Publisher /\ None \notin Mutex
  /\ Kind \subseteq AllKinds
  /\ MaxMovies \in Nat \ {0}
  /\ Buffer \in Nat \ {0}
  /\ PublishBuffer \in Nat \ {0}
  /\ Disconnects \in BOOLEAN
  /\ Removes \in BOOLEAN

MutexOf(k) == IF k = "movie" THEN "moviesCreationMutex" ELSE "seriesCreationMutex"

\* The lock of a row; movies are collected without one.  All collections of a
\* kind are taken to be of one row, so that they wait for each other.
RowLockOf(k) == CASE k = "movie" -> None
                  [] k = "series" -> "seriesLock"
                  [] k = "season" -> "seasonLock"
                  [] k = "episode" -> "episodeLock"

(* What a call does: the mutex it holds and the events it publishes.       *)

\* GetOrCreate...: one record under the mutex.
Creations ==
  {[kind |-> k, change |-> "added", mutex |-> MutexOf(k), count |-> 1] : k \in Kind}

\* RefreshAllMovieMetadata, RefreshAllSeriesMetadata: a loop.  Seasons are
\* refreshed without an event.
Refreshes ==
  {[kind |-> k, change |-> "updated", mutex |-> None, count |-> n] :
     k \in Kind \ {"season"}, n \in 1 .. MaxMovies}

\* GarbageCollect...IfRequired: an empty row is deleted under its lock, which
\* stays locked while what it leaves empty is collected, too.
Collections ==
  {[kind |-> k, change |-> "deleted", mutex |-> RowLockOf(k), count |-> 1] : k \in Kind}

Operation == Creations \cup Refreshes \cup Collections

Event == Publisher \X (1 .. MaxMovies)

\* The channel addSubscriber makes, and the one that removeSubscriber makes.
Own(c)     == <<c, "added">>
Phantom(c) == <<c, "removed">>
Channel    == Client \X {"added", "removed"}
NoChannel  == <<None, "none">>

VARIABLES
  subscribers,  \* metadataEventBroker.subscribers
  lock,         \* metadataEventBroker.subscribersMutex
  holder,       \* who holds each mutex
  queue,        \* the contents of the channels
  closed,       \* the closed channels
  op,           \* what each publisher does
  at,           \* where each publisher is
  turn,         \* which of its events it is publishing
  toSend,       \* channels publish has still to send to
  target,       \* the one of them it has come to
  sub,          \* what each client subscribes to
  pc,           \* where each subscription goroutine is
  current,      \* the event it handles
  shows,        \* which item of its publisher the converted event shows
  out,          \* publishCh
  gone,         \* the clients whose ctx is done
  crashed,      \* a goroutine has panicked
  delivered,    \* history: all that was ever sent to a channel
  completed,    \* history: the events that publish has returned for
  seen          \* history: what the client read, <<event, item shown>>

brokerVars    == <<subscribers, lock, closed>>
publisherVars == <<holder, op, at, turn, toSend, target, completed>>
clientVars    == <<sub, pc, current, shows, out, gone, seen>>
vars == <<brokerVars, publisherVars, clientVars, queue, delivered, crashed>>

NoEvent == <<None, 0>>

TypeOK ==
  /\ subscribers \in SUBSET Channel
  /\ lock \in RWMutexes(Publisher, Client)
  /\ holder \in [Mutex -> Publisher \cup {None}]
  /\ queue \in [Channel -> Seq(Event)]
  /\ closed \in SUBSET Channel
  /\ op \in [Publisher -> Operation]
  /\ at \in [Publisher -> {"idle", "mutex", "publish", "rlock", "send", "done", "returned"}]
  /\ turn \in [Publisher -> 1 .. MaxMovies]
  /\ toSend \in [Publisher -> SUBSET Channel]
  /\ target \in [Publisher -> Channel \cup {NoChannel}]
  /\ sub \in [Client -> AllKinds]
  /\ pc \in [Client -> {"off", "add", "adding", "select", "convert", "forward",
                        "stopped", "remove", "removing", "removed"}]
  /\ current \in [Client -> Event \cup {NoEvent}]
  /\ shows \in [Client -> 0 .. MaxMovies]
  /\ out \in [Client -> Seq(Event \X (1 .. MaxMovies))]
  /\ gone \in SUBSET Client
  /\ crashed \in BOOLEAN
  /\ delivered \in [Channel -> Seq(Event)]
  /\ completed \in SUBSET Event
  /\ seen \in [Client -> Seq(Event \X (1 .. MaxMovies))]

Init ==
  /\ subscribers = {}
  /\ lock = Unlocked
  /\ holder = [m \in Mutex |-> None]
  /\ queue = [ch \in Channel |-> <<>>]
  /\ closed = {}
  /\ op \in [Publisher -> Operation]
  /\ at = [p \in Publisher |-> "idle"]
  /\ turn = [p \in Publisher |-> 1]
  /\ toSend = [p \in Publisher |-> {}]
  /\ target = [p \in Publisher |-> NoChannel]
  /\ sub \in [Client -> Kind \ {"episode"}]
  /\ pc = [c \in Client |-> "off"]
  /\ current = [c \in Client |-> NoEvent]
  /\ shows = [c \in Client |-> 0]
  /\ out = [c \in Client |-> <<>>]
  /\ gone = {}
  /\ crashed = FALSE
  /\ delivered = [ch \in Channel |-> <<>>]
  /\ completed = {}
  /\ seen = [c \in Client |-> <<>>]

-----------------------------------------------------------------------------
(* The metadata manager; a panic anywhere ends the process. *)

Is(p, where) == ~crashed /\ at[p] = where

Begin(p) ==
  /\ Is(p, "idle")
  /\ at' = [at EXCEPT ![p] = IF op[p].mutex = None THEN "publish" ELSE "mutex"]
  /\ UNCHANGED <<brokerVars, clientVars, queue, delivered, crashed,
                 holder, op, turn, toSend, target, completed>>

\* The record does not exist yet and is created, or the row is empty and deleted.
TakeMutex(p) ==
  /\ Is(p, "mutex")
  /\ holder[op[p].mutex] = None
  /\ holder' = [holder EXCEPT ![op[p].mutex] = p]
  /\ at' = [at EXCEPT ![p] = "publish"]
  /\ UNCHANGED <<brokerVars, clientVars, queue, delivered, crashed,
                 op, turn, toSend, target, completed>>

\* Or the record is there by now, or the row is gone or not empty: the call
\* returns and publishes nothing.
NothingToDo(p) ==
  /\ Is(p, "mutex")
  /\ holder[op[p].mutex] = None
  /\ at' = [at EXCEPT ![p] = "returned"]
  /\ UNCHANGED <<brokerVars, clientVars, queue, delivered, crashed,
                 holder, op, turn, toSend, target, completed>>

\* publish takes the read lock
Publish(p) ==
  /\ Is(p, "publish")
  /\ lock' = RLock(lock, p)
  /\ at' = [at EXCEPT ![p] = "rlock"]
  /\ UNCHANGED <<subscribers, closed, clientVars, queue, delivered, crashed,
                 holder, op, turn, toSend, target, completed>>

\* The loop goes on to any of the channels that are left: the order of a map.
GoesOn(p, left) ==
  /\ toSend' = [toSend EXCEPT ![p] = left]
  /\ \E ch \in IF left = {} THEN {NoChannel} ELSE left : target' = [target EXCEPT ![p] = ch]

\* ... and ranges over the subscribers
RangeOverSubscribers(p) ==
  /\ Is(p, "rlock")
  /\ p \in lock.readers
  /\ GoesOn(p, subscribers)
  /\ at' = [at EXCEPT ![p] = "send"]
  /\ UNCHANGED <<brokerVars, clientVars, queue, delivered, crashed,
                 holder, op, turn, completed>>

\* Mutant: a channel that is full is passed over.
Send_PassesOver(p) ==
  \E ch \in toSend[p] \ closed :
    /\ Is(p, "send") /\ ch = target[p]
    /\ IF Len(queue[ch]) < Buffer
       THEN /\ queue' = [queue EXCEPT ![ch] = Append(@, <<p, turn[p]>>)]
            /\ delivered' = [delivered EXCEPT ![ch] = Append(@, <<p, turn[p]>>)]
       ELSE UNCHANGED <<queue, delivered>>
    /\ GoesOn(p, toSend[p] \ {ch})
    /\ UNCHANGED <<brokerVars, clientVars, crashed, holder, op, at, turn, completed>>

\* s <- e, which blocks while the channel is full
Send(p) ==
  \E ch \in toSend[p] \ closed :
    /\ Is(p, "send") /\ ch = target[p]
    /\ Len(queue[ch]) < Buffer
    /\ queue' = [queue EXCEPT ![ch] = Append(@, <<p, turn[p]>>)]
    /\ delivered' = [delivered EXCEPT ![ch] = Append(@, <<p, turn[p]>>)]
    /\ GoesOn(p, toSend[p] \ {ch})
    /\ UNCHANGED <<brokerVars, clientVars, crashed, holder, op, at, turn, completed>>

\* ... and panics once the channel is closed
SendPanics(p) ==
  /\ Is(p, "send")
  /\ toSend[p] # {} /\ target[p] \in closed
  /\ crashed' = TRUE
  /\ UNCHANGED <<brokerVars, publisherVars, clientVars, queue, delivered>>

\* Mutant: the loop runs once more than there are items.
HasNext_OffByOne(p) == turn[p] <= op[p].count

HasNext(p) == turn[p] < op[p].count

\* publish returns; the loop goes on to the next item, or the call returns.
Published(p) ==
  /\ Is(p, "send")
  /\ toSend[p] = {}
  /\ lock' = RUnlock(lock, p)
  /\ completed' = completed \cup {<<p, turn[p]>>}
  /\ \/ /\ HasNext(p)
        /\ turn' = [turn EXCEPT ![p] = @ + 1]
        /\ at' = [at EXCEPT ![p] = "publish"]
        /\ UNCHANGED holder
     \/ /\ ~HasNext(p)
        /\ at' = [at EXCEPT ![p] = "done"]
        /\ holder' = [m \in Mutex |-> IF holder[m] = p THEN None ELSE holder[m]]
        /\ UNCHANGED turn
  /\ UNCHANGED <<subscribers, closed, clientVars, queue, delivered, crashed, op, toSend, target>>

-----------------------------------------------------------------------------
(* Subscriptions *)

Goto(c, from, to) ==
  /\ ~crashed
  /\ pc[c] = from
  /\ pc' = [pc EXCEPT ![c] = to]

\* startMetadataSubscription
Subscribe(c) ==
  /\ Goto(c, "off", "add")
  /\ UNCHANGED <<brokerVars, publisherVars, queue, delivered, crashed,
                 sub, current, shows, out, gone, seen>>

\* addSubscriber, removeSubscriber: Lock
LockSubscribers(c) ==
  /\ MayAnnounce(lock)
  /\ lock' = Announce(lock, c)
  /\ Goto(c, "add", "adding") \/ Goto(c, "remove", "removing")
  /\ UNCHANGED <<subscribers, closed, publisherVars, queue, delivered, crashed,
                 sub, current, shows, out, gone, seen>>

AddSubscriber(c) ==
  /\ Locked(lock, c)
  /\ Goto(c, "adding", "select")
  /\ subscribers' = subscribers \cup {Own(c)}
  /\ lock' = Unlock(lock)
  /\ UNCHANGED <<closed, publisherVars, queue, delivered, crashed,
                 sub, current, shows, out, gone, seen>>

\* Start receives an event ...
Receive(c) ==
  /\ Goto(c, "select", "convert")
  /\ queue[Own(c)] # <<>>
  /\ current' = [current EXCEPT ![c] = Head(queue[Own(c)])]
  /\ queue' = [queue EXCEPT ![Own(c)] = Tail(@)]
  /\ UNCHANGED <<brokerVars, publisherVars, delivered, crashed,
                 sub, shows, out, gone, seen>>

\* ... or finds that the client is gone, and returns.
Stop(c) ==
  /\ c \in gone
  /\ Goto(c, "select", "stopped")
  /\ UNCHANGED <<brokerVars, publisherVars, queue, delivered, crashed,
                 sub, current, shows, out, gone, seen>>

\* eventFilterFn, for a subscription to one kind of media
Passes(c, e) == op[e[1]].kind = sub[c]

\* What ToEventResolver has a case for.
Convertible(e) ==
  op[e[1]].change = "updated" => op[e[1]].kind = "movie"

FilterOut(c) ==
  /\ Goto(c, "convert", "select")
  /\ ~Passes(c, current[c])
  /\ current' = [current EXCEPT ![c] = NoEvent]
  /\ UNCHANGED <<brokerVars, publisherVars, queue, delivered, crashed,
                 sub, shows, out, gone, seen>>

\* Mutant: every event points to the first item.
Shown_Oldest(e) == 1

\* What the payload of the event points to by now.
Shown(e) == turn[e[1]]

\* ToEventResolver copies what the payload points to now: the loop variable
\* of a refresh holds the item whose turn it is.
Convert(c) ==
  LET e == current[c] IN
  /\ Goto(c, "convert", "forward")
  /\ Passes(c, e)
  /\ Convertible(e)
  /\ shows' = [shows EXCEPT ![c] = Shown(e)]
  /\ UNCHANGED <<brokerVars, publisherVars, queue, delivered, crashed,
                 sub, current, out, gone, seen>>

ConvertPanics(c) ==
  /\ ~crashed
  /\ pc[c] = "convert"
  /\ Passes(c, current[c])
  /\ ~Convertible(current[c])
  /\ crashed' = TRUE
  /\ UNCHANGED <<brokerVars, publisherVars, clientVars, queue, delivered>>

HandledEvent(c) ==
  /\ Goto(c, "forward", "select")
  /\ current' = [current EXCEPT ![c] = NoEvent]
  /\ shows' = [shows EXCEPT ![c] = 0]
  /\ UNCHANGED <<brokerVars, publisherVars, queue, delivered, crashed, sub, gone, seen>>

Forward(c) ==
  /\ Len(out[c]) < PublishBuffer
  /\ out' = [out EXCEPT ![c] = Append(@, <<current[c], shows[c]>>)]
  /\ HandledEvent(c)

\* Mutant: the subscription waits for as long as the client needs.
Drop_Never(c) == FALSE /\ HandledEvent(c) /\ UNCHANGED out

\* Mutant: the event is queued again to be tried later.
Drop_Requeued(c) ==
  /\ Len(out[c]) = PublishBuffer
  /\ Goto(c, "forward", "select")
  /\ queue' = [queue EXCEPT ![Own(c)] = Append(@, current[c])]
  /\ current' = [current EXCEPT ![c] = NoEvent]
  /\ shows' = [shows EXCEPT ![c] = 0]
  /\ UNCHANGED <<brokerVars, publisherVars, delivered, crashed, sub, out, gone, seen>>

\* The client has not made room for two seconds.
Drop(c) ==
  /\ Len(out[c]) = PublishBuffer
  /\ HandledEvent(c)
  /\ UNCHANGED out

-----------------------------------------------------------------------------
(* The client, through the GraphQL library *)

Read(c) ==
  /\ ~crashed
  /\ c \notin gone
  /\ out[c] # <<>>
  /\ seen' = [seen EXCEPT ![c] = Append(@, Head(out[c]))]
  /\ out' = [out EXCEPT ![c] = Tail(@)]
  /\ UNCHANGED <<brokerVars, publisherVars, queue, delivered, crashed,
                 sub, pc, current, shows, gone>>

Disconnect(c) ==
  /\ ~crashed
  /\ Disconnects
  /\ pc[c] # "off"
  /\ c \notin gone
  /\ gone' = gone \cup {c}
  /\ UNCHANGED <<brokerVars, publisherVars, queue, delivered, crashed,
                 sub, pc, current, shows, out, seen>>

-----------------------------------------------------------------------------
(* RemoveSubscriber, which nothing in the repository calls yet *)

Unsubscribe(c) ==
  /\ Removes
  /\ Goto(c, "stopped", "remove")
  /\ UNCHANGED <<brokerVars, publisherVars, queue, delivered, crashed,
                 sub, current, shows, out, gone, seen>>

\* A new channel is added, and the old one closed but left in the map.
RemoveSubscriber(c) ==
  /\ Locked(lock, c)
  /\ Goto(c, "removing", "removed")
  /\ subscribers' = subscribers \cup {Phantom(c)}
  /\ closed' = closed \cup {Own(c)}
  /\ lock' = Unlock(lock)
  /\ UNCHANGED <<publisherVars, queue, delivered, crashed,
                 sub, current, shows, out, gone, seen>>

-----------------------------------------------------------------------------
Operate(p) ==
  \/ TakeMutex(p) \/ NothingToDo(p) \/ Publish(p) \/ RangeOverSubscribers(p)
  \/ Send(p) \/ SendPanics(p) \/ Published(p)

Start(c) ==
  \/ LockSubscribers(c) \/ AddSubscriber(c) \/ RemoveSubscriber(c)
  \/ Receive(c) \/ Stop(c) \/ FilterOut(c) \/ Convert(c) \/ ConvertPanics(c)
  \/ Forward(c) \/ Drop(c)

Next ==
  \/ \E p \in Publisher : Begin(p) \/ Operate(p)
  \/ \E c \in Client :
       Subscribe(c) \/ Start(c) \/ Read(c) \/ Disconnect(c) \/ Unsubscribe(c)

Spec == Init /\ [][Next]_vars

(* Goroutines run on and the two seconds pass; clients need not read.      *)
Fairness ==
  /\ \A p \in Publisher : WF_vars(Operate(p))
  /\ \A c \in Client : WF_vars(Start(c))

FairSpec == Spec /\ Fairness

-----------------------------------------------------------------------------
(* Properties *)

\* The broker is a multicast to whoever addSubscriber has returned to.
Broker == INSTANCE Multicast WITH Member <- Channel, MaxEvents <- MaxMovies,
            members <- subscribers, log <- delivered, published <- completed

\* Whoever subscribes while the broker publishes misses nothing that is
\* published from then on, and nothing is sent twice or out of order
\* (addSubscriber and publish exclude each other through subscribersMutex).
ImplementsMulticast == Broker!Spec

\* A client sees the events of one call in the order in which they were
\* published and none twice, whatever was dropped on the way for the sake
\* of a slow client.
SeenInOrder ==
  \A c \in Client : \A i, j \in DOMAIN seen[c] :
    i < j /\ seen[c][i][1][1] = seen[c][j][1][1]
      => seen[c][i][1][2] < seen[c][j][1][2]

\* An event shows the item it is about, or one that the same call has come
\* to since, never one before it (movies.go:23 shares its loop variable
\* with the events, subscriptions.go:48 copies it).
ShowsOwnOrLater ==
  \A c \in Client : \A i \in DOMAIN seen[c] :
    LET e == seen[c][i][1] IN
    e[2] <= seen[c][i][2] /\ (op[e[1]].change # "updated" => e[2] = seen[c][i][2])

\* What a call waits for: a mutex, the read lock, or room in the channel it has
\* come to.
WaitsForMutex(p) == at[p] = "mutex" /\ holder[op[p].mutex] # None
WaitsForLock(p)  == at[p] = "rlock" /\ p \notin lock.readers
WaitsForRoom(p)  == /\ at[p] = "send" /\ toSend[p] # {}
                    /\ target[p] \notin closed /\ Len(queue[target[p]]) >= Buffer
CallWaits(p) == WaitsForMutex(p) \/ WaitsForLock(p) \/ WaitsForRoom(p)

\* What a subscription waits for: its turn to write, the readers, or an event.
SubscriptionWaits(c) ==
  \/ pc[c] \in {"add", "remove"} /\ ~MayAnnounce(lock)
  \/ pc[c] \in {"adding", "removing"} /\ ~Locked(lock, c)
  \/ pc[c] = "select" /\ queue[Own(c)] = <<>> /\ c \notin gone
  \/ pc[c] = "forward" /\ Len(out[c]) > PublishBuffer

Calling     == {p \in Publisher : at[p] \notin {"idle", "done", "returned"}}
Subscribing == {c \in Client : pc[c] \in {"add", "adding", "remove", "removing"}}
Subscribed  == {c \in Client : pc[c] \in {"select", "convert", "forward"}}

\* Nobody receives from the channel: its subscription has ended.
Abandoned(ch) == \A c \in Subscribed : ch # Own(c)

\* However calls and subscriptions wait for the mutexes, the lock and the channels,
\* somebody can go on, unless a call waits for room in an abandoned channel
\* (publish, subscriber.go:64, sends while it holds a lock and a mutex).
NobodyWaitsInACircle ==
  ~crashed /\ Calling \cup Subscribing # {} =>
    \/ \E p \in Calling : ~CallWaits(p)
    \/ \E c \in Subscribing \cup Subscribed : ~SubscriptionWaits(c)
    \/ \E p \in Calling : WaitsForRoom(p) /\ Abandoned(target[p])

Returned(p) == at[p] \in {"done", "returned"}

\* A slow client costs its own events (subscriptions.go:29), not the calls
\* that publish: while no client has gone away they all return, and so do
\* those that wait to subscribe, whether or not anybody reads.
CallsReturn ==
  /\ \A p \in Publisher : at[p] # "idle" ~> Returned(p) \/ gone # {} \/ crashed
  /\ \A c \in Client :
       pc[c] = "add" ~> pc[c] \notin {"add", "adding"} \/ gone # {} \/ crashed

\* The same when clients may go away: what the two seconds' timeout of
\* subscriptions.go:33 is there for.
CallsReturnWhoeverLeaves ==
  \A p \in Publisher : at[p] # "idle" ~> Returned(p)
===============================================================================
