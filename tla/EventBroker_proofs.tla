-------------------------- MODULE EventBroker_proofs --------------------------
(***************************************************************************)
(* What holds of the event broker for any number of subscriptions,         *)
(* publishers and events: types, that it is a multicast, and that nobody   *)
(* waits in a circle.                                                      *)
(***************************************************************************)
EXTENDS EventBroker, Functions, TLAPS

USE EventBrokerAssumption

(***************************************************************************)
(* Types                                                                   *)
(***************************************************************************)

\* A subscription that handles an event has one.
HandlesEvent ==
  \A c \in Client :
    /\ pc[c] \in {"convert", "forward"} => current[c] \in Event
    /\ pc[c] = "forward" => shows[c] \in 1 .. MaxMovies

TypeInv == TypeOK /\ HandlesEvent

LEMMA CountType ==
  ASSUME NEW o \in Operation
  PROVE  o.count \in 1 .. MaxMovies /\ o.mutex \in Mutex \cup {None}
  BY DEF Operation, Creations, Refreshes, Collections, MutexOf, RowLockOf, Mutex, AllKinds

LEMMA LockTypes ==
  ASSUME NEW m \in RWMutexes(Publisher, Client)
  PROVE  /\ \A p \in Publisher : /\ RLock(m, p) \in RWMutexes(Publisher, Client)
                                 /\ RUnlock(m, p) \in RWMutexes(Publisher, Client)
         /\ \A c \in Client : Announce(m, c) \in RWMutexes(Publisher, Client)
         /\ Unlock(m) \in RWMutexes(Publisher, Client)
  BY DEF RWMutexes, RLock, RUnlock, Announce, Unlock

LEMMA InitTypes == Init => TypeInv
<1> SUFFICES ASSUME Init PROVE TypeInv
  OBVIOUS
<1>1. lock \in RWMutexes(Publisher, Client)
  BY DEF Init, Unlocked, RWMutexes
<1>2. /\ queue \in [Channel -> Seq(Event)] /\ delivered \in [Channel -> Seq(Event)]
      /\ out \in [Client -> Seq(Event \X (1 .. MaxMovies))]
      /\ seen \in [Client -> Seq(Event \X (1 .. MaxMovies))]
  BY DEF Init
<1>3. /\ subscribers \in SUBSET Channel /\ closed \in SUBSET Channel
      /\ holder \in [Mutex -> Publisher \cup {None}]
      /\ op \in [Publisher -> Operation]
      /\ turn \in [Publisher -> 1 .. MaxMovies]
      /\ toSend \in [Publisher -> SUBSET Channel]
      /\ target \in [Publisher -> Channel \cup {NoChannel}]
      /\ completed \in SUBSET Event
  BY DEF Init
<1>7. sub \in [Client -> AllKinds]
  <2>1. Kind \subseteq AllKinds
    BY EventBrokerAssumption
  <2> QED BY <2>1 DEF Init
<1>4. /\ current \in [Client -> Event \cup {NoEvent}]
      /\ shows \in [Client -> 0 .. MaxMovies]
      /\ gone \in SUBSET Client
  BY DEF Init
<1>8. crashed \in BOOLEAN
  BY DEF Init
<1>5. HandlesEvent
  BY DEF Init, HandlesEvent
<1>6. /\ at \in [Publisher -> {"idle", "mutex", "publish", "rlock", "send", "done", "returned"}]
      /\ pc \in [Client -> {"off", "add", "adding", "select", "convert", "forward",
                            "stopped", "remove", "removing", "removed"}]
  BY DEF Init
<1> QED BY <1>1, <1>2, <1>3, <1>4, <1>5, <1>6, <1>7, <1>8 DEF TypeInv, TypeOK

\* The steps of a publisher.
LEMMA PublisherTypes ==
  ASSUME TypeInv, NEW p \in Publisher, Begin(p) \/ Operate(p)
  PROVE  TypeInv'
<1> USE DEF TypeInv, TypeOK, HandlesEvent, brokerVars, publisherVars, clientVars, Is
<1>1. <<p, turn[p]>> \in Event /\ op[p].count \in 1 .. MaxMovies
  BY CountType DEF Event
<1>2. CASE Begin(p)
  BY <1>2 DEF Begin
<1>3. CASE TakeMutex(p)
  BY <1>3, CountType DEF TakeMutex
<1>9. CASE NothingToDo(p)
  BY <1>9 DEF NothingToDo
<1>4. CASE Publish(p)
  <2>1. lock' \in RWMutexes(Publisher, Client)
    BY <1>4, LockTypes DEF Publish
  <2> QED BY <1>4, <2>1 DEF Publish
<1>0. ASSUME NEW left \in SUBSET Channel, GoesOn(p, left)
      PROVE  /\ toSend' \in [Publisher -> SUBSET Channel]
             /\ target' \in [Publisher -> Channel \cup {NoChannel}]
  BY <1>0 DEF GoesOn
<1>5. CASE RangeOverSubscribers(p)
  BY <1>0, <1>5 DEF RangeOverSubscribers
<1>6. CASE Send(p)
  <2> PICK ch \in toSend[p] \ closed :
        /\ queue' = [queue EXCEPT ![ch] = Append(@, <<p, turn[p]>>)]
        /\ delivered' = [delivered EXCEPT ![ch] = Append(@, <<p, turn[p]>>)]
        /\ GoesOn(p, toSend[p] \ {ch})
        /\ UNCHANGED <<brokerVars, clientVars, crashed, holder, op, at, turn, completed>>
    BY <1>6 DEF Send
  <2>1. queue' \in [Channel -> Seq(Event)] /\ delivered' \in [Channel -> Seq(Event)]
    BY <1>1
  <2>2. /\ toSend' \in [Publisher -> SUBSET Channel]
        /\ target' \in [Publisher -> Channel \cup {NoChannel}]
    BY <1>0
  <2> QED BY <2>1, <2>2
<1>7. CASE SendPanics(p)
  BY <1>7 DEF SendPanics
<1>8. CASE Published(p)
  <2>1. lock' \in RWMutexes(Publisher, Client)
    BY <1>8, LockTypes DEF Published
  <2>2. completed' \in SUBSET Event
    BY <1>1, <1>8 DEF Published
  <2>3. turn' \in [Publisher -> 1 .. MaxMovies]
    <3>1. turn[p] < op[p].count => turn[p] + 1 \in 1 .. MaxMovies
      BY <1>1
    <3>2. \/ turn[p] < op[p].count /\ turn' = [turn EXCEPT ![p] = turn[p] + 1]
          \/ turn' = turn
      BY <1>8 DEF Published, HasNext
    <3> QED BY <3>1, <3>2
  <2>4. holder' \in [Mutex -> Publisher \cup {None}]
    BY <1>8 DEF Published
  <2> QED BY <1>8, <2>1, <2>2, <2>3, <2>4 DEF Published
<1> QED BY <1>2, <1>3, <1>4, <1>5, <1>6, <1>7, <1>8, <1>9 DEF Operate

\* The steps of a subscription and its client.
LEMMA ClientTypes ==
  ASSUME TypeInv, NEW c \in Client,
         Subscribe(c) \/ Start(c) \/ Read(c) \/ Disconnect(c) \/ Unsubscribe(c)
  PROVE  TypeInv'
<1> USE DEF TypeInv, TypeOK, HandlesEvent, brokerVars, publisherVars, clientVars, Goto
<1>1. CASE Subscribe(c) \/ Unsubscribe(c) \/ Stop(c) \/ Disconnect(c) \/ ConvertPanics(c)
  BY <1>1 DEF Subscribe, Unsubscribe, Stop, Disconnect, ConvertPanics
<1>2. CASE LockSubscribers(c)
  <2>1. lock' \in RWMutexes(Publisher, Client)
    BY <1>2, LockTypes DEF LockSubscribers
  <2> QED BY <1>2, <2>1 DEF LockSubscribers
<1>3. CASE AddSubscriber(c) \/ RemoveSubscriber(c)
  <2>1. /\ lock' \in RWMutexes(Publisher, Client)
        /\ Own(c) \in Channel /\ Phantom(c) \in Channel
    BY <1>3, LockTypes DEF AddSubscriber, RemoveSubscriber, Own, Phantom, Channel
  <2>2. subscribers' \in SUBSET Channel /\ closed' \in SUBSET Channel
    BY <1>3, <2>1 DEF AddSubscriber, RemoveSubscriber
  <2> QED BY <1>3, <2>1, <2>2 DEF AddSubscriber, RemoveSubscriber
<1>4. CASE Receive(c)
  <2>1. queue[Own(c)] \in Seq(Event) /\ queue[Own(c)] # <<>>
    BY <1>4 DEF Receive, Own, Channel
  <2>2. Head(queue[Own(c)]) \in Event /\ Tail(queue[Own(c)]) \in Seq(Event)
    BY <2>1
  <2> QED BY <1>4, <2>2 DEF Receive
<1>5. CASE FilterOut(c)
  BY <1>5 DEF FilterOut
<1>6. CASE Convert(c)
  <2>1. turn[current[c][1]] \in 1 .. MaxMovies
    BY <1>6 DEF Convert, Shown, Event
  <2> QED BY <1>6, <2>1 DEF Convert, Shown
<1>7. CASE Forward(c)
  <2>1. <<current[c], shows[c]>> \in Event \X (1 .. MaxMovies)
    BY <1>7 DEF Forward, HandledEvent
  <2>2. out' \in [Client -> Seq(Event \X (1 .. MaxMovies))]
    BY <1>7, <2>1 DEF Forward
  <2> QED BY <1>7, <2>2 DEF Forward, HandledEvent
<1>8. CASE Drop(c)
  BY <1>8 DEF Drop, HandledEvent
<1>9. CASE Read(c)
  <2>1. /\ Head(out[c]) \in Event \X (1 .. MaxMovies)
        /\ Tail(out[c]) \in Seq(Event \X (1 .. MaxMovies))
    BY <1>9 DEF Read
  <2>2. /\ out' \in [Client -> Seq(Event \X (1 .. MaxMovies))]
        /\ seen' \in [Client -> Seq(Event \X (1 .. MaxMovies))]
    BY <1>9, <2>1 DEF Read
  <2> QED BY <1>9, <2>2 DEF Read
<1> QED BY <1>1, <1>2, <1>3, <1>4, <1>5, <1>6, <1>7, <1>8, <1>9 DEF Start

LEMMA NextTypes == ASSUME TypeInv, [Next]_vars PROVE TypeInv'
<1>1. CASE UNCHANGED vars
  BY <1>1 DEF vars, brokerVars, publisherVars, clientVars, TypeInv, TypeOK, HandlesEvent
<1> QED BY <1>1, PublisherTypes, ClientTypes DEF Next

\* Types (subscriber.go:32, subscriptions.go:14): in particular a converted
\* event is an event that was published.
THEOREM TypesCorrect == Spec => []TypeOK
<1>1. TypeInv => TypeOK
  BY DEF TypeInv
<1> QED BY <1>1, InitTypes, NextTypes, PTL DEF Spec

(***************************************************************************)
(* The broker is a multicast                                               *)
(***************************************************************************)

\* Readers of the lock are where they believe to be.
ReadersInv ==
  \A p \in Publisher :
    /\ p \in lock.readers => at[p] \in {"rlock", "send"} /\ p \notin lock.blocked
    /\ p \in lock.blocked => at[p] = "rlock"
    /\ at[p] = "send" => p \in lock.readers

\* Whom publish has not to send to any more, it has sent to.
SentInv ==
  \A p \in Publisher : at[p] = "send" =>
    /\ toSend[p] \subseteq subscribers
    /\ \A ch \in subscribers \ toSend[p] : <<p, turn[p]>> \in Range(delivered[ch])

\* Nothing has been sent ahead of its turn.
TurnInv ==
  \A ch \in Channel, p \in Publisher, n \in 1 .. MaxMovies : <<p, n>> \in Range(delivered[ch]) =>
    \/ n < turn[p]
    \/ n = turn[p] /\ at[p] = "send" /\ ch \notin toSend[p]
    \/ n = turn[p] /\ at[p] = "done"

CompletedInv ==
  \A p \in Publisher, n \in 1 .. MaxMovies :
    <<p, n>> \in completed <=> n < turn[p] \/ (n = turn[p] /\ at[p] = "done")

\* The loop is at one of the channels that are left.
TargetInv ==
  \A p \in Publisher : toSend[p] # {} => target[p] \in toSend[p]

BrokerInv == TypeInv /\ ReadersInv /\ SentInv /\ TurnInv /\ CompletedInv /\ TargetInv

LEMMA AppendHas ==
  ASSUME NEW s \in Seq(Event), NEW e \in Event, NEW f
  PROVE  f \in Range(Append(s, e)) <=> f \in Range(s) \/ f = e
<1>1. /\ Len(s) \in Nat /\ DOMAIN s = 1 .. Len(s)
      /\ DOMAIN Append(s, e) = 1 .. Len(s) + 1
      /\ \A i \in 1 .. Len(s) : Append(s, e)[i] = s[i]
      /\ Append(s, e)[Len(s) + 1] = e
  OBVIOUS
<1>2. /\ \A i \in 1 .. Len(s) : i \in 1 .. Len(s) + 1
      /\ Len(s) + 1 \in 1 .. Len(s) + 1
      /\ \A i \in 1 .. Len(s) + 1 : i = Len(s) + 1 \/ i \in 1 .. Len(s)
  BY <1>1
<1> QED BY <1>1, <1>2 DEF Range

LEMMA BrokerInvInit == Init => BrokerInv
<1> SUFFICES ASSUME Init PROVE BrokerInv
  OBVIOUS
<1>1. ReadersInv /\ SentInv
  BY DEF Init, Unlocked, ReadersInv, SentInv
<1>2. TurnInv
  BY DEF Init, TurnInv, Range
<1>3. CompletedInv /\ TargetInv
  BY DEF Init, CompletedInv, TargetInv
<1> QED BY InitTypes, <1>1, <1>2, <1>3 DEF BrokerInv

\* Steps that leave the broker's bookkeeping alone.
LEMMA QuietStep ==
  ASSUME BrokerInv,
         UNCHANGED <<subscribers, lock, at, turn, toSend, delivered, completed>>
  PROVE  ReadersInv' /\ SentInv' /\ TurnInv' /\ CompletedInv'
  BY DEF BrokerInv, ReadersInv, SentInv, TurnInv, CompletedInv

\* Subscribers come only when nobody publishes.
LEMMA LockStep ==
  ASSUME BrokerInv, NEW c \in Client,
         LockSubscribers(c) \/ AddSubscriber(c) \/ RemoveSubscriber(c)
  PROVE  ReadersInv' /\ SentInv' /\ TurnInv' /\ CompletedInv'
<1> USE DEF BrokerInv, publisherVars
<1>1. UNCHANGED <<at, turn, toSend, delivered, completed>>
  BY DEF LockSubscribers, AddSubscriber, RemoveSubscriber
<1>2. TurnInv' /\ CompletedInv'
  BY <1>1 DEF TurnInv, CompletedInv
<1>3. CASE LockSubscribers(c)
  <2>1. /\ lock'.readers = lock.readers /\ lock'.blocked = lock.blocked
        /\ UNCHANGED subscribers
    BY <1>3 DEF LockSubscribers, Announce, TypeInv, TypeOK, RWMutexes
  <2> QED BY <1>1, <1>2, <2>1 DEF ReadersInv, SentInv
<1>4. CASE AddSubscriber(c) \/ RemoveSubscriber(c)
  <2>1. lock.readers = {} /\ lock' = Unlock(lock)
    BY <1>4 DEF AddSubscriber, RemoveSubscriber, Locked
  <2>2. lock'.readers = lock.blocked /\ lock'.blocked = {}
    BY <2>1 DEF Unlock
  <2>3. \A p \in Publisher : at[p] # "send"
    BY <2>1 DEF ReadersInv
  <2>4. ReadersInv' /\ SentInv'
    BY <1>1, <2>2, <2>3 DEF ReadersInv, SentInv
  <2> QED BY <1>2, <2>4
<1> QED BY <1>3, <1>4

\* One more channel has been sent the event whose turn it is.
LEMMA SendEffect ==
  ASSUME BrokerInv, NEW p \in Publisher, NEW ch \in Channel,
         delivered' = [delivered EXCEPT ![ch] = Append(@, <<p, turn[p]>>)]
  PROVE  \A d \in Channel : \A f : f \in Range(delivered'[d])
           <=> f \in Range(delivered[d]) \/ (d = ch /\ f = <<p, turn[p]>>)
<1> USE DEF BrokerInv, TypeInv, TypeOK
<1>1. <<p, turn[p]>> \in Event
  BY DEF Event
<1> SUFFICES ASSUME NEW d \in Channel, NEW f
             PROVE f \in Range(delivered'[d])
           <=> f \in Range(delivered[d]) \/ (d = ch /\ f = <<p, turn[p]>>)
  OBVIOUS
<1>2. CASE d = ch
  <2>1. delivered'[d] = Append(delivered[d], <<p, turn[p]>>) /\ delivered[d] \in Seq(Event)
    BY <1>2
  <2>2. f \in Range(Append(delivered[d], <<p, turn[p]>>))
          <=> f \in Range(delivered[d]) \/ f = <<p, turn[p]>>
    BY <1>1, <2>1, AppendHas, Zenon
  <2> QED BY <1>2, <2>1, <2>2
<1>3. CASE d # ch
  <2>1. delivered'[d] = delivered[d]
    BY <1>3
  <2> QED BY <1>3, <2>1
<1> QED BY <1>2, <1>3

LEMMA SendStep ==
  ASSUME BrokerInv, NEW p \in Publisher, Send(p)
  PROVE  ReadersInv' /\ SentInv' /\ TurnInv' /\ CompletedInv'
<1> USE DEF BrokerInv, TypeInv, TypeOK
<1> PICK ch \in toSend[p] \ closed :
      /\ at[p] = "send"
      /\ delivered' = [delivered EXCEPT ![ch] = Append(@, <<p, turn[p]>>)]
      /\ toSend' = [toSend EXCEPT ![p] = @ \ {ch}]
      /\ UNCHANGED <<subscribers, lock, at, turn, completed>>
  BY DEF Send, GoesOn, Is, brokerVars
<1>1. \A d \in Channel : \A f : f \in Range(delivered'[d])
           <=> f \in Range(delivered[d]) \/ (d = ch /\ f = <<p, turn[p]>>)
  BY SendEffect
<1>2. ReadersInv' /\ CompletedInv'
  BY DEF ReadersInv, CompletedInv
<1>3. SentInv'
  <2> SUFFICES ASSUME NEW q \in Publisher, at[q] = "send"
               PROVE  /\ toSend'[q] \subseteq subscribers
                      /\ \A d \in subscribers \ toSend'[q] : <<q, turn[q]>> \in Range(delivered'[d])
    BY DEF SentInv
  <2>1. /\ toSend[q] \subseteq subscribers
        /\ \A d \in subscribers \ toSend[q] : <<q, turn[q]>> \in Range(delivered[d])
    BY DEF SentInv
  <2> QED BY <1>1, <2>1
<1>4. TurnInv'
  <2> SUFFICES ASSUME NEW d \in Channel, NEW q \in Publisher, NEW n \in 1 .. MaxMovies,
                      <<q, n>> \in Range(delivered'[d])
               PROVE  \/ n < turn[q]
                      \/ n = turn[q] /\ at[q] = "send" /\ d \notin toSend'[q]
                      \/ n = turn[q] /\ at[q] = "done"
    BY DEF TurnInv
  <2>1. CASE <<q, n>> \in Range(delivered[d])
    BY <2>1 DEF TurnInv
  <2>2. CASE ~<<q, n>> \in Range(delivered[d])
    <3>1. d = ch /\ <<q, n>> = <<p, turn[p]>>
      BY <1>1, <2>2
    <3> QED BY <3>1
  <2> QED BY <2>1, <2>2
<1> QED BY <1>2, <1>3, <1>4

LEMMA PublishedStep ==
  ASSUME BrokerInv, NEW p \in Publisher, Published(p)
  PROVE  ReadersInv' /\ SentInv' /\ TurnInv' /\ CompletedInv'
<1> USE DEF BrokerInv, TypeInv, TypeOK
<1>1. /\ at[p] = "send" /\ toSend[p] = {}
      /\ lock' = RUnlock(lock, p)
      /\ completed' = completed \cup {<<p, turn[p]>>}
      /\ \/ turn' = [turn EXCEPT ![p] = @ + 1] /\ at' = [at EXCEPT ![p] = "publish"]
         \/ turn' = turn /\ at' = [at EXCEPT ![p] = "done"]
      /\ UNCHANGED <<subscribers, toSend, delivered>>
  BY DEF Published, Is, clientVars
<1>2. /\ at'[p] # "send" /\ at'[p] # "rlock"
      /\ \A q \in Publisher : q # p => at'[q] = at[q] /\ turn'[q] = turn[q]
  BY <1>1
<1>3. lock'.readers = lock.readers \ {p} /\ lock'.blocked = lock.blocked
  BY <1>1 DEF RUnlock, RWMutexes
<1>4. ReadersInv'
  BY <1>1, <1>2, <1>3 DEF ReadersInv
<1>5. SentInv'
  BY <1>1, <1>2 DEF SentInv
<1>6. /\ \/ turn'[p] = turn[p] + 1 /\ at'[p] = "publish"
         \/ turn'[p] = turn[p] /\ at'[p] = "done"
      /\ turn[p] \in Nat
  BY <1>1
<1>7. TurnInv'
  <2> SUFFICES ASSUME NEW d \in Channel, NEW q \in Publisher, NEW n \in 1 .. MaxMovies,
                      <<q, n>> \in Range(delivered[d])
               PROVE  \/ n < turn'[q]
                      \/ n = turn'[q] /\ at'[q] = "send" /\ d \notin toSend[q]
                      \/ n = turn'[q] /\ at'[q] = "done"
    BY <1>1 DEF TurnInv
  <2>1. \/ n < turn[q]
        \/ n = turn[q] /\ at[q] = "send" /\ d \notin toSend[q]
        \/ n = turn[q] /\ at[q] = "done"
    BY DEF TurnInv
  <2> QED BY <1>1, <1>2, <1>6, <2>1
<1>8. CompletedInv'
  <2> SUFFICES ASSUME NEW q \in Publisher, NEW n \in 1 .. MaxMovies
               PROVE  <<q, n>> \in completed'
                        <=> n < turn'[q] \/ (n = turn'[q] /\ at'[q] = "done")
    BY DEF CompletedInv
  <2>1. <<q, n>> \in completed <=> n < turn[q] \/ (n = turn[q] /\ at[q] = "done")
    BY DEF CompletedInv
  <2>2. <<q, n>> \in completed' <=> <<q, n>> \in completed \/ (q = p /\ n = turn[p])
    BY <1>1
  <2> QED BY <1>1, <1>2, <1>6, <2>1, <2>2
<1> QED BY <1>4, <1>5, <1>7, <1>8

\* Only the loop itself changes what is left, and it goes on to one of those.
LEMMA TargetStep ==
  ASSUME BrokerInv, [Next]_vars
  PROVE  TargetInv'
<1> USE DEF BrokerInv, TypeInv, TypeOK
<1>1. ASSUME NEW p \in Publisher, NEW left \in SUBSET Channel, GoesOn(p, left) PROVE TargetInv'
  <2>1. toSend' = [toSend EXCEPT ![p] = left]
    BY <1>1 DEF GoesOn
  <2>2. PICK ch : /\ target' = [target EXCEPT ![p] = ch]
                  /\ left # {} => ch \in left
    BY <1>1 DEF GoesOn
  <2> QED BY <2>1, <2>2 DEF TargetInv
<1>2. ASSUME NEW p \in Publisher, RangeOverSubscribers(p) PROVE TargetInv'
  BY <1>1, <1>2 DEF RangeOverSubscribers
<1>3. ASSUME NEW p \in Publisher, Send(p) PROVE TargetInv'
  BY <1>1, <1>3 DEF Send
<1>4. ASSUME UNCHANGED <<toSend, target>> PROVE TargetInv'
  BY <1>4 DEF TargetInv
<1>5. ASSUME NEW p \in Publisher,
             \/ Begin(p) \/ TakeMutex(p) \/ NothingToDo(p) \/ Publish(p)
             \/ SendPanics(p) \/ Published(p)
      PROVE TargetInv'
  BY <1>4, <1>5 DEF Begin, TakeMutex, NothingToDo, Publish, SendPanics, Published, publisherVars
<1>6. ASSUME NEW c \in Client,
             Subscribe(c) \/ Start(c) \/ Read(c) \/ Disconnect(c) \/ Unsubscribe(c)
      PROVE TargetInv'
  BY <1>4, <1>6 DEF Subscribe, Start, Read, Disconnect, Unsubscribe, LockSubscribers,
     AddSubscriber, RemoveSubscriber, Receive, Stop, FilterOut, Convert, ConvertPanics, Forward,
     Drop, HandledEvent, publisherVars
<1>7. CASE UNCHANGED vars
  BY <1>4, <1>7 DEF vars, publisherVars
<1> QED BY <1>2, <1>3, <1>5, <1>6, <1>7 DEF Next, Operate

LEMMA BrokerInvStep == ASSUME BrokerInv, [Next]_vars PROVE BrokerInv'
<1> DEFINE Goal == ReadersInv /\ SentInv /\ TurnInv /\ CompletedInv
<1>1. TypeInv'
  BY NextTypes DEF BrokerInv
<1>2. ASSUME NEW p \in Publisher, Begin(p) \/ TakeMutex(p) \/ NothingToDo(p) PROVE Goal'
  <2>1. /\ at[p] \in {"idle", "mutex"}
        /\ \E next \in {"mutex", "publish", "returned"} : at' = [at EXCEPT ![p] = next]
        /\ UNCHANGED <<subscribers, lock, turn, toSend, delivered, completed>>
    BY <1>2 DEF Begin, TakeMutex, NothingToDo, Is, brokerVars
  <2>2. /\ at'[p] \in {"mutex", "publish", "returned"}
        /\ \A q \in Publisher : q # p => at'[q] = at[q]
    BY <2>1 DEF BrokerInv, TypeInv, TypeOK
  <2>3. ReadersInv' /\ SentInv'
    BY <2>1, <2>2 DEF BrokerInv, ReadersInv, SentInv
  <2>4. TurnInv' /\ CompletedInv'
    BY <2>1, <2>2 DEF BrokerInv, TurnInv, CompletedInv
  <2> QED BY <2>3, <2>4
<1>3. ASSUME NEW p \in Publisher, Publish(p) PROVE Goal'
  <2>1. /\ at[p] = "publish" /\ at' = [at EXCEPT ![p] = "rlock"]
        /\ lock' = RLock(lock, p)
        /\ UNCHANGED <<subscribers, turn, toSend, delivered, completed>>
    BY <1>3 DEF Publish, Is
  <2>2. SentInv' /\ TurnInv' /\ CompletedInv'
    BY <2>1 DEF BrokerInv, SentInv, TurnInv, CompletedInv, TypeInv, TypeOK
  <2>3. \/ lock'.readers = lock.readers \cup {p} /\ lock'.blocked = lock.blocked
        \/ lock'.readers = lock.readers /\ lock'.blocked = lock.blocked \cup {p}
    BY <2>1 DEF RLock, RWMutexes, BrokerInv, TypeInv, TypeOK
  <2>4. ReadersInv'
    BY <2>1, <2>3 DEF BrokerInv, ReadersInv, TypeInv, TypeOK
  <2> QED BY <2>2, <2>4
<1>4. ASSUME NEW p \in Publisher, RangeOverSubscribers(p) PROVE Goal'
  <2>1. /\ at[p] = "rlock" /\ at' = [at EXCEPT ![p] = "send"]
        /\ toSend' = [toSend EXCEPT ![p] = subscribers]
        /\ p \in lock.readers
        /\ UNCHANGED <<subscribers, lock, turn, delivered, completed>>
    BY <1>4 DEF RangeOverSubscribers, GoesOn, Is, brokerVars
  <2> QED BY <2>1 DEF BrokerInv, ReadersInv, SentInv, TurnInv, CompletedInv,
              TypeInv, TypeOK
<1>5. ASSUME NEW p \in Publisher, Send(p) \/ Published(p) PROVE Goal'
  BY <1>5, SendStep, PublishedStep
<1>6. ASSUME NEW p \in Publisher, SendPanics(p) PROVE Goal'
  BY <1>6, QuietStep DEF SendPanics, brokerVars, publisherVars
<1>7. ASSUME NEW c \in Client,
             LockSubscribers(c) \/ AddSubscriber(c) \/ RemoveSubscriber(c)
      PROVE Goal'
  BY <1>7, LockStep
<1>8. ASSUME NEW c \in Client,
             \/ Subscribe(c) \/ Read(c) \/ Disconnect(c) \/ Unsubscribe(c)
             \/ Receive(c) \/ Stop(c) \/ FilterOut(c) \/ Convert(c) \/ ConvertPanics(c)
             \/ Forward(c) \/ Drop(c)
      PROVE Goal'
  <2>1. UNCHANGED <<subscribers, lock, at, turn, toSend, delivered, completed>>
    BY <1>8 DEF Subscribe, Read, Disconnect, Unsubscribe, Receive, Stop, FilterOut,
       Convert, ConvertPanics, Forward, Drop, HandledEvent, brokerVars, publisherVars
  <2> QED BY <2>1, QuietStep
<1>9. ASSUME UNCHANGED vars PROVE Goal'
  BY <1>9, QuietStep DEF vars, brokerVars, publisherVars
<1> HIDE DEF Goal
<1>10. Goal'
  BY <1>2, <1>3, <1>4, <1>5, <1>6, <1>7, <1>8, <1>9 DEF Next, Operate, Start
<1>11. TargetInv'
  BY TargetStep
<1> QED BY <1>1, <1>10, <1>11 DEF BrokerInv, Goal

\* What the steps of the broker are to its members and their logs.
LEMMA RefinementStep ==
  ASSUME BrokerInv, [Next]_vars
  PROVE  [Broker!Next]_(Broker!vars)
<1> USE DEF BrokerInv
<1>1. ASSUME NEW p \in Publisher, Send(p) PROVE Broker!Next
  <2> PICK ch \in toSend[p] \ closed :
        /\ at[p] = "send"
        /\ delivered' = [delivered EXCEPT ![ch] = Append(@, <<p, turn[p]>>)]
        /\ UNCHANGED <<subscribers, completed>>
    BY <1>1 DEF Send, Is, brokerVars
  <2> DEFINE e == <<p, turn[p]>>
  <2>1. ch \in subscribers /\ ch \in Channel /\ turn[p] \in 1 .. MaxMovies
    BY DEF SentInv, TypeInv, TypeOK
  <2>2. e \notin completed /\ e \in Broker!Event
    BY <2>1 DEF CompletedInv, Broker!Event
  <2>3. \A n \in 1 .. MaxMovies : n < e[2] => <<e[1], n>> \in completed
    BY <2>1 DEF CompletedInv
  <2>4. ~Broker!Has(ch, e)
    BY <2>1 DEF TurnInv, Broker!Has, Broker!Range, Range
  <2>5. Broker!Deliver(ch, e)
    BY <2>1, <2>2, <2>3, <2>4 DEF Broker!Deliver
  <2> QED BY <2>1, <2>2, <2>5 DEF Broker!Next
<1>2. ASSUME NEW p \in Publisher, Published(p) PROVE Broker!Next
  <2> DEFINE e == <<p, turn[p]>>
  <2>1. /\ at[p] = "send" /\ toSend[p] = {}
        /\ completed' = completed \cup {e}
        /\ UNCHANGED <<subscribers, delivered>>
    BY <1>2 DEF Published, Is
  <2>2. turn[p] \in 1 .. MaxMovies
    BY DEF TypeInv, TypeOK
  <2>3. e \notin completed /\ e \in Broker!Event
    BY <2>1, <2>2 DEF CompletedInv, Broker!Event
  <2>4. \A ch \in subscribers : Broker!Has(ch, e)
    BY <2>1 DEF SentInv, Broker!Has, Broker!Range, Range
  <2>5. Broker!Complete(e)
    BY <2>1, <2>3, <2>4 DEF Broker!Complete
  <2> QED BY <2>3, <2>5 DEF Broker!Next
<1>3. ASSUME NEW c \in Client, AddSubscriber(c) \/ RemoveSubscriber(c)
      PROVE Broker!Next \/ UNCHANGED Broker!vars
  <2> PICK ch \in Channel : /\ subscribers' = subscribers \cup {ch}
                            /\ UNCHANGED <<delivered, completed>>
    BY <1>3 DEF AddSubscriber, RemoveSubscriber, Own, Phantom, Channel, publisherVars
  <2>1. CASE ch \in subscribers
    BY <2>1 DEF Broker!vars
  <2>2. CASE ch \notin subscribers
    BY <2>2 DEF Broker!Next, Broker!Join
  <2> QED BY <2>1, <2>2
<1>4. ASSUME NEW p \in Publisher,
             \/ Begin(p) \/ TakeMutex(p) \/ NothingToDo(p) \/ Publish(p)
             \/ RangeOverSubscribers(p) \/ SendPanics(p)
      PROVE UNCHANGED Broker!vars
  BY <1>4 DEF Begin, TakeMutex, NothingToDo, Publish, RangeOverSubscribers, SendPanics, brokerVars,
     publisherVars, Broker!vars
<1>5. ASSUME NEW c \in Client,
             \/ Subscribe(c) \/ Read(c) \/ Disconnect(c) \/ Unsubscribe(c)
             \/ LockSubscribers(c) \/ Receive(c) \/ Stop(c) \/ FilterOut(c)
             \/ Convert(c) \/ ConvertPanics(c) \/ Forward(c) \/ Drop(c)
      PROVE UNCHANGED Broker!vars
  BY <1>5 DEF Subscribe, Read, Disconnect, Unsubscribe, LockSubscribers, Receive, Stop,
     FilterOut, Convert, ConvertPanics, Forward, Drop, HandledEvent, brokerVars,
     publisherVars, Broker!vars
<1>6. ASSUME UNCHANGED vars PROVE UNCHANGED Broker!vars
  BY <1>6 DEF vars, brokerVars, publisherVars, Broker!vars
<1> QED BY <1>1, <1>2, <1>3, <1>4, <1>5, <1>6 DEF Next, Operate, Start

\* The broker (subscriber.go:43-70) keeps the promise of a multicast: it gives
\* every event once and in order to whoever has subscribed before the event's
\* publication ends, for any number of clients and of concurrent publishers.
THEOREM BrokerIsMulticast == Spec => ImplementsMulticast
<1>1. Init => Broker!Init
  BY DEF Init, Broker!Init
<1> QED BY <1>1, BrokerInvInit, BrokerInvStep, RefinementStep, PTL
        DEF Spec, ImplementsMulticast, Broker!Spec

(***************************************************************************)
(* Order                                                                   *)
(***************************************************************************)

InOrder(e, f) == e[1] = f[1] => e[2] < f[2]

\* What is on its way to a client is in order: q in its channel, the events in u
\* in its subscription's hands, o in the channel to the library, s read.
Orderly(q, u, o, s) ==
  /\ \A i, j \in DOMAIN q : i < j => InOrder(q[i], q[j])
  /\ \A i, j \in DOMAIN o : i < j => InOrder(o[i][1], o[j][1])
  /\ \A i, j \in DOMAIN s : i < j => InOrder(s[i][1], s[j][1])
  /\ \A e \in u, j \in DOMAIN q : InOrder(e, q[j])
  /\ \A i \in DOMAIN o, j \in DOMAIN q : InOrder(o[i][1], q[j])
  /\ \A i \in DOMAIN o, e \in u : InOrder(o[i][1], e)
  /\ \A i \in DOMAIN s, j \in DOMAIN q : InOrder(s[i][1], q[j])
  /\ \A i \in DOMAIN s, e \in u : InOrder(s[i][1], e)
  /\ \A i \in DOMAIN s, j \in DOMAIN o : InOrder(s[i][1], o[j][1])

\* And it is among the events in D.
Within(D, q, u, o, s) ==
  /\ \A i \in DOMAIN q : q[i] \in D
  /\ u \subseteq D
  /\ \A i \in DOMAIN o : o[i][1] \in D
  /\ \A i \in DOMAIN s : s[i][1] \in D

InHand(c) == IF pc[c] \in {"convert", "forward"} THEN {current[c]} ELSE {}

OrderInv ==
  \A c \in Client :
    /\ Orderly(queue[Own(c)], InHand(c), out[c], seen[c])
    /\ Within(Range(delivered[Own(c)]), queue[Own(c)], InHand(c), out[c], seen[c])

LEMMA AppendAt ==
  ASSUME NEW S, NEW s \in Seq(S), NEW e \in S
  PROVE  /\ DOMAIN Append(s, e) = 1 .. Len(s) + 1 /\ DOMAIN s = 1 .. Len(s)
         /\ Len(s) \in Nat
         /\ \A i \in 1 .. Len(s) : Append(s, e)[i] = s[i]
         /\ Append(s, e)[Len(s) + 1] = e
         /\ \A i \in DOMAIN Append(s, e) : i = Len(s) + 1 \/ i \in DOMAIN s
  OBVIOUS

LEMMA TailAt ==
  ASSUME NEW S, NEW s \in Seq(S), s # <<>>
  PROVE  /\ DOMAIN s = 1 .. Len(s) /\ Len(s) \in Nat /\ 1 \in DOMAIN s
         /\ Head(s) = s[1]
         /\ \A i \in DOMAIN Tail(s) : /\ i \in Nat /\ i > 0
                                      /\ i + 1 \in DOMAIN s /\ Tail(s)[i] = s[i + 1]
  OBVIOUS

\* An event that is sent comes after all that were sent before it.
LEMMA OrderlySend ==
  ASSUME NEW D, NEW q \in Seq(Event), NEW u, NEW o, NEW s, NEW e \in Event,
         Orderly(q, u, o, s), Within(D, q, u, o, s),
         \A f \in D : InOrder(f, e)
  PROVE  /\ Orderly(Append(q, e), u, o, s)
         /\ Within(D \cup {e}, Append(q, e), u, o, s)
<1>1. /\ DOMAIN Append(q, e) = 1 .. Len(q) + 1 /\ DOMAIN q = 1 .. Len(q)
      /\ Len(q) \in Nat
      /\ \A i \in 1 .. Len(q) : Append(q, e)[i] = q[i]
      /\ Append(q, e)[Len(q) + 1] = e
      /\ \A i \in DOMAIN Append(q, e) : i = Len(q) + 1 \/ i \in DOMAIN q
  BY AppendAt
<1>2. \A i, j \in DOMAIN Append(q, e) : i < j => InOrder(Append(q, e)[i], Append(q, e)[j])
  BY <1>1 DEF Orderly, Within
<1>3. \A j \in DOMAIN Append(q, e) : Append(q, e)[j] = e \/ \E k \in DOMAIN q : Append(q, e)[j] = q[k]
  BY <1>1
<1>4. /\ \A f \in u, j \in DOMAIN Append(q, e) : InOrder(f, Append(q, e)[j])
      /\ \A i \in DOMAIN o, j \in DOMAIN Append(q, e) : InOrder(o[i][1], Append(q, e)[j])
      /\ \A i \in DOMAIN s, j \in DOMAIN Append(q, e) : InOrder(s[i][1], Append(q, e)[j])
  BY <1>3 DEF Orderly, Within
<1>5. Orderly(Append(q, e), u, o, s)
  BY <1>2, <1>4 DEF Orderly
<1>6. Within(D \cup {e}, Append(q, e), u, o, s)
  BY <1>3 DEF Within
<1> QED BY <1>5, <1>6

LEMMA OrderlyReceive ==
  ASSUME NEW D, NEW q \in Seq(Event), q # <<>>, NEW o, NEW s,
         Orderly(q, {}, o, s), Within(D, q, {}, o, s)
  PROVE  /\ Orderly(Tail(q), {Head(q)}, o, s)
         /\ Within(D, Tail(q), {Head(q)}, o, s)
<1>1. /\ DOMAIN q = 1 .. Len(q) /\ Len(q) \in Nat /\ 1 \in DOMAIN q
      /\ Head(q) = q[1]
      /\ \A i \in DOMAIN Tail(q) : /\ i \in Nat /\ i > 0
                                   /\ i + 1 \in DOMAIN q /\ Tail(q)[i] = q[i + 1]
  BY TailAt
<1>2. /\ \A i, j \in DOMAIN Tail(q) : i < j => InOrder(Tail(q)[i], Tail(q)[j])
      /\ \A j \in DOMAIN Tail(q) : InOrder(Head(q), Tail(q)[j])
  BY <1>1 DEF Orderly
<1>3. Orderly(Tail(q), {Head(q)}, o, s)
  BY <1>1, <1>2 DEF Orderly
<1>4. Within(D, Tail(q), {Head(q)}, o, s)
  BY <1>1 DEF Within
<1> QED BY <1>3, <1>4

LEMMA OrderlyDrop ==
  ASSUME NEW D, NEW q, NEW u, NEW o, NEW s,
         Orderly(q, u, o, s), Within(D, q, u, o, s)
  PROVE  Orderly(q, {}, o, s) /\ Within(D, q, {}, o, s)
  BY DEF Orderly, Within

Shows == Event \X (1 .. MaxMovies)

LEMMA OrderlyForward ==
  ASSUME NEW D, NEW q, NEW e, NEW o \in Seq(Shows), NEW s, NEW x \in Shows, x[1] = e,
         Orderly(q, {e}, o, s), Within(D, q, {e}, o, s)
  PROVE  Orderly(q, {}, Append(o, x), s) /\ Within(D, q, {}, Append(o, x), s)
<1>1. /\ DOMAIN Append(o, x) = 1 .. Len(o) + 1 /\ DOMAIN o = 1 .. Len(o)
      /\ Len(o) \in Nat
      /\ \A i \in 1 .. Len(o) : Append(o, x)[i] = o[i]
      /\ Append(o, x)[Len(o) + 1] = x
      /\ \A i \in DOMAIN Append(o, x) : i = Len(o) + 1 \/ i \in DOMAIN o
  BY AppendAt
<1>2. \A i, j \in DOMAIN Append(o, x) : i < j => InOrder(Append(o, x)[i][1], Append(o, x)[j][1])
  BY <1>1 DEF Orderly
<1>3. \A j \in DOMAIN Append(o, x) :
        Append(o, x)[j][1] = e \/ \E k \in DOMAIN o : Append(o, x)[j][1] = o[k][1]
  BY <1>1
<1>4. /\ \A i \in DOMAIN Append(o, x), j \in DOMAIN q : InOrder(Append(o, x)[i][1], q[j])
      /\ \A i \in DOMAIN s, j \in DOMAIN Append(o, x) : InOrder(s[i][1], Append(o, x)[j][1])
  BY <1>3 DEF Orderly
<1>5. Orderly(q, {}, Append(o, x), s)
  BY <1>2, <1>4 DEF Orderly
<1>6. Within(D, q, {}, Append(o, x), s)
  BY <1>3 DEF Within
<1> QED BY <1>5, <1>6

LEMMA OrderlyRead ==
  ASSUME NEW D, NEW q, NEW u, NEW o \in Seq(Shows), o # <<>>, NEW s \in Seq(Shows),
         Orderly(q, u, o, s), Within(D, q, u, o, s)
  PROVE  /\ Orderly(q, u, Tail(o), Append(s, Head(o)))
         /\ Within(D, q, u, Tail(o), Append(s, Head(o)))
<1>1. /\ DOMAIN o = 1 .. Len(o) /\ Len(o) \in Nat /\ 1 \in DOMAIN o
      /\ Head(o) = o[1]
      /\ \A i \in DOMAIN Tail(o) : /\ i \in Nat /\ i > 0
                                   /\ i + 1 \in DOMAIN o /\ Tail(o)[i] = o[i + 1]
  BY TailAt
<1> PICK x \in Shows : x = Head(o) /\ x = o[1]
  BY <1>1
<1>2. /\ DOMAIN Append(s, x) = 1 .. Len(s) + 1 /\ DOMAIN s = 1 .. Len(s)
      /\ Len(s) \in Nat
      /\ \A i \in 1 .. Len(s) : Append(s, x)[i] = s[i]
      /\ Append(s, x)[Len(s) + 1] = x
      /\ \A i \in DOMAIN Append(s, x) : i = Len(s) + 1 \/ i \in DOMAIN s
  BY AppendAt
<1>3. /\ \A i, j \in DOMAIN Tail(o) : i < j => InOrder(Tail(o)[i][1], Tail(o)[j][1])
      /\ \A i \in DOMAIN Tail(o), j \in DOMAIN q : InOrder(Tail(o)[i][1], q[j])
      /\ \A i \in DOMAIN Tail(o), e \in u : InOrder(Tail(o)[i][1], e)
      /\ \A i \in DOMAIN Tail(o) : InOrder(x[1], Tail(o)[i][1])
      /\ \A i \in DOMAIN s, j \in DOMAIN Tail(o) : InOrder(s[i][1], Tail(o)[j][1])
  BY <1>1 DEF Orderly
<1>4. \A i, j \in DOMAIN Append(s, x) : i < j => InOrder(Append(s, x)[i][1], Append(s, x)[j][1])
  BY <1>1, <1>2 DEF Orderly
<1>5. \A i \in DOMAIN Append(s, x) :
        Append(s, x)[i] = x \/ \E k \in DOMAIN s : Append(s, x)[i] = s[k]
  BY <1>2
<1>6. /\ \A i \in DOMAIN Append(s, x), j \in DOMAIN q : InOrder(Append(s, x)[i][1], q[j])
      /\ \A i \in DOMAIN Append(s, x), e \in u : InOrder(Append(s, x)[i][1], e)
      /\ \A i \in DOMAIN Append(s, x), j \in DOMAIN Tail(o) : InOrder(Append(s, x)[i][1], Tail(o)[j][1])
  BY <1>1, <1>3, <1>5 DEF Orderly
<1>7. Orderly(q, u, Tail(o), Append(s, x))
  BY <1>3, <1>4, <1>6 DEF Orderly
<1>8. Within(D, q, u, Tail(o), Append(s, x))
  BY <1>1, <1>5 DEF Within
<1> QED BY <1>7, <1>8

LEMMA OrderInit == Init => OrderInv
<1> SUFFICES ASSUME Init, NEW c \in Client
             PROVE  /\ Orderly(queue[Own(c)], InHand(c), out[c], seen[c])
                    /\ Within(Range(delivered[Own(c)]), queue[Own(c)], InHand(c), out[c], seen[c])
  BY DEF OrderInv
<1>1. /\ queue[Own(c)] = <<>> /\ out[c] = <<>> /\ seen[c] = <<>> /\ InHand(c) = {}
  BY DEF Init, InHand, Own, Channel
<1> QED BY <1>1 DEF Orderly, Within

\* A step that leaves alone what is on its way to a client.
LEMMA OrderUnchanged ==
  ASSUME OrderInv, NEW c \in Client,
         UNCHANGED <<queue[Own(c)], InHand(c), out[c], seen[c], delivered[Own(c)]>>
  PROVE  /\ Orderly(queue'[Own(c)], InHand(c)', out'[c], seen'[c])
         /\ Within(Range(delivered'[Own(c)]), queue'[Own(c)], InHand(c)', out'[c], seen'[c])
<1>1. /\ queue'[Own(c)] = queue[Own(c)] /\ InHand(c)' = InHand(c) /\ out'[c] = out[c]
      /\ seen'[c] = seen[c] /\ delivered'[Own(c)] = delivered[Own(c)]
  OBVIOUS
<1> QED BY <1>1 DEF OrderInv

LEMMA OrderSend ==
  ASSUME BrokerInv, OrderInv, NEW p \in Publisher, Send(p)
  PROVE  OrderInv'
<1> PICK ch \in toSend[p] \ closed :
      /\ at[p] = "send"
      /\ queue' = [queue EXCEPT ![ch] = Append(@, <<p, turn[p]>>)]
      /\ delivered' = [delivered EXCEPT ![ch] = Append(@, <<p, turn[p]>>)]
      /\ UNCHANGED <<pc, current, out, seen>>
  BY DEF Send, Is, clientVars
<1> SUFFICES ASSUME NEW c \in Client
             PROVE  /\ Orderly(queue'[Own(c)], InHand(c)', out'[c], seen'[c])
                    /\ Within(Range(delivered'[Own(c)]), queue'[Own(c)], InHand(c)', out'[c], seen'[c])
  BY DEF OrderInv
<1>1. InHand(c)' = InHand(c) /\ out'[c] = out[c] /\ seen'[c] = seen[c]
  BY DEF InHand
<1>2. CASE ch # Own(c)
  <2>1. queue'[Own(c)] = queue[Own(c)] /\ delivered'[Own(c)] = delivered[Own(c)]
    BY <1>2 DEF BrokerInv, TypeInv, TypeOK, Own, Channel
  <2> QED BY <1>1, <2>1, OrderUnchanged
<1>3. CASE ch = Own(c)
  <2> PICK e \in Event : e = <<p, turn[p]>>
    BY DEF BrokerInv, TypeInv, TypeOK, Event
  <2>1. /\ queue[Own(c)] \in Seq(Event) /\ queue'[Own(c)] = Append(queue[Own(c)], e)
        /\ ch \in Channel /\ delivered[ch] \in Seq(Event)
    BY <1>3 DEF BrokerInv, TypeInv, TypeOK, Own, Channel
  <2>2. Range(delivered'[ch]) = Range(delivered[ch]) \cup {e}
    BY SendEffect, <2>1
  <2>3. \A f \in Range(delivered[ch]) : InOrder(f, e)
    <3> SUFFICES ASSUME NEW f \in Range(delivered[ch]), f[1] = p PROVE f[2] < turn[p]
      BY DEF InOrder
    <3>1. f \in Event
      BY <2>1 DEF Range
    <3>2. PICK n \in 1 .. MaxMovies : f = <<p, n>>
      BY <3>1 DEF Event
    <3>3. ch \in toSend[p] /\ ch \in Channel
      BY <2>1
    <3> QED BY <3>2, <3>3 DEF BrokerInv, TurnInv
  <2>4. /\ Orderly(queue[Own(c)], InHand(c), out[c], seen[c])
        /\ Within(Range(delivered[ch]), queue[Own(c)], InHand(c), out[c], seen[c])
    BY <1>3 DEF OrderInv
  <2>5. /\ Orderly(Append(queue[Own(c)], e), InHand(c), out[c], seen[c])
        /\ Within(Range(delivered[ch]) \cup {e}, Append(queue[Own(c)], e), InHand(c), out[c], seen[c])
    BY <2>1, <2>3, <2>4, OrderlySend
  <2> QED BY <1>1, <1>3, <2>1, <2>2, <2>5
<1> QED BY <1>2, <1>3

\* The steps that take an event on towards the client.
LEMMA OrderReceive ==
  ASSUME BrokerInv, OrderInv, NEW c \in Client,
         Receive(c) \/ FilterOut(c) \/ Forward(c) \/ Drop(c) \/ Read(c)
  PROVE  OrderInv'
<1> USE DEF BrokerInv, TypeInv, TypeOK
<1> SUFFICES ASSUME NEW d \in Client
             PROVE  /\ Orderly(queue'[Own(d)], InHand(d)', out'[d], seen'[d])
                    /\ Within(Range(delivered'[Own(d)]), queue'[Own(d)], InHand(d)', out'[d], seen'[d])
  BY DEF OrderInv
<1>0. delivered' = delivered
  BY DEF Receive, FilterOut, Forward, Drop, Read, HandledEvent
<1>1. CASE d # c
  <2>1. Own(d) # Own(c)
    BY <1>1 DEF Own
  <2>4. /\ \/ queue' = queue \/ queue' = [queue EXCEPT ![Own(c)] = Tail(@)]
        /\ \/ out' = out \/ out' = [out EXCEPT ![c] = Append(@, <<current[c], shows[c]>>)]
           \/ out' = [out EXCEPT ![c] = Tail(@)]
        /\ \/ seen' = seen \/ seen' = [seen EXCEPT ![c] = Append(@, Head(out[c]))]
        /\ \/ pc' = pc \/ \E to \in {"convert", "select"} : pc' = [pc EXCEPT ![c] = to]
        /\ \/ current' = current \/ \E e : current' = [current EXCEPT ![c] = e]
    BY DEF Receive, FilterOut, Forward, Drop, Read, HandledEvent, Goto
  <2>2. /\ queue'[Own(d)] = queue[Own(d)] /\ out'[d] = out[d] /\ seen'[d] = seen[d]
        /\ pc'[d] = pc[d] /\ current'[d] = current[d]
    <3>1. Own(d) \in Channel
      BY DEF Own, Channel
    <3> QED BY <1>1, <2>1, <2>4, <3>1
  <2>3. InHand(d)' = InHand(d)
    BY <2>2 DEF InHand
  <2> QED BY <1>0, <2>2, <2>3, OrderUnchanged
<1>2. /\ Orderly(queue[Own(c)], InHand(c), out[c], seen[c])
      /\ Within(Range(delivered[Own(c)]), queue[Own(c)], InHand(c), out[c], seen[c])
  BY DEF OrderInv
<1>3. Own(c) \in Channel /\ queue[Own(c)] \in Seq(Event)
      /\ out[c] \in Seq(Shows) /\ seen[c] \in Seq(Shows)
  BY DEF Own, Channel, Shows
<1>4. CASE d = c /\ Receive(c)
  <2>1. /\ InHand(c) = {} /\ InHand(c)' = {Head(queue[Own(c)])}
        /\ queue[Own(c)] # <<>> /\ queue'[Own(c)] = Tail(queue[Own(c)])
        /\ out'[c] = out[c] /\ seen'[c] = seen[c]
    BY <1>3, <1>4 DEF Receive, Goto, InHand
  <2>2. /\ Orderly(queue[Own(c)], {}, out[c], seen[c])
        /\ Within(Range(delivered[Own(c)]), queue[Own(c)], {}, out[c], seen[c])
    BY <1>2, <2>1
  <2>3. /\ Orderly(Tail(queue[Own(c)]), {Head(queue[Own(c)])}, out[c], seen[c])
        /\ Within(Range(delivered[Own(c)]), Tail(queue[Own(c)]), {Head(queue[Own(c)])}, out[c], seen[c])
    BY <1>3, <2>1, <2>2, OrderlyReceive
  <2> QED BY <1>0, <1>4, <2>1, <2>3
<1>5. CASE d = c /\ (FilterOut(c) \/ Drop(c))
  <2>1. /\ InHand(c)' = {}
        /\ queue' = queue /\ out'[c] = out[c] /\ seen'[c] = seen[c]
    BY <1>5 DEF FilterOut, Drop, HandledEvent, Goto, InHand
  <2>2. /\ Orderly(queue[Own(c)], {}, out[c], seen[c])
        /\ Within(Range(delivered[Own(c)]), queue[Own(c)], {}, out[c], seen[c])
    BY <1>2, OrderlyDrop
  <2> QED BY <1>0, <1>5, <2>1, <2>2
<1>6. CASE d = c /\ Forward(c)
  <2>1. /\ InHand(c) = {current[c]} /\ InHand(c)' = {}
        /\ queue' = queue /\ seen'[c] = seen[c]
        /\ pc[c] = "forward"
        /\ out'[c] = Append(out[c], <<current[c], shows[c]>>)
    BY <1>6 DEF Forward, HandledEvent, Goto, InHand
  <2> PICK x \in Shows : x = <<current[c], shows[c]>>
    BY <2>1 DEF HandlesEvent, Shows
  <2>2. x[1] = current[c] /\ out'[c] = Append(out[c], x)
    BY <2>1
  <2>3. /\ Orderly(queue[Own(c)], {current[c]}, out[c], seen[c])
        /\ Within(Range(delivered[Own(c)]), queue[Own(c)], {current[c]}, out[c], seen[c])
    BY <1>2, <2>1
  <2>4. /\ Orderly(queue[Own(c)], {}, Append(out[c], x), seen[c])
        /\ Within(Range(delivered[Own(c)]), queue[Own(c)], {}, Append(out[c], x), seen[c])
    BY <1>3, <2>2, <2>3, OrderlyForward
  <2> QED BY <1>0, <1>6, <2>1, <2>2, <2>4
<1>7. CASE d = c /\ Read(c)
  <2>1. /\ InHand(c)' = InHand(c) /\ queue' = queue /\ out[c] # <<>>
        /\ out'[c] = Tail(out[c]) /\ seen'[c] = Append(seen[c], Head(out[c]))
    BY <1>7 DEF Read, InHand
  <2>2. /\ Orderly(queue[Own(c)], InHand(c), Tail(out[c]), Append(seen[c], Head(out[c])))
        /\ Within(Range(delivered[Own(c)]), queue[Own(c)], InHand(c), Tail(out[c]),
                  Append(seen[c], Head(out[c])))
    BY <1>2, <1>3, <2>1, OrderlyRead
  <2> QED BY <1>0, <1>7, <2>1, <2>2
<1> QED BY <1>1, <1>4, <1>5, <1>6, <1>7

LEMMA OrderStep ==
  ASSUME BrokerInv, OrderInv, [Next]_vars
  PROVE  OrderInv'
<1>1. ASSUME UNCHANGED <<queue, out, seen, delivered>>, \A c \in Client : InHand(c)' = InHand(c)
      PROVE  OrderInv'
  BY <1>1, OrderUnchanged DEF OrderInv
<1>2. ASSUME NEW p \in Publisher,
             \/ Begin(p) \/ TakeMutex(p) \/ NothingToDo(p) \/ Publish(p)
             \/ RangeOverSubscribers(p) \/ SendPanics(p) \/ Published(p)
      PROVE OrderInv'
  <2>1. UNCHANGED <<queue, out, seen, delivered, pc, current>>
    BY <1>2 DEF Begin, TakeMutex, NothingToDo, Publish, RangeOverSubscribers, SendPanics, Published, clientVars
  <2> QED BY <1>1, <2>1 DEF InHand
<1>3. ASSUME NEW c \in Client,
             \/ Subscribe(c) \/ Disconnect(c) \/ Unsubscribe(c) \/ LockSubscribers(c)
             \/ AddSubscriber(c) \/ RemoveSubscriber(c) \/ Stop(c) \/ Convert(c)
             \/ ConvertPanics(c)
      PROVE OrderInv'
  <2>1. UNCHANGED <<queue, out, seen, delivered, current>>
    BY <1>3 DEF Subscribe, Disconnect, Unsubscribe, LockSubscribers, AddSubscriber,
       RemoveSubscriber, Stop, Convert, ConvertPanics, clientVars
  <2>2. \/ pc' = pc
        \/ \E to \in {"add", "adding", "select", "stopped", "remove", "removing", "removed"} :
             /\ pc' = [pc EXCEPT ![c] = to]
             /\ pc[c] \notin {"convert", "forward"}
        \/ pc[c] = "convert" /\ pc' = [pc EXCEPT ![c] = "forward"]
    BY <1>3 DEF Subscribe, Disconnect, Unsubscribe, LockSubscribers, AddSubscriber,
       RemoveSubscriber, Stop, Convert, ConvertPanics, Goto, clientVars
  <2>3. \A d \in Client : pc'[d] \in {"convert", "forward"} <=> pc[d] \in {"convert", "forward"}
    BY <2>2 DEF BrokerInv, TypeInv, TypeOK
  <2> QED BY <1>1, <2>1, <2>3 DEF InHand
<1>4. CASE UNCHANGED vars
  BY <1>1, <1>4 DEF vars, clientVars, InHand
<1> QED BY <1>2, <1>3, <1>4, OrderSend, OrderReceive DEF Next, Operate, Start

\* Whatever a subscription filters out or drops for a slow client
\* (subscriptions.go:33), what the client sees of a call is in its order.
THEOREM SeenInOrderAlways == Spec => []SeenInOrder
<1>1. OrderInv => SeenInOrder
  BY DEF OrderInv, Orderly, InOrder, SeenInOrder
<1> QED BY <1>1, BrokerInvInit, BrokerInvStep, OrderInit, OrderStep, PTL DEF Spec

\* What an event of x shows is its own item or a later one of its call.
ShowsWell(x) ==
  x[1][2] <= x[2] /\ (op[x[1][1]].change # "updated" => x[1][2] = x[2])

ShownInv ==
  /\ \A p \in Publisher : turn[p] <= op[p].count
  /\ \A c \in Client :
       /\ pc[c] = "forward" => ShowsWell(<<current[c], shows[c]>>)
       /\ \A i \in DOMAIN out[c] : ShowsWell(out[c][i])
       /\ \A i \in DOMAIN seen[c] : ShowsWell(seen[c][i])

LEMMA OnlyRefreshesLoop ==
  ASSUME NEW o \in Operation
  PROVE  o.count \in 1 .. MaxMovies /\ (o.change # "updated" => o.count = 1)
  BY DEF Operation, Creations, Refreshes, Collections

LEMMA ShownInit == Init => ShownInv
<1> SUFFICES ASSUME Init PROVE ShownInv
  OBVIOUS
<1>1. \A p \in Publisher : op[p] \in Operation /\ turn[p] = 1
  BY DEF Init
<1>2. \A p \in Publisher : turn[p] <= op[p].count
  BY <1>1, OnlyRefreshesLoop
<1>3. \A c \in Client : pc[c] = "off" /\ out[c] = <<>> /\ seen[c] = <<>>
  BY DEF Init
<1> QED BY <1>2, <1>3 DEF ShownInv

\* A step of a publisher changes no event that is under way.
LEMMA ShownPublisher ==
  ASSUME BrokerInv, ShownInv, NEW p \in Publisher, Begin(p) \/ Operate(p)
  PROVE  ShownInv'
<1> USE DEF BrokerInv, TypeInv, TypeOK
<1>1. UNCHANGED <<op, pc, current, shows, out, seen>>
  BY DEF Begin, Operate, TakeMutex, NothingToDo, Publish, RangeOverSubscribers, Send, SendPanics, Published,
     clientVars, publisherVars
<1>2. turn' = turn \/ (turn[p] < op[p].count /\ turn' = [turn EXCEPT ![p] = @ + 1])
  BY DEF Begin, Operate, TakeMutex, NothingToDo, Publish, RangeOverSubscribers, Send, SendPanics, Published,
     HasNext, publisherVars
<1>3. \A q \in Publisher : turn'[q] <= op[q].count
  <2>1. op[p].count \in 1 .. MaxMovies /\ turn[p] \in 1 .. MaxMovies
    BY OnlyRefreshesLoop
  <2>2. turn'[p] <= op[p].count
    <3> PICK k \in 1 .. MaxMovies : k = op[p].count
      BY <2>1
    <3>1. turn[p] <= k
      BY DEF ShownInv
    <3> QED BY <1>2, <2>1, <3>1
  <2>3. \A q \in Publisher \ {p} : turn'[q] = turn[q]
    BY <1>2
  <2> QED BY <2>2, <2>3 DEF ShownInv
<1> QED BY <1>1, <1>3 DEF ShownInv, ShowsWell

LEMMA DeliveredInTurn ==
  ASSUME BrokerInv, NEW ch \in Channel, NEW p \in Publisher, NEW n \in 1 .. MaxMovies,
         <<p, n>> \in Range(delivered[ch])
  PROVE  n <= turn[p]
<1>1. turn[p] \in Nat
  BY DEF BrokerInv, TypeInv, TypeOK
<1>2. n < turn[p] \/ n = turn[p]
  BY DEF BrokerInv, TurnInv
<1> QED BY <1>1, <1>2

LEMMA ShownClient ==
  ASSUME BrokerInv, OrderInv, ShownInv, NEW c \in Client,
         Subscribe(c) \/ Start(c) \/ Read(c) \/ Disconnect(c) \/ Unsubscribe(c)
  PROVE  ShownInv'
<1> USE DEF BrokerInv, TypeInv, TypeOK
<1>1. UNCHANGED <<op, turn>>
  BY DEF Subscribe, Start, Read, Disconnect, Unsubscribe, LockSubscribers, AddSubscriber,
     RemoveSubscriber, Receive, Stop, FilterOut, Convert, ConvertPanics, Forward, Drop,
     HandledEvent, publisherVars
<1>2. CASE Convert(c)
  <2>1. /\ pc[c] = "convert" /\ pc' = [pc EXCEPT ![c] = "forward"]
        /\ shows' = [shows EXCEPT ![c] = turn[current[c][1]]]
        /\ UNCHANGED <<current, out, seen>>
    BY <1>2 DEF Convert, Goto, Shown
  <2>0. current[c] \in Event
    BY <2>1 DEF HandlesEvent
  <2> PICK p \in Publisher, n \in 1 .. MaxMovies : current[c] = <<p, n>>
    BY <2>0 DEF Event
  <2>2. <<p, n>> \in Range(delivered[Own(c)])
    BY <2>1 DEF OrderInv, Within, InHand
  <2>3. n <= turn[p]
    <3>1. Own(c) \in Channel
      BY DEF Own, Channel
    <3> QED BY <2>2, <3>1, DeliveredInTurn
  <2>4. turn[p] <= op[p].count /\ op[p] \in Operation /\ turn[p] \in 1 .. MaxMovies
    BY DEF ShownInv
  <2>5. op[p].change # "updated" => n = turn[p]
    BY <2>3, <2>4, OnlyRefreshesLoop
  <2>6. /\ current'[c] = <<p, n>> /\ shows'[c] = turn[p]
        /\ \A d \in Client \ {c} :
             pc'[d] = pc[d] /\ shows'[d] = shows[d] /\ current'[d] = current[d]
    BY <2>1
  <2>7. ShowsWell(<<current'[c], shows'[c]>>)
    BY <2>3, <2>5, <2>6 DEF ShowsWell
  <2> QED BY <1>1, <2>1, <2>6, <2>7 DEF ShownInv, ShowsWell
<1>3. CASE Forward(c)
  <2>1. /\ pc[c] = "forward" /\ pc' = [pc EXCEPT ![c] = "select"]
        /\ out' = [out EXCEPT ![c] = Append(@, <<current[c], shows[c]>>)]
        /\ UNCHANGED seen
        /\ \A d \in Client \ {c} : shows'[d] = shows[d] /\ current'[d] = current[d]
    BY <1>3 DEF Forward, HandledEvent, Goto
  <2> PICK x \in Shows : x = <<current[c], shows[c]>>
    BY <2>1 DEF HandlesEvent, Shows
  <2>2. out[c] \in Seq(Shows) /\ out'[c] = Append(out[c], x) /\ ShowsWell(x)
    BY <2>1 DEF Shows, ShownInv
  <2>3. \A i \in DOMAIN out'[c] : out'[c][i] = x \/ \E k \in DOMAIN out[c] : out'[c][i] = out[c][k]
    BY <2>2, AppendAt
  <2>4. \A i \in DOMAIN out'[c] : ShowsWell(out'[c][i])
    BY <2>2, <2>3 DEF ShownInv
  <2>5. \A d \in Client \ {c} : out'[d] = out[d] /\ pc'[d] = pc[d]
    BY <2>1
  <2> QED BY <1>1, <2>1, <2>4, <2>5 DEF ShownInv, ShowsWell
<1>4. CASE Read(c)
  <2>1. /\ out[c] # <<>> /\ out' = [out EXCEPT ![c] = Tail(@)]
        /\ seen' = [seen EXCEPT ![c] = Append(@, Head(out[c]))]
        /\ UNCHANGED <<pc, shows, current>>
    BY <1>4 DEF Read
  <2>2. out[c] \in Seq(Shows) /\ seen[c] \in Seq(Shows)
    BY DEF Shows
  <2>3. /\ 1 \in DOMAIN out[c] /\ Head(out[c]) = out[c][1] /\ Head(out[c]) \in Shows
        /\ \A i \in DOMAIN Tail(out[c]) : i + 1 \in DOMAIN out[c] /\ Tail(out[c])[i] = out[c][i + 1]
    BY <2>1, <2>2, TailAt
  <2>4. \A i \in DOMAIN out'[c] : ShowsWell(out'[c][i])
    BY <2>1, <2>3 DEF ShownInv
  <2> PICK x \in Shows : x = Head(out[c]) /\ x = out[c][1]
    BY <2>3
  <2>5. seen'[c] = Append(seen[c], x) /\ ShowsWell(x)
    <3>1. ShowsWell(out[c][1])
      BY <2>3 DEF ShownInv
    <3> QED BY <2>1, <3>1
  <2>6. \A i \in DOMAIN seen'[c] : seen'[c][i] = x \/ \E k \in DOMAIN seen[c] : seen'[c][i] = seen[c][k]
    BY <2>2, <2>5, AppendAt
  <2>7. \A i \in DOMAIN seen'[c] : ShowsWell(seen'[c][i])
    BY <2>5, <2>6 DEF ShownInv
  <2>8. \A d \in Client \ {c} : out'[d] = out[d] /\ seen'[d] = seen[d]
    BY <2>1
  <2>9. \A d \in Client : pc[d] = "forward" => ShowsWell(<<current[d], shows[d]>>)
    BY DEF ShownInv
  <2>10. \A d \in Client : /\ \A i \in DOMAIN out'[d] : ShowsWell(out'[d][i])
                           /\ \A i \in DOMAIN seen'[d] : ShowsWell(seen'[d][i])
    BY <2>4, <2>7, <2>8 DEF ShownInv
  <2>11. \A p \in Publisher : turn[p] <= op[p].count
    BY DEF ShownInv
  <2>12. /\ \A p \in Publisher : turn'[p] <= op'[p].count
         /\ \A d \in Client : (pc[d] = "forward" => ShowsWell(<<current[d], shows[d]>>))'
    BY <1>1, <2>1, <2>9, <2>11 DEF ShowsWell
  <2>13. \A d \in Client : (\A i \in DOMAIN out[d] : ShowsWell(out[d][i]))'
    BY <1>1, <2>10 DEF ShowsWell
  <2>14. \A d \in Client : (\A i \in DOMAIN seen[d] : ShowsWell(seen[d][i]))'
    BY <1>1, <2>10 DEF ShowsWell
  <2> QED BY <2>12, <2>13, <2>14 DEF ShownInv
<1>5. ASSUME \/ Subscribe(c) \/ Disconnect(c) \/ Unsubscribe(c) \/ LockSubscribers(c)
             \/ AddSubscriber(c) \/ RemoveSubscriber(c) \/ Receive(c) \/ Stop(c)
             \/ FilterOut(c) \/ ConvertPanics(c) \/ Drop(c)
      PROVE ShownInv'
  <2>1. UNCHANGED <<out, seen>>
    BY <1>5 DEF Subscribe, Disconnect, Unsubscribe, LockSubscribers, AddSubscriber,
       RemoveSubscriber, Receive, Stop, FilterOut, ConvertPanics, Drop, HandledEvent, clientVars
  <2>2. \/ UNCHANGED <<pc, shows, current>>
        \/ /\ \E to \in {"add", "adding", "select", "stopped", "remove", "removing",
                         "removed", "convert"} : pc' = [pc EXCEPT ![c] = to]
           /\ \A d \in Client \ {c} : shows'[d] = shows[d] /\ current'[d] = current[d]
    BY <1>5 DEF Subscribe, Disconnect, Unsubscribe, LockSubscribers, AddSubscriber,
       RemoveSubscriber, Receive, Stop, FilterOut, ConvertPanics, Drop, HandledEvent, clientVars,
       Goto
  <2>3. \A d \in Client : pc'[d] = "forward" =>
          pc[d] = "forward" /\ shows'[d] = shows[d] /\ current'[d] = current[d]
    BY <2>2
  <2> QED BY <1>1, <2>1, <2>3 DEF ShownInv, ShowsWell
<1> QED BY <1>2, <1>3, <1>4, <1>5 DEF Start

LEMMA ShownStep ==
  ASSUME BrokerInv, OrderInv, ShownInv, [Next]_vars
  PROVE  ShownInv'
<1>1. CASE UNCHANGED vars
  BY <1>1 DEF vars, publisherVars, clientVars, ShownInv, ShowsWell
<1> QED BY <1>1, ShownPublisher, ShownClient DEF Next

\* The pointer in an event is followed late (subscriptions.go:48), but the item
\* it points to by then is never one that came before the event's.
THEOREM ShowsOwnOrLaterAlways == Spec => []ShowsOwnOrLater
<1>1. ShownInv => ShowsOwnOrLater
  BY DEF ShownInv, ShowsWell, ShowsOwnOrLater
<1> QED BY <1>1, BrokerInvInit, BrokerInvStep, OrderInit, OrderStep, ShownInit, ShownStep,
        PTL DEF Spec

(***************************************************************************)
(* Waiting                                                                 *)
(***************************************************************************)

\* A writer is pending, alone, while it has its turn; who waits to read waits for it.
PendingInv ==
  /\ \A c \in Client : c \in lock.pending <=> pc[c] \in {"adding", "removing"}
  /\ \A c, d \in lock.pending : c = d
  /\ lock.blocked # {} => lock.pending # {}
  /\ \A p \in Publisher : at[p] = "rlock" => p \in lock.readers \cup lock.blocked

\* Who holds a mutex publishes.
HolderInv ==
  /\ \A p \in Publisher : at[p] = "mutex" => op[p].mutex # None
  /\ \A m \in Mutex : holder[m] # None => at[holder[m]] \in {"publish", "rlock", "send"}

\* A channel is known once it has been added, and none is more than full.
RoomInv ==
  /\ \A c \in Client : Own(c) \in subscribers => pc[c] \notin {"off", "add", "adding"}
  /\ \A ch \in Channel : Len(queue[ch]) <= Buffer
  /\ \A c \in Client : Len(out[c]) <= PublishBuffer

WaitInv == PendingInv /\ HolderInv /\ RoomInv

LEMMA WaitInit == Init => WaitInv
<1> SUFFICES ASSUME Init PROVE WaitInv
  OBVIOUS
<1>1. PendingInv /\ HolderInv
  BY DEF Init, Unlocked, PendingInv, HolderInv
<1>2. RoomInv
  <2>1. \A ch \in Channel : Len(queue[ch]) = 0
    BY DEF Init
  <2>2. \A c \in Client : Len(out[c]) = 0
    BY DEF Init
  <2> QED BY <2>1, <2>2 DEF Init, RoomInv
<1> QED BY <1>1, <1>2 DEF WaitInv

\* A step of a publisher.
LEMMA WaitPublisher ==
  ASSUME BrokerInv, WaitInv, NEW p \in Publisher, Begin(p) \/ Operate(p)
  PROVE  WaitInv'
<1> USE DEF BrokerInv, TypeInv, TypeOK, WaitInv
<1>1. UNCHANGED <<subscribers, pc, out>>
  BY DEF Begin, Operate, TakeMutex, NothingToDo, Publish, RangeOverSubscribers, Send, SendPanics, Published,
     clientVars, brokerVars
<1>2. PendingInv'
  <2>1. CASE Publish(p)
    <3>1. /\ at' = [at EXCEPT ![p] = "rlock"] /\ lock' = RLock(lock, p)
      BY <2>1 DEF Publish
    <3>2. CASE lock.pending = {}
      <4>1. /\ lock'.pending = {} /\ lock'.blocked = lock.blocked
            /\ lock'.readers = lock.readers \cup {p}
        BY <3>1, <3>2 DEF RLock, RWMutexes
      <4> QED BY <1>1, <3>1, <3>2, <4>1 DEF PendingInv
    <3>3. CASE lock.pending # {}
      <4>1. /\ lock'.pending = lock.pending /\ lock'.blocked = lock.blocked \cup {p}
            /\ lock'.readers = lock.readers
        BY <3>1, <3>3 DEF RLock, RWMutexes
      <4> QED BY <1>1, <3>1, <3>3, <4>1 DEF PendingInv
    <3> QED BY <3>2, <3>3
  <2>2. CASE Published(p)
    <3>1. /\ lock'.pending = lock.pending /\ lock'.blocked = lock.blocked
          /\ lock'.readers = lock.readers \ {p}
      BY <2>2 DEF Published, RUnlock, RWMutexes
    <3>2. /\ \A q \in Publisher \ {p} : at'[q] = at[q]
          /\ at'[p] # "rlock"
      BY <2>2 DEF Published
    <3> QED BY <1>1, <3>1, <3>2 DEF PendingInv
  <2>3. CASE \/ Begin(p) \/ TakeMutex(p) \/ NothingToDo(p) \/ RangeOverSubscribers(p)
             \/ Send(p) \/ SendPanics(p)
    <3>1. /\ lock' = lock
          /\ \A q \in Publisher : at'[q] = "rlock" => at[q] = "rlock"
      BY <2>3 DEF Begin, TakeMutex, NothingToDo, RangeOverSubscribers, Send, SendPanics, brokerVars, publisherVars
    <3> QED BY <1>1, <3>1 DEF PendingInv
  <2> QED BY <2>1, <2>2, <2>3 DEF Operate
<1>3. HolderInv'
  <2>0. \A q \in Publisher : at'[q] = "mutex" => op'[q].mutex # None
    BY DEF HolderInv, Begin, Operate, TakeMutex, NothingToDo, Publish, RangeOverSubscribers, Send, SendPanics,
       Published, publisherVars
  <2> SUFFICES ASSUME NEW m \in Mutex, holder'[m] # None
               PROVE  at'[holder'[m]] \in {"publish", "rlock", "send"}
    BY <2>0 DEF HolderInv
  <2>1. CASE TakeMutex(p)
    BY <2>1 DEF TakeMutex, HolderInv, Is
  <2>2. CASE Published(p)
    <3>1. holder'[m] = holder[m]
      BY <2>2 DEF Published
    <3>2. holder[m] \in Publisher /\ (holder[m] = p => at'[p] = "publish")
      BY <2>2, <3>1 DEF Published
    <3>3. \A q \in Publisher \ {p} : at'[q] = at[q]
      BY <2>2 DEF Published
    <3> QED BY <3>1, <3>2, <3>3 DEF HolderInv
  <2>3. CASE \/ Begin(p) \/ NothingToDo(p) \/ Publish(p) \/ RangeOverSubscribers(p)
             \/ Send(p) \/ SendPanics(p)
    <3>1. holder'[m] = holder[m] /\ holder[m] \in Publisher
      BY <2>3 DEF Begin, NothingToDo, Publish, RangeOverSubscribers, Send, SendPanics,
                  publisherVars
    <3>2. at[holder[m]] \in {"publish", "rlock", "send"}
      BY <3>1 DEF HolderInv
    <3>3. CASE NothingToDo(p)
      BY <3>1, <3>2, <3>3 DEF NothingToDo, Is
    <3>4. CASE Begin(p) \/ Publish(p) \/ RangeOverSubscribers(p)
      <4>1. /\ \A q \in Publisher \ {p} : at'[q] = at[q]
            /\ at[p] # "idle" => at'[p] \in {"rlock", "send"}
        BY <3>4 DEF Begin, Publish, RangeOverSubscribers, Is
      <4> QED BY <3>1, <3>2, <4>1
    <3>5. CASE Send(p) \/ SendPanics(p)
      <4>1. at' = at
        BY <3>5 DEF Send, SendPanics, publisherVars
      <4> QED BY <3>1, <3>2, <4>1
    <3> QED BY <2>3, <3>3, <3>4, <3>5
  <2> QED BY <2>1, <2>2, <2>3 DEF Operate
<1>4. RoomInv'
  <2>1. \A ch \in Channel : Len(queue'[ch]) <= Buffer
    <3>1. CASE Send(p)
      <4> PICK ch \in toSend[p] \ closed :
            /\ Len(queue[ch]) < Buffer
            /\ queue' = [queue EXCEPT ![ch] = Append(@, <<p, turn[p]>>)]
        BY <3>1 DEF Send
      <4>1. \A d \in Channel : queue[d] \in Seq(Event) /\ Len(queue[d]) \in Nat
        OBVIOUS
      <4>2. ch \in Channel /\ Len(queue'[ch]) = Len(queue[ch]) + 1
        <5>1. ch \in Channel /\ queue'[ch] = Append(queue[ch], <<p, turn[p]>>)
          OBVIOUS
        <5> QED BY <4>1, <5>1
      <4>3. \A d \in Channel \ {ch} : queue'[d] = queue[d]
        OBVIOUS
      <4>4. Len(queue'[ch]) <= Buffer
        BY <4>1, <4>2
      <4> QED BY <4>3, <4>4 DEF RoomInv
    <3>2. CASE ~Send(p)
      BY <3>2 DEF RoomInv, Begin, Operate, TakeMutex, NothingToDo, Publish, RangeOverSubscribers, SendPanics,
         Published
    <3> QED BY <3>1, <3>2
  <2> QED BY <1>1, <2>1 DEF RoomInv
<1> QED BY <1>2, <1>3, <1>4

\* A step of a subscription or its client.
LEMMA WaitClient ==
  ASSUME BrokerInv, WaitInv, NEW c \in Client,
         Subscribe(c) \/ Start(c) \/ Read(c) \/ Disconnect(c) \/ Unsubscribe(c)
  PROVE  WaitInv'
<1> USE DEF BrokerInv, TypeInv, TypeOK, WaitInv
<1>1. UNCHANGED <<at, op, holder>>
  BY DEF Subscribe, Start, Read, Disconnect, Unsubscribe, LockSubscribers, AddSubscriber,
     RemoveSubscriber, Receive, Stop, FilterOut, Convert, ConvertPanics, Forward, Drop,
     HandledEvent, publisherVars
<1>2. HolderInv'
  BY <1>1 DEF HolderInv
<1>3. CASE LockSubscribers(c)
  <2>1. /\ lock'.pending = {c} /\ lock'.readers = lock.readers /\ lock'.blocked = lock.blocked
        /\ lock.pending = {}
    BY <1>3 DEF LockSubscribers, MayAnnounce, Announce, RWMutexes
  <2>2. /\ \/ pc[c] = "add" /\ pc' = [pc EXCEPT ![c] = "adding"]
           \/ pc[c] = "remove" /\ pc' = [pc EXCEPT ![c] = "removing"]
        /\ UNCHANGED <<subscribers, queue, out>>
    BY <1>3 DEF LockSubscribers, Goto
  <2>3. PendingInv'
    BY <1>1, <2>1, <2>2 DEF PendingInv
  <2>4. RoomInv'
    BY <2>2 DEF RoomInv
  <2> QED BY <1>2, <2>3, <2>4
<1>4. CASE AddSubscriber(c) \/ RemoveSubscriber(c)
  <2>1. /\ c \in lock.pending /\ lock'.pending = {} /\ lock'.blocked = {}
        /\ lock.readers = {} /\ lock'.readers = lock.blocked
    <3>1. c \in lock.pending /\ lock.readers = {} /\ lock' = Unlock(lock)
      BY <1>4 DEF AddSubscriber, RemoveSubscriber, Locked
    <3>2. lock' = [readers |-> lock.readers \cup lock.blocked, blocked |-> {}, pending |-> {}]
      BY <3>1 DEF Unlock
    <3> QED BY <3>1, <3>2
  <2>2. /\ \/ /\ pc' = [pc EXCEPT ![c] = "select"]
              /\ subscribers' = subscribers \cup {Own(c)}
           \/ /\ pc[c] = "removing" /\ pc' = [pc EXCEPT ![c] = "removed"]
              /\ subscribers' = subscribers \cup {Phantom(c)}
        /\ UNCHANGED <<queue, out>>
    BY <1>4 DEF AddSubscriber, RemoveSubscriber, Goto
  <2>3. PendingInv'
    BY <1>1, <2>1, <2>2 DEF PendingInv
  <2>4. \A d \in Client \ {c} : Own(d) \in subscribers' => Own(d) \in subscribers
    BY <2>2 DEF Own, Phantom
  <2>5. RoomInv'
    BY <2>2, <2>4 DEF RoomInv
  <2> QED BY <1>2, <2>3, <2>5
<1>5. ASSUME \/ Subscribe(c) \/ Disconnect(c) \/ Unsubscribe(c) \/ Receive(c) \/ Stop(c)
             \/ FilterOut(c) \/ Convert(c) \/ ConvertPanics(c) \/ Forward(c) \/ Drop(c)
             \/ Read(c)
      PROVE  WaitInv'
  <2>1. UNCHANGED <<subscribers, lock>>
    BY <1>5 DEF Subscribe, Disconnect, Unsubscribe, Receive, Stop, FilterOut, Convert,
       ConvertPanics, Forward, Drop, HandledEvent, Read, brokerVars
  <2>2. \/ pc' = pc
        \/ pc[c] = "off" /\ pc' = [pc EXCEPT ![c] = "add"]
        \/ pc[c] \in {"select", "convert", "forward", "stopped"}
           /\ \E to \in {"select", "convert", "forward", "stopped", "remove"} :
                pc' = [pc EXCEPT ![c] = to]
    BY <1>5 DEF Subscribe, Disconnect, Unsubscribe, Receive, Stop, FilterOut, Convert,
       ConvertPanics, Forward, Drop, HandledEvent, Read, Goto, clientVars
  <2>3. /\ \A d \in Client : pc'[d] \in {"adding", "removing"} <=> pc[d] \in {"adding", "removing"}
        /\ \A d \in Client : pc[d] \notin {"off", "add", "adding"} => pc'[d] \notin {"off", "add", "adding"}
    BY <2>2
  <2>4. PendingInv'
    BY <1>1, <2>1, <2>3 DEF PendingInv
  <2>5. \A ch \in Channel : Len(queue'[ch]) <= Buffer
    <3>1. CASE Receive(c)
      <4>1. queue[Own(c)] # <<>> /\ queue' = [queue EXCEPT ![Own(c)] = Tail(@)] /\ Own(c) \in Channel
        BY <3>1 DEF Receive, Own, Channel
      <4>2. queue[Own(c)] \in Seq(Event) /\ queue'[Own(c)] = Tail(queue[Own(c)])
        BY <4>1
      <4>3. Len(queue[Own(c)]) \in Nat /\ Len(queue'[Own(c)]) = Len(queue[Own(c)]) - 1
        BY <4>1, <4>2
      <4>4. \A d \in Channel \ {Own(c)} : queue'[d] = queue[d]
        BY <4>1
      <4>5. Len(queue[Own(c)]) <= Buffer
        BY <4>1 DEF RoomInv
      <4>6. Len(queue'[Own(c)]) <= Buffer
        BY <4>3, <4>5
      <4> QED BY <4>4, <4>6 DEF RoomInv
    <3>2. CASE ~Receive(c)
      BY <1>5, <3>2 DEF RoomInv, Subscribe, Disconnect, Unsubscribe, Stop, FilterOut, Convert,
         ConvertPanics, Forward, Drop, HandledEvent, Read
    <3> QED BY <3>1, <3>2
  <2>6. \A d \in Client : Len(out'[d]) <= PublishBuffer
    <3>1. out[c] \in Seq(Event \X (1 .. MaxMovies)) /\ Len(out[c]) \in Nat
      OBVIOUS
    <3>2. CASE Forward(c)
      <4>1. /\ Len(out[c]) < PublishBuffer
            /\ out' = [out EXCEPT ![c] = Append(@, <<current[c], shows[c]>>)]
        BY <3>2 DEF Forward
      <4>2. Len(out'[c]) = Len(out[c]) + 1
        <5>1. out'[c] = Append(out[c], <<current[c], shows[c]>>)
          BY <4>1
        <5> QED BY <3>1, <5>1
      <4>3. Len(out'[c]) <= PublishBuffer
        BY <3>1, <4>1, <4>2
      <4>4. \A d \in Client \ {c} : out'[d] = out[d]
        BY <4>1
      <4> QED BY <4>3, <4>4 DEF RoomInv
    <3>3. CASE Read(c)
      <4>1. out[c] # <<>> /\ out' = [out EXCEPT ![c] = Tail(@)]
        BY <3>3 DEF Read
      <4>2. out'[c] = Tail(out[c])
        BY <4>1
      <4>3. Len(out'[c]) = Len(out[c]) - 1
        BY <3>1, <4>1, <4>2
      <4>4. Len(out[c]) <= PublishBuffer
        BY DEF RoomInv
      <4>5. Len(out'[c]) <= PublishBuffer
        BY <3>1, <4>3, <4>4
      <4>6. \A d \in Client \ {c} : out'[d] = out[d]
        BY <4>1
      <4> QED BY <4>5, <4>6 DEF RoomInv
    <3>4. CASE ~Forward(c) /\ ~Read(c)
      BY <1>5, <3>4 DEF RoomInv, Subscribe, Disconnect, Unsubscribe, Receive, Stop, FilterOut,
         Convert, ConvertPanics, Drop, HandledEvent, clientVars
    <3> QED BY <3>2, <3>3, <3>4
  <2>7. RoomInv'
    BY <2>1, <2>3, <2>5, <2>6 DEF RoomInv
  <2> QED BY <1>2, <2>4, <2>7
<1> QED BY <1>3, <1>4, <1>5 DEF Start

LEMMA WaitStep ==
  ASSUME BrokerInv, WaitInv, [Next]_vars
  PROVE  WaitInv'
<1>1. CASE UNCHANGED vars
  BY <1>1 DEF vars, brokerVars, publisherVars, clientVars, WaitInv, PendingInv, HolderInv, RoomInv
<1> QED BY <1>1, WaitPublisher, WaitClient DEF Next

\* Somebody can go on, or is waiting for room in an abandoned channel.
SomebodyRuns ==
  \/ \E p \in Calling : ~CallWaits(p)
  \/ \E c \in Subscribing \cup Subscribed : ~SubscriptionWaits(c)
  \/ \E p \in Calling : WaitsForRoom(p) /\ Abandoned(target[p])

\* A call that sends waits for a subscription that receives.
LEMMA SenderIsServed ==
  ASSUME BrokerInv, WaitInv, NEW p \in Publisher, at[p] = "send"
  PROVE  SomebodyRuns
<1> USE DEF BrokerInv, TypeInv, TypeOK, WaitInv
<1> SUFFICES ASSUME CallWaits(p), ~Abandoned(target[p])
             PROVE  \E c \in Subscribed : ~SubscriptionWaits(c)
  BY DEF SomebodyRuns, Calling, CallWaits, WaitsForMutex, WaitsForLock, WaitsForRoom
<1>1. WaitsForRoom(p)
  BY DEF CallWaits, WaitsForMutex, WaitsForLock
<1> PICK ch \in toSend[p] : ch = target[p] /\ Len(queue[ch]) >= Buffer
  BY <1>1 DEF WaitsForRoom, TargetInv
<1> PICK c \in Subscribed : ch = Own(c)
  BY DEF Abandoned
<1>2. c \in Client /\ pc[c] \in {"select", "convert", "forward"}
  BY DEF Subscribed
<1>3. queue[Own(c)] # <<>>
  <2>1. Len(queue[ch]) > 0
    BY EventBrokerAssumption
  <2> QED BY <2>1
<1>4. Len(out[c]) \in Nat /\ ~(Len(out[c]) > PublishBuffer)
  <2>1. Len(out[c]) \in Nat /\ Len(out[c]) <= PublishBuffer
    BY <1>2 DEF RoomInv
  <2> QED BY <2>1, EventBrokerAssumption
<1> QED BY <1>2, <1>3, <1>4 DEF SubscriptionWaits

\* A writer whose turn it is waits for calls that send.
LEMMA WriterIsServed ==
  ASSUME BrokerInv, WaitInv, lock.pending # {}
  PROVE  SomebodyRuns
<1> USE DEF BrokerInv, TypeInv, TypeOK, WaitInv
<1> PICK c \in Client : c \in lock.pending
  BY DEF RWMutexes
<1>1. pc[c] \in {"adding", "removing"} /\ c \in Subscribing
  BY DEF PendingInv, Subscribing
<1>2. CASE lock.readers = {}
  <2>1. ~SubscriptionWaits(c)
    BY <1>1, <1>2 DEF SubscriptionWaits, Locked
  <2> QED BY <1>1, <2>1 DEF SomebodyRuns
<1>3. CASE lock.readers # {}
  <2> PICK q \in Publisher : q \in lock.readers
    BY <1>3 DEF RWMutexes
  <2>1. at[q] \in {"rlock", "send"}
    BY DEF ReadersInv
  <2>2. CASE at[q] = "rlock"
    BY <2>2 DEF SomebodyRuns, Calling, CallWaits, WaitsForMutex, WaitsForLock, WaitsForRoom
  <2> QED BY <2>1, <2>2, SenderIsServed
<1> QED BY <1>2, <1>3

\* A call that publishes waits for a writer, or for a subscription.
LEMMA PublisherIsServed ==
  ASSUME BrokerInv, WaitInv, NEW p \in Publisher, at[p] \in {"publish", "rlock", "send"}
  PROVE  SomebodyRuns
<1>1. CASE at[p] = "publish"
  BY <1>1 DEF SomebodyRuns, Calling, CallWaits, WaitsForMutex, WaitsForLock, WaitsForRoom
<1>2. CASE at[p] = "rlock"
  <2>1. CASE p \in lock.readers
    BY <1>2, <2>1 DEF SomebodyRuns, Calling, CallWaits, WaitsForMutex, WaitsForLock, WaitsForRoom
  <2>2. CASE p \notin lock.readers
    BY <1>2, <2>2, WriterIsServed DEF WaitInv, PendingInv
  <2> QED BY <2>1, <2>2
<1> QED BY <1>1, <1>2, SenderIsServed

\* Calls wait for the holders of mutexes and for writers, writers for calls that send,
\* and those for subscriptions: there is no circle, for any number of each, and only a
\* channel that nobody receives from any more can hold up the calls (subscriber.go:68).
THEOREM NobodyWaitsInACircleAlways == Spec => []NobodyWaitsInACircle
<1>1. BrokerInv /\ WaitInv => NobodyWaitsInACircle
  <2> SUFFICES ASSUME BrokerInv, WaitInv, Calling \cup Subscribing # {}
               PROVE  SomebodyRuns
    BY DEF NobodyWaitsInACircle, SomebodyRuns
  <2> USE DEF BrokerInv, TypeInv, TypeOK, WaitInv
  <2>1. ASSUME NEW p \in Calling PROVE SomebodyRuns
    <3>1. p \in Publisher /\ at[p] \in {"mutex", "publish", "rlock", "send"}
      BY <2>1 DEF Calling
    <3>2. CASE at[p] = "mutex" /\ holder[op[p].mutex] = None
      BY <2>1, <3>2 DEF SomebodyRuns, CallWaits, WaitsForMutex, WaitsForLock, WaitsForRoom
    <3>3. CASE at[p] = "mutex" /\ holder[op[p].mutex] # None
      <4>1. op[p].mutex \in Mutex
        BY <3>1, <3>3, CountType DEF HolderInv
      <4> QED BY <3>3, <4>1, PublisherIsServed DEF HolderInv
    <3> QED BY <3>1, <3>2, <3>3, PublisherIsServed
  <2>2. ASSUME NEW c \in Subscribing PROVE SomebodyRuns
    <3>1. c \in Client /\ pc[c] \in {"add", "adding", "remove", "removing"}
      BY DEF Subscribing
    <3>2. CASE lock.pending = {}
      <4>1. ~SubscriptionWaits(c)
        BY <3>1, <3>2 DEF PendingInv, SubscriptionWaits, MayAnnounce
      <4> QED BY <4>1 DEF SomebodyRuns
    <3> QED BY <3>2, WriterIsServed
  <2> QED BY <2>1, <2>2
<1> QED BY <1>1, BrokerInvInit, BrokerInvStep, WaitInit, WaitStep, PTL DEF Spec
===============================================================================
