------------------------- MODULE EventBrokerProofs -------------------------
(***************************************************************************)
(* Theorems about EventBroker, for every number of clients, every channel  *)
(* capacity and every history size.                                        *)
(***************************************************************************)
EXTENDS EventBroker, SequenceTheorems, TLAPS

USE BufferIsPositive, HistoryIsNatural, BoundsAreNatural, ClosedIsNoChannel

-----------------------------------------------------------------------------
(* The operators *)

\* Trim keeps the last n elements, or all of them.
LEMMA TrimProperties ==
    ASSUME NEW s \in Seq(Event), NEW n \in Nat
    PROVE  /\ Trim(s, n) \in Seq(Event)
           /\ Len(Trim(s, n)) = IF Len(s) > n THEN n ELSE Len(s)
           /\ \A i \in 1..Len(Trim(s, n)) : Trim(s, n)[i] = s[Len(s) - Len(Trim(s, n)) + i]
<1>1. CASE Len(s) > n
    <2>1. /\ Len(s) - n + 1 \in 1..Len(s) + 1 /\ Len(s) \in Nat
        BY <1>1
    <2>2. /\ SubSeq(s, Len(s) - n + 1, Len(s)) \in Seq(Event)
          /\ Len(SubSeq(s, Len(s) - n + 1, Len(s))) = n
          /\ \A i \in 1..n : SubSeq(s, Len(s) - n + 1, Len(s))[i] = s[Len(s) - n + i]
        BY <1>1, <2>1
    <2>3. QED
        BY <1>1, <2>2 DEF Trim, Newest
<1>2. CASE ~(Len(s) > n)
    BY <1>2 DEF Trim
<1>3. QED
    BY <1>1, <1>2

\* A replay is the end of the history, no longer than a channel, newer than the
\* cursor, and with every one of the newest events that is newer than it.
LEMMA ReplayProperties ==
    ASSUME history \in Seq(Event), nextEventID \in Nat, HistoryIsNewest, NEW after \in Nat
    PROVE  /\ Replay(after) \in Seq(Event)
           /\ Len(Replay(after)) <= Buffer
           /\ \A i \in 1..Len(Replay(after)) :
                 /\ Replay(after)[i].id = nextEventID - Len(Replay(after)) + i
                 /\ after = 0 \/ Replay(after)[i].id > after
           /\ \A i \in 1..Len(Trim(history, Buffer)) :
                 after = 0 \/ Trim(history, Buffer)[i].id > after
                     => Trim(history, Buffer)[i].id \in Ids(Replay(after))
<1> DEFINE recent == Trim(history, Buffer)
           Skips(n) == \A i \in 1..Len(recent) : i <= n <=> (after # 0 /\ recent[i].id <= after)
           skipped == CHOOSE n \in 0..Len(recent) : Skips(n)
           base == nextEventID - Len(recent)
<1>1. /\ recent \in Seq(Event) /\ Len(recent) <= Buffer /\ Len(recent) \in Nat
      /\ Len(recent) <= Len(history)
      /\ \A i \in 1..Len(recent) : recent[i] = history[Len(history) - Len(recent) + i]
    BY TrimProperties
<1>2. \A i \in 1..Len(recent) : recent[i].id = base + i
    <2> SUFFICES ASSUME NEW i \in 1..Len(recent)
                 PROVE  recent[i].id = base + i
        OBVIOUS
    <2>1. recent[i] = history[Len(history) - Len(recent) + i]
        BY <1>1
    <2> DEFINE j == Len(history) - Len(recent) + i
    <2> HIDE DEF recent
    <2>2. j \in 1..Len(history)
        BY <1>1
    <2>3. history[j].id = nextEventID - Len(history) + j
        BY <2>2 DEF HistoryIsNewest
    <2>4. nextEventID - Len(history) + j = base + i
        BY <1>1
    <2> HIDE DEF j, base
    <2>5. QED
        BY <2>1, <2>3, <2>4 DEF j
<1>3. base \in Nat
    BY <1>1 DEF HistoryIsNewest
<1>4. \E n \in 0..Len(recent) : Skips(n)
    <2> DEFINE m == IF after = 0 \/ after <= base THEN 0
                    ELSE IF after - base >= Len(recent) THEN Len(recent) ELSE after - base
    <2> HIDE DEF recent, base
    <2>1. m \in 0..Len(recent) /\ Skips(m)
        BY <1>1, <1>2, <1>3
    <2>2. QED
        BY <2>1
<1>5. skipped \in 0..Len(recent) /\ Skips(skipped)
    BY <1>4
<1>6. Replay(after) = SubSeq(recent, skipped + 1, Len(recent))
    BY DEF Replay
<1> HIDE DEF recent, skipped
<1>7. /\ Replay(after) \in Seq(Event)
      /\ Len(Replay(after)) = Len(recent) - skipped
      /\ \A i \in 1..(Len(recent) - skipped) : Replay(after)[i] = recent[skipped + i]
    BY <1>1, <1>5, <1>6
<1>8. ASSUME NEW i \in 1..Len(Replay(after))
      PROVE  /\ Replay(after)[i].id = nextEventID - Len(Replay(after)) + i
             /\ after = 0 \/ Replay(after)[i].id > after
    <2> DEFINE k == skipped + i
    <2> HIDE DEF base
    <2>1. k \in 1..Len(recent) /\ k > skipped /\ i \in 1..(Len(recent) - skipped)
        BY <1>1, <1>5, <1>7
    <2>2. Replay(after)[i] = recent[k] /\ recent[k].id = base + k
        BY <1>2, <1>7, <2>1
    <2>3. after = 0 \/ ~(recent[k].id <= after)
        BY <1>5, <2>1
    <2>4. base + k = nextEventID - Len(Replay(after)) + i
        BY <1>1, <1>5, <1>7 DEF base
    <2>5. base + k \in Int
        BY <1>3, <2>1
    <2> HIDE DEF k
    <2>6. QED
        BY <2>2, <2>3, <2>4, <2>5
<1>9. Len(Replay(after)) <= Buffer
    BY <1>1, <1>5, <1>7
<1>10. ASSUME NEW i \in 1..Len(recent), after = 0 \/ recent[i].id > after
       PROVE  recent[i].id \in Ids(Replay(after))
    <2> DEFINE k == i - skipped
    <2>1. ~(after # 0 /\ recent[i].id <= after)
        <3>1. recent[i].id \in Int
            BY <1>1, <1>2, <1>3
        <3> DEFINE id == recent[i].id
        <3> HIDE DEF id
        <3>2. id \in Int /\ (after = 0 \/ id > after) => ~(after # 0 /\ id <= after)
            OBVIOUS
        <3>3. QED
            BY <1>10, <3>1, <3>2 DEF id
    <2>2. ~(i <= skipped)
        BY <1>5, <2>1
    <2>3. k \in 1..Len(Replay(after)) /\ skipped + k = i
        BY <1>1, <1>5, <1>7, <2>2
    <2>4. Replay(after)[k] = recent[i]
        BY <1>7, <2>3
    <2> HIDE DEF k
    <2>5. QED
        BY <2>3, <2>4 DEF Ids
<1>11. QED
    BY <1>7, <1>8, <1>9, <1>10 DEF recent

-----------------------------------------------------------------------------
(* The inductive invariant *)

\* A queue holds no more than a channel can, in order, newer than what its
\* client received and no newer than the last event.
QueueOK(q, got, last) ==
    /\ Len(q) <= Buffer
    /\ \A i \in 1..Len(q) : q[i].id <= last
    /\ \A i, j \in 1..Len(q) : i < j => q[i].id < q[j].id
    /\ \A i \in 1..Len(q) : \A n \in got : n < q[i].id

\* The cursor covers all that the stream received since the backend started.
CursorOK(c) == \A n \in received[c] : n >= 1 /\ n <= lastEventID[c] /\ n <= nextEventID

IInv ==
    /\ TypeOK
    /\ HistoryIsNewest
    /\ \A c \in Client : channel[c] # Closed => QueueOK(channel[c], received[c], nextEventID)
    /\ \A c \in Client : CursorOK(c)

LEMMA Initially == Init => IInv
    BY DEF Init, IInv, TypeOK, HistoryIsNewest, CursorOK

\* One more event, offered to a queue, keeps it a good queue.
LEMMA OfferKeepsQueue ==
    ASSUME NEW q \in Seq(Event), NEW event \in Event, NEW last \in Nat,
           NEW got \in SUBSET Nat, QueueOK(q, got, last), event.id = last + 1,
           \A n \in got : n <= last
    PROVE  Offer(q, event) \in Seq(Event) /\ QueueOK(Offer(q, event), got, last + 1)
<1> DEFINE r == Append(q, event)
<1>1. /\ r \in Seq(Event) /\ Len(r) = Len(q) + 1 /\ Len(q) \in Nat
      /\ \A i \in 1..Len(q) : r[i] = q[i]
      /\ r[Len(q) + 1] = event
    OBVIOUS
<1>2. \A i \in 1..Len(q) : q[i].id \in Nat /\ q[i].id <= last
    <2>1. \A i \in 1..Len(q) : q[i] \in Event
        OBVIOUS
    <2>2. QED
        BY <2>1 DEF QueueOK, Event
<1>3. QueueOK(q, got, last + 1)
    <2>1. \A i \in 1..Len(q) : q[i].id <= last + 1
        <3> SUFFICES ASSUME NEW i \in 1..Len(q) PROVE q[i].id <= last + 1
            OBVIOUS
        <3>1. q[i].id \in Nat /\ q[i].id <= last
            BY <1>2
        <3> DEFINE id == q[i].id
        <3> HIDE DEF id
        <3>2. id \in Nat /\ id <= last => id <= last + 1
            OBVIOUS
        <3>3. QED
            BY <3>1, <3>2 DEF id
    <2> HIDE DEF r
    <2>2. QED
        BY <2>1, Zenon DEF QueueOK
<1>4. ASSUME Len(q) < Buffer
      PROVE  QueueOK(r, got, last + 1)
    <2> HIDE DEF r
    <2>1. Len(r) <= Buffer
        BY <1>1, <1>4
    <2>2. \A i \in 1..Len(r) : r[i].id \in Nat /\ r[i].id <= last + 1
        BY <1>1, <1>2, SMTT(30) DEF Event
    <2>3. ASSUME NEW i \in 1..Len(r), NEW j \in 1..Len(r), i < j
          PROVE  r[i].id < r[j].id
        <3>1. i \in 1..Len(q) /\ r[i] = q[i]
            BY <1>1, <2>3
        <3>2. CASE j = Len(q) + 1
            BY <1>1, <1>2, <3>1, <3>2
        <3>3. CASE j # Len(q) + 1
            <4>1. j \in 1..Len(q) /\ r[j] = q[j]
                BY <1>1, <3>3
            <4>2. QED
                BY <2>3, <3>1, <4>1 DEF QueueOK
        <3>4. QED
            BY <3>2, <3>3
    <2>4. ASSUME NEW i \in 1..Len(r), NEW n \in got
          PROVE  n < r[i].id
        <3>1. CASE i = Len(q) + 1
            BY <1>1, <3>1
        <3>2. CASE i # Len(q) + 1
            <4>1. i \in 1..Len(q) /\ r[i] = q[i]
                BY <1>1, <3>2
            <4>2. QED
                BY <4>1 DEF QueueOK
        <3>3. QED
            BY <3>1, <3>2
    <2>5. QED
        BY <2>1, <2>2, <2>3, <2>4 DEF QueueOK
<1>5. QED
    BY <1>1, <1>3, <1>4 DEF Offer

\* The tail of a good queue is a good queue for a client that received its head.
LEMMA TailKeepsQueue ==
    ASSUME NEW q \in Seq(Event), q # << >>, NEW last \in Nat,
           NEW got \in SUBSET Nat, QueueOK(q, got, last)
    PROVE  /\ Tail(q) \in Seq(Event)
           /\ QueueOK(Tail(q), got \cup {Head(q).id}, last)
           /\ Head(q) \in Event /\ Head(q).id <= last
<1> DEFINE r == Tail(q)
<1>1. /\ r \in Seq(Event) /\ Len(r) = Len(q) - 1 /\ Len(q) \in Nat \ {0}
      /\ \A i \in 1..Len(r) : r[i] = q[i + 1] /\ i + 1 \in 1..Len(q)
      /\ Head(q) = q[1] /\ 1 \in 1..Len(q)
    OBVIOUS
<1>2. Head(q) \in Event /\ Head(q).id <= last
    BY <1>1 DEF QueueOK
<1> HIDE DEF r
<1>3. Len(r) <= Buffer /\ \A i \in 1..Len(r) : r[i].id <= last
    BY <1>1 DEF QueueOK
<1>4. ASSUME NEW i \in 1..Len(r), NEW j \in 1..Len(r), i < j
      PROVE  r[i].id < r[j].id
    <2>1. i + 1 < j + 1
        BY <1>1, <1>4
    <2>2. QED
        BY <1>1, <2>1 DEF QueueOK
<1>5. ASSUME NEW i \in 1..Len(r), NEW n \in got \cup {Head(q).id}
      PROVE  n < r[i].id
    <2>1. 1 < i + 1
        BY <1>1
    <2>2. q[1].id < q[i + 1].id
        BY <1>1, <2>1 DEF QueueOK
    <2>3. n \in got => n < q[i + 1].id
        BY <1>1 DEF QueueOK
    <2>4. QED
        BY <1>1, <2>2, <2>3
<1>6. QueueOK(r, got \cup {Head(q).id}, last)
    BY <1>3, <1>4, <1>5 DEF QueueOK
<1>7. QED
    BY <1>1, <1>2, <1>6 DEF r

-----------------------------------------------------------------------------
(* The steps *)

\* The history after a publication is again the newest events.
LEMMA RememberKeepsHistory ==
    ASSUME history \in Seq(Event), nextEventID \in Nat, HistoryIsNewest,
           NEW event \in Event, event.id = nextEventID + 1,
           nextEventID' = nextEventID + 1, history' = Remember(event)
    PROVE  history' \in Seq(Event) /\ HistoryIsNewest'
<1> DEFINE r == Append(history, event)
<1>1. /\ r \in Seq(Event) /\ Len(r) = Len(history) + 1 /\ Len(history) \in Nat
      /\ \A i \in 1..Len(history) : r[i] = history[i]
      /\ r[Len(history) + 1] = event
    OBVIOUS
<1>2. \A i \in 1..Len(r) : r[i].id = nextEventID + 1 - Len(r) + i
    <2> SUFFICES ASSUME NEW i \in 1..Len(r)
                 PROVE  r[i].id = nextEventID + 1 - Len(r) + i
        OBVIOUS
    <2>1. CASE i = Len(history) + 1
        BY <1>1, <2>1
    <2>2. CASE i # Len(history) + 1
        <3>1. i \in 1..Len(history) /\ r[i] = history[i]
            BY <1>1, <2>2
        <3>2. history[i].id = nextEventID - Len(history) + i
            BY <3>1 DEF HistoryIsNewest
        <3>3. QED
            BY <1>1, <3>1, <3>2
    <2>3. QED
        BY <2>1, <2>2
<1> HIDE DEF r
<1> DEFINE h == Trim(r, HistorySize)
<1>3. /\ h \in Seq(Event)
      /\ Len(h) = IF Len(r) > HistorySize THEN HistorySize ELSE Len(r)
      /\ \A i \in 1..Len(h) : h[i] = r[Len(r) - Len(h) + i]
    BY <1>1, TrimProperties
<1>4. history' = h
    BY DEF Remember, r
<1> HIDE DEF h
<1>5. /\ Len(h) \in Nat /\ Len(h) <= HistorySize /\ Len(h) <= Len(r)
      /\ Len(h) <= nextEventID + 1
      /\ Len(h) = IF nextEventID + 1 < HistorySize THEN nextEventID + 1 ELSE HistorySize
    <2>1. Len(history) = IF nextEventID < HistorySize THEN nextEventID ELSE HistorySize
        BY DEF HistoryIsNewest
    <2>2. CASE Len(r) > HistorySize
        <3>1. Len(h) = HistorySize
            BY <1>3, <2>2
        <3>2. QED
            BY <1>1, <2>1, <2>2, <3>1
    <2>3. CASE ~(Len(r) > HistorySize)
        <3>1. Len(h) = Len(r)
            BY <1>3, <2>3
        <3>2. QED
            BY <1>1, <2>1, <2>3, <3>1
    <2>4. QED
        BY <2>2, <2>3
<1>6. ASSUME NEW i \in 1..Len(h)
      PROVE  h[i].id = nextEventID + 1 - Len(h) + i
    <2> DEFINE j == Len(r) - Len(h) + i
    <2>1. j \in 1..Len(r)
        BY <1>1, <1>5
    <2>2. h[i] = r[j]
        BY <1>3
    <2>3. nextEventID + 1 - Len(r) + j = nextEventID + 1 - Len(h) + i
        BY <1>1, <1>5
    <2> HIDE DEF j
    <2>4. QED
        BY <1>2, <2>1, <2>2, <2>3
<1>7. HistoryIsNewest'
    <2>1. Len(history') = IF nextEventID' < HistorySize THEN nextEventID' ELSE HistorySize
        BY <1>4, <1>5
    <2>2. \A i \in 1..Len(history') : history'[i].id = nextEventID' - Len(history') + i
        BY <1>4, <1>6
    <2>3. QED
        BY <2>1, <2>2 DEF HistoryIsNewest
<1>8. QED
    BY <1>3, <1>4, <1>7

LEMMA PublishKeepsIInv ==
    ASSUME IInv, NEW apps \in BOOLEAN, Publish(apps)
    PROVE  IInv'
<1> DEFINE event == [id |-> nextEventID + 1, apps |-> apps]
<1> USE DEF IInv
<1>1. event \in Event /\ event.id = nextEventID + 1 /\ nextEventID \in Nat
    BY DEF TypeOK, Event
<1>2. /\ nextEventID' = nextEventID + 1
      /\ history' = Remember(event)
      /\ channel' = [c \in Client |-> IF channel[c] = Closed THEN Closed
                                       ELSE Offer(channel[c], event)]
      /\ UNCHANGED <<lastEventID, received, restarts>>
    BY DEF Publish
<1> HIDE DEF event
<1>3. history' \in Seq(Event) /\ HistoryIsNewest'
    BY <1>1, <1>2, RememberKeepsHistory DEF TypeOK
<1>4. ASSUME NEW c \in Client
      PROVE  /\ channel'[c] \in Seq(Event) \cup {Closed}
             /\ channel'[c] # Closed => QueueOK(channel'[c], received'[c], nextEventID')
             /\ CursorOK(c)'
    <2>1. CursorOK(c)' /\ \A n \in received[c] : n <= nextEventID
        BY <1>1, <1>2 DEF CursorOK, TypeOK
    <2>2. CASE channel[c] = Closed
        BY <1>2, <2>1, <2>2
    <2>3. CASE channel[c] # Closed
        <3>1. channel[c] \in Seq(Event) /\ received[c] \in SUBSET Nat
            BY <2>3 DEF TypeOK
        <3>2. QueueOK(channel[c], received[c], nextEventID)
            BY <2>3
        <3>3. /\ Offer(channel[c], event) \in Seq(Event)
              /\ QueueOK(Offer(channel[c], event), received[c], nextEventID + 1)
            BY <1>1, <2>1, <3>1, <3>2, OfferKeepsQueue
        <3>4. channel'[c] = Offer(channel[c], event)
            BY <1>2, <2>3
        <3>5. QED
            BY <1>2, <2>1, <3>3, <3>4
    <2>4. QED
        BY <2>2, <2>3
<1>5. TypeOK'
    <2>1. channel' \in [Client -> Seq(Event) \cup {Closed}]
        BY <1>2, <1>4
    <2>2. QED
        BY <1>1, <1>2, <1>3, <2>1 DEF TypeOK
<1>6. QED
    BY <1>3, <1>4, <1>5

LEMMA SubscribeKeepsIInv ==
    ASSUME IInv, NEW c \in Client, Subscribe(c)
    PROVE  IInv'
<1> USE DEF IInv
<1> DEFINE q == Replay(lastEventID[c])
<1>1. /\ lastEventID[c] \in Nat /\ received[c] \in SUBSET Nat /\ nextEventID \in Nat
      /\ history \in Seq(Event)
    BY DEF TypeOK
<1>2. /\ channel' = [channel EXCEPT ![c] = q]
      /\ UNCHANGED <<nextEventID, history, lastEventID, received, restarts>>
    BY DEF Subscribe
<1>3. /\ q \in Seq(Event) /\ Len(q) <= Buffer
      /\ \A i \in 1..Len(q) : /\ q[i].id = nextEventID - Len(q) + i
                              /\ lastEventID[c] = 0 \/ q[i].id > lastEventID[c]
    BY <1>1, ReplayProperties
<1> HIDE DEF q
<1>4. QueueOK(q, received[c], nextEventID)
    <2>1. Len(q) \in Nat
        BY <1>3
    <2>2. \A i \in 1..Len(q) : q[i].id <= nextEventID
        BY <1>1, <1>3, <2>1
    <2>3. \A i, j \in 1..Len(q) : i < j => q[i].id < q[j].id
        BY <1>1, <1>3, <2>1
    <2>4. \A i \in 1..Len(q) : \A n \in received[c] : n < q[i].id
        <3> SUFFICES ASSUME NEW i \in 1..Len(q), NEW n \in received[c]
                     PROVE  n < q[i].id
            OBVIOUS
        <3>1. n >= 1 /\ n <= lastEventID[c] /\ n \in Nat
            BY <1>1 DEF CursorOK
        <3>2. lastEventID[c] = 0 \/ q[i].id > lastEventID[c]
            BY <1>3
        <3>3. q[i].id \in Int /\ lastEventID[c] \in Nat
            BY <1>1, <1>3, <2>1
        <3> DEFINE id == q[i].id
                   after == lastEventID[c]
        <3> HIDE DEF id, after
        <3>4. id \in Int /\ after \in Nat /\ (after = 0 \/ id > after)
              /\ n \in Nat /\ n >= 1 /\ n <= after => n < id
            OBVIOUS
        <3>5. QED
            BY <3>1, <3>2, <3>3, <3>4 DEF id, after
    <2>5. QED
        BY <1>3, <2>2, <2>3, <2>4 DEF QueueOK
<1>5. TypeOK'
    BY <1>2, <1>3 DEF TypeOK
<1>6. HistoryIsNewest' /\ \A d \in Client : CursorOK(d)'
    BY <1>2 DEF HistoryIsNewest, CursorOK
<1>7. \A d \in Client : channel'[d] # Closed => QueueOK(channel'[d], received'[d], nextEventID')
    BY <1>2, <1>4 DEF TypeOK
<1>8. QED
    BY <1>5, <1>6, <1>7

LEMMA ForwardKeepsIInv ==
    ASSUME IInv, NEW c \in Client, Forward(c)
    PROVE  IInv'
<1> USE DEF IInv
<1> DEFINE event == Head(channel[c])
           got == received[c] \cup {event.id}
<1>1. /\ channel[c] # Closed /\ channel[c] # << >>
      /\ channel' = [channel EXCEPT ![c] = Tail(channel[c])]
      /\ UNCHANGED <<nextEventID, history, restarts>>
    BY DEF Forward
<1>2. /\ channel[c] \in Seq(Event) /\ received[c] \in SUBSET Nat
      /\ nextEventID \in Nat /\ lastEventID[c] \in Nat
      /\ QueueOK(channel[c], received[c], nextEventID)
    BY <1>1 DEF TypeOK
<1>3. /\ Tail(channel[c]) \in Seq(Event) /\ QueueOK(Tail(channel[c]), got, nextEventID)
      /\ event \in Event /\ event.id <= nextEventID
    BY <1>1, <1>2, TailKeepsQueue
<1>4. \A n \in received[c] : n < event.id
    <2>1. 1 \in 1..Len(channel[c]) /\ event = channel[c][1]
        BY <1>1, <1>2
    <2> HIDE DEF event
    <2>2. QED
        BY <1>2, <2>1 DEF QueueOK
<1>5. event.id \in Nat \ {0}
    BY <1>3 DEF Event
<1>6. \/ /\ lastEventID' = [lastEventID EXCEPT ![c] = event.id]
         /\ received' = [received EXCEPT ![c] = got]
      \/ UNCHANGED <<lastEventID, received>>
    BY DEF Forward
<1> HIDE DEF event
<1>7. /\ received' \in [Client -> SUBSET Nat] /\ lastEventID' \in [Client -> Nat]
      /\ received'[c] \in SUBSET got
      /\ \A d \in Client \ {c} : received'[d] = received[d] /\ lastEventID'[d] = lastEventID[d]
    <2>1. /\ received \in [Client -> SUBSET Nat] /\ lastEventID \in [Client -> Nat]
          /\ received[c] \in SUBSET got
        BY DEF TypeOK
    <2>2. got \in SUBSET Nat /\ event.id \in Nat
        BY <1>2, <1>5
    <2> HIDE DEF got
    <2>3. CASE UNCHANGED <<lastEventID, received>>
        BY <2>1, <2>3
    <2>4. CASE /\ lastEventID' = [lastEventID EXCEPT ![c] = event.id]
               /\ received' = [received EXCEPT ![c] = got]
        BY <2>1, <2>2, <2>4
    <2>5. QED
        BY <1>6, <2>3, <2>4
<1>8. TypeOK'
    BY <1>1, <1>3, <1>7 DEF TypeOK
<1>9. HistoryIsNewest'
    BY <1>1 DEF HistoryIsNewest
<1>10. CursorOK(c)'
    <2>1. CASE UNCHANGED <<lastEventID, received>>
        BY <1>1, <2>1 DEF CursorOK
    <2>2. CASE /\ lastEventID' = [lastEventID EXCEPT ![c] = event.id]
               /\ received' = [received EXCEPT ![c] = got]
        <3>1. lastEventID'[c] = event.id /\ received'[c] = got
            BY <2>2 DEF TypeOK
        <3>2. \A n \in got : n \in Nat /\ n >= 1 /\ n <= event.id /\ n <= nextEventID
            BY <1>2, <1>3, <1>4, <1>5 DEF CursorOK
        <3>3. QED
            BY <1>1, <3>1, <3>2 DEF CursorOK
    <2>3. QED
        BY <1>6, <2>1, <2>2
<1>11. \A d \in Client \ {c} : CursorOK(d)'
    BY <1>1, <1>7 DEF CursorOK
<1>12. QueueOK(channel'[c], received'[c], nextEventID')
    <2>1. channel'[c] = Tail(channel[c])
        BY <1>1 DEF TypeOK
    <2> HIDE DEF got
    <2>2. QED
        BY <1>1, <1>3, <1>7, <2>1 DEF QueueOK
<1>13. \A d \in Client \ {c} :
          channel'[d] # Closed => QueueOK(channel'[d], received'[d], nextEventID')
    BY <1>1, <1>7 DEF TypeOK
<1>14. QED
    BY <1>8, <1>9, <1>10, <1>11, <1>12, <1>13

LEMMA OtherStepsKeepIInv ==
    ASSUME IInv, Restart \/ (\E c \in Client : Disconnect(c) \/ StartOver(c)) \/ UNCHANGED vars
    PROVE  IInv'
<1> USE DEF IInv
<1>1. CASE Restart
    <2>1. TypeOK'
        BY <1>1 DEF Restart, TypeOK
    <2>2. HistoryIsNewest'
        BY <1>1 DEF Restart, HistoryIsNewest
    <2>3. \A c \in Client : channel'[c] = Closed /\ CursorOK(c)'
        BY <1>1 DEF Restart, CursorOK
    <2>4. QED
        BY <2>1, <2>2, <2>3
<1>2. ASSUME NEW c \in Client, Disconnect(c)
      PROVE  IInv'
    <2>1. TypeOK'
        BY <1>2 DEF Disconnect, TypeOK
    <2>2. HistoryIsNewest'
        BY <1>2 DEF Disconnect, HistoryIsNewest
    <2>3. \A d \in Client : /\ channel'[d] \in {Closed, channel[d]}
                            /\ received'[d] = received[d] /\ CursorOK(d)'
        BY <1>2 DEF Disconnect, CursorOK, TypeOK
    <2>4. nextEventID' = nextEventID
        BY <1>2 DEF Disconnect
    <2>5. QED
        BY <2>1, <2>2, <2>3, <2>4
<1>3. ASSUME NEW c \in Client, StartOver(c)
      PROVE  IInv'
    <2>1. /\ UNCHANGED <<nextEventID, history, channel, restarts>>
          /\ lastEventID' = [lastEventID EXCEPT ![c] = 0]
          /\ received' = [received EXCEPT ![c] = {}]
        BY <1>3 DEF StartOver
    <2>2. TypeOK' /\ HistoryIsNewest'
        BY <2>1 DEF TypeOK, HistoryIsNewest
    <2>3. \A d \in Client : \/ received'[d] = {}
                            \/ received'[d] = received[d] /\ lastEventID'[d] = lastEventID[d]
        BY <2>1 DEF TypeOK
    <2>4. ASSUME NEW d \in Client
          PROVE  /\ CursorOK(d)'
                 /\ channel'[d] # Closed => QueueOK(channel'[d], received'[d], nextEventID')
        BY <2>1, <2>3 DEF CursorOK, QueueOK
    <2>5. QED
        BY <2>2, <2>4
<1>4. CASE UNCHANGED vars
    BY <1>4 DEF vars, TypeOK, HistoryIsNewest, CursorOK
<1>5. QED
    BY <1>1, <1>2, <1>3, <1>4

LEMMA BrokerStep == IInv /\ [Next]_vars => IInv'
    BY PublishKeepsIInv, SubscribeKeepsIInv, ForwardKeepsIInv, OtherStepsKeepIInv DEF Next

\* The invariant holds in every reachable state.
THEOREM Invariance == Spec => []IInv
    BY Initially, BrokerStep, PTL DEF Spec

-----------------------------------------------------------------------------
(* What follows *)

\* Every variable keeps its type.
THEOREM TypeCorrect == Spec => []TypeOK
    BY Invariance, PTL DEF IInv

\* The sends of SubscribeAfter never wait: the replay fits the channel whatever
\* the sizes of history and channel and whatever cursor the client sends.
THEOREM SubscribingNeverBlocks == Spec => []ReplayNeverBlocks
<1>1. IInv => ReplayNeverBlocks
    BY DEF IInv, ReplayNeverBlocks, QueueOK
<1>2. QED
    BY <1>1, Invariance, PTL

\* The history has no gap: it is the newest events, as many as it has room for.
THEOREM HistoryHasNoGap == Spec => []HistoryIsNewest
    BY Invariance, PTL DEF IInv

\* No stream of a client (streamInstallOperations) is sent an event twice or after
\* a later one, over any number of disconnections and reconnections, also while
\* other streams start over without their cursors.
THEOREM OrderedDelivery == Spec => []DeliveryInOrder
<1>1. IInv => DeliveryInOrder
    BY DEF IInv, DeliveryInOrder, QueueOK
<1>2. QED
    BY <1>1, Invariance, PTL

\* A connection begins with Subscribe; no other step opens a closed channel.
LEMMA OnlySubscribeConnects ==
    ASSUME IInv, [Next]_vars, NEW c \in Client, Connects(c)
    PROVE  Subscribe(c)
<1>1. channel \in [Client -> Seq(Event) \cup {Closed}] /\ channel[c] = Closed /\ channel'[c] # Closed
    BY DEF IInv, TypeOK, Connects
<1>2. ~(\E apps \in BOOLEAN : Publish(apps)) /\ ~Restart /\ ~UNCHANGED vars
    BY <1>1 DEF Publish, Restart, vars
<1>3. ASSUME NEW d \in Client, Subscribe(d) \/ Forward(d) \/ Disconnect(d) \/ StartOver(d)
      PROVE  Subscribe(c)
    <2>1. d = c
        BY <1>1, <1>3 DEF Subscribe, Forward, Disconnect, StartOver
    <2>2. QED
        BY <1>1, <1>3, <2>1 DEF Forward, Disconnect, StartOver
<1>4. QED
    BY <1>2, <1>3 DEF Next

\* A client that connects again with a cursor of this run of the backend, or with
\* none, finds in its channel every application event the replay can reach that
\* is newer than what it received.
LEMMA SubscribeResumes ==
    ASSUME IInv, NEW c \in Client, Subscribe(c), lastEventID[c] \in received[c] \cup {0}
    PROVE  Resumes(c)
<1> DEFINE after == lastEventID[c]
           recent == Trim(history, Buffer)
<1>1. after \in Nat /\ history \in Seq(Event) /\ nextEventID \in Nat /\ HistoryIsNewest
    BY DEF IInv, TypeOK
<1>2. channel'[c] = Replay(after) /\ history' = history
    BY DEF IInv, TypeOK, Subscribe
<1>3. \A i \in 1..Len(recent) :
          after = 0 \/ recent[i].id > after => recent[i].id \in Ids(Replay(after))
    BY <1>1, ReplayProperties
<1>4. ASSUME NEW i \in 1..Len(recent), \A n \in received[c] : n < recent[i].id
      PROVE  recent[i].id \in Ids(channel'[c])
    <2>1. after = 0 \/ after < recent[i].id
        BY <1>4
    <2>2. recent[i].id > after <=> after < recent[i].id
        OBVIOUS
    <2>3. QED
        BY <1>2, <1>3, <2>1, <2>2
<1>5. QED
    BY <1>4 DEF Resumes

\* A client that lost its connection misses nothing the history and the channel
\* have room for: SubscribeAfter takes the events up to the cursor for received,
\* and no others.
THEOREM ReconnectionResumes == Spec => ReconnectResumes
<1>1. IInv /\ [Next]_vars =>
          [\A c \in Client :
              Connects(c) /\ lastEventID[c] \in received[c] \cup {0} => Resumes(c)]_vars
    BY OnlySubscribeConnects, SubscribeResumes
<1>2. QED
    BY <1>1, Invariance, PTL DEF Spec, ReconnectResumes

=============================================================================
