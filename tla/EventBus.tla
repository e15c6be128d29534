------------------------------ MODULE EventBus ------------------------------
(***************************************************************************)
(* The event bus (events/bus.py) with the emitter and correlation tracker  *)
(* that feed it and the sinks and collecting subscribers behind it.        *)
(* Several threads emit; an emitter tracks an event, counts it and copies  *)
(* the subscribers under the lock, then calls them one by one with the     *)
(* lock released, so subscriptions change under a publication, and two     *)
(* threads may be in one collecting subscriber at once, which has no lock. *)
(***************************************************************************)
EXTENDS Naturals, Sequences, FiniteSets, Functions

CONSTANTS Threads,    \* threads that emit
          Callbacks,  \* functions that subscribe
          Types,      \* event types
          Filters,    \* sets of types a subscription may be filtered to
          Faulty,     \* callbacks that may raise; the others are collecting subscribers
          MaxEvents,  \* bound on events emitted
          MaxSubscribers,  \* bound on subscriptions at a time
          MaxKept     \* max_events of a CollectingSubscriber

EventBusAssumption == {MaxEvents, MaxSubscribers} \subseteq Nat /\ MaxKept \in Nat \ {0} /\ Faulty \subseteq Callbacks /\ Filters \subseteq SUBSET Types

VARIABLES active,       \* the bus is not shut down
          subscribers,  \* sequence of [id, callback, types]: a dictionary in insertion order
          pub,          \* thread -> the publication it is in
          tracked,      \* events in the order the tracker has them
          received,     \* callback -> every event it was called with
          kept,         \* collector -> its list: of each event, its place in received
          collecting,   \* thread -> what it still has to do in a collector's on_event
          met           \* collectors in which two threads have been at once (history)

collectors == <<kept, collecting, met>>
vars == <<active, subscribers, pub, tracked, received, collectors>>

Idle == [pc |-> "idle"]
Outside == [pc |-> "outside"]
Event(n, t) == [id |-> n, type |-> t]
Ids == {s.id : s \in Range(subscribers)}

Init == /\ active = TRUE /\ subscribers = <<>> /\ tracked = <<>>
        /\ pub = [t \in Threads |-> Idle]
        /\ received = [c \in Callbacks |-> <<>>] /\ kept = [c \in Callbacks |-> <<>>]
        /\ collecting = [t \in Threads |-> Outside] /\ met = {}

\* EventEmitter.emit: create the event and track it, then publish.
Emit(t) ==
  /\ pub[t].pc = "idle" /\ Len(tracked) < MaxEvents
  /\ \E type \in Types : LET e == Event(Len(tracked) + 1, type) IN
       /\ tracked' = Append(tracked, e)
       /\ pub' = [pub EXCEPT ![t] = [pc |-> "publish", event |-> e]]
  /\ UNCHANGED <<active, subscribers, received, collectors>>

\* publish: nothing on a bus that is shut down.
PublishInactive(t) ==
  /\ pub[t].pc = "publish" /\ ~active
  /\ pub' = [pub EXCEPT ![t] = Idle]
  /\ UNCHANGED <<active, subscribers, tracked, received, collectors>>

\* publish: the active bus is left behind before the copy is made under the lock.
PublishActive(t) ==
  /\ pub[t].pc = "publish" /\ active
  /\ pub' = [pub EXCEPT ![t].pc = "copy"]
  /\ UNCHANGED <<active, subscribers, tracked, received, collectors>>

CopySubscribers(t) ==
  /\ pub[t].pc = "copy"
  /\ pub' = [pub EXCEPT ![t] = [pc |-> "deliver", event |-> @.event, todo |-> subscribers, owed |-> subscribers]]
  /\ UNCHANGED <<active, subscribers, tracked, received, collectors>>

\* Handlers that end a publication: a subscriber that raises is counted and skipped.
Rest(t, raises) == Tail(pub[t].todo)
StopOnError(t, raises) == IF raises THEN <<>> ELSE Tail(pub[t].todo)
AfterDelivery(t, raises) == Rest(t, raises)

KeepOldest(s) == IF Len(s) > MaxKept THEN SubSeq(s, 1, MaxKept) ELSE s
KeepLast(s) == IF Len(s) > MaxKept THEN SubSeq(s, Len(s) - MaxKept + 1, Len(s)) ELSE s

Inside(c) == {t \in Threads : collecting[t].pc # "outside" /\ collecting[t].at = c}

\* on_event: the event is appended to the list that is there.  One appended to a list that
\* was replaced meanwhile is lost as if it had come just before the replacement.
Collect(t, c) ==
  /\ kept' = [kept EXCEPT ![c] = Append(@, Len(received[c]) + 1)]
  /\ collecting' = [collecting EXCEPT ![t] = [pc |-> "check", at |-> c]]
  /\ met' = IF Inside(c) = {} THEN met ELSE met \cup {c}

\* One subscriber of the copy: filtered out, called, or raising when called.
Deliver(t) ==
  /\ pub[t].pc = "deliver" /\ pub[t].todo # <<>> /\ collecting[t] = Outside
  /\ LET s == Head(pub[t].todo)  e == pub[t].event  matches == e.type \in s.types IN
     \E raises \in IF matches /\ s.callback \in Faulty THEN BOOLEAN ELSE {FALSE} :
       /\ received' = IF matches THEN [received EXCEPT ![s.callback] = Append(@, e)] ELSE received
       /\ IF matches /\ s.callback \notin Faulty THEN Collect(t, s.callback) ELSE UNCHANGED collectors
       /\ pub' = [pub EXCEPT ![t].todo = AfterDelivery(t, raises)]
  /\ UNCHANGED <<active, subscribers, tracked>>

\* The rest of on_event, step by step without a lock: is the list too long, then its last
\* events are copied, and the copy becomes the list.
CheckLength(t) ==
  /\ collecting[t].pc = "check"
  /\ collecting' = [collecting EXCEPT ![t] = IF Len(kept[@.at]) > MaxKept THEN [pc |-> "copy", at |-> @.at] ELSE Outside]
  /\ UNCHANGED <<active, subscribers, pub, tracked, received, kept, met>>
CopyLast(t) ==
  /\ collecting[t].pc = "copy"
  /\ collecting' = [collecting EXCEPT ![t] = [pc |-> "assign", at |-> @.at, last |-> KeepLast(kept[@.at])]]
  /\ UNCHANGED <<active, subscribers, pub, tracked, received, kept, met>>
Assign(t) ==
  /\ collecting[t].pc = "assign"
  /\ kept' = [kept EXCEPT ![collecting[t].at] = collecting[t].last]
  /\ collecting' = [collecting EXCEPT ![t] = Outside]
  /\ UNCHANGED <<active, subscribers, pub, tracked, received, met>>

Published(t) ==
  /\ pub[t].pc = "deliver" /\ pub[t].todo = <<>> /\ collecting[t] = Outside
  /\ pub' = [pub EXCEPT ![t] = Idle]
  /\ UNCHANGED <<active, subscribers, tracked, received, collectors>>

\* The default id is made of the number of subscribers and the callback, so it
\* may be the id of an earlier subscription of the same callback.
DefaultId(c) == <<Len(subscribers), c>>
Put(s) == IF s.id \in Ids
          THEN [i \in DOMAIN subscribers |-> IF subscribers[i].id = s.id THEN s ELSE subscribers[i]]
          ELSE Append(subscribers, s)
Subscribe(c, types) ==
  /\ subscribers' = Put([id |-> DefaultId(c), callback |-> c, types |-> types])
  /\ UNCHANGED <<active, pub, tracked, received, collectors>>

Unsubscribe(id) ==
  /\ \E i \in DOMAIN subscribers :
       /\ subscribers[i].id = id
       /\ subscribers' = SubSeq(subscribers, 1, i - 1) \o SubSeq(subscribers, i + 1, Len(subscribers))
  /\ UNCHANGED <<active, pub, tracked, received, collectors>>

\* shutdown: inactive first, then the subscribers are cleared.
Deactivate ==
  /\ active /\ active' = FALSE
  /\ UNCHANGED <<subscribers, pub, tracked, received, collectors>>
ClearSubscribers ==
  /\ ~active /\ subscribers # <<>> /\ subscribers' = <<>>
  /\ UNCHANGED <<active, pub, tracked, received, collectors>>

Next == \/ \E t \in Threads : Emit(t) \/ PublishInactive(t) \/ PublishActive(t) \/ CopySubscribers(t)
                             \/ Deliver(t) \/ CheckLength(t) \/ CopyLast(t) \/ Assign(t) \/ Published(t)
        \/ \E c \in Callbacks, types \in Filters : Len(subscribers) < MaxSubscribers /\ Subscribe(c, types)
        \/ \E id \in Ids : Unsubscribe(id)
        \/ Deactivate \/ ClearSubscribers

Spec == Init /\ [][Next]_vars

----------------------------------------------------------------------------
TypeOK == /\ Len(subscribers) <= MaxSubscribers /\ IsInjective([i \in DOMAIN subscribers |-> subscribers[i].id])
          /\ \A t \in Threads : pub[t].pc \in {"idle", "publish", "copy", "deliver"}
          /\ \A t \in Threads : collecting[t].pc \in {"outside", "check", "copy", "assign"}
          /\ \A c \in Callbacks : Range(received[c]) \subseteq Range(tracked)

\* When a publication ends, every subscription that was there when it began has had
\* the event if its filter admits it, even if another subscriber raised.
NoSubscriberMissed ==
  [][\A t \in Threads : Published(t) =>
       \A s \in Range(pub[t].owed) : pub[t].event.type \in s.types => pub[t].event \in Range(received[s.callback])]_vars

\* A collecting subscriber holds events in the order in which it was given them and none twice,
\* and no more than max_events once every thread has left it; unless two threads were in it
\* at once, it then holds the newest it was given (subscribers.py:90-94).
InOrder(s, n) == \A i \in DOMAIN s : s[i] \in 1..n /\ \A j \in DOMAIN s : i < j => s[i] < s[j]
Newest(n) == IF n <= MaxKept THEN [i \in 1..n |-> i] ELSE [i \in 1..MaxKept |-> n - MaxKept + i]
CollectorKeepsNewest ==
  \A c \in Callbacks \ Faulty :
    /\ InOrder(kept[c], Len(received[c]))
    /\ Inside(c) = {} => /\ Len(kept[c]) <= MaxKept
                         /\ c \in met \/ kept[c] = Newest(Len(received[c]))
=============================================================================
