------------------------ MODULE StoreDeliveryProofs -------------------------
(***************************************************************************)
(* Theorems about what the subscribers of StoreImpl are called with and    *)
(* about its queries, for any number of clients, subscribers and calls,    *)
(* and every capacity and policy: no gap in the states a subscriber is     *)
(* told of, at most one stale notification, one on_unsubscribe; the        *)
(* function of every query_state that returned Ok runs once; and every     *)
(* subscriber whose add_subscriber returned Ok is added.  The types of all *)
(* variables follow.                                                       *)
(*                                                                         *)
(* The inductive invariant, Delivery, ties the callbacks a subscriber has  *)
(* had (its view) to the lists it is on.  Views: it waits to be added and  *)
(* has had none, or is on the list and has not been told that it is over,  *)
(* or is over; and the clone of the list that do_notify goes through names *)
(* each subscriber once, and none that was notified since it was over.     *)
(* Versions: a subscriber on the list has seen the last version to be      *)
(* notified, or all but the last and do_notify owes it that one.  Lists    *)
(* and States are what these two need of the lists and of the state while  *)
(* the reducer thread computes, writes and announces it.                   *)
(*                                                                         *)
(* The inductive invariant of the queries, QInv: a query is known once,    *)
(* as one that waits or as one that ran (Asked); it belongs to a call its  *)
(* client has begun, so that a new call is a query nobody knows (Askers);  *)
(* and while the function of an accepted query waits, a StateFunction is   *)
(* in the queue or at work (Answers), which no policy drops.  Exit is the  *)
(* last item, so none is left in the queue when the reducer thread ends.   *)
(* AInv says the same of the subscribers that wait and AddSubscriber.      *)
(***************************************************************************)
EXTENDS StoreImplProofs, FiniteSetTheorems

\* Where a view says that it is over; whether it does; and whether it goes on.
Ends(v) == { i \in DOMAIN v : v[i].kind = "unsubscribe" }
Left(v) == Ends(v) # {}
Late(v) == \E i \in Ends(v) : i # Len(v)

\* The order of the callbacks: on_subscribe, notifications, on_unsubscribe, and
\* at most one notification that was under way.
WellFormed(v) ==
  /\ v \in Seq(Events)
  /\ v # <<>> => v[1].kind = "subscribe"
  /\ \A i \in DOMAIN v : v[i].kind = "subscribe" => i = 1
  /\ \A i \in Ends(v) : Len(v) <= i + 1
  /\ \A i, j \in Ends(v) : i = j

\* The last callback that came with a state.
Latest(v, k) == k \in Seen(v) /\ \A i \in Seen(v) : i <= k

\* From one callback to the next no version of set is skipped.
Gapless(v, set) ==
  \A j, k \in Seen(v) :
    j < k /\ (\A i \in Seen(v) : i <= j \/ k <= i) =>
      Between(set, v[j].version, v[k].version) = {v[k].version}

Event(k, n) == [kind |-> k, version |-> n]

-----------------------------------------------------------------------------
(* Views *)

\* A view that one callback is added to.
LEMMA ViewAppend ==
  ASSUME NEW v \in Seq(Events), NEW e \in Events
  PROVE  LET w == Append(v, e)
         IN  /\ w \in Seq(Events) /\ w # <<>>
             /\ Len(v) \in Nat /\ Len(w) = Len(v) + 1
             /\ DOMAIN v = 1 .. Len(v) /\ DOMAIN w = 1 .. Len(v) + 1
             /\ \A i \in 1 .. Len(v) : w[i] = v[i]
             /\ w[Len(v) + 1] = e
BY AppendProperties, LenProperties

\* Where it says that it is over, and where it tells of a state.
LEMMA Parts ==
  ASSUME NEW v \in Seq(Events), NEW e \in Events
  PROVE  LET w == Append(v, e)
         IN  /\ Ends(w) = IF e.kind = "unsubscribe"
                            THEN Ends(v) \cup {Len(v) + 1} ELSE Ends(v)
             /\ Seen(w) = IF e.kind = "unsubscribe"
                            THEN Seen(v) ELSE Seen(v) \cup {Len(v) + 1}
             /\ Ends(v) \subseteq 1 .. Len(v) /\ Seen(v) \subseteq 1 .. Len(v)
<1> DEFINE w == Append(v, e)
<1>1. /\ Len(v) \in Nat
      /\ DOMAIN v = 1 .. Len(v) /\ DOMAIN w = 1 .. Len(v) + 1
      /\ \A i \in 1 .. Len(v) : w[i] = v[i]
      /\ w[Len(v) + 1] = e
  BY ViewAppend
<1> HIDE DEF w
<1>2. 1 .. Len(v) + 1 = 1 .. Len(v) \cup {Len(v) + 1}
  BY <1>1
<1>3. Ends(w) = IF e.kind = "unsubscribe"
                  THEN Ends(v) \cup {Len(v) + 1} ELSE Ends(v)
  BY <1>1, <1>2 DEF Ends
<1>4. Seen(w) = IF e.kind = "unsubscribe"
                  THEN Seen(v) ELSE Seen(v) \cup {Len(v) + 1}
  BY <1>1, <1>2 DEF Seen
<1> QED
  BY <1>1, <1>3, <1>4 DEF w, Ends, Seen

\* The first callback.
LEMMA SubscribeView ==
  ASSUME NEW n \in Nat
  PROVE  LET w == Append(<<>>, Event("subscribe", n))
         IN  /\ WellFormed(w) /\ w # <<>> /\ ~Left(w) /\ ~Late(w)
             /\ Seen(w) = {1} /\ w[1].version = n
<1> DEFINE e == Event("subscribe", n)
           w == Append(<<>>, e)
<1>1. e \in Events /\ e.kind = "subscribe" /\ e.version = n
  BY DEF Event, Events
<1> HIDE DEF e
<1>2. /\ w \in Seq(Events) /\ w # <<>> /\ Len(w) = 1
      /\ DOMAIN w = 1 .. 1 /\ w[1] = e
  BY <1>1, ViewAppend, EmptySeq
<1> HIDE DEF w
<1>3. Ends(w) = {} /\ Seen(w) = {1}
  BY <1>1, <1>2 DEF Ends, Seen
<1> QED
  BY <1>1, <1>2, <1>3 DEF WellFormed, Left, Late, w, e

\* A notification, of a subscriber that has had none after its end.
LEMMA NotifyView ==
  ASSUME NEW v, WellFormed(v), v # <<>>, ~Late(v), NEW n \in Nat
  PROVE  LET w == Append(v, Event("notify", n))
         IN  /\ WellFormed(w) /\ w # <<>>
             /\ Left(w) <=> Left(v)
             /\ Seen(w) = Seen(v) \cup {Len(w)} /\ Len(w) = Len(v) + 1
             /\ w[Len(w)].version = n
<1> DEFINE e == Event("notify", n)
           w == Append(v, e)
<1>1. e \in Events /\ e.kind = "notify" /\ e.version = n
  BY DEF Event, Events
<1>2. v \in Seq(Events)
  BY DEF WellFormed
<1> HIDE DEF e
<1>3. /\ w \in Seq(Events) /\ w # <<>> /\ Len(v) \in Nat
      /\ Len(w) = Len(v) + 1
      /\ DOMAIN v = 1 .. Len(v) /\ DOMAIN w = 1 .. Len(v) + 1
      /\ \A i \in 1 .. Len(v) : w[i] = v[i]
      /\ w[Len(v) + 1] = e
  BY <1>1, <1>2, ViewAppend
<1>4. /\ Ends(w) = Ends(v) /\ Seen(w) = Seen(v) \cup {Len(v) + 1}
      /\ Ends(v) \subseteq 1 .. Len(v)
  BY <1>1, <1>2, Parts
<1> HIDE DEF w
<1>5. Len(v) >= 1
  BY <1>2, <1>3, EmptySeq
<1>6. \A i \in Ends(v) : i = Len(v)
  BY DEF Late
<1>7. WellFormed(w)
  <2>1. w[1].kind = "subscribe"
    BY <1>3, <1>5 DEF WellFormed
  <2>2. \A i \in DOMAIN w : w[i].kind = "subscribe" => i = 1
    BY <1>1, <1>3 DEF WellFormed
  <2>3. \A i \in Ends(w) : Len(w) <= i + 1
    BY <1>3, <1>4, <1>6
  <2>4. \A i, j \in Ends(w) : i = j
    BY <1>4 DEF WellFormed
  <2> QED
    BY <1>3, <2>1, <2>2, <2>3, <2>4 DEF WellFormed
<1> QED
  BY <1>1, <1>3, <1>4, <1>7 DEF Left, w, e

\* The end of a subscriber that had none.
LEMMA EndView ==
  ASSUME NEW v, WellFormed(v), v # <<>>, ~Left(v), NEW n \in Nat
  PROVE  LET w == Append(v, Event("unsubscribe", n))
         IN  /\ WellFormed(w) /\ w # <<>> /\ Left(w) /\ ~Late(w)
             /\ Seen(w) = Seen(v)
             /\ \A i \in Seen(v) : w[i] = v[i]
<1> DEFINE e == Event("unsubscribe", n)
           w == Append(v, e)
<1>1. e \in Events /\ e.kind = "unsubscribe" /\ e.version = n
  BY DEF Event, Events
<1>2. v \in Seq(Events)
  BY DEF WellFormed
<1> HIDE DEF e
<1>3. /\ w \in Seq(Events) /\ w # <<>> /\ Len(v) \in Nat
      /\ Len(w) = Len(v) + 1
      /\ DOMAIN v = 1 .. Len(v) /\ DOMAIN w = 1 .. Len(v) + 1
      /\ \A i \in 1 .. Len(v) : w[i] = v[i]
      /\ w[Len(v) + 1] = e
  BY <1>1, <1>2, ViewAppend
<1>4. /\ Ends(w) = {Len(w)} /\ Seen(w) = Seen(v)
      /\ Seen(v) \subseteq 1 .. Len(v)
  BY <1>1, <1>2, <1>3, Parts DEF Left
<1> HIDE DEF w
<1>5. Len(v) >= 1
  BY <1>2, <1>3, EmptySeq
<1>7. WellFormed(w)
  <2>1. w[1].kind = "subscribe"
    BY <1>3, <1>5 DEF WellFormed
  <2>2. \A i \in DOMAIN w : w[i].kind = "subscribe" => i = 1
    BY <1>1, <1>3 DEF WellFormed
  <2> QED
    BY <1>3, <1>4, <2>1, <2>2 DEF WellFormed
<1> QED
  BY <1>1, <1>3, <1>4, <1>7 DEF Left, Late, w, e

\* Whoever was called once has a last callback with a state.
LEMMA LatestExists ==
  ASSUME NEW v, WellFormed(v), v # <<>>
  PROVE  \E k \in DOMAIN v : Latest(v, k)
<1>1. /\ Len(v) \in Nat /\ DOMAIN v = 1 .. Len(v) /\ Len(v) >= 1
      /\ Ends(v) \subseteq 1 .. Len(v)
  BY LenProperties, EmptySeq DEF WellFormed, Ends
<1>2. CASE Len(v) \notin Ends(v)
  BY <1>1, <1>2 DEF Latest, Seen, Ends
<1>3. CASE Len(v) \in Ends(v)
  <2>1. v[1].kind = "subscribe" /\ v[Len(v)].kind = "unsubscribe"
    BY <1>3 DEF WellFormed, Ends
  <2>2. Len(v) - 1 \in 1 .. Len(v)
    BY <1>1, <2>1
  <2>3. Len(v) - 1 \notin Ends(v)
    BY <1>1, <1>3, <2>2 DEF WellFormed
  <2>4. Latest(v, Len(v) - 1)
    BY <1>1, <2>1, <2>2, <2>3 DEF Latest, Seen, Ends
  <2> QED
    BY <1>1, <2>2, <2>4
<1> QED
  BY <1>2, <1>3

\* A notification of the next version leaves no gap.
LEMMA NotifyGapless ==
  ASSUME NEW v, WellFormed(v), v # <<>>, ~Late(v), NEW n \in Nat, NEW set,
         Gapless(v, set),
         \A k \in DOMAIN v : Latest(v, k) => Between(set, v[k].version, n) = {n}
  PROVE  LET w == Append(v, Event("notify", n))
         IN  /\ Gapless(w, set)
             /\ \A k \in DOMAIN w : Latest(w, k) => w[k].version = n
<1> DEFINE w == Append(v, Event("notify", n))
<1>1. /\ Seen(w) = Seen(v) \cup {Len(w)} /\ Len(w) = Len(v) + 1
      /\ w[Len(w)].version = n
  BY NotifyView
<1>2. /\ Len(v) \in Nat /\ DOMAIN v = 1 .. Len(v)
      /\ \A i \in 1 .. Len(v) : w[i] = v[i]
      /\ Seen(v) \subseteq 1 .. Len(v)
  BY ViewAppend DEF WellFormed, Events, Event, Seen
<1> HIDE DEF w
<1>3. ASSUME NEW j \in Seen(w), NEW k \in Seen(w), j < k,
             \A i \in Seen(w) : i <= j \/ k <= i
      PROVE  Between(set, w[j].version, w[k].version) = {w[k].version}
  <2>1. j \in Seen(v)
    BY <1>1, <1>2, <1>3
  <2>2. CASE k \in Seen(v)
    <3>1. Between(set, v[j].version, v[k].version) = {v[k].version}
      BY <1>1, <1>3, <2>1, <2>2 DEF Gapless
    <3> QED
      BY <1>2, <2>1, <2>2, <3>1
  <2>3. CASE k = Len(w)
    <3>1. \A i \in Seen(v) : i <= j
      BY <1>1, <1>2, <1>3, <2>3
    <3>2. Latest(v, j) /\ j \in DOMAIN v
      BY <1>2, <2>1, <3>1 DEF Latest
    <3> QED
      BY <1>1, <1>2, <2>3, <3>2
  <2> QED
    BY <1>1, <2>2, <2>3
<1>4. \A k : Latest(w, k) => k = Len(w)
  BY <1>1, <1>2 DEF Latest
<1> QED
  BY <1>1, <1>3, <1>4 DEF Gapless, w

-----------------------------------------------------------------------------
(* The inductive invariant *)

\* An id waits to be added, then is on the list, under one entry each.
Lists ==
  /\ nextId \in 1 .. MaxSubs + 1
  /\ adding \in Seq(1 .. nextId - 1) /\ IsInjective(adding)
  /\ subscribers \in Seq(1 .. nextId - 1) /\ IsInjective(subscribers)
  /\ todo \in Seq(Subs) /\ IsInjective(todo)
  /\ todo # <<>> <=> rpc = "notify"
  /\ rpc = "done" => subscribers = <<>>
  /\ \A t \in Threads : call[t].sub \in Subs \cup {NoSub}

\* What a subscriber was called with says where it is: those on the list have
\* begun and not ended, and those the reducer thread has still to notify have
\* had no notification since their end.
Views ==
  /\ views \in [Subs -> Seq(Events)]
  /\ \A x \in Subs :
       /\ WellFormed(views[x])
       /\ x \in ToSet(adding) => views[x] = <<>>
       /\ x \in ToSet(subscribers) <=> views[x] # <<>> /\ ~Left(views[x])
       /\ x \in ToSet(todo) => views[x] # <<>> /\ ~Late(views[x])
       /\ x >= nextId => views[x] = <<>>

\* The state between its computation and the notification.
States ==
  /\ state \in Seq(Items) /\ next \in Seq(Items)
  /\ rpc \in {"reduce", "effects"} => cur \in Items
  /\ rpc = "effects" => next = Append(state, cur)
  /\ rpc \in {"snapshot", "notify"} =>
       next = state /\ Len(state) \in Dispatched

\* Who is to be notified of the state just written.
Owed(x) == \/ x \in ToSet(todo)
           \/ rpc = "snapshot" /\ x \in ToSet(subscribers)

\* Nobody has seen a version that is yet to come, nor missed one in between.
Past(x) == /\ \A i \in DOMAIN views[x] : views[x][i].version <= Len(state)
           /\ Gapless(views[x], Dispatched)

\* Those on the list are up to date, except for the state they are owed.
Present(x) ==
  \A k \in DOMAIN views[x] : Latest(views[x], k) =>
    /\ Owed(x) =>
         Between(Dispatched, views[x][k].version, Len(state)) = {Len(state)}
    /\ x \in ToSet(subscribers) /\ ~Owed(x) =>
         Between(Dispatched, views[x][k].version, Len(state)) = {}

Versions == \A x \in Subs : Past(x) /\ Present(x)

\* The inductive invariant, together with IInv.
Delivery == Lists /\ Views /\ States /\ Versions

-----------------------------------------------------------------------------
(* What the steps do to the lists *)

\* What only the steps about subscribers and states touch.
core == <<nextId, adding, subscribers, todo, rpc, views, state, next, cur>>

\* Only add_subscriber, unsubscribe and the reducer thread touch them.
LEMMA CoreSteps ==
  ASSUME [Next]_vars
  PROVE  \/ UNCHANGED core
         \/ \E c \in Clients : CallAddSubscriber(c)
         \/ \E c \in Clients, x \in Subs : Unsubscribe(c, x)
         \/ \E t \in Threads : FindClosed(t)
         \/ ReducerStep
<1> USE DEF core
<1>1. ASSUME NEW c \in Clients, ClientCalls(c), ~CallAddSubscriber(c),
             ~\E x \in Subs : Unsubscribe(c, x)
      PROVE  UNCHANGED core
  BY <1>1 DEF ClientCalls, CallDispatch, CallQueryState, CallClose, fields,
              reducer, history
<1>2. ASSUME NEW t \in Threads, ThreadStep(t), ~FindClosed(t)
      PROVE  UNCHANGED core
  BY <1>2 DEF ThreadStep, LockTx, TakeTx, FindTaken, Send, fields, reducer,
              history
<1>3. ASSUME NEW c \in Clients, PoolStep(c)
      PROVE  UNCHANGED core
  BY <1>3 DEF PoolStep, TakePool, Join, fields, reducer
<1>4. ASSUME NEW w \in Workers, RunTask(w)
      PROVE  UNCHANGED core
  BY <1>4 DEF RunTask, fields, reducer, history
<1>5. CASE UNCHANGED vars
  BY <1>5 DEF vars, fields, reducer, history
<1> QED
  BY <1>1, <1>2, <1>3, <1>4, <1>5 DEF Next

\* A call has the subscriber it adds, or none.
LEMMA CallSteps ==
  ASSUME Types, Lists, [Next]_vars
  PROVE  \A t \in Threads : call'[t].sub \in Subs \cup {NoSub}
<1>1. ASSUME NEW t \in Threads, NEW k, NEW o, NEW x \in Subs \cup {NoSub},
             call' = [call EXCEPT ![t] = [kind |-> k, op |-> o, sub |-> x]]
      PROVE  \A u \in Threads : call'[u].sub \in Subs \cup {NoSub}
  BY <1>1 DEF Types, Lists
<1>2. CASE UNCHANGED call
  BY <1>2 DEF Lists
<1>3. ASSUME NEW t \in Threads, Return(t)
      PROVE  \A u \in Threads : call'[u].sub \in Subs \cup {NoSub}
  BY <1>1, <1>3 DEF Return, NoCall
<1>4. ASSUME NEW c \in Clients, ClientCalls(c)
      PROVE  \/ UNCHANGED call
             \/ \E k, o : \E x \in Subs \cup {NoSub} :
                  call' = [call EXCEPT ![c] = [kind |-> k, op |-> o, sub |-> x]]
  <2>1. CASE \E x \in Subs : Unsubscribe(c, x)
    BY <2>1 DEF Unsubscribe
  <2>2. CASE ~\E x \in Subs : Unsubscribe(c, x)
    BY <1>4, <2>2
      DEF ClientCalls, CallDispatch, CallAddSubscriber, CallQueryState,
          CallClose, ClientBegins, Begin
  <2> QED
    BY <2>1, <2>2
<1>5. ASSUME NEW t \in Threads, ThreadStep(t)
      PROVE  UNCHANGED call \/ Return(t)
  BY <1>5 DEF ThreadStep, LockTx, FindClosed, TakeTx, FindTaken, Send
<1>6. ASSUME NEW c \in Clients, PoolStep(c)
      PROVE  UNCHANGED call \/ Return(c)
  BY <1>6 DEF PoolStep, TakePool, Join, StopReturns
<1>7. ASSUME NEW w \in Workers, RunTask(w)
      PROVE  \/ UNCHANGED call
             \/ \E k, o : \E x \in Subs \cup {NoSub} :
                  call' = [call EXCEPT ![w] = [kind |-> k, op |-> o, sub |-> x]]
  BY <1>7 DEF RunTask, Begin, threads
<1>8. CASE ReducerStep
  BY <1>2, <1>8
    DEF ReducerStep, Recv, Reduce, IssueEffect, UpdateState, Snapshot, Notify,
        DoSubscribe, DoStateFunction, ClearSubscribers, threads
<1>9. CASE UNCHANGED vars
  BY <1>2, <1>9 DEF vars, threads
<1>a. ASSUME NEW t \in Threads, UNCHANGED call \/ Return(t)
      PROVE  \A u \in Threads : call'[u].sub \in Subs \cup {NoSub}
  BY <1>2, <1>3, <1>a
<1>b. ASSUME NEW c \in Clients, ClientCalls(c) \/ PoolStep(c)
      PROVE  \A u \in Threads : call'[u].sub \in Subs \cup {NoSub}
  BY <1>1, <1>2, <1>4, <1>6, <1>a, <1>b DEF Threads
<1>c. ASSUME NEW w \in Workers, RunTask(w)
      PROVE  \A u \in Threads : call'[u].sub \in Subs \cup {NoSub}
  BY <1>1, <1>2, <1>7, <1>c DEF Threads
<1>d. ASSUME NEW t \in Threads, ThreadStep(t)
      PROVE  \A u \in Threads : call'[u].sub \in Subs \cup {NoSub}
  BY <1>5, <1>a, <1>d
<1> QED
  BY <1>8, <1>9, <1>b, <1>c, <1>d DEF Next

\* retain() takes an id off a list of distinct ids.
LEMMA WithoutProperties ==
  ASSUME NEW S, NEW q \in Seq(S), IsInjective(q), NEW x
  PROVE  /\ Without(q, x) \in Seq(S)
         /\ IsInjective(Without(q, x))
         /\ ToSet(Without(q, x)) = ToSet(q) \ {x}
<1>1. CASE x \notin ToSet(q)
  BY <1>1 DEF Without
<1>2. CASE x \in ToSet(q)
  <2> DEFINE i == CHOOSE i \in DOMAIN q : q[i] = x
  <2>1. i \in 1 .. Len(q) /\ q[i] = x
    BY <1>2, LenProperties DEF ToSet
  <2>2. Without(q, x) = RemoveAt(q, i)
    BY <1>2 DEF Without
  <2> HIDE DEF i
  <2> QED
    BY <2>1, <2>2, RemoveAtProperties, RemoveAtInjective
<1> QED
  BY <1>1, <1>2

\* Ids handed out are subscribers, and the next is none of them.
LEMMA IdFacts ==
  ASSUME Lists
  PROVE  /\ nextId \in Nat /\ nextId >= 1
         /\ 1 .. nextId - 1 \subseteq Subs
         /\ ToSet(adding) \subseteq 1 .. nextId - 1
         /\ ToSet(subscribers) \subseteq 1 .. nextId - 1
         /\ ToSet(todo) \subseteq Subs
<1>1. MaxSubs \in Nat /\ nextId \in 1 .. MaxSubs + 1
  BY StoreAssumption DEF Lists
<1>2. nextId \in Nat /\ nextId >= 1 /\ 1 .. nextId - 1 \subseteq Subs
  BY <1>1 DEF Subs
<1>3. /\ ToSet(adding) \subseteq 1 .. nextId - 1
      /\ ToSet(subscribers) \subseteq 1 .. nextId - 1
      /\ ToSet(todo) \subseteq Subs
  <2>1. ASSUME NEW S, NEW q \in Seq(S) PROVE ToSet(q) \subseteq S
    BY <2>1, ToSetProperties
  <2> QED
    BY <2>1 DEF Lists
<1> QED
  BY <1>2, <1>3

\* No step of the store breaks the lists.
LEMMA ListsStep ==
  ASSUME IInv, Lists, Views, [Next]_vars
  PROVE  Lists'
<1> DEFINE Ids == \A t \in Threads : call[t].sub \in Subs \cup {NoSub}
<1>1. Ids'
  BY CallSteps DEF IInv
<1>2. MaxSubs \in Nat
  BY StoreAssumption
<1> HIDE DEF Ids
<1>3. CASE UNCHANGED core
  BY <1>1, <1>3 DEF Lists, core, Ids
<1>4. ASSUME NEW c \in Clients, CallAddSubscriber(c)
      PROVE  Lists'
  <2>1. /\ nextId \in Subs /\ nextId' = nextId + 1
        /\ adding' = Append(adding, nextId)
        /\ UNCHANGED <<subscribers, todo, rpc>>
    BY <1>4 DEF CallAddSubscriber, reducer
  <2>2. /\ nextId' \in 1 .. MaxSubs + 1
        /\ nextId \in 1 .. nextId' - 1
        /\ 1 .. nextId - 1 \subseteq 1 .. nextId' - 1
        /\ nextId \notin 1 .. nextId - 1
    <3>1. nextId \in Nat /\ nextId >= 1 /\ nextId <= MaxSubs
      BY <1>2, <2>1 DEF Subs
    <3> QED
      BY <1>2, <2>1, <3>1
  <2>3. /\ adding \in Seq(1 .. nextId' - 1)
        /\ subscribers \in Seq(1 .. nextId' - 1)
    BY <2>2, SeqMonotonic DEF Lists
  <2>4. /\ adding' \in Seq(1 .. nextId' - 1)
        /\ IsInjective(adding')
    <3>1. nextId \notin ToSet(adding)
      BY <2>2, IdFacts
    <3>2. Append(adding, nextId) \in Seq(1 .. nextId' - 1)
      BY <2>2, <2>3, AppendProperties
    <3>3. IsInjective(Append(adding, nextId))
      BY <2>2, <2>3, <3>1, AppendSet DEF Lists
    <3> QED
      BY <2>1, <3>2, <3>3
  <2> QED
    BY <1>1, <2>1, <2>2, <2>3, <2>4 DEF Lists, Ids
<1>5. ASSUME NEW c \in Clients, NEW x \in Subs, Unsubscribe(c, x)
      PROVE  Lists'
  <2>1. \A q \in Seq(1 .. nextId - 1) : IsInjective(q) =>
          Without(q, x) \in Seq(1 .. nextId - 1) /\ IsInjective(Without(q, x))
    BY WithoutProperties
  <2>2. Without(<<>>, x) = <<>>
    BY DEF Without, ToSet
  <2> QED
    BY <1>1, <1>5, <2>1, <2>2 DEF Unsubscribe, reducer, Lists, Ids
<1>6. ASSUME NEW t \in Threads, FindClosed(t)
      PROVE  Lists'
  BY <1>1, <1>6, WithoutProperties DEF FindClosed, reducer, Lists, Ids
<1>7. CASE ReducerStep
  <2> USE DEF Lists, Ids
  <2>0. rpc \in ReducerPcs
    BY DEF IInv, Types
  <2>1. CASE Recv
    <3>1. rpc' # "notify" /\ rpc' # "done"
      <4>1. queue # <<>> /\ rpc' = Handler(Head(queue).op)
        BY <2>1 DEF Recv, Channel!Deliver
      <4>2. Head(queue).op \in ActionOps
        <5>1. Head(queue) \in Items
          BY <4>1, HeadTailProperties DEF IInv, Types
        <5> QED
          BY <5>1 DEF Items
      <4> QED
        BY <4>1, <4>2, StoreAssumption DEF Handler, ActionOps
    <3> QED
      BY <1>1, <2>1, <3>1 DEF Recv, fields
  <2>2. CASE Reduce
    BY <1>1, <2>2 DEF Reduce, fields
  <2>3. CASE IssueEffect
    BY <1>1, <2>3 DEF IssueEffect, fields
  <2>4. CASE UpdateState
    BY <1>1, <2>4 DEF UpdateState
  <2>5. CASE Snapshot
    <3>1. subscribers \in Seq(Subs)
      BY IdFacts, SeqMonotonic
    <3> QED
      BY <1>1, <2>5, <3>1 DEF Snapshot, NotifyRest, fields
  <2>6. CASE Notify
    <3>1. todo # <<>>
      BY <2>6 DEF Notify
    <3>2. Tail(todo) \in Seq(Subs) /\ IsInjective(Tail(todo))
      BY <3>1, HeadTailProperties, TailSet
    <3> QED
      BY <1>1, <2>6, <3>2 DEF Notify, NotifyRest, fields
  <2>7. CASE DoSubscribe
    <3>1. ToSet(subscribers) \cap ToSet(adding) = {}
      BY IdFacts DEF Views
    <3>2. /\ subscribers \o adding \in Seq(1 .. nextId - 1)
          /\ IsInjective(subscribers \o adding)
      BY <3>1, ConcatSet, ConcatProperties
    <3>3. <<>> \in Seq(1 .. nextId - 1) /\ IsInjective(<<>>)
      BY EmptySeq DEF IsInjective
    <3> QED
      BY <1>1, <2>7, <3>2, <3>3 DEF DoSubscribe
  <2>8. CASE DoStateFunction
    BY <1>1, <2>8 DEF DoStateFunction
  <2>9. CASE ClearSubscribers
    <3>1. <<>> \in Seq(1 .. nextId - 1) /\ IsInjective(<<>>)
      BY EmptySeq DEF IsInjective
    <3> QED
      BY <1>1, <2>9, <3>1 DEF ClearSubscribers
  <2> QED
    BY <1>7, <2>1, <2>2, <2>3, <2>4, <2>5, <2>6, <2>7, <2>8, <2>9
      DEF ReducerStep
<1> QED
  BY <1>3, <1>4, <1>5, <1>6, <1>7, CoreSteps

-----------------------------------------------------------------------------
(* What the steps do to the state *)

\* Where the reducer thread goes with the item it has read.
LEMMA RecvHandles ==
  ASSUME IInv, Recv
  PROVE  cur' \in Items /\ rpc' \in {"reduce", "subscribe", "query", "clear"}
<1>1. queue # <<>> /\ cur' = Head(queue) /\ rpc' = Handler(Head(queue).op)
  BY DEF Recv, Channel!Deliver
<1>2. Head(queue) \in Items
  BY <1>1, HeadTailProperties DEF IInv, Types
<1>3. Head(queue).op \in ActionOps
  BY <1>2 DEF Items
<1>4. rpc' \in {"reduce", "subscribe", "query", "clear"}
  BY <1>1, <1>3, StoreAssumption DEF Handler, ActionOps
<1> QED
  BY <1>1, <1>2, <1>4

\* The versions to be notified are versions of the state.
LEMMA DispatchedBounds ==
  ASSUME state \in Seq(Items)
  PROVE  Len(state) \in Nat /\ Dispatched \subseteq 1 .. Len(state)
BY LenProperties DEF Dispatched

\* The state grows by the item reduced.
LEMMA StateGrows ==
  ASSUME States, UpdateState
  PROVE  /\ cur \in Items /\ state' = Append(state, cur) /\ state' = next
         /\ state' \in Seq(Items) /\ Len(state) \in Nat
         /\ Len(state') = Len(state) + 1
         /\ Dispatched \subseteq 1 .. Len(state)
         /\ Dispatched' = IF rpc' = "snapshot"
                            THEN Dispatched \cup {Len(state')} ELSE Dispatched
<1>1. cur \in Items /\ state' = Append(state, cur) /\ state' = next
  BY DEF UpdateState, States
<1>2. /\ state' \in Seq(Items) /\ Len(state) \in Nat
      /\ Len(state') = Len(state) + 1
      /\ DOMAIN state = 1 .. Len(state)
      /\ \A i \in 1 .. Len(state) : state'[i] = state[i]
      /\ state'[Len(state) + 1] = cur
  <2>1. state \in Seq(Items) /\ cur \in Items
    BY <1>1 DEF States
  <2>2. Len(state) \in Nat /\ DOMAIN state = 1 .. Len(state)
    BY <2>1, LenProperties
  <2>3. /\ Append(state, cur) \in Seq(Items)
        /\ Len(Append(state, cur)) = Len(state) + 1
        /\ \A i \in 1 .. Len(state) : Append(state, cur)[i] = state[i]
        /\ Append(state, cur)[Len(state) + 1] = cur
    BY <2>1, AppendProperties
  <2> QED
    BY <1>1, <2>2, <2>3
<1>3. DOMAIN state' = 1 .. Len(state) \cup {Len(state) + 1}
  <2>1. DOMAIN state' = 1 .. Len(state')
    BY <1>2, LenProperties
  <2> QED
    BY <1>2, <2>1
<1>4. rpc' = "snapshot" <=> Outcome[cur.op] = "Dispatch"
  BY DEF UpdateState
<1>5. Dispatched' = IF rpc' = "snapshot"
                      THEN Dispatched \cup {Len(state')} ELSE Dispatched
  BY <1>2, <1>3, <1>4 DEF Dispatched
<1> QED
  BY <1>1, <1>2, <1>5 DEF Dispatched

\* No step of the store breaks the states.
LEMMA StatesStep ==
  ASSUME IInv, States, [Next]_vars
  PROVE  States'
<1>1. ASSUME UNCHANGED <<state, next, cur>>,
             rpc' \in {"reduce", "effects", "snapshot", "notify"} =>
               rpc' = rpc \/ (rpc = "snapshot" /\ rpc' = "notify")
      PROVE  States'
  BY <1>1 DEF States, Dispatched
<1>2. CASE UNCHANGED core
  BY <1>1, <1>2 DEF core
<1>3. ASSUME \/ \E c \in Clients : CallAddSubscriber(c)
             \/ \E c \in Clients, x \in Subs : Unsubscribe(c, x)
             \/ \E t \in Threads : FindClosed(t)
      PROVE  States'
  BY <1>1, <1>3 DEF CallAddSubscriber, Unsubscribe, FindClosed, reducer
<1>4. CASE Recv
  BY <1>4, RecvHandles DEF States, Recv, fields
<1>5. CASE Reduce
  <2>1. cur \in Items /\ Append(state, cur) \in Seq(Items)
    BY <1>5, AppendProperties DEF Reduce, States
  <2> QED
    BY <1>5, <2>1 DEF Reduce, States, fields
<1>6. CASE IssueEffect
  BY <1>1, <1>6 DEF IssueEffect, fields
<1>7. CASE UpdateState
  <2>1. /\ UNCHANGED <<next, cur>> /\ rpc' \in {"snapshot", "recv"}
    BY <1>7 DEF UpdateState
  <2> QED
    BY <1>7, <2>1, StateGrows DEF States
<1>8. CASE Snapshot \/ Notify
  BY <1>1, <1>8 DEF Snapshot, Notify, NotifyRest, fields
<1>9. CASE DoSubscribe \/ DoStateFunction \/ ClearSubscribers
  BY <1>1, <1>9 DEF DoSubscribe, DoStateFunction, ClearSubscribers
<1> QED
  BY <1>2, <1>3, <1>4, <1>5, <1>6, <1>7, <1>8, <1>9, CoreSteps DEF ReducerStep

-----------------------------------------------------------------------------
(* What the steps do to the views *)

\* A callback adds one event to the views of those it is made to.
LEMMA CallbackViews ==
  ASSUME views \in [Subs -> Seq(Events)], NEW set,
         NEW k \in {"subscribe", "notify", "unsubscribe"}, NEW n \in Nat,
         Callback(set, k, n)
  PROVE  /\ views' \in [Subs -> Seq(Events)]
         /\ \A x \in Subs :
              views'[x] = IF x \in set THEN Append(views[x], Event(k, n))
                                       ELSE views[x]
<1>1. Event(k, n) \in Events
  BY DEF Event, Events
<1>2. \A x \in Subs : Append(views[x], Event(k, n)) \in Seq(Events)
  BY <1>1, AppendProperties
<1> QED
  BY <1>2 DEF Callback, Event

\* Where the lists are when nobody is being notified.
LEMMA NobodyToNotify ==
  ASSUME Lists, rpc # "notify"
  PROVE  ToSet(todo) = {}
BY EmptySeq DEF Lists, ToSet

\* What unsubscribe() does to the lists and the view of the subscriber.
LEMMA UnsubscribeStep ==
  ASSUME Lists, Views, States, NEW c \in Clients, NEW x \in Subs,
         Unsubscribe(c, x)
  PROVE  /\ ToSet(adding') = ToSet(adding) \ {x}
         /\ ToSet(subscribers') = ToSet(subscribers) \ {x}
         /\ UNCHANGED <<state, nextId, todo, rpc>>
         /\ views' \in [Subs -> Seq(Events)]
         /\ \A y \in Subs :
              views'[y] = IF y = x /\ x \in ToSet(subscribers)
                            THEN Append(views[x],
                                        Event("unsubscribe", Len(state)))
                            ELSE views[y]
<1>1. /\ adding' = Without(adding, x) /\ subscribers' = Without(subscribers, x)
      /\ Callback({x} \cap ToSet(subscribers), "unsubscribe", Len(state))
      /\ UNCHANGED <<state, nextId, todo, rpc>>
  BY DEF Unsubscribe, reducer
<1>2. \A q \in Seq(1 .. nextId - 1) : IsInjective(q) =>
        ToSet(Without(q, x)) = ToSet(q) \ {x}
  BY WithoutProperties
<1>3. Len(state) \in Nat
  BY LenProperties DEF States
<1>4. /\ views' \in [Subs -> Seq(Events)]
      /\ \A y \in Subs :
           views'[y] = IF y \in {x} \cap ToSet(subscribers)
                         THEN Append(views[y], Event("unsubscribe", Len(state)))
                         ELSE views[y]
  BY <1>1, <1>3, CallbackViews DEF Views
<1> QED
  BY <1>1, <1>2, <1>4 DEF Lists

\* No step of the store breaks the views.
LEMMA ViewsStep ==
  ASSUME IInv, Lists, Views, States, [Next]_vars
  PROVE  Views'
<1>1. ASSUME UNCHANGED <<nextId, adding, subscribers, todo, views>>
      PROVE  Views'
  BY <1>1 DEF Views
<1>2. Len(state) \in Nat
  BY LenProperties DEF States
<1>3. nextId \in Nat
  BY IdFacts
<1>4. ASSUME NEW c \in Clients, CallAddSubscriber(c)
      PROVE  Views'
  <2>1. /\ nextId' = nextId + 1 /\ nextId \in Subs
        /\ UNCHANGED <<subscribers, todo, views>>
        /\ adding' = Append(adding, nextId)
    BY <1>4 DEF CallAddSubscriber, reducer, history
  <2>2. ToSet(adding') = ToSet(adding) \cup {nextId}
    <3>1. adding \in Seq(Subs)
      BY IdFacts, SeqMonotonic DEF Lists
    <3> QED
      BY <2>1, <3>1, AppendSet
  <2>3. \A x \in Subs : x >= nextId' => x >= nextId
    BY <1>3, <2>1 DEF Subs
  <2> QED
    BY <1>3, <2>1, <2>2, <2>3 DEF Views
<1>5. ASSUME NEW c \in Clients, NEW x \in Subs, Unsubscribe(c, x)
      PROVE  Views'
  <2> DEFINE v == views[x]
             w == Append(v, Event("unsubscribe", Len(state)))
  <2>1. /\ ToSet(adding') = ToSet(adding) \ {x}
        /\ ToSet(subscribers') = ToSet(subscribers) \ {x}
        /\ UNCHANGED <<nextId, todo>>
        /\ views' \in [Subs -> Seq(Events)]
        /\ \A y \in Subs : views'[y] = IF y = x /\ x \in ToSet(subscribers)
                                         THEN w ELSE views[y]
    BY <1>5, UnsubscribeStep
  <2>2. x \in ToSet(subscribers) =>
          WellFormed(w) /\ w # <<>> /\ Left(w) /\ ~Late(w) /\ ~(x >= nextId)
    <3>1. ASSUME x \in ToSet(subscribers)
          PROVE  WellFormed(v) /\ v # <<>> /\ ~Left(v) /\ ~(x >= nextId)
      BY <3>1 DEF Views
    <3> HIDE DEF v
    <3> QED
      BY <1>2, <3>1, EndView
  <2> HIDE DEF w
  <2> QED
    BY <2>1, <2>2 DEF Views
<1>6. ASSUME NEW t \in Threads, FindClosed(t)
      PROVE  Views'
  <2>1. /\ adding' = Without(adding, call[t].sub)
        /\ UNCHANGED <<nextId, subscribers, todo, views>>
    BY <1>6 DEF FindClosed, reducer, history
  <2>2. ToSet(adding') \subseteq ToSet(adding)
    BY <2>1, WithoutProperties DEF Lists
  <2> QED
    BY <2>1, <2>2 DEF Views
<1>7. CASE Snapshot
  <2>1. /\ todo' = subscribers
        /\ UNCHANGED <<nextId, adding, subscribers, views>>
    BY <1>7 DEF Snapshot, NotifyRest, fields, history
  <2>2. \A v : ~Left(v) => ~Late(v)
    BY DEF Left, Late
  <2> QED
    BY <2>1, <2>2 DEF Views
<1>8. CASE Notify
  <2> DEFINE h == Head(todo)
             w == Append(views[h], Event("notify", Len(state)))
  <2>1. /\ todo # <<>> /\ h \in Subs /\ h \in ToSet(todo)
        /\ ToSet(Tail(todo)) = ToSet(todo) \ {h}
    <3>1. todo # <<>>
      BY <1>8 DEF Notify, Lists
    <3> QED
      BY <3>1, TailSet, IdFacts DEF Lists
  <2> HIDE DEF h
  <2>2. /\ todo' = Tail(todo) /\ Callback({h}, "notify", Len(state))
        /\ UNCHANGED <<nextId, adding, subscribers>>
    BY <1>8 DEF Notify, NotifyRest, States, fields, h
  <2>3. /\ views' \in [Subs -> Seq(Events)]
        /\ \A y \in Subs : views'[y] = IF y = h THEN w ELSE views[y]
    <3>1. /\ views' \in [Subs -> Seq(Events)]
          /\ \A y \in Subs :
               views'[y] = IF y \in {h}
                             THEN Append(views[y], Event("notify", Len(state)))
                             ELSE views[y]
      <4>1. views \in [Subs -> Seq(Events)]
        BY DEF Views
      <4> QED
        BY <1>2, <2>2, <4>1, CallbackViews
    <3> QED
      BY <3>1
  <2>4. WellFormed(w) /\ w # <<>> /\ (Left(w) <=> Left(views[h]))
    <3>1. WellFormed(views[h]) /\ views[h] # <<>> /\ ~Late(views[h])
      BY <2>1 DEF Views
    <3> QED
      BY <1>2, <3>1, NotifyView
  <2>5. views[h] # <<>>
    BY <2>1 DEF Views
  <2> HIDE DEF w
  <2> QED
    BY <2>1, <2>2, <2>3, <2>4, <2>5 DEF Views
<1>9. CASE DoSubscribe
  <2> DEFINE w == Append(<<>>, Event("subscribe", Len(state)))
  <2>1. /\ subscribers' = subscribers \o adding /\ adding' = <<>>
        /\ Callback(ToSet(adding), "subscribe", Len(state))
        /\ UNCHANGED <<nextId, todo>> /\ rpc # "notify"
    BY <1>9 DEF DoSubscribe
  <2>2. /\ ToSet(subscribers') = ToSet(subscribers) \cup ToSet(adding)
        /\ ToSet(adding') = {}
    <3>1. ToSet(<<>>) = {}
      BY DEF ToSet
    <3> QED
      BY <2>1, <3>1, ConcatSet DEF Lists
  <2>3. /\ views' \in [Subs -> Seq(Events)]
        /\ \A y \in Subs : views'[y] = IF y \in ToSet(adding) THEN w
                                                              ELSE views[y]
    <3>1. /\ views' \in [Subs -> Seq(Events)]
          /\ \A y \in Subs :
               views'[y] = IF y \in ToSet(adding)
                             THEN Append(views[y],
                                         Event("subscribe", Len(state)))
                             ELSE views[y]
      BY <1>2, <2>1, CallbackViews DEF Views
    <3> QED
      BY <3>1 DEF Views
  <2>4. WellFormed(w) /\ w # <<>> /\ ~Left(w)
    BY <1>2, SubscribeView
  <2> HIDE DEF w
  <2>5. ToSet(todo) = {} /\ \A y \in ToSet(adding) : ~(y >= nextId)
    BY <1>3, <2>1, NobodyToNotify, IdFacts
  <2> QED
    BY <2>1, <2>2, <2>3, <2>4, <2>5 DEF Views
<1>10. CASE ClearSubscribers
  <2> DEFINE w(y) == Append(views[y], Event("unsubscribe", Len(state)))
  <2>1. /\ subscribers' = <<>>
        /\ Callback(ToSet(subscribers), "unsubscribe", Len(state))
        /\ UNCHANGED <<nextId, todo, adding>> /\ rpc # "notify"
    BY <1>10 DEF ClearSubscribers
  <2>2. ToSet(subscribers') = {} /\ ToSet(todo) = {}
    BY <2>1, NobodyToNotify DEF ToSet
  <2>3. /\ views' \in [Subs -> Seq(Events)]
        /\ \A y \in Subs : views'[y] = IF y \in ToSet(subscribers) THEN w(y)
                                                                ELSE views[y]
    BY <1>2, <2>1, CallbackViews DEF Views
  <2>4. ASSUME NEW y \in Subs, y \in ToSet(subscribers)
        PROVE  WellFormed(w(y)) /\ w(y) # <<>> /\ Left(w(y)) /\ views[y] # <<>>
    <3>1. WellFormed(views[y]) /\ views[y] # <<>> /\ ~Left(views[y])
      BY <2>4 DEF Views
    <3> QED
      BY <1>2, <3>1, EndView
  <2> HIDE DEF w
  <2> QED
    BY <2>1, <2>2, <2>3, <2>4 DEF Views
<1>11. CASE Recv \/ Reduce \/ IssueEffect \/ UpdateState \/ DoStateFunction
  BY <1>1, <1>11
    DEF Recv, Reduce, IssueEffect, UpdateState, DoStateFunction, fields, history
<1>12. CASE UNCHANGED core
  BY <1>1, <1>12 DEF core
<1> QED
  BY <1>4, <1>5, <1>6, <1>7, <1>8, <1>9, <1>10, <1>11, <1>12, CoreSteps
    DEF ReducerStep

-----------------------------------------------------------------------------
(* What the steps do to the versions *)

\* Whoever is called with nothing new is where it was.
LEMMA SameVersions ==
  ASSUME NEW x \in Subs, Past(x), Present(x),
         UNCHANGED state, views'[x] = views[x],
         Owed(x)' <=> Owed(x),
         x \in ToSet(subscribers') => x \in ToSet(subscribers)
  PROVE  Past(x)' /\ Present(x)'
BY DEF Past, Present, Dispatched, Latest, Gapless, Seen, Between

\* Whoever is told to leave is owed nothing that it was not owed before.
LEMMA EndVersions ==
  ASSUME Views, NEW x \in Subs, Past(x), Present(x), Len(state) \in Nat,
         x \in ToSet(subscribers), UNCHANGED state,
         views'[x] = Append(views[x], Event("unsubscribe", Len(state))),
         Owed(x)' => Owed(x),
         x \notin ToSet(subscribers')
  PROVE  Past(x)' /\ Present(x)'
<1> DEFINE v == views[x]
           w == views'[x]
           n == Len(state)
<1>1. /\ WellFormed(v) /\ v # <<>> /\ ~Left(v) /\ v \in Seq(Events)
      /\ w = Append(v, Event("unsubscribe", n))
  BY DEF Views
<1>2. Dispatched' = Dispatched /\ n' = n
  BY DEF Dispatched
<1>3. /\ \A i \in DOMAIN v : v[i].version <= n
      /\ Gapless(v, Dispatched)
      /\ \A k \in DOMAIN v : Latest(v, k) /\ Owed(x) =>
           Between(Dispatched, v[k].version, n) = {n}
  BY DEF Past, Present
<1> SUFFICES /\ \A i \in DOMAIN w : w[i].version <= n
             /\ Gapless(w, Dispatched)
             /\ \A k \in DOMAIN w : Latest(w, k) /\ Owed(x) =>
                  Between(Dispatched, w[k].version, n) = {n}
  BY <1>2 DEF Past, Present
<1> HIDE DEF v, w
<1>4. n \in Nat
  OBVIOUS
<1> HIDE DEF n
<1>5. /\ Event("unsubscribe", n) \in Events
      /\ Event("unsubscribe", n).version = n
  BY <1>4 DEF Event, Events
<1>6. /\ DOMAIN v = 1 .. Len(v) /\ DOMAIN w = 1 .. Len(v) + 1
      /\ Len(v) \in Nat
      /\ \A i \in 1 .. Len(v) : w[i] = v[i]
      /\ w[Len(v) + 1] = Event("unsubscribe", n)
  BY <1>1, <1>5, ViewAppend
<1>7. Seen(w) = Seen(v) /\ \A i \in Seen(v) : i \in DOMAIN v /\ w[i] = v[i]
  BY <1>1, <1>4, EndView DEF Seen
<1>8. \A i \in DOMAIN w : w[i].version <= n
  BY <1>3, <1>4, <1>5, <1>6
<1>9. Gapless(w, Dispatched)
  BY <1>3, <1>7 DEF Gapless
<1> QED
  BY <1>3, <1>7, <1>8, <1>9 DEF Latest

\* Nobody is notified while the state is written, and those on the list are owed
\* it if it is to be notified.
LEMMA UpdateVersions ==
  ASSUME Lists, Views, States, Versions, UpdateState
  PROVE  Versions'
<1> DEFINE n == Len(state)
<1>1. /\ n \in Nat /\ n' = n + 1 /\ Dispatched \subseteq 1 .. n
      /\ Dispatched' = IF rpc' = "snapshot" THEN Dispatched \cup {n'}
                                            ELSE Dispatched
  BY StateGrows
<1>2. UNCHANGED <<views, subscribers, todo>> /\ rpc = "effects"
  BY DEF UpdateState, history
<1>3. \A x : /\ ~Owed(x)
             /\ Owed(x)' <=> rpc' = "snapshot" /\ x \in ToSet(subscribers)
  BY <1>2, NobodyToNotify DEF Owed
<1>4. \A m : m \in Nat /\ m <= n =>
        \A l : Between(Dispatched', l, m) = Between(Dispatched, l, m)
  BY <1>1 DEF Between
<1>5. ASSUME NEW m \in Nat, m <= n, Between(Dispatched, m, n) = {}
      PROVE  Between(Dispatched', m, n')
               = IF rpc' = "snapshot" THEN {n'} ELSE {}
  <2>1. /\ \A i \in Dispatched : i \in Nat /\ i <= n /\ i <= n' /\ i # n'
        /\ \A i \in Dispatched : ~(m < i)
        /\ m < n'
    <3>1. \A i \in Dispatched : i \in Nat /\ i <= n /\ i <= n' /\ i # n'
      BY <1>1
    <3>2. \A i \in Dispatched : ~(m < i)
      BY <1>5, <3>1 DEF Between
    <3> QED
      BY <1>1, <1>5, <3>1, <3>2
  <2>2. CASE rpc' = "snapshot"
    <3>1. Dispatched' = Dispatched \cup {n'} /\ n' \in Nat
      BY <1>1, <2>2
    <3> QED
      BY <2>1, <2>2, <3>1 DEF Between
  <2>3. CASE rpc' # "snapshot"
    BY <1>1, <2>1, <2>3 DEF Between
  <2> QED
    BY <2>2, <2>3
<1> HIDE DEF n
<1>6. ASSUME NEW x \in Subs
      PROVE  Past(x)' /\ Present(x)'
  <2> DEFINE v == views[x]
  <2>1. /\ \A i \in DOMAIN v : v[i].version <= n
        /\ Gapless(v, Dispatched)
        /\ \A k \in DOMAIN v : Latest(v, k) /\ x \in ToSet(subscribers) =>
             Between(Dispatched, v[k].version, n) = {}
    BY <1>3 DEF Versions, Past, Present, n
  <2>2. \A i \in DOMAIN v : v[i].version \in Nat
    <3>1. v \in Seq(Events)
      BY DEF Views
    <3>2. \A i \in DOMAIN v : v[i] \in Events
      BY <3>1, LenProperties, ElementOfSeq
    <3> QED
      BY <3>2 DEF Events
  <2> HIDE DEF v
  <2>3. \A i \in DOMAIN v : v[i].version <= n'
    BY <1>1, <2>1, <2>2
  <2>4. Gapless(v, Dispatched')
    BY <1>4, <2>1, <2>2 DEF Gapless, Seen
  <2>5. \A k \in DOMAIN v : Latest(v, k) /\ x \in ToSet(subscribers) =>
          Between(Dispatched', v[k].version, n')
            = IF rpc' = "snapshot" THEN {n'} ELSE {}
    BY <1>5, <2>1, <2>2
  <2>6. Past(x)'
    BY <1>2, <2>3, <2>4 DEF Past, v, n
  <2>7. Present(x)'
    BY <1>2, <1>3, <2>5 DEF Present, v, n
  <2> QED
    BY <2>6, <2>7
<1> QED
  BY <1>6 DEF Versions

\* No step of the store breaks the versions.
LEMMA VersionsStep ==
  ASSUME IInv, Lists, Views, States, Versions, [Next]_vars
  PROVE  Versions'
<1>1. Len(state) \in Nat /\ Dispatched \subseteq 1 .. Len(state)
  BY DispatchedBounds DEF States
<1>15. Between(Dispatched, Len(state), Len(state)) = {}
  <2>1. \A i \in Dispatched : ~(Len(state) < i)
    BY <1>1
  <2> QED
    BY <2>1 DEF Between
<1>2. ASSUME UNCHANGED <<state, subscribers, todo, views>>,
             rpc' # "snapshot", rpc # "snapshot"
      PROVE  Versions'
  BY <1>2 DEF Versions, Past, Present, Owed, Dispatched
<1>3. ASSUME UNCHANGED <<state, subscribers, todo, views, rpc>>
      PROVE  Versions'
  BY <1>3 DEF Versions, Past, Present, Owed, Dispatched
<1>4. \A x \in Subs : Past(x) /\ Present(x)
  BY DEF Versions
<1>5. CASE UNCHANGED core
  BY <1>3, <1>5 DEF core
<1>6. ASSUME \/ \E c \in Clients : CallAddSubscriber(c)
             \/ \E t \in Threads : FindClosed(t)
      PROVE  Versions'
  BY <1>3, <1>6 DEF CallAddSubscriber, FindClosed, reducer, history
<1>7. ASSUME NEW c \in Clients, NEW x \in Subs, Unsubscribe(c, x)
      PROVE  Versions'
  <2>1. /\ ToSet(subscribers') = ToSet(subscribers) \ {x}
        /\ UNCHANGED <<state, todo, rpc>>
        /\ \A y \in Subs :
             views'[y] = IF y = x /\ x \in ToSet(subscribers)
                           THEN Append(views[x],
                                       Event("unsubscribe", Len(state)))
                           ELSE views[y]
    BY <1>7, UnsubscribeStep
  <2>2. \A y \in Subs : /\ Owed(y)' => Owed(y)
                        /\ y # x => (Owed(y)' <=> Owed(y))
                        /\ x \notin ToSet(subscribers) =>
                             (Owed(y)' <=> Owed(y))
    BY <2>1 DEF Owed
  <2>3. ASSUME NEW y \in Subs
        PROVE  Past(y)' /\ Present(y)'
    <3>1. CASE y = x /\ x \in ToSet(subscribers)
      BY <1>1, <1>4, <2>1, <2>2, <3>1, EndVersions
    <3>2. CASE ~(y = x /\ x \in ToSet(subscribers))
      BY <1>4, <2>1, <2>2, <3>2, SameVersions
    <3> QED
      BY <3>1, <3>2
  <2> QED
    BY <2>3 DEF Versions
<1>8. CASE Snapshot
  <2>1. /\ rpc = "snapshot" /\ todo' = subscribers /\ rpc' # "snapshot"
        /\ UNCHANGED <<state, subscribers, views>>
    BY <1>8 DEF Snapshot, NotifyRest, fields, history
  <2>2. \A x : Owed(x)' <=> Owed(x)
    BY <2>1, NobodyToNotify DEF Owed
  <2> QED
    BY <1>4, <2>1, <2>2, SameVersions DEF Versions
<1>9. CASE Notify
  <2> PICK h \in {Head(todo)} : TRUE
    OBVIOUS
  <2> DEFINE v == views[h]
             n == Len(state)
             w == Append(v, Event("notify", n))
  <2>1. /\ todo # <<>> /\ h \in Subs /\ h \in ToSet(todo)
        /\ ToSet(Tail(todo)) = ToSet(todo) \ {h}
    <3>1. todo # <<>>
      BY <1>9 DEF Notify, Lists
    <3> QED
      BY <3>1, TailSet, IdFacts DEF Lists
  <2>2. /\ todo' = Tail(todo) /\ Callback({h}, "notify", n)
        /\ rpc # "snapshot" /\ rpc' # "snapshot"
        /\ UNCHANGED <<subscribers, state>>
    BY <1>9 DEF Notify, NotifyRest, States, fields
  <2>3. \A y \in Subs : views'[y] = IF y = h THEN w ELSE views[y]
    <3>1. \A y \in Subs :
            views'[y] = IF y \in {h} THEN Append(views[y], Event("notify", n))
                                     ELSE views[y]
      <4>1. views \in [Subs -> Seq(Events)] /\ n \in Nat
        BY <1>1 DEF Views
      <4> HIDE DEF n
      <4> QED
        BY <2>2, <4>1, CallbackViews
    <3> QED
      BY <3>1
  <2>4. \A y \in Subs : /\ y # h => (Owed(y)' <=> Owed(y))
                        /\ Owed(h) /\ ~Owed(h)'
    BY <2>1, <2>2 DEF Owed
  <2>5. /\ WellFormed(v) /\ v # <<>> /\ ~Late(v) /\ v \in Seq(Events)
        /\ Gapless(v, Dispatched)
        /\ \A i \in DOMAIN v : v[i].version <= n
        /\ \A k \in DOMAIN v : Latest(v, k) =>
             Between(Dispatched, v[k].version, n) = {n}
    BY <2>1, <2>4 DEF Views, Versions, Past, Present
  <2>6. n \in Nat /\ n' = n /\ Dispatched' = Dispatched
    BY <1>1, <2>2 DEF Dispatched
  <2> HIDE DEF v, n
  <2>7. /\ Gapless(w, Dispatched)
        /\ \A k \in DOMAIN w : Latest(w, k) => w[k].version = n
    BY <2>5, <2>6, NotifyGapless
  <2>8. \A i \in DOMAIN w : w[i].version <= n
    <3>1. Event("notify", n) \in Events /\ Event("notify", n).version = n
      BY <2>6 DEF Event, Events
    <3>2. /\ DOMAIN v = 1 .. Len(v) /\ DOMAIN w = 1 .. Len(v) + 1
          /\ Len(v) \in Nat
          /\ \A i \in 1 .. Len(v) : w[i] = v[i]
          /\ w[Len(v) + 1] = Event("notify", n)
      BY <2>5, <3>1, ViewAppend
    <3> QED
      BY <2>5, <2>6, <3>1, <3>2
  <2>9. Between(Dispatched, n, n) = {}
    BY <1>15 DEF n
  <2> HIDE DEF w
  <2>10. Past(h)' /\ Present(h)'
    <3>1. views'[h] = w
      BY <2>1, <2>3
    <3> QED
      BY <2>1, <2>4, <2>6, <2>7, <2>8, <2>9, <3>1 DEF Past, Present, n
  <2>11. ASSUME NEW y \in Subs, y # h
         PROVE  Past(y)' /\ Present(y)'
    BY <1>4, <2>2, <2>3, <2>4, <2>11, SameVersions
  <2> QED
    BY <2>10, <2>11 DEF Versions
<1>10. CASE DoSubscribe
  <2> DEFINE n == Len(state)
             w == Append(<<>>, Event("subscribe", n))
  <2>1. /\ subscribers' = subscribers \o adding /\ rpc = "subscribe"
        /\ Callback(ToSet(adding), "subscribe", n)
        /\ UNCHANGED <<state, todo>> /\ rpc' = "recv"
    BY <1>10 DEF DoSubscribe
  <2>2. ToSet(subscribers') = ToSet(subscribers) \cup ToSet(adding)
    BY <2>1, ConcatSet DEF Lists
  <2>3. \A y \in Subs : views'[y] = IF y \in ToSet(adding) THEN w ELSE views[y]
    <3>1. \A y \in Subs :
            views'[y] = IF y \in ToSet(adding)
                          THEN Append(views[y], Event("subscribe", n))
                          ELSE views[y]
      BY <1>1, <2>1, CallbackViews DEF Views
    <3> QED
      BY <3>1 DEF Views
  <2>4. \A y : ~Owed(y) /\ ~Owed(y)'
    BY <2>1, NobodyToNotify DEF Owed
  <2>5. n \in Nat /\ n' = n /\ Dispatched' = Dispatched
    BY <1>1, <2>1 DEF Dispatched
  <2> HIDE DEF n
  <2>6. /\ WellFormed(w) /\ Seen(w) = {1} /\ w[1].version = n
        /\ DOMAIN w = {1}
    <3>1. DOMAIN w = 1 .. 1
      BY <2>5, EmptySeq, ViewAppend DEF Event, Events
    <3> QED
      BY <2>5, <3>1, SubscribeView
  <2>7. Between(Dispatched, n, n) = {}
    BY <1>15 DEF n
  <2> HIDE DEF w
  <2>8. Gapless(w, Dispatched)
    BY <2>6 DEF Gapless
  <2>9. ASSUME NEW y \in Subs, y \in ToSet(adding)
        PROVE  Past(y)' /\ Present(y)'
    <3>1. views'[y] = w
      BY <2>3, <2>9
    <3> QED
      BY <2>4, <2>5, <2>6, <2>7, <2>8, <3>1 DEF Past, Present, n
  <2>10. ASSUME NEW y \in Subs, y \notin ToSet(adding)
         PROVE  Past(y)' /\ Present(y)'
    BY <1>4, <2>1, <2>2, <2>3, <2>4, <2>10, SameVersions
  <2> QED
    BY <2>9, <2>10 DEF Versions
<1>11. CASE ClearSubscribers
  <2>1. /\ subscribers' = <<>> /\ rpc = "clear"
        /\ Callback(ToSet(subscribers), "unsubscribe", Len(state))
        /\ UNCHANGED <<state, todo>> /\ rpc' = "done"
    BY <1>11 DEF ClearSubscribers
  <2>2. ToSet(subscribers') = {}
    BY <2>1 DEF ToSet
  <2>3. \A y \in Subs :
          views'[y] = IF y \in ToSet(subscribers)
                        THEN Append(views[y], Event("unsubscribe", Len(state)))
                        ELSE views[y]
    BY <1>1, <2>1, CallbackViews DEF Views
  <2>4. \A y : ~Owed(y) /\ ~Owed(y)'
    BY <2>1, NobodyToNotify DEF Owed
  <2>5. ASSUME NEW y \in Subs
        PROVE  Past(y)' /\ Present(y)'
    <3>1. CASE y \in ToSet(subscribers)
      BY <1>1, <1>4, <2>1, <2>2, <2>3, <2>4, <3>1, EndVersions
    <3>2. CASE y \notin ToSet(subscribers)
      BY <1>4, <2>1, <2>2, <2>3, <2>4, <3>2, SameVersions
    <3> QED
      BY <3>1, <3>2
  <2> QED
    BY <2>5 DEF Versions
<1>12. CASE Recv
  BY <1>2, <1>12, RecvHandles DEF Recv, fields, history
<1>13. CASE Reduce \/ IssueEffect \/ DoStateFunction
  BY <1>2, <1>13 DEF Reduce, IssueEffect, DoStateFunction, fields, history
<1>14. CASE UpdateState
  BY <1>14, UpdateVersions
<1> QED
  BY <1>5, <1>6, <1>7, <1>8, <1>9, <1>10, <1>11, <1>12, <1>13, <1>14, CoreSteps
    DEF ReducerStep

-----------------------------------------------------------------------------
(* Theorems *)

\* A new store has nobody to call.
LEMMA InitDelivery == ASSUME Init PROVE Delivery
<1>1. /\ <<>> \in Seq(1 .. nextId - 1) /\ <<>> \in Seq(Subs)
      /\ <<>> \in Seq(Items) /\ <<>> \in Seq(Events)
      /\ IsInjective(<<>>) /\ ToSet(<<>>) = {}
  BY EmptySeq DEF IsInjective, ToSet
<1>2. Lists
  BY <1>1, StoreAssumption DEF Init, Lists, NoCall
<1>3. States
  BY <1>1 DEF Init, States
<1>4. views \in [Subs -> Seq(Events)] /\ \A x \in Subs : views[x] = <<>>
  BY <1>1 DEF Init
<1>5. WellFormed(<<>>)
  BY <1>1 DEF WellFormed, Ends
<1>6. Views
  BY <1>1, <1>4, <1>5 DEF Init, Views
<1>7. DOMAIN <<>> = {} /\ Gapless(<<>>, Dispatched)
  BY DEF Gapless, Seen
<1>8. Versions
  BY <1>4, <1>7 DEF Versions, Past, Present
<1> QED
  BY <1>2, <1>3, <1>6, <1>8 DEF Delivery

\* The invariant of the delivery holds of the store, whoever calls it.
THEOREM DeliveryInvariance == Spec => []Delivery
<1>1. Init => Delivery
  BY InitDelivery
<1>2. IInv /\ Delivery /\ [Next]_vars => Delivery'
  BY ListsStep, ViewsStep, StatesStep, VersionsStep DEF Delivery
<1> QED
  BY <1>1, <1>2, Invariance, PTL DEF Spec

\* Whatever is dispatched while a subscriber waits to be added, and whoever else
\* comes and goes, its callbacks start with on_subscribe and then tell it of
\* every state to be notified, in order, for any number of subscribers.
THEOREM NoGaps == Spec => []GaplessDelivery
<1>1. ASSUME Delivery, NEW x \in Subs
      PROVE  LET version(i) == views[x][i].version
                 seen == Seen(views[x])
             IN  /\ views[x] # <<>> => views[x][1].kind = "subscribe"
                 /\ \A j, k \in seen :
                      j < k /\ (\A i \in seen : i <= j \/ k <= i) =>
                        /\ views[x][k].kind = "notify"
                        /\ Between(Dispatched, version(j), version(k))
                             = {version(k)}
                 /\ rpc = "recv" /\ x \in ToSet(subscribers) =>
                      \E k \in seen :
                        Between(Dispatched, version(k), Len(state)) = {}
  <2> DEFINE v == views[x]
  <2>1. /\ WellFormed(v) /\ v \in Seq(Events)
        /\ x \in ToSet(subscribers) => v # <<>>
    BY <1>1 DEF Delivery, Views
  <2>2. Past(x) /\ Present(x)
    BY <1>1 DEF Delivery, Versions
  <2>3. v # <<>> => v[1].kind = "subscribe"
    BY <2>1 DEF WellFormed
  <2>4. ASSUME NEW j \in Seen(v), NEW k \in Seen(v), j < k
        PROVE  v[k].kind = "notify"
    <3>1. /\ DOMAIN v = 1 .. Len(v) /\ Len(v) \in Nat
          /\ \A i \in 1 .. Len(v) : v[i] \in Events
      BY <2>1, LenProperties, ElementOfSeq
    <3>2. j \in 1 .. Len(v) /\ k \in 1 .. Len(v) /\ k # 1
      BY <2>4, <3>1 DEF Seen
    <3> QED
      BY <2>1, <3>1, <3>2 DEF WellFormed, Seen, Events
  <2>5. ASSUME rpc = "recv", x \in ToSet(subscribers)
        PROVE  \E k \in Seen(v) :
                 Between(Dispatched, v[k].version, Len(state)) = {}
    <3>1. PICK k \in DOMAIN v : Latest(v, k)
      BY <2>1, <2>5, LatestExists
    <3>2. ~Owed(x)
      BY <1>1, <2>5, NobodyToNotify DEF Owed, Delivery
    <3> QED
      BY <2>2, <2>5, <3>1, <3>2 DEF Present, Latest
  <2>6. \A j, k \in Seen(v) :
          j < k /\ (\A i \in Seen(v) : i <= j \/ k <= i) =>
            Between(Dispatched, v[j].version, v[k].version) = {v[k].version}
    BY <2>2 DEF Past, Gapless
  <2> QED
    BY <2>3, <2>4, <2>5, <2>6
<1>2. Delivery => GaplessDelivery
  BY <1>1 DEF GaplessDelivery
<1> QED
  BY <1>2, DeliveryInvariance, PTL

\* However unsubscribe() and do_notify interleave, at most the notification that
\* is under way arrives after on_unsubscribe.
THEOREM OneStale == Spec => []AtMostOneStale
<1>1. ASSUME Delivery, NEW x \in Subs, NEW i \in DOMAIN views[x],
             views[x][i].kind = "unsubscribe"
      PROVE  Cardinality({ j \in DOMAIN views[x] : i < j }) <= 1
  <2> DEFINE v == views[x]
  <2>1. /\ Len(v) \in Nat /\ DOMAIN v = 1 .. Len(v)
        /\ Len(v) <= i + 1
    BY <1>1, LenProperties DEF Delivery, Views, WellFormed, Ends
  <2> HIDE DEF v
  <2>2. { j \in DOMAIN v : i < j } \subseteq {i + 1}
    BY <1>1, <2>1 DEF v
  <2>3. Cardinality({i + 1}) = 1 /\ IsFiniteSet({i + 1})
    BY FS_Singleton
  <2>4. /\ Cardinality({ j \in DOMAIN v : i < j }) <= Cardinality({i + 1})
    BY <2>2, <2>3, FS_Subset
  <2> QED
    BY <2>3, <2>4 DEF v
<1>2. Delivery => AtMostOneStale
  BY <1>1 DEF AtMostOneStale
<1> QED
  BY <1>2, DeliveryInvariance, PTL

\* A set with at most one member has at most one, and one if it has any.
LEMMA AtMostOne ==
  ASSUME NEW S, \A a, b \in S : a = b
  PROVE  Cardinality(S) = IF S = {} THEN 0 ELSE 1
<1>1. CASE S = {}
  BY <1>1, FS_EmptySet
<1>2. CASE S # {}
  <2>1. PICK a : S = {a}
    BY <1>2
  <2> QED
    BY <1>2, <2>1, FS_Singleton
<1> QED
  BY <1>1, <1>2

\* unsubscribe(), as often as it is called, and clear_subscribers tell every
\* subscriber that it is over exactly once between them.
THEOREM ToldOnce == Spec => []UnsubscribedOnce
<1>1. ASSUME Delivery, NEW x \in Subs
      PROVE  LET count(kind) ==
                   Cardinality({ i \in DOMAIN views[x] :
                                   views[x][i].kind = kind })
             IN  /\ count("unsubscribe") <= count("subscribe")
                 /\ count("subscribe") <= 1
                 /\ rpc = "done" => count("unsubscribe") = count("subscribe")
  <2> DEFINE v == views[x]
             B == { i \in DOMAIN v : v[i].kind = "subscribe" }
             E == { i \in DOMAIN v : v[i].kind = "unsubscribe" }
  <2>1. WellFormed(v) /\ v \in Seq(Events)
    BY <1>1 DEF Delivery, Views, WellFormed
  <2>2. (\A a, b \in B : a = b) /\ (\A a, b \in E : a = b)
    BY <2>1 DEF WellFormed, Ends
  <2>3. v = <<>> => B = {} /\ E = {}
    OBVIOUS
  <2>4. v # <<>> => B # {}
    <3>1. ASSUME v # <<>> PROVE 1 \in B
      BY <2>1, <3>1, EmptySeq, LenProperties DEF WellFormed
    <3> QED
      BY <3>1
  <2>5. rpc = "done" /\ v # <<>> => E # {}
    <3>1. rpc = "done" => x \notin ToSet(subscribers)
      BY <1>1 DEF Delivery, Lists, ToSet
    <3> QED
      BY <1>1, <3>1 DEF Delivery, Views, Left, Ends
  <2>6. /\ Cardinality(B) = IF B = {} THEN 0 ELSE 1
        /\ Cardinality(E) = IF E = {} THEN 0 ELSE 1
    BY <2>2, AtMostOne
  <2> QED
    BY <2>3, <2>4, <2>5, <2>6
<1>2. Delivery => UnsubscribedOnce
  BY <1>1 DEF UnsubscribedOnce
<1> QED
  BY <1>2, DeliveryInvariance, PTL

-----------------------------------------------------------------------------
(* What a query is known by *)

\* The queries whose functions wait, and those whose functions have run.
Waiting == ToSet(functions)
Run == [i \in DOMAIN ran |-> ran[i].query]
Known == Waiting \cup ToSet(Run)

\* A query is known once, waiting or run.
Asked ==
  /\ functions \in Seq(Queries) /\ IsInjective(functions)
  /\ ran \in Seq([query : Queries, version : Nat])
  /\ IsInjective(Run)
  /\ Waiting \cap ToSet(Run) = {}

\* A query is a call its client has begun, and whoever is in one is on its way
\* to the channel with a StateFunction.
Askers ==
  /\ \A q \in Known : q.no <= calls[q.by]
  /\ \A t \in Threads : call[t].kind = "query" =>
       /\ t \in Clients /\ pc[t] \in {"lock", "sending"}
       /\ call[t].op = StateFunction
       /\ [by |-> t, no |-> calls[t]] \in Known

\* A StateFunction is on its way to any function whose query was accepted.
Coming == rpc = "query" \/ \E x \in ToSet(queue) : x.op = StateFunction

Answers ==
  /\ queried \subseteq Known
  /\ queried \cap Waiting # {} => Coming

\* The inductive invariant, together with IInv and Delivery.
QInv == Asked /\ Askers /\ Answers

-----------------------------------------------------------------------------
(* What the steps do to the queries *)

\* Only query_state and the StateFunction touch the functions.
LEMMA AskedSteps ==
  ASSUME [Next]_vars
  PROVE  \/ UNCHANGED <<functions, ran>>
         \/ \E c \in Clients : CallQueryState(c)
         \/ DoStateFunction
<1>1. ASSUME NEW c \in Clients, ClientCalls(c), ~CallQueryState(c)
      PROVE  UNCHANGED <<functions, ran>>
  BY <1>1 DEF ClientCalls, CallDispatch, CallAddSubscriber, CallClose,
              Unsubscribe, fields, history
<1>2. ASSUME NEW t \in Threads, ThreadStep(t)
      PROVE  UNCHANGED <<functions, ran>>
  BY <1>2 DEF ThreadStep, LockTx, FindClosed, TakeTx, FindTaken, Send, fields,
              history
<1>3. ASSUME NEW c \in Clients, PoolStep(c)
      PROVE  UNCHANGED <<functions, ran>>
  BY <1>3 DEF PoolStep, TakePool, Join, fields
<1>4. ASSUME NEW w \in Workers, RunTask(w)
      PROVE  UNCHANGED <<functions, ran>>
  BY <1>4 DEF RunTask, fields, history
<1>5. CASE ReducerStep /\ ~DoStateFunction
  BY <1>5 DEF ReducerStep, Recv, Reduce, IssueEffect, UpdateState, Snapshot,
              Notify, DoSubscribe, ClearSubscribers, fields, history
<1>6. CASE UNCHANGED vars
  BY <1>6 DEF vars, fields, history
<1> QED
  BY <1>1, <1>2, <1>3, <1>4, <1>5, <1>6 DEF Next

\* The queries run, as a sequence.
LEMMA RunType ==
  ASSUME Asked
  PROVE  /\ Run \in Seq(Queries) /\ Len(Run) = Len(ran) /\ Len(ran) \in Nat
         /\ DOMAIN ran = 1 .. Len(ran)
         /\ \A i \in 1 .. Len(ran) : Run[i] = ran[i].query
         /\ Known \subseteq Queries
<1>1. /\ Len(ran) \in Nat /\ DOMAIN ran = 1 .. Len(ran)
      /\ \A i \in 1 .. Len(ran) : ran[i] \in [query : Queries, version : Nat]
  BY LenProperties, ElementOfSeq DEF Asked
<1>2. Run \in [1 .. Len(ran) -> Queries]
  BY <1>1 DEF Run
<1>3. Run \in Seq(Queries)
  BY <1>1, <1>2, FunctionSeq
<1>4. Len(Run) = Len(ran)
  BY <1>1, <1>2, FunctionSeq
<1>5. Known \subseteq Queries
  BY <1>3, ToSetProperties DEF Known, Waiting, Asked
<1> QED
  BY <1>1, <1>3, <1>4, <1>5 DEF Run

\* query_state adds a query nobody knows.
LEMMA AskStep ==
  ASSUME Types, Asked, Askers, NEW c \in Clients, CallQueryState(c)
  PROVE  LET q == [by |-> c, no |-> calls[c] + 1]
         IN  /\ Asked' /\ q \notin Known
             /\ Waiting' = Waiting \cup {q} /\ Known' = Known \cup {q}
             /\ calls' = [calls EXCEPT ![c] = @ + 1]
             /\ call'[c].op = StateFunction /\ pc'[c] = "lock"
             /\ \A t \in Threads \ {c} : call'[t] = call[t] /\ pc'[t] = pc[t]
<1> DEFINE q == [by |-> c, no |-> calls[c] + 1]
<1>1. c \in Threads /\ calls[c] \in Nat
  BY DEF Threads, Types
<1>2. /\ calls' = [calls EXCEPT ![c] = @ + 1] /\ calls'[c] = calls[c] + 1
      /\ call'[c].op = StateFunction /\ pc'[c] = "lock"
      /\ \A t \in Threads \ {c} : call'[t] = call[t] /\ pc'[t] = pc[t]
  BY <1>1 DEF CallQueryState, ClientBegins, Begin, Types
<1>3. functions' = Append(functions, q) /\ UNCHANGED ran
  BY <1>2 DEF CallQueryState, history
<1>4. q \in Queries
  BY <1>1 DEF Queries
<1>5. q \notin Known
  <2>1. q.by = c /\ q.no = calls[c] + 1
    OBVIOUS
  <2> HIDE DEF q
  <2> QED
    BY <1>1, <2>1 DEF Askers
<1> HIDE DEF q
<1>6. /\ functions' \in Seq(Queries)
      /\ Waiting' = Waiting \cup {q} /\ IsInjective(functions')
  <2>1. functions \in Seq(Queries) /\ IsInjective(functions)
    BY DEF Asked
  <2>2. q \notin ToSet(functions)
    BY <1>5 DEF Known, Waiting
  <2> QED
    BY <1>3, <1>4, <2>1, <2>2, AppendProperties, AppendSet DEF Waiting
<1>7. Run' = Run
  BY <1>3 DEF Run
<1>8. Asked'
  BY <1>3, <1>5, <1>6, <1>7 DEF Asked, Known
<1> QED
  BY <1>2, <1>5, <1>6, <1>7, <1>8 DEF Known, q

\* A StateFunction moves the functions from those that wait to those that ran.
LEMMA AnswerStep ==
  ASSUME Asked, States, DoStateFunction
  PROVE  Asked' /\ Waiting' = {} /\ Known' = Known
<1> DEFINE n == Len(state)
           r == [i \in DOMAIN functions |->
                   [query |-> functions[i], version |-> n]]
           R == [query : Queries, version : Nat]
<1>1. ran' = ran \o r /\ functions' = <<>>
  BY DEF DoStateFunction
<1>2. n \in Nat
  BY LenProperties DEF States
<1> HIDE DEF n
<1>3. /\ functions \in Seq(Queries) /\ Len(functions) \in Nat
      /\ DOMAIN functions = 1 .. Len(functions)
      /\ \A i \in 1 .. Len(functions) : functions[i] \in Queries
  BY LenProperties, ElementOfSeq DEF Asked
<1>4. /\ r \in [1 .. Len(functions) -> R]
      /\ \A i \in 1 .. Len(functions) : r[i].query = functions[i]
  BY <1>2, <1>3
<1> HIDE DEF r
<1>5. r \in Seq(R) /\ Len(r) = Len(functions)
  BY <1>3, <1>4, FunctionSeq
<1>6. /\ ran' \in Seq(R) /\ Len(ran') = Len(ran) + Len(functions)
      /\ \A i \in 1 .. Len(ran) + Len(functions) :
           ran'[i] = IF i <= Len(ran) THEN ran[i] ELSE r[i - Len(ran)]
  <2>1. ran \in Seq(R)
    BY DEF Asked
  <2> HIDE DEF R
  <2>2. /\ ran \o r \in Seq(R) /\ Len(ran \o r) = Len(ran) + Len(r)
        /\ \A i \in 1 .. Len(ran) + Len(r) :
             (ran \o r)[i] = IF i <= Len(ran) THEN ran[i] ELSE r[i - Len(ran)]
    BY <1>5, <2>1, ConcatProperties
  <2> QED
    BY <1>1, <1>5, <2>2
<1>7. /\ Run \in Seq(Queries) /\ Len(Run) = Len(ran) /\ Len(ran) \in Nat
      /\ \A i \in 1 .. Len(ran) : Run[i] = ran[i].query
  BY RunType
<1>8. DOMAIN ran' = 1 .. Len(ran) + Len(functions)
  BY <1>6, LenProperties
<1>9. /\ Run \o functions \in Seq(Queries)
      /\ Len(Run \o functions) = Len(ran) + Len(functions)
      /\ \A i \in 1 .. Len(ran) + Len(functions) :
           (Run \o functions)[i] = IF i <= Len(ran)
                                     THEN Run[i] ELSE functions[i - Len(ran)]
  <2>1. /\ Run \o functions \in Seq(Queries)
        /\ Len(Run \o functions) = Len(Run) + Len(functions)
        /\ \A i \in 1 .. Len(Run) + Len(functions) :
             (Run \o functions)[i] = IF i <= Len(Run)
                                       THEN Run[i] ELSE functions[i - Len(Run)]
    BY <1>3, <1>7, ConcatProperties
  <2> QED
    BY <1>7, <2>1
<1>10. Run' = Run \o functions
  <2>1. DOMAIN (Run \o functions) = 1 .. Len(ran) + Len(functions)
    BY <1>9, LenProperties
  <2>2. Run' = [i \in 1 .. Len(ran) + Len(functions) |-> ran'[i].query]
    BY <1>8 DEF Run
  <2>3. ASSUME NEW i \in 1 .. Len(ran) + Len(functions)
        PROVE  (Run \o functions)[i] = ran'[i].query
    <3>1. CASE i <= Len(ran)
      <4>1. i \in 1 .. Len(ran)
        BY <1>3, <1>7, <2>3, <3>1
      <4> QED
        BY <1>6, <1>7, <1>9, <3>1, <4>1
    <3>2. CASE ~(i <= Len(ran))
      <4>1. i - Len(ran) \in 1 .. Len(functions)
        BY <1>3, <1>7, <2>3, <3>2
      <4> QED
        BY <1>4, <1>6, <1>9, <2>3, <3>2, <4>1
    <3> QED
      BY <3>1, <3>2
  <2>4. Run \o functions \in [1 .. Len(ran) + Len(functions) -> Queries]
    BY <1>9, LenProperties
  <2> QED
    BY <2>1, <2>2, <2>3, <2>4
<1>11. /\ ToSet(Run') = ToSet(Run) \cup Waiting /\ IsInjective(Run')
  BY <1>3, <1>7, <1>10, ConcatSet DEF Asked, Waiting
<1>12. Waiting' = {} /\ <<>> \in Seq(Queries) /\ IsInjective(<<>>)
  BY <1>1, EmptySeq DEF Waiting, ToSet, IsInjective
<1>13. Asked'
  BY <1>1, <1>6, <1>11, <1>12 DEF Asked, R
<1> QED
  BY <1>11, <1>12, <1>13 DEF Known

\* Nobody forgets a query.
LEMMA KnownGrows ==
  ASSUME IInv, Asked, Askers, States, [Next]_vars
  PROVE  Asked' /\ Known \subseteq Known'
<1>1. CASE UNCHANGED <<functions, ran>>
  BY <1>1 DEF Asked, Known, Waiting, Run
<1>2. ASSUME NEW c \in Clients, CallQueryState(c)
      PROVE  Asked' /\ Known \subseteq Known'
  BY <1>2, AskStep DEF IInv
<1>3. CASE DoStateFunction
  BY <1>3, AnswerStep
<1> QED
  BY <1>1, <1>2, <1>3, AskedSteps

\* Who is in a query_state is there as it was before, unless it has begun it.
LEMMA AskingSteps ==
  ASSUME Types, Askers, [Next]_vars, NEW t \in Threads,
         call'[t].kind = "query",
         ~(t \in Clients /\ CallQueryState(t))
  PROVE  /\ call[t].kind = "query" /\ call'[t].op = call[t].op
         /\ calls'[t] = calls[t]
         /\ pc'[t] \in {"lock", "sending"}
<1> DEFINE Goal == /\ call[t].kind = "query" /\ call'[t].op = call[t].op
                   /\ calls'[t] = calls[t]
                   /\ pc'[t] \in {"lock", "sending"}
<1> SUFFICES Goal
  OBVIOUS
<1>1. /\ pc \in [Threads -> Pcs] /\ call \in [Threads -> CallTypes]
      /\ calls \in [Threads -> Nat]
      /\ call[t].kind = "query" => pc[t] \in {"lock", "sending"}
  BY DEF Types, Askers
<1>2. ASSUME call'[t] = call[t], calls'[t] = calls[t], pc'[t] = pc[t]
      PROVE  Goal
  BY <1>1, <1>2
<1>3. ASSUME NEW c \in Clients, ClientCalls(c)
      PROVE  Goal
  <2>0. c \in Threads
    BY DEF Threads
  <2>1. CASE \E x \in Subs : Unsubscribe(c, x)
    BY <1>1, <2>0, <2>1 DEF Unsubscribe
  <2>2. CASE ~\E x \in Subs : Unsubscribe(c, x)
    <3>1. CASE c = t
      <4>1. ~CallQueryState(c)
        BY <3>1
      <4>2. PICK k \in Calls \ {"query"} : \E o, x : Begin(c, k, o, x, "lock")
        BY <1>3, <2>2, <4>1
          DEF ClientCalls, CallDispatch, CallAddSubscriber, CallClose,
              ClientBegins, Calls, Closing
      <4> QED
        BY <1>1, <3>1, <4>2 DEF Begin
    <3>2. CASE c # t
      <4>1. \E k, o, x : Begin(c, k, o, x, "lock")
        BY <1>3, <2>2
          DEF ClientCalls, CallDispatch, CallAddSubscriber, CallQueryState,
              CallClose, ClientBegins
      <4> QED
        BY <1>1, <3>2, <4>1 DEF Begin
    <3> QED
      BY <3>1, <3>2
  <2> QED
    BY <2>1, <2>2
<1>4. ASSUME NEW u \in Threads, ThreadStep(u)
      PROVE  Goal
  <2>1. /\ UNCHANGED calls
        /\ \/ UNCHANGED call /\ pc' = [pc EXCEPT ![u] = "sending"]
           \/ /\ UNCHANGED call /\ pc' = [pc EXCEPT ![u] = "pool"]
              /\ call[u].kind \in Closing
           \/ Return(u)
    BY <1>4 DEF ThreadStep, LockTx, FindClosed, TakeTx, FindTaken, Send, Goto
  <2>2. CASE u = t
    BY <1>1, <2>1, <2>2 DEF Return, NoCall, Closing, Goto
  <2>3. CASE u # t
    BY <1>1, <2>1, <2>3 DEF Return, Goto
  <2> QED
    BY <2>2, <2>3
<1>5. ASSUME NEW c \in Clients, PoolStep(c)
      PROVE  Goal
  <2>1. /\ UNCHANGED calls /\ pc[c] \in {"pool", "join"}
        /\ \/ UNCHANGED call /\ pc' = [pc EXCEPT ![c] = "join"]
           \/ Return(c)
    BY <1>5 DEF PoolStep, TakePool, Join, StopReturns, Goto
  <2>2. CASE c = t
    BY <1>1, <2>1, <2>2 DEF Return, NoCall, Goto
  <2>3. CASE c # t
    BY <1>1, <2>1, <2>3 DEF Return, Goto, Threads
  <2> QED
    BY <2>2, <2>3
<1>6. ASSUME NEW w \in Workers, RunTask(w)
      PROVE  Goal
  <2>1. \/ UNCHANGED threads
        \/ \E o : Begin(w, "dispatch", o, NoSub, "lock")
    BY <1>6 DEF RunTask
  <2> QED
    BY <1>1, <2>1 DEF Begin, threads, Threads
<1>7. CASE ReducerStep
  <2>1. UNCHANGED threads
    BY <1>7 DEF ReducerStep, Recv, Reduce, IssueEffect, UpdateState, Snapshot,
                Notify, DoSubscribe, DoStateFunction, ClearSubscribers
  <2> QED
    BY <1>2, <2>1 DEF threads
<1>8. CASE UNCHANGED vars
  BY <1>2, <1>8 DEF vars, threads
<1> QED
  BY <1>3, <1>4, <1>5, <1>6, <1>7, <1>8 DEF Next

\* Calls are counted up.
LEMMA CallsGrow ==
  ASSUME Types, [Next]_vars
  PROVE  /\ calls' \in [Threads -> Nat]
         /\ \A t \in Threads : calls[t] <= calls'[t]
<1>1. calls' \in [Threads -> Nat] /\ calls \in [Threads -> Nat]
  BY TypesStep DEF Types
<1>2. \/ UNCHANGED calls
      \/ \E t \in Threads : calls' = [calls EXCEPT ![t] = @ + 1]
  <2>1. ASSUME NEW c \in Clients, ClientCalls(c)
        PROVE  calls' = [calls EXCEPT ![c] = @ + 1]
    BY <2>1 DEF ClientCalls, CallDispatch, CallAddSubscriber, CallQueryState,
                CallClose, Unsubscribe, ClientBegins, Begin
  <2>2. ASSUME NEW t \in Threads, ThreadStep(t)
        PROVE  UNCHANGED calls
    BY <2>2 DEF ThreadStep, LockTx, FindClosed, TakeTx, FindTaken, Send
  <2>3. ASSUME NEW c \in Clients, PoolStep(c)
        PROVE  UNCHANGED calls
    BY <2>3 DEF PoolStep, TakePool, Join
  <2>4. ASSUME NEW w \in Workers, RunTask(w)
        PROVE  UNCHANGED calls \/ calls' = [calls EXCEPT ![w] = @ + 1]
    BY <2>4 DEF RunTask, Begin, threads
  <2>5. CASE ReducerStep
    BY <2>5 DEF ReducerStep, Recv, Reduce, IssueEffect, UpdateState, Snapshot,
                Notify, DoSubscribe, DoStateFunction, ClearSubscribers, threads
  <2>6. CASE UNCHANGED vars
    BY <2>6 DEF vars, threads
  <2> QED
    BY <2>1, <2>2, <2>3, <2>4, <2>5, <2>6 DEF Next, Threads
<1> QED
  BY <1>1, <1>2

\* No step of the store makes a query of no call.
LEMMA AskersStep ==
  ASSUME IInv, Asked, Askers, States, [Next]_vars
  PROVE  Askers'
<1>1. /\ \A t \in Threads : calls[t] \in Nat /\ calls'[t] \in Nat
                            /\ calls[t] <= calls'[t]
      /\ \A q \in Known : q.by \in Threads /\ q.no \in Nat
  BY CallsGrow, RunType DEF IInv, Types, Queries, Threads
<1>2. \A q \in Known : q.no <= calls'[q.by]
  BY <1>1 DEF Askers
<1>3. ASSUME NEW t \in Threads, call'[t].kind = "query",
             ~(t \in Clients /\ CallQueryState(t))
      PROVE  /\ t \in Clients /\ pc'[t] \in {"lock", "sending"}
             /\ call'[t].op = StateFunction
             /\ [by |-> t, no |-> calls'[t]] \in Known'
  BY <1>3, AskingSteps, KnownGrows DEF Askers, IInv
<1>4. CASE \E c \in Clients : CallQueryState(c)
  <2>1. PICK c \in Clients : CallQueryState(c)
    BY <1>4
  <2> DEFINE q == [by |-> c, no |-> calls[c] + 1]
  <2>2. /\ Known' = Known \cup {q} /\ calls' = [calls EXCEPT ![c] = @ + 1]
        /\ call'[c].op = StateFunction /\ pc'[c] = "lock"
    BY <2>1, AskStep DEF IInv
  <2>3. calls'[c] = calls[c] + 1
    BY <1>1, <2>2 DEF IInv, Types, Threads
  <2>4. \A p \in Known' : p.no <= calls'[p.by]
    BY <1>1, <1>2, <2>2, <2>3 DEF Threads
  <2>5. ASSUME NEW t \in Threads, call'[t].kind = "query"
        PROVE  /\ t \in Clients /\ pc'[t] \in {"lock", "sending"}
               /\ call'[t].op = StateFunction
               /\ [by |-> t, no |-> calls'[t]] \in Known'
    <3>1. CASE t = c
      BY <2>2, <2>3, <3>1
    <3>2. CASE t # c
      <4>1. call'[t] = call[t]
        BY <2>1, <3>2, AskStep DEF IInv
      <4>2. call[t].kind = "query"
        BY <2>5, <4>1
      <4>3. ~(t \in Clients /\ CallQueryState(t))
        BY <4>2 DEF CallQueryState, ClientBegins, Begin, Askers
      <4> QED
        BY <1>3, <2>5, <4>3
    <3> QED
      BY <3>1, <3>2
  <2> QED
    BY <2>4, <2>5 DEF Askers
<1>5. CASE ~\E c \in Clients : CallQueryState(c)
  <2>1. Known' = Known
    <3>1. CASE UNCHANGED <<functions, ran>>
      BY <3>1 DEF Known, Waiting, Run
    <3>2. CASE DoStateFunction
      BY <3>2, AnswerStep
    <3> QED
      BY <1>5, <3>1, <3>2, AskedSteps
  <2> QED
    BY <1>2, <1>3, <1>5, <2>1 DEF Askers
<1> QED
  BY <1>4, <1>5

\* The policies drop actions only: any other item stays when one is accepted.
LEMMA ControlStays ==
  ASSUME queue \in Seq(Items), NEW x \in Items,
         Channel!Accept(x) \/ Channel!AcceptDropping(x)
  PROVE  /\ x \in ToSet(queue')
         /\ \A y \in ToSet(queue) : y.op \notin Actions => y \in ToSet(queue')
<1>1. CASE Channel!Accept(x)
  <2>1. ToSet(Append(queue, x)) = ToSet(queue) \cup {x}
    BY AppendSet
  <2> QED
    BY <1>1, <2>1 DEF Channel!Accept
<1>2. CASE Channel!AcceptDropping(x)
  <2>1. PICK i \in Channel!Victims(queue) :
          queue' = Append(Channel!RemoveAt(queue, i), x)
    BY <1>2 DEF Channel!AcceptDropping
  <2>2. i \in Victims(queue) /\ queue' = Append(RemoveAt(queue, i), x)
    BY <2>1, ChannelDefs
  <2>3. i \in 1 .. Len(queue) /\ queue[i].op \in Actions
    BY <2>2, LenProperties DEF Victims, Droppable
  <2> DEFINE r == RemoveAt(queue, i)
  <2>4. /\ r \in Seq(Items) /\ Len(r) = Len(queue) - 1
        /\ \A j \in 1 .. Len(queue) - 1 :
             r[j] = IF j < i THEN queue[j] ELSE queue[j + 1]
    BY <2>3, RemoveAtProperties
  <2> HIDE DEF r
  <2>5. ToSet(queue') = ToSet(r) \cup {x}
    <3>1. queue' = Append(r, x)
      BY <2>2 DEF r
    <3> QED
      BY <2>4, <3>1, AppendSet
  <2>6. ASSUME NEW y \in ToSet(queue), y.op \notin Actions
        PROVE  y \in ToSet(r)
    <3>1. PICK k \in 1 .. Len(queue) : y = queue[k]
      BY <2>6, ToSetProperties
    <3>2. k # i /\ Len(queue) \in Nat
      BY <2>3, <2>6, <3>1, LenProperties
    <3>3. \E j \in 1 .. Len(r) : y = r[j]
      <4>1. CASE k < i
        BY <2>3, <2>4, <3>1, <3>2, <4>1
      <4>2. CASE k > i
        <5>1. /\ k - 1 \in 1 .. Len(queue) - 1 /\ ~(k - 1 < i)
              /\ (k - 1) + 1 = k
          BY <2>3, <3>1, <3>2, <4>2
        <5> QED
          BY <2>4, <3>1, <5>1
      <4> QED
        BY <2>3, <3>1, <3>2, <4>1, <4>2
    <3> QED
      BY <2>4, <3>3, ToSetProperties
  <2> QED
    BY <2>5, <2>6
<1> QED
  BY <1>1, <1>2

\* What a step does to the queue and to the calls that returned Ok.
LEMMA ReturnSteps ==
  ASSUME [Next]_vars
  PROVE  \/ /\ UNCHANGED <<queue, queried, held>>
            /\ rpc = "query" => rpc' = "query"
            /\ rpc = "subscribe" => rpc' = "subscribe"
         \/ \E t \in Threads : Send(t)
         \/ Recv
         \/ DoStateFunction
         \/ DoSubscribe
<1> DEFINE Goal == /\ UNCHANGED <<queue, queried, held>>
                   /\ rpc = "query" => rpc' = "query"
                   /\ rpc = "subscribe" => rpc' = "subscribe"
<1>1. ASSUME NEW c \in Clients, ClientCalls(c) \/ PoolStep(c)
      PROVE  Goal
  BY <1>1 DEF ClientCalls, PoolStep, CallDispatch, CallAddSubscriber,
              CallQueryState, CallClose, Unsubscribe, TakePool, Join,
              channel, reducer, history
<1>2. ASSUME NEW t \in Threads, ThreadStep(t), ~Send(t)
      PROVE  Goal
  BY <1>2 DEF ThreadStep, LockTx, FindClosed, TakeTx, FindTaken, channel,
              reducer, history
<1>3. ASSUME NEW w \in Workers, RunTask(w)
      PROVE  Goal
  BY <1>3 DEF RunTask, channel, reducer, history
<1>4. CASE ReducerStep /\ ~Recv /\ ~DoStateFunction /\ ~DoSubscribe
  BY <1>4 DEF ReducerStep, Reduce, IssueEffect, UpdateState, Snapshot, Notify,
              NotifyRest, ClearSubscribers, channel, history
<1>5. CASE UNCHANGED vars
  BY <1>5 DEF vars, channel, reducer, history
<1> QED
  BY <1>1, <1>2, <1>3, <1>4, <1>5 DEF Next

\* No step loses the StateFunction of a query that returned.
LEMMA AnswersStep ==
  ASSUME IInv, QInv, States, [Next]_vars
  PROVE  Answers'
<1>1. Known \subseteq Known'
  BY KnownGrows DEF QInv
<1>2. ASSUME NEW t \in Threads, Send(t)
      PROVE  Answers'
  <2>1. Item(t) \in Items /\ Item(t).op = call[t].op
    BY <1>2, ItemType DEF Send, Sending, IInv, Item
  <2>2. /\ Item(t) \in ToSet(queue')
        /\ \A y \in ToSet(queue) : y.op \notin Actions => y \in ToSet(queue')
    BY <1>2, <2>1, ControlStays DEF Send, IInv, Types
  <2>3. StateFunction \notin Actions
    BY StoreAssumption, BackpressureAssumption
  <2>4. /\ UNCHANGED <<functions, ran, rpc>>
        /\ queried' = IF call[t].kind = "query"
                        THEN queried \cup {[by |-> t, no |-> calls[t]]}
                        ELSE queried
    BY <1>2 DEF Send, fields, reducer
  <2>5. Waiting' = Waiting /\ Known' = Known
    BY <2>4 DEF Known, Waiting, Run
  <2>6. Coming => Coming'
    BY <2>2, <2>3, <2>4 DEF Coming
  <2>7. call[t].kind = "query" =>
          Coming' /\ [by |-> t, no |-> calls[t]] \in Known
    BY <2>1, <2>2 DEF Coming, QInv, Askers
  <2> QED
    BY <2>4, <2>5, <2>6, <2>7 DEF QInv, Answers
<1>3. CASE Recv
  <2>1. /\ queue # <<>> /\ queue' = Tail(queue) /\ rpc = "recv"
        /\ rpc' = Handler(Head(queue).op)
        /\ UNCHANGED <<functions, ran, queried>>
    BY <1>3 DEF Recv, Channel!Deliver, fields, history
  <2>2. ToSet(queue) = ToSet(queue') \cup {Head(queue)}
    BY <2>1, TailSet DEF IInv, Types
  <2>3. Head(queue).op = StateFunction => rpc' = "query"
    BY <2>1, StoreAssumption, BackpressureAssumption DEF Handler
  <2>4. Coming => Coming'
    BY <2>1, <2>2, <2>3 DEF Coming
  <2>5. Waiting' = Waiting /\ Known' = Known
    BY <2>1 DEF Known, Waiting, Run
  <2> QED
    BY <2>1, <2>4, <2>5 DEF QInv, Answers
<1>4. CASE DoStateFunction
  <2>1. UNCHANGED queried
    BY <1>4 DEF DoStateFunction
  <2> QED
    BY <1>1, <1>4, <2>1, AnswerStep DEF QInv, Answers
<1>5. ASSUME UNCHANGED <<queue, queried>>, rpc = "query" => rpc' = "query",
             ~DoStateFunction
      PROVE  Answers'
  <2>1. Coming => Coming'
    BY <1>5 DEF Coming
  <2>2. CASE UNCHANGED <<functions, ran>>
    BY <1>5, <2>1, <2>2 DEF QInv, Answers, Known, Waiting, Run
  <2>3. ASSUME NEW c \in Clients, CallQueryState(c)
        PROVE  Answers'
    <3>1. PICK q : q \notin Known /\ Waiting' = Waiting \cup {q}
      BY <2>3, AskStep DEF QInv, IInv
    <3> QED
      BY <1>1, <1>5, <2>1, <3>1 DEF QInv, Answers
  <2> QED
    BY <1>5, <2>2, <2>3, AskedSteps
<1>6. CASE DoSubscribe
  <2>1. /\ UNCHANGED <<queue, queried>> /\ rpc # "query"
        /\ ~DoStateFunction
    BY <1>6 DEF DoSubscribe, DoStateFunction, channel
  <2> QED
    BY <1>5, <2>1
<1> QED
  BY <1>2, <1>3, <1>4, <1>5, <1>6, ReturnSteps

-----------------------------------------------------------------------------
(* Theorems *)

\* The invariant of the queries holds of the store, whoever calls it.
THEOREM QueriesInvariance == Spec => []QInv
<1>1. ASSUME Init PROVE QInv
  <2>1. /\ functions = <<>> /\ ran = <<>> /\ queried = {}
        /\ \A t \in Threads : call[t].kind # "query"
    BY <1>1 DEF Init, NoCall
  <2>2. Run = <<>>
    BY <2>1 DEF Run
  <2>3. /\ \A S : <<>> \in Seq(S)
        /\ IsInjective(<<>>) /\ ToSet(<<>>) = {}
    BY EmptySeq DEF IsInjective, ToSet
  <2> QED
    BY <2>1, <2>2, <2>3
      DEF QInv, Asked, Askers, Answers, Known, Waiting
<1>2. IInv /\ Delivery /\ QInv /\ [Next]_vars => QInv'
  BY KnownGrows, AskersStep, AnswersStep DEF QInv, Delivery
<1> QED
  BY <1>1, <1>2, Invariance, DeliveryInvariance, PTL DEF Spec

\* The function of every query_state that returned Ok runs, and runs once, for
\* any number of queries, and whatever the policy drops.
THEOREM EveryQueryRuns == Spec => []QueriesRun
<1>1. ASSUME QInv, NothingAfterExit
      PROVE  QueriesRun
  <2>1. /\ DOMAIN ran = 1 .. Len(ran) /\ Run \in Seq(Queries)
        /\ Len(Run) = Len(ran)
        /\ \A i \in 1 .. Len(ran) : Run[i] = ran[i].query
        /\ IsInjective(Run)
    BY <1>1, RunType DEF QInv, Asked
  <2>2. \A i, j \in DOMAIN ran : ran[i].query = ran[j].query => i = j
    BY <2>1, LenProperties DEF IsInjective
  <2>3. rpc = "done" => queried \cap Waiting = {}
    BY <1>1, EmptySeq DEF NothingAfterExit, QInv, Answers, Coming, ToSet
  <2>4. ToSet(Run) = {ran[i].query : i \in DOMAIN ran}
    BY <2>1, ToSetProperties
  <2> QED
    BY <1>1, <2>2, <2>3, <2>4 DEF QueriesRun, QInv, Answers, Known
<1> QED
  BY <1>1, QueriesInvariance, ExitIsLast, PTL

-----------------------------------------------------------------------------
(* Who waits to be added *)

\* A call that has a subscriber sends an AddSubscriber; subscribers have ids
\* that were handed out.
Adders ==
  /\ \A t \in Threads :
       /\ call[t].sub < nextId
       /\ call[t].sub # NoSub => call[t].op = AddSubscriber
  /\ held \subseteq 1 .. nextId - 1

\* An AddSubscriber is on its way to whoever waits with an Ok.
Adding == rpc = "subscribe" \/ \E x \in ToSet(queue) : x.op = AddSubscriber

Additions == held \cap ToSet(adding) # {} => Adding

\* The inductive invariant, together with IInv and Delivery.
AInv == Adders /\ Additions

\* A step leaves a thread its subscriber, or takes it, unless the thread begins
\* an add_subscriber.
LEMMA AddingSteps ==
  ASSUME Types, [Next]_vars, NEW t \in Threads,
         ~(t \in Clients /\ CallAddSubscriber(t))
  PROVE  call'[t] = call[t] \/ call'[t].sub = NoSub
<1> DEFINE Goal == call'[t] = call[t] \/ call'[t].sub = NoSub
<1>1. call \in [Threads -> CallTypes]
  BY DEF Types
<1>2. ASSUME NEW u \in Threads, UNCHANGED call \/ Return(u)
      PROVE  Goal
  BY <1>1, <1>2 DEF Return, NoCall
<1>3. ASSUME NEW u \in Threads, \E k, o, p : Begin(u, k, o, NoSub, p)
      PROVE  Goal
  BY <1>1, <1>3 DEF Begin
<1>4. ASSUME NEW c \in Clients, ClientCalls(c)
      PROVE  Goal
  <2>0. c \in Threads
    BY DEF Threads
  <2>1. CASE \E x \in Subs : Unsubscribe(c, x)
    BY <1>2, <2>0, <2>1 DEF Unsubscribe
  <2>2. CASE CallAddSubscriber(c)
    <3>1. c # t
      BY <2>2
    <3> QED
      BY <1>1, <2>2, <3>1 DEF CallAddSubscriber, ClientBegins, Begin
  <2>3. CASE ~CallAddSubscriber(c) /\ ~\E x \in Subs : Unsubscribe(c, x)
    <3>1. \E k, o : Begin(c, k, o, NoSub, "lock")
      BY <1>4, <2>3 DEF ClientCalls, CallDispatch, CallQueryState, CallClose,
                        ClientBegins
    <3> QED
      BY <1>3, <2>0, <3>1
  <2> QED
    BY <2>1, <2>2, <2>3
<1>5. ASSUME NEW u \in Threads, ThreadStep(u)
      PROVE  Goal
  <2>1. UNCHANGED call \/ Return(u)
    BY <1>5 DEF ThreadStep, LockTx, FindClosed, TakeTx, FindTaken, Send
  <2> QED
    BY <1>2, <2>1
<1>6. ASSUME NEW c \in Clients, PoolStep(c)
      PROVE  Goal
  <2>1. UNCHANGED call \/ Return(c)
    BY <1>6 DEF PoolStep, TakePool, Join, StopReturns
  <2> QED
    BY <1>2, <2>1 DEF Threads
<1>7. ASSUME NEW w \in Workers, RunTask(w)
      PROVE  Goal
  <2>1. UNCHANGED call \/ \E o : Begin(w, "dispatch", o, NoSub, "lock")
    BY <1>7 DEF RunTask, threads
  <2> QED
    BY <1>2, <1>3, <2>1 DEF Threads
<1>8. CASE ReducerStep
  <2>1. UNCHANGED call
    BY <1>8 DEF ReducerStep, Recv, Reduce, IssueEffect, UpdateState, Snapshot,
                Notify, DoSubscribe, DoStateFunction, ClearSubscribers, threads
  <2> QED
    BY <1>2, <2>1
<1>9. CASE UNCHANGED vars
  BY <1>9 DEF vars, threads
<1> QED
  BY <1>4, <1>5, <1>6, <1>7, <1>8, <1>9 DEF Next

\* No step gives a thread or an owner an id that was not handed out.
LEMMA AddersStep ==
  ASSUME IInv, Lists, Adders, [Next]_vars
  PROVE  Adders'
<1>1. /\ nextId \in Nat /\ nextId >= 1 /\ nextId' \in Nat
      /\ nextId <= nextId'
  <2>1. CASE UNCHANGED core
    BY <2>1, IdFacts DEF core
  <2>2. CASE \E c \in Clients : CallAddSubscriber(c)
    BY <2>2, IdFacts DEF CallAddSubscriber
  <2>3. ASSUME NEW c \in Clients, NEW x \in Subs, Unsubscribe(c, x)
        PROVE  nextId' = nextId
    BY <2>3 DEF Unsubscribe
  <2>4. ASSUME NEW t \in Threads, FindClosed(t)
        PROVE  nextId' = nextId
    BY <2>4 DEF FindClosed
  <2>5. CASE ReducerStep
    <3>1. nextId' = nextId
      BY <2>5 DEF ReducerStep, Recv, Reduce, IssueEffect, UpdateState,
                  Snapshot, Notify, DoSubscribe, DoStateFunction,
                  ClearSubscribers, fields
    <3> QED
      BY <3>1, IdFacts
  <2> QED
    BY <2>1, <2>2, <2>3, <2>4, <2>5, IdFacts, CoreSteps
<1>2. ASSUME NEW t \in Threads
      PROVE  /\ call[t].sub \in Nat /\ call[t].sub < nextId
             /\ call[t].sub # NoSub => call[t].op = AddSubscriber
  BY OpFacts DEF Lists, Adders
<1>3. ASSUME NEW t \in Threads
      PROVE  /\ call'[t].sub < nextId'
             /\ call'[t].sub # NoSub => call'[t].op = AddSubscriber
  <2>1. CASE call'[t] = call[t]
    BY <1>1, <1>2, <2>1
  <2>2. CASE call'[t].sub = NoSub
    BY <1>1, <2>2 DEF NoSub
  <2>3. CASE t \in Clients /\ CallAddSubscriber(t)
    <3>1. /\ call'[t] = [kind |-> "add", op |-> AddSubscriber, sub |-> nextId]
          /\ nextId' = nextId + 1
      BY <2>3 DEF CallAddSubscriber, ClientBegins, Begin, IInv, Types
    <3> QED
      BY <1>1, <3>1
  <2>4. \/ call'[t] = call[t] \/ call'[t].sub = NoSub
        \/ t \in Clients /\ CallAddSubscriber(t)
    <3>1. CASE ~(t \in Clients /\ CallAddSubscriber(t))
      BY <3>1, AddingSteps DEF IInv
    <3> QED
      BY <3>1
  <2> QED
    BY <2>1, <2>2, <2>3, <2>4
<1>4. held' \subseteq 1 .. nextId' - 1
  <2>1. ASSUME NEW n \in Nat, NEW m \in Nat, n <= m
        PROVE  1 .. n - 1 \subseteq 1 .. m - 1
    BY <2>1
  <2>2. ASSUME NEW t \in Threads, Send(t)
        PROVE  held' \subseteq 1 .. nextId - 1
    <3>1. held' = held \cup ({call[t].sub} \ {NoSub})
      BY <2>2 DEF Send
    <3>2. call[t].sub # NoSub => call[t].sub \in 1 .. nextId - 1
      BY <1>1, <1>2 DEF NoSub
    <3> QED
      BY <3>1, <3>2 DEF Adders
  <2>3. CASE UNCHANGED held
    BY <1>1, <2>1, <2>3 DEF Adders
  <2>4. CASE Recv \/ DoStateFunction \/ DoSubscribe
    BY <2>3, <2>4 DEF Recv, DoStateFunction, DoSubscribe, history
  <2> QED
    BY <1>1, <2>1, <2>2, <2>3, <2>4, ReturnSteps
<1> QED
  BY <1>3, <1>4 DEF Adders

\* Who waits to be added waited before, or has no Ok yet.
LEMMA WaitingSteps ==
  ASSUME IInv, Lists, Adders, [Next]_vars
  PROVE  held \cap ToSet(adding') \subseteq ToSet(adding)
<1>1. CASE UNCHANGED core
  BY <1>1 DEF core
<1>2. ASSUME NEW c \in Clients, CallAddSubscriber(c)
      PROVE  held \cap ToSet(adding') \subseteq ToSet(adding)
  <2>1. nextId \in Nat /\ adding \in Seq(Nat)
    BY IdFacts, SeqMonotonic DEF Lists, Subs
  <2>2. ToSet(adding') = ToSet(adding) \cup {nextId}
    BY <1>2, <2>1, AppendSet DEF CallAddSubscriber
  <2>3. nextId \notin held
    BY <2>1 DEF Adders
  <2> QED
    BY <2>2, <2>3
<1>3. ASSUME NEW c \in Clients, NEW x \in Subs, Unsubscribe(c, x)
      PROVE  ToSet(adding') \subseteq ToSet(adding)
  BY <1>3, WithoutProperties DEF Unsubscribe, Lists
<1>4. ASSUME NEW t \in Threads, FindClosed(t)
      PROVE  ToSet(adding') \subseteq ToSet(adding)
  BY <1>4, WithoutProperties DEF FindClosed, Lists
<1>5. CASE ReducerStep
  <2>1. adding' = adding \/ adding' = <<>>
    BY <1>5 DEF ReducerStep, Recv, Reduce, IssueEffect, UpdateState, Snapshot,
                Notify, DoSubscribe, DoStateFunction, ClearSubscribers, fields
  <2> QED
    BY <2>1, EmptySeq DEF ToSet
<1> QED
  BY <1>1, <1>2, <1>3, <1>4, <1>5, CoreSteps

\* No step loses the AddSubscriber of a subscriber that waits with an Ok.
LEMMA AdditionsStep ==
  ASSUME IInv, Lists, AInv, [Next]_vars
  PROVE  Additions'
<1>1. held \cap ToSet(adding') \subseteq ToSet(adding)
  BY WaitingSteps DEF AInv
<1>2. ASSUME NEW t \in Threads, Send(t)
      PROVE  Additions'
  <2>1. Item(t) \in Items /\ Item(t).op = call[t].op
    BY <1>2, ItemType DEF Send, Sending, IInv, Item
  <2>2. /\ Item(t) \in ToSet(queue')
        /\ \A y \in ToSet(queue) : y.op \notin Actions => y \in ToSet(queue')
    BY <1>2, <2>1, ControlStays DEF Send, IInv, Types
  <2>3. AddSubscriber \notin Actions
    BY StoreAssumption, BackpressureAssumption
  <2>4. /\ UNCHANGED <<adding, rpc>>
        /\ held' = held \cup ({call[t].sub} \ {NoSub})
    BY <1>2 DEF Send, fields, reducer
  <2>5. Adding => Adding'
    BY <2>2, <2>3, <2>4 DEF Adding
  <2>6. call[t].sub # NoSub => Adding'
    BY <2>1, <2>2 DEF Adding, AInv, Adders
  <2> QED
    BY <2>4, <2>5, <2>6 DEF AInv, Additions
<1>3. CASE Recv
  <2>1. /\ queue # <<>> /\ queue' = Tail(queue) /\ rpc = "recv"
        /\ rpc' = Handler(Head(queue).op)
        /\ UNCHANGED held
    BY <1>3 DEF Recv, Channel!Deliver, history
  <2>2. ToSet(queue) = ToSet(queue') \cup {Head(queue)}
    BY <2>1, TailSet DEF IInv, Types
  <2>3. Head(queue).op = AddSubscriber => rpc' = "subscribe"
    BY <2>1, StoreAssumption, BackpressureAssumption DEF Handler
  <2>4. Adding => Adding'
    BY <2>1, <2>2, <2>3 DEF Adding
  <2> QED
    BY <1>1, <2>1, <2>4 DEF AInv, Additions
<1>4. CASE DoSubscribe
  BY <1>4, EmptySeq DEF DoSubscribe, Additions, ToSet
<1>5. ASSUME UNCHANGED <<queue, held>>, rpc = "subscribe" => rpc' = "subscribe"
      PROVE  Additions'
  <2>1. Adding => Adding'
    BY <1>5 DEF Adding
  <2> QED
    BY <1>1, <1>5, <2>1 DEF AInv, Additions
<1>6. CASE DoStateFunction
  <2>1. UNCHANGED <<queue, held>> /\ rpc # "subscribe"
    BY <1>6 DEF DoStateFunction, channel
  <2> QED
    BY <1>5, <2>1
<1> QED
  BY <1>2, <1>3, <1>4, <1>5, <1>6, ReturnSteps

\* Every subscriber whose add_subscriber returned Ok is added before the reducer
\* thread ends, unless it unsubscribes: for any number of them, and whatever
\* the policy drops.
THEOREM EverySubscriberAdded == Spec => []NoneLeftWaiting
<1>1. ASSUME Init PROVE AInv
  <2>1. /\ nextId = 1 /\ held = {} /\ \A t \in Threads : call[t].sub = 0
    BY <1>1 DEF Init, NoCall, NoSub
  <2> QED
    BY <2>1 DEF AInv, Adders, Additions, NoSub
<1>2. IInv /\ Delivery /\ AInv /\ [Next]_vars => AInv'
  BY AddersStep, AdditionsStep DEF AInv, Delivery
<1>3. AInv /\ NothingAfterExit => NoneLeftWaiting
  BY EmptySeq
    DEF AInv, Additions, Adding, NothingAfterExit, NoneLeftWaiting, ToSet
<1> QED
  BY <1>1, <1>2, <1>3, Invariance, DeliveryInvariance, ExitIsLast, PTL
    DEF Spec

-----------------------------------------------------------------------------
(* The types *)

\* What the other invariants say nothing about: the channel and its history ...
ChannelTypes ==
  /\ Len(queue) <= Capacity
  /\ accepted \in Seq(Items) /\ received \in Seq(Items)
  /\ dropped \subseteq Items

\* ... and the pool, the owner of dispatch_tx and the rest of the history.
OtherTypes ==
  /\ poolOpen \in BOOLEAN
  /\ txLock \in Threads \cup {NoOne}
  /\ cur \in Items \cup {NoItem}
  /\ held \subseteq Subs
  /\ stopped \subseteq Clients
  /\ discarded \subseteq Items

\* No step of the store breaks the types of the channel: a queue that is full
\* stays full when the policy makes room for an item.
LEMMA ChannelTypesStep ==
  ASSUME IInv, ChannelTypes, [Next]_vars
  PROVE  ChannelTypes'
<1>1. queue \in Seq(Items) /\ Len(queue) \in Nat /\ Capacity \in Nat
  BY LenProperties, BackpressureAssumption DEF IInv, Types
<1>2. ASSUME NEW t \in Threads, Send(t)
      PROVE  ChannelTypes'
  <2>1. Item(t) \in Items
    BY <1>2, ItemType DEF Send, Sending, IInv
  <2>2. Append(accepted, Item(t)) \in Seq(Items)
    BY <2>1, AppendProperties DEF ChannelTypes
  <2>3. CASE Channel!Accept(Item(t))
    <3>1. /\ Len(queue) < Capacity /\ queue' = Append(queue, Item(t))
          /\ accepted' = Append(accepted, Item(t))
          /\ UNCHANGED <<received, dropped>>
      BY <2>3, ChannelDefs DEF Channel!Accept, HasRoom
    <3>2. Len(Append(queue, Item(t))) = Len(queue) + 1
      BY <1>1, <2>1, AppendProperties
    <3> QED
      BY <1>1, <2>2, <3>1, <3>2 DEF ChannelTypes
  <2>4. CASE Channel!AcceptDropping(Item(t))
    <3>1. PICK i \in Channel!Victims(queue) :
            /\ queue' = Append(Channel!RemoveAt(queue, i), Item(t))
            /\ dropped' = dropped \cup {queue[i]}
      BY <2>4 DEF Channel!AcceptDropping
    <3>2. /\ i \in Victims(queue)
          /\ queue' = Append(RemoveAt(queue, i), Item(t))
      BY <3>1, ChannelDefs
    <3>3. i \in 1 .. Len(queue) /\ queue[i] \in Items
      BY <1>1, <3>2, LenProperties DEF Victims
    <3> DEFINE r == RemoveAt(queue, i)
    <3>4. r \in Seq(Items) /\ Len(r) = Len(queue) - 1
      BY <1>1, <3>3, RemoveAtProperties
    <3> HIDE DEF r
    <3>5. Len(Append(r, Item(t))) = Len(r) + 1
      BY <2>1, <3>4, AppendProperties
    <3>6. Len(queue') <= Capacity
      BY <1>1, <3>2, <3>4, <3>5 DEF ChannelTypes, r
    <3>7. accepted' = Append(accepted, Item(t)) /\ UNCHANGED received
      BY <2>4 DEF Channel!AcceptDropping
    <3> QED
      BY <2>2, <3>1, <3>3, <3>6, <3>7 DEF ChannelTypes
  <2> QED
    BY <1>2, <2>3, <2>4 DEF Send
<1>3. CASE Recv
  <2>1. /\ queue # <<>> /\ queue' = Tail(queue)
        /\ received' = Append(received, Head(queue))
        /\ UNCHANGED <<accepted, dropped>>
    BY <1>3 DEF Recv, Channel!Deliver
  <2>2. Head(queue) \in Items /\ Len(Tail(queue)) = Len(queue) - 1
    BY <1>1, <2>1, HeadTailProperties
  <2>3. Append(received, Head(queue)) \in Seq(Items)
    BY <2>2, AppendProperties DEF ChannelTypes
  <2> QED
    BY <1>1, <2>1, <2>2, <2>3 DEF ChannelTypes
<1>4. CASE UNCHANGED channel
  BY <1>4 DEF ChannelTypes, channel
<1>5. UNCHANGED channel \/ (\E t \in Threads : Send(t)) \/ Recv
  <2>1. ASSUME NEW c \in Clients, ClientCalls(c) \/ PoolStep(c)
        PROVE  UNCHANGED channel
    BY <2>1 DEF ClientCalls, PoolStep, CallDispatch, CallAddSubscriber,
                CallQueryState, CallClose, Unsubscribe, TakePool, Join
  <2>2. ASSUME NEW t \in Threads, ThreadStep(t), ~Send(t)
        PROVE  UNCHANGED channel
    BY <2>2 DEF ThreadStep, LockTx, FindClosed, TakeTx, FindTaken
  <2>3. ASSUME NEW w \in Workers, RunTask(w)
        PROVE  UNCHANGED channel
    BY <2>3 DEF RunTask
  <2>4. CASE ReducerStep /\ ~Recv
    BY <2>4 DEF ReducerStep, Reduce, IssueEffect, UpdateState, Snapshot,
                Notify, DoSubscribe, DoStateFunction, ClearSubscribers
  <2>5. CASE UNCHANGED vars
    BY <2>5 DEF vars
  <2> QED
    BY <2>1, <2>2, <2>3, <2>4, <2>5 DEF Next
<1> QED
  BY <1>2, <1>3, <1>4, <1>5

\* No step of the store breaks the other types.
LEMMA OtherTypesStep ==
  ASSUME IInv, Lists, States, OtherTypes, [Next]_vars
  PROVE  OtherTypes'
<1> USE DEF OtherTypes
<1>1. ASSUME NEW c \in Clients, ClientCalls(c)
      PROVE  OtherTypes'
  BY <1>1 DEF ClientCalls, CallDispatch, CallAddSubscriber, CallQueryState,
              CallClose, Unsubscribe, gates, reducer, history
<1>2. ASSUME NEW t \in Threads, ThreadStep(t)
      PROVE  OtherTypes'
  <2>1. CASE LockTx(t) \/ FindClosed(t) \/ TakeTx(t) \/ FindTaken(t)
    BY <2>1 DEF LockTx, FindClosed, TakeTx, FindTaken, gates, reducer, history
  <2>2. CASE Send(t)
    BY <2>2 DEF Send, Lists, reducer
  <2> QED
    BY <1>2, <2>1, <2>2 DEF ThreadStep
<1>3. ASSUME NEW c \in Clients, PoolStep(c)
      PROVE  OtherTypes'
  BY <1>3 DEF PoolStep, TakePool, Join, StopReturns, gates, reducer
<1>4. ASSUME NEW w \in Workers, RunTask(w)
      PROVE  OtherTypes'
  BY <1>4 DEF RunTask, gates, reducer, history
<1>5. CASE Recv
  BY <1>5, RecvHandles DEF Recv, gates, history
<1>6. CASE IssueEffect
  BY <1>6 DEF IssueEffect, States, gates
<1>7. CASE ReducerStep /\ ~Recv /\ ~IssueEffect
  BY <1>7 DEF ReducerStep, Reduce, UpdateState, Snapshot, Notify, DoSubscribe,
              DoStateFunction, ClearSubscribers, gates, history
<1>8. CASE UNCHANGED vars
  BY <1>8 DEF vars, gates, reducer, history
<1> QED
  BY <1>1, <1>2, <1>3, <1>4, <1>5, <1>6, <1>7, <1>8 DEF Next, ReducerStep

\* Every variable of the store keeps its type, for any clients and number of
\* calls: the dispatch queue within its capacity, every id in one place at most.
THEOREM StoreTypes == Spec => []TypeOK
<1> DEFINE Inv == IInv /\ Delivery /\ QInv
<1>1. ASSUME Init PROVE ChannelTypes /\ OtherTypes
  <2>1. \A S : <<>> \in Seq(S) /\ Len(<<>>) = 0
    BY EmptySeq
  <2> QED
    BY <1>1, <2>1, BackpressureAssumption
      DEF Init, Channel!ChannelInit, ChannelTypes, OtherTypes
<1>2. Inv /\ ChannelTypes /\ OtherTypes /\ [Next]_vars
        => ChannelTypes' /\ OtherTypes'
  BY ChannelTypesStep, OtherTypesStep DEF Delivery
<1>3. Inv /\ ChannelTypes /\ OtherTypes => TypeOK
  <2> SUFFICES ASSUME Inv, ChannelTypes, OtherTypes
               PROVE  TypeOK
    OBVIOUS
  <2>1. /\ subscribers \o adding \in Seq(1 .. nextId - 1)
        /\ IsInjective(subscribers \o adding)
    <3>1. ToSet(subscribers) \cap ToSet(adding) = {}
      BY IdFacts DEF Delivery, Views
    <3> QED
      BY <3>1, ConcatProperties, ConcatSet DEF Delivery, Lists
  <2>2. call \in [Threads -> [kind : Calls \cup {"none"},
                              op : ActionOps \cup {NoOp},
                              sub : Subs \cup {NoSub}]]
    BY DEF Delivery, Lists, IInv, Types, CallTypes
  <2>3. \A t \in Threads :
          txLock = t <=> pc[t] = "sending" /\ call[t].kind \notin Closing
    BY DEF IInv, Locks, Sending, SendsExit
  <2>4. queried \subseteq Queries
    BY RunType DEF QInv, Answers
  <2> QED
    BY <2>1, <2>2, <2>3, <2>4
      DEF TypeOK, Delivery, Lists, Views, States, IInv, Types, ChannelTypes,
          OtherTypes, QInv, Asked
<1> QED
  BY <1>1, <1>2, <1>3, Invariance, DeliveryInvariance, QueriesInvariance, PTL
    DEF Spec

=============================================================================
