------------------------------- MODULE PubSub -------------------------------
(***************************************************************************)
(* The message broker of pdip/integrator/pubsub for one run of Integrator: *)
(* a caller that starts it, publishes and joins; stray threads of a load   *)
(* that publish whenever they like; MessageBrokerWorker, which moves       *)
(* messages from the publish channel to the message channel;               *)
(* EventListener, which calls the subscribed callbacks; and a user thread  *)
(* that subscribes and unsubscribes meanwhile.                             *)
(***************************************************************************)
EXTENDS Naturals, Sequences, FiniteSets

CONSTANTS
  Event, Callback,
  MaxMessages,  \* how many messages may be published (bound)
  MaxChanges,   \* how often subscriptions may change (bound)
  MayRaise,     \* can a callback raise?
  MayHang       \* can a callback never return?

ASSUME BoundAssumption == MaxMessages \in Nat /\ MaxChanges \in Nat
ASSUME CallbackAssumption == MayRaise \in BOOLEAN /\ MayHang \in BOOLEAN

(* A TaskMessage; its number tells equal events apart.                     *)
Message == [no : 1 .. MaxMessages, event : Event, last : BOOLEAN]

VARIABLES
  mpc,         \* where the caller is
  managerUp,   \* is the manager of the two queues running?
  publishQ,    \* publish_queue
  messageQ,    \* message_queue
  wpc,         \* where MessageBrokerWorker is
  hand,        \* the message it has taken: a sequence of at most one
  lpc,         \* where EventListener is
  task,        \* the message it is handling: a sequence of at most one
  listId,      \* the list object it iterates over
  pos,         \* how many callbacks of that list it has called
  subs,        \* subscribers: the list object of each event, 0 if no key
  lists,       \* the contents of every list object made so far
  changes,     \* subscription changes so far
  published,   \* messages the publish channel accepted (history)
  dispatched,  \* messages the listener began to handle (history)
  owed,        \* callbacks subscribed when it began the current one (history)
  served,      \* callbacks it has called for it (history)
  overdue      \* has a join timed out? (history)

callerVars   == <<mpc, managerUp, overdue>>
queueVars    == <<publishQ, messageQ>>
workerVars   == <<wpc, hand>>
listenerVars == <<lpc, task, listId, pos, dispatched, owed, served>>
subVars      == <<subs, lists, changes>>
vars == <<callerVars, queueVars, workerVars, listenerVars, subVars, published>>

Init ==
  /\ mpc = "initialize" /\ managerUp = FALSE /\ overdue = FALSE
  /\ publishQ = <<>> /\ messageQ = <<>>
  /\ wpc = "new" /\ hand = <<>>
  /\ lpc = "new" /\ task = <<>> /\ listId = 0 /\ pos = 0
  /\ dispatched = <<>> /\ owed = {} /\ served = {}
  /\ subs = [e \in Event |-> 0] /\ lists = <<>> /\ changes = 0
  /\ published = <<>>

Contents(e) == IF subs[e] = 0 THEN <<>> ELSE lists[subs[e]]
Elements(s) == {s[i] : i \in DOMAIN s}

-----------------------------------------------------------------------------
(* The caller: initialize, start, publish, join, close.                    *)

Initialize ==
  /\ mpc = "initialize"
  /\ managerUp' = TRUE
  /\ mpc' = "startWorker"
  /\ UNCHANGED <<overdue, queueVars, workerVars, listenerVars, subVars, published>>

StartWorker ==
  /\ mpc = "startWorker"
  /\ wpc' = "get"
  /\ mpc' = "startListener"
  /\ UNCHANGED <<managerUp, overdue, queueVars, hand, listenerVars, subVars, published>>

StartListener ==
  /\ mpc = "startListener"
  /\ lpc' = "get"
  /\ mpc' = "publish"
  /\ UNCHANGED <<managerUp, overdue, queueVars, workerVars, task, listId, pos, dispatched, owed, served, subVars, published>>

Put(e, last) ==
  /\ Len(published) < MaxMessages
  /\ LET m == [no |-> Len(published) + 1, event |-> e, last |-> last] IN
       publishQ' = Append(publishQ, m) /\ published' = Append(published, m)

Publish(e) ==
  /\ mpc = "publish"
  /\ Put(e, FALSE)
  /\ UNCHANGED <<callerVars, messageQ, workerVars, listenerVars, subVars>>

(* The last message of OperationExecution has is_finished set.             *)
PublishLast(e) ==
  /\ mpc = "publish"
  /\ Put(e, TRUE)
  /\ mpc' = "joinWorker"
  /\ UNCHANGED <<managerUp, overdue, messageQ, workerVars, listenerVars, subVars>>

(* The run fails before OperationExecution.start: nobody publishes an end. *)
GiveUp ==
  /\ mpc = "publish"
  /\ mpc' = "joinWorker"
  /\ UNCHANGED <<managerUp, overdue, queueVars, workerVars, listenerVars, subVars, published>>

(* A thread of a load outlives execute and still publishes its logs; once  *)
(* the manager is gone the call raises in that thread.                     *)
PublishStray(e) ==
  /\ managerUp /\ mpc \in {"joinWorker", "joinListener", "close"}
  /\ Put(e, FALSE)
  /\ UNCHANGED <<callerVars, messageQ, workerVars, listenerVars, subVars>>

(* Thread.join(max_join_time) returns when the thread has ended or the     *)
(* time is over.                                                           *)
Ended(pc) == pc \in {"done", "failed"}

JoinWorker ==
  /\ mpc = "joinWorker"
  /\ overdue' = (overdue \/ ~Ended(wpc))
  /\ mpc' = "joinListener"
  /\ UNCHANGED <<managerUp, queueVars, workerVars, listenerVars, subVars, published>>

(* A mistake: not to wait at all.                                          *)
JoinListenerSkipped ==
  /\ mpc = "joinListener"
  /\ mpc' = "close"
  /\ UNCHANGED <<managerUp, overdue, queueVars, workerVars, listenerVars, subVars, published>>

JoinListener ==
  /\ mpc = "joinListener"
  /\ overdue' = (overdue \/ ~Ended(lpc))
  /\ mpc' = "close"
  /\ UNCHANGED <<managerUp, queueVars, workerVars, listenerVars, subVars, published>>

(* A mistake: the stop events are set, the manager is left running.        *)
CloseStopOnly ==
  /\ mpc = "close" /\ mpc' = "closed"
  /\ UNCHANGED <<managerUp, overdue, queueVars, workerVars, listenerVars, subVars, published>>

(* close() sets the stop events, which nobody reads, and shuts the manager *)
(* down.                                                                   *)
Close ==
  /\ mpc = "close"
  /\ managerUp' = FALSE
  /\ mpc' = "closed"
  /\ UNCHANGED <<overdue, queueVars, workerVars, listenerVars, subVars, published>>

CallerNext ==
  \/ Initialize \/ StartWorker \/ StartListener
  \/ \E e \in Event : Publish(e) \/ PublishLast(e)
  \/ GiveUp \/ JoinWorker \/ JoinListener \/ Close

-----------------------------------------------------------------------------
(* MessageBrokerWorker.run                                                 *)

WorkerGet ==
  /\ wpc = "get" /\ managerUp /\ publishQ # <<>>
  /\ hand' = <<Head(publishQ)>>
  /\ publishQ' = Tail(publishQ)
  /\ wpc' = "put"
  /\ UNCHANGED <<callerVars, messageQ, listenerVars, subVars, published>>

(* A mistake: the end overtakes what waits.                                *)
WorkerPutEndFirst ==
  /\ wpc = "put" /\ managerUp
  /\ messageQ' = IF hand[1].last THEN hand \o messageQ ELSE messageQ \o hand
  /\ hand' = <<>>
  /\ wpc' = IF hand[1].last THEN "done" ELSE "get"
  /\ UNCHANGED <<callerVars, publishQ, listenerVars, subVars, published>>

(* The message is passed on before is_finished is looked at.               *)
WorkerPut ==
  /\ wpc = "put" /\ managerUp
  /\ messageQ' = messageQ \o hand
  /\ hand' = <<>>
  /\ wpc' = IF hand[1].last THEN "done" ELSE "get"
  /\ UNCHANGED <<callerVars, publishQ, listenerVars, subVars, published>>

(* Every queue operation raises once the manager is gone.                  *)
WorkerCutOff ==
  /\ wpc \in {"get", "put"} /\ ~managerUp
  /\ wpc' = "failed"
  /\ UNCHANGED <<callerVars, queueVars, hand, listenerVars, subVars, published>>

WorkerNext == WorkerGet \/ WorkerPut \/ WorkerCutOff

-----------------------------------------------------------------------------
(* EventListener.run                                                       *)

ListenerGet ==
  /\ lpc = "get" /\ managerUp /\ messageQ # <<>>
  /\ LET m == Head(messageQ) IN
       /\ task' = <<m>>
       /\ dispatched' = Append(dispatched, m)
       /\ listId' = subs[m.event]
       /\ owed' = Elements(Contents(m.event))
  /\ messageQ' = Tail(messageQ)
  /\ pos' = 0 /\ served' = {}
  /\ lpc' = "dispatch"
  /\ UNCHANGED <<callerVars, publishQ, workerVars, subVars, published>>

(* The list object that is iterated, as it is now.                         *)
Iterated == IF listId = 0 THEN <<>> ELSE lists[listId]

ListenerCall ==
  /\ lpc = "dispatch" /\ pos < Len(Iterated)
  /\ pos' = pos + 1
  /\ served' = served \cup {Iterated[pos + 1]}
  /\ \/ lpc' = "dispatch"
     \/ MayRaise /\ lpc' = "failed"
     \/ MayHang /\ lpc' = "hung"
  /\ UNCHANGED <<callerVars, queueVars, workerVars, task, listId, dispatched, owed, subVars, published>>

(* The end leaves the loop before done(), which needs the manager.         *)
ListenerEnd ==
  /\ lpc = "dispatch" /\ pos >= Len(Iterated)
  /\ lpc' = IF task[1].last THEN "done" ELSE IF managerUp THEN "get" ELSE "failed"
  /\ task' = <<>>
  /\ UNCHANGED <<callerVars, queueVars, workerVars, listId, pos, dispatched, owed, served, subVars, published>>

ListenerCutOff ==
  /\ lpc = "get" /\ ~managerUp
  /\ lpc' = "failed"
  /\ UNCHANGED <<callerVars, queueVars, workerVars, task, listId, pos, dispatched, owed, served, subVars, published>>

ListenerNext == ListenerGet \/ ListenerCall \/ ListenerEnd \/ ListenerCutOff

-----------------------------------------------------------------------------
(* MessageBroker.subscribe and unsubscribe, by one thread at a time.       *)

(* A further callback is appended to the list object itself.               *)
Subscribe(e, c) ==
  /\ changes < MaxChanges /\ changes' = changes + 1
  /\ IF subs[e] = 0
     THEN /\ lists' = Append(lists, <<c>>)
          /\ subs' = [subs EXCEPT ![e] = Len(lists) + 1]
     ELSE /\ lists' = [lists EXCEPT ![subs[e]] = Append(@, c)]
          /\ subs' = subs
  /\ UNCHANGED <<callerVars, queueVars, workerVars, listenerVars, published>>

(* What stays of a list, callback by callback.                             *)
Without(s, c) ==
  LET kept[i \in 0 .. Len(s)] ==
        IF i = 0 THEN <<>>
        ELSE IF s[i] = c THEN kept[i - 1] ELSE Append(kept[i - 1], s[i])
  IN kept[Len(s)]

(* A mistake: the callback is removed from the list object itself.         *)
UnsubscribeInPlace(e, c) ==
  /\ changes < MaxChanges /\ changes' = changes + 1
  /\ subs[e] # 0
  /\ lists' = [lists EXCEPT ![subs[e]] = Without(@, c)]
  /\ UNCHANGED <<subs, callerVars, queueVars, workerVars, listenerVars, published>>

(* The event gets a new list object without the callback.                  *)
Unsubscribe(e, c) ==
  /\ changes < MaxChanges /\ changes' = changes + 1
  /\ subs[e] # 0
  /\ lists' = Append(lists, Without(lists[subs[e]], c))
  /\ subs' = [subs EXCEPT ![e] = Len(lists) + 1]
  /\ UNCHANGED <<callerVars, queueVars, workerVars, listenerVars, published>>

Next ==
  \/ CallerNext \/ WorkerNext \/ ListenerNext
  \/ \E e \in Event : PublishStray(e)
  \/ \E e \in Event, c \in Callback : Subscribe(e, c) \/ Unsubscribe(e, c)

(* The three threads are scheduled, a join is over after max_join_time,    *)
(* and a callback returns unless it hangs.                                 *)
Fairness == WF_vars(CallerNext) /\ WF_vars(WorkerNext) /\ WF_vars(ListenerNext)

Spec     == Init /\ [][Next]_vars
FairSpec == Spec /\ Fairness

-----------------------------------------------------------------------------
TypeOK ==
  /\ mpc \in {"initialize", "startWorker", "startListener", "publish",
              "joinWorker", "joinListener", "close", "closed"}
  /\ managerUp \in BOOLEAN /\ overdue \in BOOLEAN
  /\ publishQ \in Seq(Message) /\ messageQ \in Seq(Message)
  /\ wpc \in {"new", "get", "put", "done", "failed"}
  /\ hand \in Seq(Message) /\ (wpc = "put" => Len(hand) = 1)
  /\ lpc \in {"new", "get", "dispatch", "hung", "done", "failed"}
  /\ task \in Seq(Message) /\ (lpc = "dispatch" => Len(task) = 1)
  /\ lists \in Seq(Seq(Callback))
  /\ subs \in [Event -> 0 .. Len(lists)] /\ listId \in 0 .. Len(lists)
  /\ pos \in 0 .. Len(Iterated)
  /\ changes \in 0 .. MaxChanges
  /\ published \in Seq(Message) /\ dispatched \in Seq(Message)
  /\ owed \subseteq Callback /\ served \subseteq Callback

(* When both joins return in time after an end was published, and no       *)
(* callback raised, every message up to the end has been handled.          *)
Drained ==
  (/\ mpc \in {"close", "closed"} /\ ~overdue /\ lpc # "failed"
   /\ \E i \in DOMAIN published : published[i].last)
  => \E i \in DOMAIN published :
       published[i].last /\ dispatched = SubSeq(published, 1, i)

(* Whoever is subscribed when a message's turn comes is called for it,     *)
(* whatever is subscribed or unsubscribed while the callbacks run: only a  *)
(* callback that raises or hangs can cut the round short.                  *)
EveryoneServed ==
  [][lpc = "dispatch" /\ lpc' \in {"get", "done"} => owed \subseteq served]_vars

(* The broker delivers as EventDelivery promises.                          *)
Delivery == INSTANCE EventDelivery WITH
  accepted <- published, delivered <- dispatched

DeliverySpec == Delivery!Spec

(* The caller gets through join and close, even if a callback never        *)
(* returns or nobody publishes an end; and then both threads end, save a   *)
(* listener whose callback never returns.                                  *)
EveryoneEnds == <>(mpc = "closed" /\ Ended(wpc) /\ (Ended(lpc) \/ lpc = "hung"))
=============================================================================
