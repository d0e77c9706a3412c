------------------------------ MODULE MpscQueue ------------------------------
(***************************************************************************)
(* cordyceps/src/mpsc_queue.rs: a linked queue with many producers and one *)
(* consumer at a time.  A producer swaps the head and then links the node  *)
(* it displaced to its own; in between, the chain is broken.  The stub     *)
(* keeps the queue from ever being without a node.  One step per access to *)
(* an atomic; the store to `next` of a node that only its producer can     *)
(* reach is merged with the swap.                                          *)
(***************************************************************************)
EXTENDS Naturals, Sequences, FiniteSets

CONSTANTS Elements, Producers, Consumers,
          Stub, Null  \* MpscQueue::stub, the null pointer

Nodes == Elements \cup {Stub}
Threads == Producers \cup Consumers

VARIABLES
  head, tail,    \* MpscQueue::head, tail
  next,          \* Links::next of every node
  hasConsumer,   \* MpscQueue::has_consumer
  free,          \* elements that no queue and no producer owns
  qpc,           \* what each thread does next
  node,          \* the node a thread works on: to enqueue, or the tail_node
  prev,          \* what the swap of the head returned
  last, result   \* the last element taken, and what the last dequeue returned

vars == <<head, tail, next, hasConsumer, free, qpc, node, prev, last, result>>

Init ==
  /\ head = Stub /\ tail = Stub
  /\ next = [n \in Nodes |-> Null]
  /\ hasConsumer = FALSE
  /\ free = Elements
  /\ qpc = [t \in Threads |-> "idle"]
  /\ node = [t \in Threads |-> Null]
  /\ prev = [t \in Threads |-> Null]
  /\ last = Null /\ result = Null

GoTo(t, l) == qpc' = [qpc EXCEPT ![t] = l]

-----------------------------------------------------------------------------
(* enqueue_inner: a producer enqueues an element, the consumer the stub. *)

Swap(t, n, then) ==
  /\ next' = [next EXCEPT ![n] = Null]
  /\ prev' = [prev EXCEPT ![t] = head]
  /\ head' = n
  /\ GoTo(t, then)

LinkTo(t, n, then) ==
  /\ next' = [next EXCEPT ![prev[t]] = n]
  /\ prev' = [prev EXCEPT ![t] = Null]
  /\ GoTo(t, then)

Enqueue(p) ==
  /\ qpc[p] = "idle"
  /\ \E e \in free :
       /\ free' = free \ {e}
       /\ node' = [node EXCEPT ![p] = e]
       /\ Swap(p, e, "link")
  /\ UNCHANGED <<tail, hasConsumer, last, result>>

Link(p) ==
  /\ qpc[p] = "link"
  /\ LinkTo(p, node[p], "idle")
  /\ node' = [node EXCEPT ![p] = Null]
  /\ UNCHANGED <<head, tail, hasConsumer, free, last, result>>

-----------------------------------------------------------------------------
(* try_dequeue and try_dequeue_unchecked *)

BusyNot == TRUE  \* mutant of NotBusy: consumers do not exclude each other
NotBusy == ~hasConsumer

(* try_dequeue, or try_consume and consume; Busy changes nothing. *)
TryDequeue(c) ==
  /\ qpc[c] = "idle"
  /\ NotBusy
  /\ hasConsumer' = TRUE
  /\ result' = Null
  /\ GoTo(c, "tail")
  /\ UNCHANGED <<head, tail, next, free, node, prev, last>>

Return(c, r) == result' = r /\ GoTo(c, "release")

(* Skip the stub, if the queue starts with it. *)
LoadTail(c) ==
  /\ qpc[c] = "tail"
  /\ LET n == next[tail] IN
     IF tail # Stub
     THEN node' = [node EXCEPT ![c] = tail] /\ GoTo(c, "next") /\ UNCHANGED <<tail, result>>
     ELSE IF n = Null
     THEN Return(c, "Empty") /\ UNCHANGED <<tail, node>>
     ELSE tail' = n /\ node' = [node EXCEPT ![c] = n] /\ GoTo(c, "next") /\ UNCHANGED result
  /\ UNCHANGED <<head, next, hasConsumer, free, prev, last>>

(* The tail's element is handed out when it has a successor. *)
Take(c, failed) ==
  LET n == next[node[c]] IN
  IF n # Null
  THEN /\ tail' = n
       /\ last' = node[c]
       /\ free' = free \cup {node[c]}
       /\ Return(c, node[c])
  ELSE failed /\ UNCHANGED <<tail, last, free>>

LoadNext(c) ==
  /\ qpc[c] = "next"
  /\ Take(c, GoTo(c, "head") /\ UNCHANGED result)
  /\ UNCHANGED <<head, next, hasConsumer, node, prev>>

LastIsAny(n) == TRUE  \* mutant of IsHead: the inconsistent state is not noticed
IsHead(n) == n = head

(* No successor: the queue is inconsistent, or this is its last element. *)
LoadHead(c) ==
  /\ qpc[c] = "head"
  /\ IF IsHead(node[c]) THEN GoTo(c, "stub") /\ UNCHANGED result ELSE Return(c, "Inconsistent")
  /\ UNCHANGED <<head, tail, next, hasConsumer, free, node, prev, last>>

(* The stub goes behind the last element. *)
EnqueueStub(c) ==
  /\ qpc[c] = "stub"
  /\ Swap(c, Stub, "linkStub")
  /\ UNCHANGED <<tail, hasConsumer, free, node, last, result>>

LinkStub(c) ==
  /\ qpc[c] = "linkStub"
  /\ LinkTo(c, Stub, "again")
  /\ UNCHANGED <<head, tail, hasConsumer, free, node, last, result>>

SecondLook(c) == Take(c, Return(c, "Empty"))

LoadNextAgain(c) ==
  /\ qpc[c] = "again"
  /\ SecondLook(c)
  /\ UNCHANGED <<head, next, hasConsumer, node, prev>>

(* Consumer::dequeue loops while the queue is inconsistent; try_dequeue, and *)
(* dropping the Consumer, releases the queue.                                *)
Again(c) ==
  /\ qpc[c] = "release"
  /\ node' = [node EXCEPT ![c] = Null]
  /\ result' = Null
  /\ GoTo(c, "tail")
  /\ UNCHANGED <<head, tail, next, hasConsumer, free, prev, last>>

Release(c) ==
  /\ qpc[c] = "release"
  /\ hasConsumer' = FALSE
  /\ node' = [node EXCEPT ![c] = Null]
  /\ GoTo(c, "idle")
  /\ UNCHANGED <<head, tail, next, free, prev, last, result>>

Produce(p) == Enqueue(p) \/ Link(p)
Consume(c) ==
  \/ TryDequeue(c) \/ LoadTail(c) \/ LoadNext(c) \/ LoadHead(c) \/ EnqueueStub(c)
  \/ LinkStub(c) \/ LoadNextAgain(c) \/ Again(c) \/ Release(c)

Next == (\E p \in Producers : Produce(p)) \/ (\E c \in Consumers : Consume(c))

Spec == Init /\ [][Next]_vars

-----------------------------------------------------------------------------
(* Properties *)

(* The node that comes after each one once the links under way are stored. *)
Linking(n) == {t \in Threads : prev[t] = n}
Successor ==
  [n \in Nodes \cup {Null} |->
     IF n = Null THEN Null
     ELSE IF Linking(n) = {} THEN next[n]
     ELSE LET t == CHOOSE t \in Linking(n) : TRUE IN IF t \in Producers THEN node[t] ELSE Stub]

(* The nodes from the tail on, in order. *)
Chain ==
  LET nth[i \in 1..Cardinality(Nodes)] == IF i = 1 THEN tail ELSE Successor[nth[i - 1]]
  IN SelectSeq([i \in 1..Cardinality(Nodes) |-> nth[i]], LAMBDA n : n # Null)
Items == SelectSeq(Chain, LAMBDA n : n # Stub)

(* The queue is a FIFO queue: elements come out in the order in which the     *)
(* producers swapped the head, each once, whatever the state of the links.   *)
Fifo == INSTANCE FifoQueue WITH items <- Items, Nothing <- Null
IsFifo == Fifo!Spec

(* The chain from the tail ends at the head and holds each element that is    *)
(* not free once, and the stub unless it was skipped: nothing is lost, or    *)
(* leaked when the queue is dropped.                                         *)
ChainIsComplete ==
  /\ Chain[Len(Chain)] = head
  /\ \A i, j \in DOMAIN Chain : Chain[i] = Chain[j] => i = j
  /\ {Items[i] : i \in DOMAIN Items} = Elements \ free

(* enqueue_inner writes to the node it displaced, long after the swap: that   *)
(* node has not been handed out, let alone freed or enqueued again.          *)
LinksArePending ==
  \A t \in Threads : prev[t] # Null =>
    /\ prev[t] \notin free
    /\ next[prev[t]] = Null
    /\ Linking(prev[t]) = {t}

(* Both: the consumer frees no node that somebody still has to reach.        *)
QueueIsConnected == ChainIsComplete /\ LinksArePending

=============================================================================
