---------------------------- MODULE SemaphoreProofs ----------------------------
(***************************************************************************)
(* Proofs about the semaphore, for any number of tasks, any sizes and any  *)
(* number of permits: permits are conserved, those that are free are never *)
(* kept from a waiter, and the list holds the futures that wait.           *)
(***************************************************************************)
EXTENDS Semaphore, ListLemmas, FiniteSetTheorems, TLAPS

Future == [want : Nat, rem : Nat, queued : BOOLEAN]
Locals == [need : Nat, curr : Nat, acq : Nat, poll : BOOLEAN]
Pcs == {"idle", "future", "load", "take", "settle", "try", "add", "wake", "close", "panicOverflow"}

Typed ==
  /\ permits \in Nat /\ total \in Int /\ changes \in Nat
  /\ queue \in Seq(Tasks)
  /\ closed \in BOOLEAN
  /\ pc \in [Tasks -> Pcs]
  /\ fut \in [Tasks -> Future]
  /\ loc \in [Tasks -> Locals]
  /\ hand \in [Tasks -> SUBSET Tasks]
  /\ held \in [Tasks -> Nat]
  /\ notified \in [Tasks -> BOOLEAN]

(* A future that has not been waiting has collected nothing. *)
FutureOk(t) ==
  /\ fut[t].want > 0 /\ fut[t].rem <= fut[t].want
  /\ ~closed /\ ~fut[t].queued => fut[t].rem = fut[t].want
  /\ held[t] = 0 /\ ~loc[t].poll

(* What a poll read of the waiter may be stale, but never too small. *)
NeedOk(t) == IF fut[t].queued THEN loc[t].need >= fut[t].rem ELSE loc[t].need = fut[t].want

(* Where a task is in its operation, and what it has in its hands there. *)
Stage(t) ==
  /\ fut[t].rem <= fut[t].want
  /\ pc[t] \in {"idle", "close"} => fut[t] = NoFuture /\ loc[t] = NoLocals
  /\ pc[t] = "close" => closed
  /\ pc[t] \in {"future", "load", "take", "settle"} => FutureOk(t)
  /\ pc[t] = "future" => loc[t] = NoLocals
  /\ pc[t] \in {"load", "take"} => loc[t].acq = 0 /\ NeedOk(t)
  /\ pc[t] = "settle" => fut[t].queued /\ loc[t].acq >= fut[t].rem
  /\ pc[t] = "try" => /\ fut[t] = NoFuture /\ held[t] = 0 /\ loc[t].need > 0
                      /\ loc[t].acq = 0 /\ ~loc[t].poll
  /\ pc[t] \in {"add", "wake", "panicOverflow"} => held[t] = 0
  /\ pc[t] \in {"add", "wake"} /\ loc[t].poll => fut[t].queued /\ fut[t].rem = 0
  /\ pc[t] \in {"add", "wake"} /\ ~loc[t].poll =>
       fut[t] = NoFuture /\ loc[t] = [NoLocals EXCEPT !.acq = loc[t].acq]
  /\ ~closed => loc[t].curr # CLOSED /\ pc[t] # "panicOverflow"
  /\ ~closed /\ pc[t] = "settle" => fut[t].rem = 0

StageInv == \A t \in Tasks : Stage(t)

(* As long as the semaphore is open, exactly the waiters that need permits    *)
(* are linked, and there are no free permits meanwhile.                       *)
Needs(t) == fut[t].queued /\ fut[t].rem > 0
ListInv ==
  /\ Distinct(queue)
  /\ ~closed => /\ \A t \in Tasks : t \in Elems(queue) <=> Needs(t)
                /\ permits > 0 => queue = <<>>

(* The conservation of permits, and that their number is within its limit.    *)
CountInv ==
  /\ PermitsAreConserved
  /\ ~closed => total \in 0..MAX_PERMITS

IInv == Typed /\ StageInv /\ ListInv /\ CountInv /\ WaitersAreReachable

-----------------------------------------------------------------------------
(* Sums. *)

Pairs(f) == UNION {{t} \X (1..f[t]) : t \in Tasks}

(* Tasks are finitely many, so the sum of their shares is a number. *)
LEMMA SumIsFinite ==
  ASSUME NEW f \in [Tasks -> Nat]
  PROVE  IsFiniteSet(Pairs(f)) /\ Sum(f) = Cardinality(Pairs(f)) /\ Sum(f) \in Nat
<1> DEFINE F == [t \in Tasks |-> {t} \X (1..f[t])]
           R == {{t} \X (1..f[t]) : t \in Tasks}
<1>1. F \in Surjection(Tasks, R)
  BY Zenon DEF Surjection
<1>2. IsFiniteSet(R)
  BY <1>1, SemaphoreAssumption, FS_Surjection
<1>3. ASSUME NEW t \in Tasks PROVE IsFiniteSet({t} \X (1..f[t]))
  <2>1. f[t] \in Int
    OBVIOUS
  <2>2. IsFiniteSet(1..f[t])
    BY <2>1, FS_Interval
  <2>3. IsFiniteSet({t})
    BY FS_Singleton
  <2> QED
    BY <2>2, <2>3, FS_Product
<1>4. IsFiniteSet(Pairs(f))
  BY <1>2, <1>3, FS_UNION, Zenon DEF Pairs
<1> QED
  BY <1>4, FS_CardinalityType DEF Sum, Pairs

(* The share of one task can be split off. *)
LEMMA SumSplit ==
  ASSUME NEW f \in [Tasks -> Nat], NEW t \in Tasks
  PROVE  Sum(f) = Sum([f EXCEPT ![t] = 0]) + f[t]
<1> DEFINE g == [f EXCEPT ![t] = 0]
           B == {t} \X (1..f[t])
<1>1. g \in [Tasks -> Nat]
  OBVIOUS
<1>2. IsFiniteSet(B) /\ Cardinality(B) = f[t]
  <2>1. IsFiniteSet(1..f[t]) /\ Cardinality(1..f[t]) = f[t]
    BY FS_Interval
  <2>2. IsFiniteSet({t}) /\ Cardinality({t}) = 1
    BY FS_Singleton, Zenon
  <2> QED
    BY <2>1, <2>2, FS_Product
<1>3. Pairs(f) = Pairs(g) \cup B
  <2>1. \A u \in Tasks : u # t => g[u] = f[u]
    OBVIOUS
  <2>2. g[t] = 0 /\ 1..0 = {}
    OBVIOUS
  <2> QED
    BY <2>1, <2>2 DEF Pairs
<1>4. Pairs(g) \cap B = {}
  <2>1. g[t] = 0 /\ 1..0 = {}
    OBVIOUS
  <2> QED
    BY <2>1 DEF Pairs
<1>5. Cardinality(Pairs(f)) = Cardinality(Pairs(g)) + f[t]
  <2>1. IsFiniteSet(Pairs(g)) /\ Cardinality(Pairs(g)) \in Nat
    BY <1>1, SumIsFinite, Zenon
  <2>2. Cardinality(Pairs(g) \cap B) = 0
    BY <1>4, FS_EmptySet, Zenon
  <2> HIDE DEF g, B
  <2>3. Cardinality(Pairs(g) \cup B) = Cardinality(Pairs(g)) + Cardinality(B) - Cardinality(Pairs(g) \cap B)
    BY <1>2, <2>1, FS_Union
  <2> QED
    BY <1>2, <1>3, <2>1, <2>2, <2>3
<1> QED
  BY <1>1, <1>5, SumIsFinite, Zenon

(* What a change of one task's share does to the sum. *)
LEMMA SumStep ==
  ASSUME NEW f \in [Tasks -> Nat], NEW g \in [Tasks -> Nat], NEW t \in Tasks,
         \A u \in Tasks : u # t => g[u] = f[u]
  PROVE  Sum(g) = Sum(f) + g[t] - f[t]
<1>1. [f EXCEPT ![t] = 0] = [g EXCEPT ![t] = 0]
  BY ZenonT(20)
<1>2. Sum(f) = Sum([f EXCEPT ![t] = 0]) + f[t] /\ Sum(g) = Sum([g EXCEPT ![t] = 0]) + g[t]
  BY SumSplit, Zenon
<1>3. [f EXCEPT ![t] = 0] \in [Tasks -> Nat]
  OBVIOUS
<1>4. Sum([f EXCEPT ![t] = 0]) \in Nat
  BY <1>3, SumIsFinite, Zenon
<1> QED
  BY <1>1, <1>2, <1>4

(* No share exceeds the sum. *)
LEMMA SumBound ==
  ASSUME NEW f \in [Tasks -> Nat], NEW t \in Tasks
  PROVE  f[t] <= Sum(f)
<1> DEFINE g == [f EXCEPT ![t] = 0]
<1>1. g \in [Tasks -> Nat]
  OBVIOUS
<1>2. Sum(g) \in Nat /\ Sum(f) = Sum(g) + f[t]
  BY <1>1, SumSplit, SumIsFinite, Zenon
<1> QED
  BY <1>2

(* Shares of nothing add up to nothing. *)
LEMMA SumOfZeros == Sum([t \in Tasks |-> 0]) = 0
<1> DEFINE z == [t \in Tasks |-> 0]
<1>1. 1..0 = {}
  OBVIOUS
<1>2. Pairs(z) = {}
  BY <1>1 DEF Pairs
<1>3. z \in [Tasks -> Nat]
  OBVIOUS
<1> QED
  BY <1>2, <1>3, SumIsFinite, FS_EmptySet

-----------------------------------------------------------------------------
(* Conservation. *)

(* What a future has collected that waits, or is about to complete. *)
Gain(t) == IF fut[t].queued THEN Collected(t) ELSE 0
Gains == [t \in Tasks |-> Gain(t)]
Transit == [t \in Tasks |-> loc[t].acq]

(* A poll that gives back its surplus is that of a queued future, so that   *)
(* the permits add up without the last term.                                *)
LEMMA ConservedIs ==
  Typed /\ StageInv =>
    /\ Gains \in [Tasks -> Nat] /\ Transit \in [Tasks -> Nat]
    /\ PermitsAreConserved <=> (~closed => permits + Sum(held) + Sum(Gains) + Sum(Transit) = total)
<1> SUFFICES ASSUME Typed, StageInv
             PROVE  /\ Gains \in [Tasks -> Nat] /\ Transit \in [Tasks -> Nat]
                    /\ PermitsAreConserved <=> (~closed => permits + Sum(held) + Sum(Gains) + Sum(Transit) = total)
  OBVIOUS
<1>1. ASSUME NEW t \in Tasks PROVE Gain(t) \in Nat /\ loc[t].acq \in Nat
  <2>1. fut[t].rem \in Nat /\ fut[t].want \in Nat /\ loc[t].acq \in Nat
    BY DEF Typed, Future, Locals
  <2>2. fut[t].rem <= fut[t].want
    BY Zenon DEF StageInv, Stage
  <2> QED
    BY <2>1, <2>2 DEF Gain, Collected
<1>2. Gains \in [Tasks -> Nat] /\ Transit \in [Tasks -> Nat]
  BY <1>1 DEF Gains, Transit
<1>3. Sum(held) \in Nat /\ Sum(Gains) \in Nat /\ Sum(Transit) \in Nat /\ permits \in Nat
  BY <1>2, SumIsFinite DEF Typed
<1>4. ASSUME ~closed
      PROVE  [t \in Tasks |-> IF loc[t].poll /\ ~fut[t].queued THEN fut[t].want ELSE 0] = [t \in Tasks |-> 0]
  <2>1. ASSUME NEW t \in Tasks, loc[t].poll PROVE fut[t].queued
    <3>1. pc[t] \in Pcs
      BY DEF Typed
    <3>2. ~NoLocals.poll
      BY DEF NoLocals
    <3>3. pc[t] \in {"add", "wake"}
      BY <1>4, <2>1, <3>1, <3>2, Zenon DEF StageInv, Stage, FutureOk, Pcs
    <3> QED
      BY <2>1, <3>3, Zenon DEF StageInv, Stage
  <2> QED
    BY <2>1
<1>5. [t \in Tasks |-> IF fut[t].queued THEN Collected(t) ELSE 0] = Gains
  BY DEF Gains, Gain
<1>6. ASSUME ~closed
      PROVE  PermitsAreConserved <=> permits + Sum(held) + Sum(Gains) + Sum(Transit) + 0 = total
  BY <1>4, <1>5, <1>6, SumOfZeros DEF PermitsAreConserved, Transit
<1>7. ASSUME closed PROVE PermitsAreConserved
  BY <1>7 DEF PermitsAreConserved
<1> QED
  BY <1>2, <1>3, <1>6, <1>7

(* A step that moves permits between the semaphore, one task and one waiter *)
(* conserves them.                                                          *)
LEMMA Conserve ==
  ASSUME Typed, StageInv, CountInv, Typed', StageInv',
         NEW t \in Tasks, NEW w \in Tasks,
         \A u \in Tasks : u # t => held'[u] = held[u] /\ loc'[u].acq = loc[u].acq,
         \A u \in Tasks : u # w => Gain(u)' = Gain(u),
         ~closed' => /\ ~closed
                     /\ permits' + held'[t] + Gain(w)' + loc'[t].acq - total'
                          = permits + held[t] + Gain(w) + loc[t].acq - total
  PROVE  PermitsAreConserved'
<1>1. /\ Gains \in [Tasks -> Nat] /\ Transit \in [Tasks -> Nat]
      /\ PermitsAreConserved <=> (~closed => permits + Sum(held) + Sum(Gains) + Sum(Transit) = total)
  BY ConservedIs
<1>2. /\ Gains' \in [Tasks -> Nat] /\ Transit' \in [Tasks -> Nat]
      /\ PermitsAreConserved' <=> (~closed' => permits' + Sum(held') + Sum(Gains') + Sum(Transit') = total')
  <2>1. (/\ Gains \in [Tasks -> Nat] /\ Transit \in [Tasks -> Nat]
         /\ PermitsAreConserved <=> (~closed => permits + Sum(held) + Sum(Gains) + Sum(Transit) = total))'
    BY ConservedIs, PTL
  <2> QED
    BY <2>1
<1>3. held \in [Tasks -> Nat] /\ held' \in [Tasks -> Nat] /\ permits \in Nat /\ permits' \in Nat
      /\ total \in Int /\ total' \in Int
  BY DEF Typed
<1>4. Sum(held') = Sum(held) + held'[t] - held[t]
  BY <1>3, SumStep
<1>5. Sum(Gains') = Sum(Gains) + Gains'[w] - Gains[w]
  <2>1. \A u \in Tasks : u # w => Gains'[u] = Gains[u]
    BY DEF Gains
  <2> QED
    BY <1>1, <1>2, <2>1, SumStep
<1>6. Sum(Transit') = Sum(Transit) + Transit'[t] - Transit[t]
  <2>1. \A u \in Tasks : u # t => Transit'[u] = Transit[u]
    BY DEF Transit
  <2> QED
    BY <1>1, <1>2, <2>1, SumStep
<1>7. Sum(held) \in Nat /\ Sum(Gains) \in Nat /\ Sum(Transit) \in Nat
  BY <1>1, <1>3, SumIsFinite
<1>8. /\ Gains'[w] = Gain(w)' /\ Gains[w] = Gain(w)
      /\ Transit'[t] = loc'[t].acq /\ Transit[t] = loc[t].acq
  BY DEF Gains, Transit
<1>9. Gain(w) \in Nat /\ Gain(w)' \in Nat /\ loc[t].acq \in Nat /\ loc'[t].acq \in Nat
  BY <1>1, <1>2, <1>8
<1>10. held[t] \in Nat /\ held'[t] \in Nat
  BY <1>3
<1>11. ASSUME ~closed' PROVE permits' + Sum(held') + Sum(Gains') + Sum(Transit') = total'
  <2>1. permits + Sum(held) + Sum(Gains) + Sum(Transit) = total
    BY <1>1, <1>11 DEF CountInv
  <2>2. permits' + held'[t] + Gain(w)' + loc'[t].acq - total'
          = permits + held[t] + Gain(w) + loc[t].acq - total
    BY <1>11
  <2>3. /\ Sum(held') = Sum(held) + held'[t] - held[t]
        /\ Sum(Gains') = Sum(Gains) + Gain(w)' - Gain(w)
        /\ Sum(Transit') = Sum(Transit) + loc'[t].acq - loc[t].acq
    BY <1>4, <1>5, <1>6, <1>8
  <2> HIDE DEF Gains, Gain, Transit
  <2> QED
    BY <1>3, <1>7, <1>9, <1>10, <2>1, <2>2, <2>3
<1> QED
  BY <1>2, <1>11

-----------------------------------------------------------------------------
(* Steps of one task. *)

(* The step is that of t alone. *)
Others(t) ==
  \A u \in Tasks : u # t =>
    pc'[u] = pc[u] /\ fut'[u] = fut[u] /\ loc'[u] = loc[u] /\ held'[u] = held[u]

(* A future that waits is linked, notified or about to be. *)
Reach(t) ==
  pc[t] = "future" => \/ \E i \in DOMAIN queue : queue[i] = t
                      \/ notified[t] \/ \E u \in Tasks : t \in hand[u]

(* Stage says nothing of a task but its own state and whether the semaphore *)
(* is open.                                                                 *)
LEMMA StageOfOthers ==
  ASSUME StageInv, NEW t \in Tasks, Others(t), Stage(t)', closed' = closed \/ closed'
  PROVE  StageInv'
<1> SUFFICES ASSUME NEW u \in Tasks, u # t PROVE Stage(u)'
  BY DEF StageInv
<1>1. pc'[u] = pc[u] /\ fut'[u] = fut[u] /\ loc'[u] = loc[u] /\ held'[u] = held[u]
  BY DEF Others
<1>2. Stage(u)
  BY DEF StageInv
<1> QED
  BY <1>1, <1>2 DEF Stage, FutureOk, NeedOk

(* The others' permits and needs are what they were. *)
LEMMA OthersKeep ==
  ASSUME NEW t \in Tasks, Others(t)
  PROVE  /\ \A u \in Tasks : u # t => held'[u] = held[u] /\ loc'[u].acq = loc[u].acq
         /\ \A u \in Tasks : u # t => Gain(u)' = Gain(u)
         /\ \A u \in Tasks : u # t => (Needs(u)' <=> Needs(u))
BY DEF Others, Gain, Collected, Needs

(* There are as many permits as there should be, and not fewer than none. *)
LEMMA TotalIsNat ==
  Typed /\ StageInv /\ PermitsAreConserved /\ ~closed => total \in Nat /\ permits <= total
<1> SUFFICES ASSUME Typed, StageInv, PermitsAreConserved, ~closed
             PROVE  total \in Nat /\ permits <= total
  OBVIOUS
<1>1. /\ Gains \in [Tasks -> Nat] /\ Transit \in [Tasks -> Nat]
      /\ PermitsAreConserved <=> (~closed => permits + Sum(held) + Sum(Gains) + Sum(Transit) = total)
  BY ConservedIs
<1>2. Sum(held) \in Nat /\ Sum(Gains) \in Nat /\ Sum(Transit) \in Nat /\ permits \in Nat
  BY <1>1, SumIsFinite DEF Typed
<1> QED
  BY <1>1, <1>2

(* What the steps of one task that leave the list alone have in common. *)
LEMMA LocalStep ==
  ASSUME IInv, Typed', NEW t \in Tasks, Others(t), Stage(t)', Reach(t)',
         closed' = closed, queue' = queue, hand' = hand,
         \A u \in Tasks : u # t => notified'[u] = notified[u],
         ~closed => /\ Needs(t)' <=> Needs(t)
                    /\ permits' <= permits \/ queue = <<>>
                    /\ permits' + held'[t] + Gain(t)' + loc'[t].acq - total'
                         = permits + held[t] + Gain(t) + loc[t].acq - total
                    /\ total' <= MAX_PERMITS
  PROVE  IInv'
<1>1. StageInv'
  BY StageOfOthers DEF IInv
<1>2. ListInv'
  <2> SUFFICES ASSUME ~closed
               PROVE  /\ \A u \in Tasks : u \in Elems(queue) <=> Needs(u)'
                      /\ permits' > 0 => queue = <<>>
    BY DEF IInv, ListInv
  <2>1. /\ \A u \in Tasks : u \in Elems(queue) <=> Needs(u)
        /\ permits > 0 => queue = <<>>
    BY DEF IInv, ListInv
  <2>2. \A u \in Tasks : Needs(u)' <=> Needs(u)
    BY OthersKeep
  <2>3. permits \in Nat /\ permits' \in Nat /\ (permits' <= permits \/ queue = <<>>)
    BY DEF IInv, Typed
  <2> QED
    BY <2>1, <2>2, <2>3
<1>3. PermitsAreConserved'
  BY <1>1, OthersKeep, Conserve DEF IInv
<1>4. CountInv'
  <2>1. (~closed => total \in Nat /\ permits <= total)'
    BY <1>1, <1>3, TotalIsNat, PTL
  <2>2. MAX_PERMITS \in Int
    BY SemaphoreAssumption DEF MAX_PERMITS
  <2>3. ~closed' => total' \in 0..MAX_PERMITS
    BY <2>1, <2>2
  <2> QED
    BY <1>3, <2>3 DEF CountInv
<1>5. WaitersAreReachable'
  <2> SUFFICES ASSUME NEW u \in Tasks, u # t PROVE Reach(u)'
    BY DEF WaitersAreReachable, Reach
  <2>1. Reach(u)
    BY DEF IInv, WaitersAreReachable, Reach
  <2> QED
    BY <2>1 DEF Reach, Others
<1> QED
  BY <1>1, <1>2, <1>4, <1>5 DEF IInv

(* What the invariant says of the numbers a step of t computes with. *)
LEMMA Numbers ==
  ASSUME IInv, NEW t \in Tasks
  PROVE  /\ permits \in Nat /\ total \in Int /\ held[t] \in Nat
         /\ (~closed => total <= MAX_PERMITS /\ permits <= MAX_PERMITS /\ permits # CLOSED)
         /\ fut[t].want \in Nat /\ fut[t].rem \in Nat /\ fut[t].queued \in BOOLEAN
         /\ loc[t].need \in Nat /\ loc[t].curr \in Nat /\ loc[t].acq \in Nat
         /\ loc[t].poll \in BOOLEAN
         /\ fut[t].rem <= fut[t].want /\ Gain(t) \in Nat
         /\ Stage(t) /\ Reach(t)
<1>1. total \in Int /\ (~closed => total <= MAX_PERMITS /\ permits <= MAX_PERMITS /\ permits # CLOSED)
  <2>1. total \in Int /\ permits \in Nat
    BY DEF IInv, Typed
  <2>2. ~closed => total \in 0..MAX_PERMITS /\ permits <= total
    BY TotalIsNat DEF IInv, CountInv
  <2> QED
    BY <2>1, <2>2, SemaphoreAssumption DEF MAX_PERMITS, CLOSED
<1>2. permits \in Nat /\ held[t] \in Nat /\ fut[t] \in Future /\ loc[t] \in Locals
  BY DEF IInv, Typed
<1>3. Stage(t) /\ Reach(t) /\ fut[t].rem <= fut[t].want
  BY DEF IInv, StageInv, Stage, WaitersAreReachable, Reach
<1>4. Gain(t) \in Nat
  BY <1>2, <1>3 DEF Gain, Collected, Future
<1> QED
  BY <1>1, <1>2, <1>3, <1>4 DEF Future, Locals

(* The value of a closed semaphore is above every number of permits. *)
LEMMA ClosedIsLarge == CLOSED \in Nat /\ MAX_PERMITS \in Nat /\ CLOSED = MAX_PERMITS + 1
<1>1. UsizeMax \in Nat /\ UsizeMax > 0
  BY SemaphoreAssumption
<1> QED
  BY <1>1 DEF CLOSED, MAX_PERMITS

(* An idle task owns at most a Permit. *)
LEMMA IdleStage ==
  ASSUME NEW t \in Tasks, pc'[t] = "idle", fut'[t] = NoFuture, loc'[t] = NoLocals
  PROVE  Stage(t)'
<1>1. NoLocals.curr = 0 /\ NoFuture.rem = 0 /\ NoFuture.want = 0 /\ NoLocals.curr # CLOSED
  BY ClosedIsLarge DEF NoLocals, NoFuture
<1> QED
  BY <1>1 DEF Stage

(* Ready leaves no future and no locals behind. *)
LEMMA ReadyEffect ==
  ASSUME Typed, NEW t \in Tasks, NEW n \in Nat, Ready(t, n)
  PROVE  /\ pc' \in [Tasks -> Pcs] /\ fut' \in [Tasks -> Future]
         /\ loc' \in [Tasks -> Locals] /\ held' \in [Tasks -> Nat]
         /\ Others(t)
         /\ pc'[t] = "idle" /\ fut'[t] = NoFuture /\ loc'[t] = NoLocals /\ held'[t] = n
<1>1. NoFuture \in Future /\ NoLocals \in Locals
  BY DEF NoFuture, NoLocals, Future, Locals
<1>2. "idle" \in Pcs
  BY DEF Pcs
<1> QED
  BY <1>1, <1>2 DEF Ready, GoTo, Typed, Others

(* Semaphore::acquire: a new future owns nothing yet and must be polled. *)
LEMMA AcquireStep ==
  ASSUME IInv, NEW t \in Tasks, Acquire(t)
  PROVE  IInv'
<1>1. PICK n \in Sizes : fut' = [fut EXCEPT ![t] = [want |-> n, rem |-> n, queued |-> FALSE]]
  BY Zenon DEF Acquire
<1>2. n \in Nat /\ n > 0
  BY SemaphoreAssumption
<1>3. Typed'
  BY <1>1, <1>2 DEF IInv, Typed, Acquire, GoTo, Future, Pcs
<1>4. /\ pc'[t] = "future" /\ fut'[t] = [want |-> n, rem |-> n, queued |-> FALSE]
      /\ pc[t] = "idle" /\ held[t] = 0 /\ held' = held /\ loc' = loc /\ notified'[t]
  BY <1>1, Zenon DEF IInv, Typed, Acquire, GoTo
<1>5. Others(t)
  BY <1>1 DEF IInv, Typed, Acquire, GoTo, Others
<1>6. Stage(t) /\ fut[t] = NoFuture /\ loc[t] = NoLocals
  BY <1>4, Zenon DEF IInv, StageInv, Stage
<1>7. closed' = closed /\ queue' = queue /\ hand' = hand /\ permits' = permits /\ total' = total
  BY DEF Acquire
<1>8. Stage(t)'
  BY <1>2, <1>4, <1>6, <1>7 DEF Stage, FutureOk, NoLocals
<1>9. Gain(t) = 0 /\ Gain(t)' = 0 /\ (Needs(t)' <=> Needs(t))
  BY <1>2, <1>4, <1>6 DEF Gain, Needs, NoFuture
<1>10. \A u \in Tasks : u # t => notified'[u] = notified[u]
  BY DEF IInv, Typed, Acquire
<1>11. Reach(t)'
  BY <1>4 DEF Reach
<1>12. permits \in Nat /\ (~closed => total <= MAX_PERMITS)
  BY Numbers
<1> QED
  BY SMTT(30), <1>3, <1>4, <1>5, <1>7, <1>8, <1>9, <1>10, <1>11, <1>12, LocalStep

(* Steps that move no permits. *)
LEMMA QuietStep ==
  ASSUME IInv, Typed', NEW t \in Tasks, Others(t), Stage(t)', Reach(t)',
         closed' = closed, queue' = queue, hand' = hand, permits' = permits, total' = total,
         \A u \in Tasks : u # t => notified'[u] = notified[u],
         fut'[t] = fut[t], held'[t] = held[t], loc'[t].acq = loc[t].acq
  PROVE  IInv'
<1>1. Gain(t)' = Gain(t) /\ (Needs(t)' <=> Needs(t))
  BY DEF Gain, Needs, Collected
<1>2. /\ permits \in Nat /\ total \in Int /\ held[t] \in Nat /\ Gain(t) \in Nat
      /\ loc[t].acq \in Nat /\ (~closed => total <= MAX_PERMITS)
  BY Numbers
<1>3. /\ permits' <= permits
      /\ permits' + held'[t] + Gain(t)' + loc'[t].acq - total'
           = permits + held[t] + Gain(t) + loc[t].acq - total
  BY <1>1, <1>2
<1> QED
  BY <1>1, <1>2, <1>3, LocalStep

(* A step that ends a poll, with n permits or with an error: everything     *)
(* that the task had goes into its Permit.                                  *)
LEMMA ReadyStep ==
  ASSUME IInv, NEW t \in Tasks, NEW n \in Nat, Ready(t, n), permits' \in Nat,
         closed' = closed, queue' = queue, hand' = hand, total' = total, notified' = notified,
         changes' = changes,
         ~closed => /\ ~Needs(t)
                    /\ permits' <= permits
                    /\ permits' + n = permits + held[t] + Gain(t) + loc[t].acq
  PROVE  IInv'
<1>1. /\ permits \in Nat /\ total \in Int /\ (~closed => total <= MAX_PERMITS)
      /\ held[t] \in Nat /\ loc[t].acq \in Nat /\ Gain(t) \in Nat
  BY Numbers
<1>2. /\ pc' \in [Tasks -> Pcs] /\ fut' \in [Tasks -> Future]
      /\ loc' \in [Tasks -> Locals] /\ held' \in [Tasks -> Nat]
      /\ Others(t)
      /\ pc'[t] = "idle" /\ fut'[t] = NoFuture /\ loc'[t] = NoLocals /\ held'[t] = n
  BY ReadyEffect DEF IInv
<1>3. Typed'
  BY <1>2 DEF IInv, Typed
<1>4. Gain(t)' = 0 /\ ~Needs(t)' /\ loc'[t].acq = 0
  BY <1>2 DEF Gain, Needs, NoFuture, NoLocals
<1>5. Stage(t)' /\ Reach(t)'
  BY <1>2, IdleStage DEF Reach
<1>6. ASSUME ~closed
      PROVE  permits' + held'[t] + Gain(t)' + loc'[t].acq - total'
               = permits + held[t] + Gain(t) + loc[t].acq - total
  <2>1. permits' = permits + held[t] + Gain(t) + loc[t].acq - n
    BY <1>1, <1>6
  <2>2. held'[t] = n
    BY <1>2
  <2> QED
    BY <1>1, <1>4, <2>1, <2>2, SMTT(30)
<1> QED
  BY <1>1, <1>2, <1>3, <1>4, <1>5, <1>6, LocalStep

(* poll_acquire reads what the waiter still needs, which can only shrink. *)
LEMMA PollNeedStep ==
  ASSUME IInv, NEW t \in Tasks, PollNeed(t)
  PROVE  IInv'
<1> DEFINE need == IF fut[t].queued THEN fut[t].rem ELSE fut[t].want
<1>1. /\ permits \in Nat /\ Stage(t)
      /\ fut[t].rem \in Nat /\ fut[t].want \in Nat /\ need \in Nat
  BY Numbers
<1>2. Typed'
  BY <1>1, ZenonT(30) DEF IInv, Typed, PollNeed, GoTo, Locals, Pcs
<1>3. /\ pc[t] = "future" /\ pc'[t] = "load" /\ fut' = fut /\ held' = held
      /\ loc'[t] = [loc[t] EXCEPT !.need = need]
  BY DEF IInv, Typed, PollNeed, GoTo
<1>4. loc[t] = NoLocals /\ FutureOk(t)
  BY <1>1, <1>3 DEF Stage
<1>5. /\ loc'[t].need = need /\ loc'[t].curr = loc[t].curr /\ loc'[t].acq = loc[t].acq
      /\ loc'[t].poll = loc[t].poll /\ loc[t].acq = 0
  <2> HIDE DEF need
  <2> QED
    BY <1>3, <1>4 DEF NoLocals
<1>6. Others(t) /\ \A u \in Tasks : u # t => notified'[u] = notified[u]
  BY DEF IInv, Typed, PollNeed, GoTo, Others
<1>7. closed' = closed /\ queue' = queue /\ hand' = hand /\ permits' = permits /\ total' = total
  BY DEF PollNeed
<1>8. Stage(t)'
  BY <1>1, <1>3, <1>4, <1>5, <1>7 DEF Stage, FutureOk, NeedOk
<1>9. Reach(t)'
  BY <1>3 DEF Reach
<1> QED
  BY <1>2, <1>3, <1>5, <1>6, <1>7, <1>8, <1>9, QuietStep, Zenon

(* The load of the permit count. *)
LEMMA PollLoadStep ==
  ASSUME IInv, NEW t \in Tasks, PollLoad(t)
  PROVE  IInv'
<1>1. permits \in Nat /\ (~closed => permits # CLOSED) /\ Stage(t) /\ loc[t] \in Locals
  BY Numbers DEF IInv, Typed
<1>2. Typed'
  BY <1>1, Zenon DEF IInv, Typed, PollLoad, GoTo, Locals, Pcs
<1>3. /\ pc[t] = "load" /\ pc'[t] = "take" /\ fut' = fut /\ held' = held
      /\ loc'[t] = [loc[t] EXCEPT !.curr = permits]
  BY DEF IInv, Typed, PollLoad, GoTo
<1>4. /\ loc'[t].need = loc[t].need /\ loc'[t].curr = permits
      /\ loc'[t].acq = loc[t].acq /\ loc'[t].poll = loc[t].poll
  BY <1>1, <1>3 DEF Locals
<1>5. Others(t) /\ \A u \in Tasks : u # t => notified'[u] = notified[u]
  BY DEF IInv, Typed, PollLoad, GoTo, Others
<1>6. closed' = closed /\ queue' = queue /\ hand' = hand /\ permits' = permits /\ total' = total
  BY DEF PollLoad
<1>7. Stage(t)'
  BY <1>1, <1>3, <1>4, <1>6 DEF Stage, FutureOk, NeedOk
<1>8. Reach(t)'
  BY <1>3 DEF Reach
<1> QED
  BY <1>2, <1>3, <1>4, <1>5, <1>6, <1>7, <1>8, QuietStep, Zenon

(* The load of try_acquire. *)
LEMMA TryAcquireStep ==
  ASSUME IInv, NEW t \in Tasks, TryAcquire(t)
  PROVE  IInv'
<1>1. permits \in Nat /\ (~closed => permits # CLOSED) /\ Stage(t)
  BY Numbers
<1>2. PICK n \in Sizes : loc' = [loc EXCEPT ![t].need = n, ![t].curr = permits]
  BY Zenon DEF TryAcquire
<1>3. n \in Nat /\ n > 0
  BY SemaphoreAssumption
<1>4. Typed'
  <2>1. [loc[t] EXCEPT !.need = n, !.curr = permits] \in Locals
    BY <1>1, <1>3, Zenon DEF IInv, Typed, Locals
  <2>2. loc' \in [Tasks -> Locals]
    BY <1>2, <2>1 DEF IInv, Typed
  <2> QED
    BY <2>2 DEF IInv, Typed, TryAcquire, GoTo, Pcs
<1>5. pc[t] = "idle" /\ pc'[t] = "try" /\ fut' = fut /\ held' = held /\ held[t] = 0
  BY DEF IInv, Typed, TryAcquire, GoTo
<1>6. loc[t] = NoLocals /\ fut[t] = NoFuture
  BY <1>1, <1>5 DEF Stage
<1>7. loc'[t].need = n /\ loc'[t].curr = permits /\ loc'[t].acq = loc[t].acq /\ ~loc'[t].poll
      /\ loc[t].acq = 0
  <2>1. loc'[t] = [loc[t] EXCEPT !.need = n, !.curr = permits]
    BY <1>2 DEF IInv, Typed
  <2> QED
    BY <1>6, <2>1 DEF NoLocals
<1>8. Others(t) /\ \A u \in Tasks : u # t => notified'[u] = notified[u]
  BY <1>2 DEF IInv, Typed, TryAcquire, GoTo, Others
<1>9. closed' = closed /\ queue' = queue /\ hand' = hand /\ permits' = permits /\ total' = total
  BY DEF TryAcquire
<1>10. Stage(t)'
  BY <1>1, <1>3, <1>5, <1>6, <1>7, <1>9 DEF Stage, NoFuture
<1>11. Reach(t)'
  BY <1>5 DEF Reach
<1> QED
  BY <1>4, <1>5, <1>7, <1>8, <1>9, <1>10, <1>11, QuietStep

(* The compare_exchange of try_acquire: all or nothing. *)
LEMMA TryCasStep ==
  ASSUME IInv, NEW t \in Tasks, TryCas(t)
  PROVE  IInv'
<1>1. /\ permits \in Nat /\ total \in Int /\ (~closed => permits # CLOSED /\ total <= MAX_PERMITS)
      /\ Stage(t) /\ loc[t] \in Locals
  BY Numbers DEF IInv, Typed
<1>2. /\ pc[t] = "try" /\ fut[t] = NoFuture /\ held[t] = 0 /\ loc[t].acq = 0
      /\ loc[t].need \in Nat /\ loc[t].curr \in Nat
  BY <1>1 DEF Stage, TryCas, Locals
<1>3. closed' = closed /\ queue' = queue /\ hand' = hand /\ total' = total /\ notified' = notified
      /\ changes' = changes
  BY DEF TryCas
<1>4. Gain(t) = 0 /\ ~Needs(t)
  BY SMTT(30), <1>2 DEF Gain, Needs, NoFuture
<1>5. CASE Ready(t, 0) /\ UNCHANGED permits
  <2>1. permits' \in Nat /\ permits' <= permits
    BY <1>1, <1>5
  <2>2. permits' + 0 = permits + held[t] + Gain(t) + loc[t].acq
    BY <1>1, <1>2, <1>4, <1>5
  <2> QED
    BY <1>3, <1>4, <1>5, <2>1, <2>2, ReadyStep, SMTT(30)
<1>6. CASE Ready(t, loc[t].need) /\ permits' = permits - loc[t].need /\ permits >= loc[t].need
  <2>1. permits' \in Nat /\ permits' <= permits
    BY <1>1, <1>2, <1>6
  <2>2. permits' + loc[t].need = permits + held[t] + Gain(t) + loc[t].acq
    BY <1>1, <1>2, <1>4, <1>6
  <2> QED
    BY <1>2, <1>3, <1>4, <1>6, <2>1, <2>2, ReadyStep
<1>7. CASE /\ loc' = [loc EXCEPT ![t].curr = permits]
           /\ UNCHANGED <<permits, pc, fut, held>>
  <2>1. Typed'
    BY <1>1, <1>3, <1>7, Zenon DEF IInv, Typed, Locals
  <2>2. loc'[t] = [loc[t] EXCEPT !.curr = permits]
    BY <1>7 DEF IInv, Typed
  <2>3. /\ loc'[t].need = loc[t].need /\ loc'[t].curr = permits
        /\ loc'[t].acq = loc[t].acq /\ loc'[t].poll = loc[t].poll
    BY <1>1, <2>2 DEF Locals
  <2>4. Others(t)
    BY <1>7 DEF IInv, Typed, Others
  <2>5. Stage(t)'
    BY <1>1, <1>2, <1>3, <1>7, <2>3 DEF Stage, NoFuture
  <2>6. Reach(t)'
    BY <1>2, <1>7 DEF Reach
  <2> QED
    BY <1>3, <1>7, <2>1, <2>3, <2>4, <2>5, <2>6, QuietStep
<1> QED
  BY <1>5, <1>6, <1>7 DEF TryCas

(* add_permits_locked, when a task that owns nothing but n permits calls it. *)
LEMMA StartAddEffect ==
  ASSUME IInv, NEW t \in Tasks, NEW n \in Nat, StartAdd(t, n), loc[t] = NoLocals
  PROVE  /\ pc' \in [Tasks -> Pcs] /\ loc' \in [Tasks -> Locals]
         /\ \A u \in Tasks : u # t => pc'[u] = pc[u] /\ loc'[u] = loc[u]
         /\ pc'[t] \in {"idle", "add"} /\ loc'[t] = [NoLocals EXCEPT !.acq = loc'[t].acq]
         /\ pc'[t] = "idle" => loc'[t] = NoLocals
         /\ ~closed => loc'[t].acq = n
<1>1. CASE closed \/ n = 0
  <2>1. pc' = [pc EXCEPT ![t] = "idle"] /\ loc' = loc
    BY <1>1 DEF StartAdd, GoTo
  <2>2. NoLocals.acq = 0 /\ NoLocals = [NoLocals EXCEPT !.acq = NoLocals.acq]
    BY DEF NoLocals
  <2>3. loc'[t] = NoLocals
    BY <2>1
  <2>4. ~closed => loc'[t].acq = n
    BY <1>1, <2>2, <2>3
  <2>5. pc'[t] = "idle" /\ pc' \in [Tasks -> Pcs] /\ loc' \in [Tasks -> Locals]
        /\ \A u \in Tasks : u # t => pc'[u] = pc[u] /\ loc'[u] = loc[u]
    BY <2>1 DEF IInv, Typed, Pcs
  <2> QED
    BY <2>2, <2>3, <2>4, <2>5
<1>2. CASE ~(closed \/ n = 0)
  <2>1. pc' = [pc EXCEPT ![t] = "add"] /\ loc' = [loc EXCEPT ![t].acq = n]
    BY <1>2 DEF StartAdd, GoTo
  <2>2. loc'[t] = [NoLocals EXCEPT !.acq = n]
    BY <2>1 DEF IInv, Typed
  <2>3. loc'[t].acq = n
    BY <2>2 DEF NoLocals
  <2>4. pc' \in [Tasks -> Pcs] /\ loc' \in [Tasks -> Locals]
    BY <2>1, Zenon DEF IInv, Typed, Pcs, Locals
  <2> QED
    BY <2>1, <2>2, <2>3, <2>4 DEF IInv, Typed
<1> QED
  BY <1>1, <1>2

(* Such a call, once it has begun. *)
LEMMA AddingStage ==
  ASSUME NEW t \in Tasks, pc'[t] \in {"idle", "add"}, fut'[t] = NoFuture, held'[t] = 0,
         loc'[t] = [NoLocals EXCEPT !.acq = loc'[t].acq], pc'[t] = "idle" => loc'[t] = NoLocals
  PROVE  Stage(t)' /\ Reach(t)' /\ Gain(t)' = 0 /\ ~Needs(t)'
<1>1. NoFuture.rem = 0 /\ NoFuture.want = 0 /\ ~NoFuture.queued /\ CLOSED # 0
  BY ClosedIsLarge DEF NoFuture
<1>2. loc'[t].curr = 0 /\ ~loc'[t].poll
  BY DEF NoLocals
<1> QED
  BY <1>1, <1>2 DEF Stage, Reach, Gain, Needs

(* Permit::drop: what it held is in transit. *)
LEMMA ReleaseStep ==
  ASSUME IInv, NEW t \in Tasks, Release(t)
  PROVE  IInv'
<1>1. /\ permits \in Nat /\ total \in Int /\ (~closed => total <= MAX_PERMITS)
      /\ held[t] \in Nat
  BY Numbers
<1>2. pc[t] = "idle" /\ fut[t] = NoFuture /\ loc[t] = NoLocals
  BY Zenon DEF IInv, StageInv, Stage, Release
<1>3. closed' = closed /\ queue' = queue /\ hand' = hand /\ total' = total /\ notified' = notified
      /\ changes' = changes /\ permits' = permits /\ fut' = fut
  BY DEF Release
<1>4. held' \in [Tasks -> Nat] /\ held'[t] = 0 /\ \A u \in Tasks : u # t => held'[u] = held[u]
  BY DEF IInv, Typed, Release
<1>5. /\ pc' \in [Tasks -> Pcs] /\ loc' \in [Tasks -> Locals]
      /\ \A u \in Tasks : u # t => pc'[u] = pc[u] /\ loc'[u] = loc[u]
      /\ pc'[t] \in {"idle", "add"} /\ loc'[t] = [NoLocals EXCEPT !.acq = loc'[t].acq]
      /\ pc'[t] = "idle" => loc'[t] = NoLocals
      /\ ~closed => loc'[t].acq = held[t]
  BY <1>1, <1>2, StartAddEffect DEF Release
<1>6. Typed'
  BY <1>3, <1>4, <1>5 DEF IInv, Typed
<1>7. Stage(t)' /\ Reach(t)' /\ Gain(t)' = 0 /\ ~Needs(t)'
  BY <1>2, <1>3, <1>4, <1>5, AddingStage
<1>8. Gain(t) = 0 /\ ~Needs(t) /\ loc[t].acq = 0
  BY <1>2, SMTT(30) DEF Gain, Needs, NoFuture, NoLocals
<1>9. Others(t)
  BY <1>3, <1>4, <1>5 DEF Others
<1>10. ~closed => permits' + held'[t] + Gain(t)' + loc'[t].acq - total'
                    = permits + held[t] + Gain(t) + loc[t].acq - total
  <2>1. ~closed => loc'[t].acq = held[t]
    BY <1>5
  <2> QED
    BY <1>1, <1>3, <1>4, <1>7, <1>8, <2>1
<1>11. permits' <= permits
  BY SMTT(30), <1>1, <1>3
<1> QED
  BY <1>1, <1>3, <1>6, <1>7, <1>8, <1>9, <1>10, <1>11, LocalStep

(* add_permits, within the documented limit. *)
LEMMA AddPermitsStep ==
  ASSUME IInv, NEW t \in Tasks, AddPermits(t)
  PROVE  IInv'
<1>1. permits \in Nat /\ total \in Int
  BY Numbers
<1>2. /\ pc[t] = "idle" /\ fut[t] = NoFuture /\ loc[t] = NoLocals /\ held[t] = 0
      /\ total < MAX_PERMITS /\ ~closed
  BY Zenon DEF IInv, StageInv, Stage, AddPermits
<1>3. closed' = closed /\ queue' = queue /\ hand' = hand /\ total' = total + 1 /\ notified' = notified
      /\ changes' = changes + 1 /\ permits' = permits /\ fut' = fut /\ held' = held
  BY DEF AddPermits
<1>4. /\ pc' \in [Tasks -> Pcs] /\ loc' \in [Tasks -> Locals]
      /\ \A u \in Tasks : u # t => pc'[u] = pc[u] /\ loc'[u] = loc[u]
      /\ pc'[t] \in {"idle", "add"} /\ loc'[t] = [NoLocals EXCEPT !.acq = loc'[t].acq]
      /\ pc'[t] = "idle" => loc'[t] = NoLocals
      /\ ~closed => loc'[t].acq = 1
  BY <1>2, StartAddEffect DEF AddPermits
<1>5. Typed'
  BY <1>3, <1>4 DEF IInv, Typed
<1>6. Stage(t)' /\ Reach(t)' /\ Gain(t)' = 0 /\ ~Needs(t)'
  BY <1>2, <1>3, <1>4, AddingStage
<1>7. Gain(t) = 0 /\ ~Needs(t) /\ loc[t].acq = 0
  BY <1>2, SMTT(30) DEF Gain, Needs, NoFuture, NoLocals
<1>8. Others(t)
  BY <1>3, <1>4 DEF Others
<1>9. permits' + held'[t] + Gain(t)' + loc'[t].acq - total'
        = permits + held[t] + Gain(t) + loc[t].acq - total
  <2>1. loc'[t].acq = 1 /\ held'[t] = 0 /\ held[t] = 0
    BY <1>2, <1>3, <1>4
  <2> QED
    BY <1>1, <1>3, <1>6, <1>7, <2>1, SMTT(30)
<1>10. permits' <= permits /\ total' <= MAX_PERMITS
  BY SMTT(30), <1>1, <1>2, <1>3, ClosedIsLarge
<1> QED
  BY <1>3, <1>5, <1>6, <1>7, <1>8, <1>9, <1>10, LocalStep

(* Permit::forget: there are fewer permits from now on. *)
LEMMA ForgetStep ==
  ASSUME IInv, NEW t \in Tasks, Forget(t)
  PROVE  IInv'
<1>1. /\ permits \in Nat /\ total \in Int /\ (~closed => total <= MAX_PERMITS)
      /\ held[t] \in Nat /\ loc[t].acq \in Nat /\ Gain(t) \in Nat /\ Stage(t)
  BY Numbers
<1>2. closed' = closed /\ queue' = queue /\ hand' = hand /\ total' = total - held[t]
      /\ notified' = notified /\ changes' = changes + 1 /\ permits' = permits
      /\ fut' = fut /\ pc' = pc /\ loc' = loc /\ pc[t] = "idle"
  BY DEF Forget
<1>3. held' \in [Tasks -> Nat] /\ held'[t] = 0 /\ \A u \in Tasks : u # t => held'[u] = held[u]
  BY DEF IInv, Typed, Forget
<1>4. Typed'
  BY <1>1, <1>2, <1>3 DEF IInv, Typed
<1>5. Stage(t)' /\ Reach(t)' /\ Gain(t)' = Gain(t) /\ (Needs(t)' <=> Needs(t))
  BY <1>1, <1>2, <1>3 DEF Stage, Reach, Gain, Collected, Needs
<1>6. Others(t)
  BY <1>2, <1>3 DEF Others
<1>7. permits' + held'[t] + Gain(t)' + loc'[t].acq - total'
        = permits + held[t] + Gain(t) + loc[t].acq - total
  BY SMTT(30), <1>1, <1>2, <1>3, <1>5
<1>8. permits' <= permits /\ (~closed => total' <= MAX_PERMITS)
  BY <1>1, <1>2, ClosedIsLarge
<1> QED
  BY <1>2, <1>4, <1>5, <1>6, <1>7, <1>8, LocalStep

(* add_permits_locked with a full batch. *)
LEMMA AddFullStep ==
  ASSUME IInv, NEW t \in Tasks, AddFull(t)
  PROVE  IInv'
<1>1. Stage(t)
  BY Numbers
<1>2. closed' = closed /\ queue' = queue /\ hand' = hand /\ total' = total
      /\ notified' = notified /\ changes' = changes /\ permits' = permits
      /\ fut' = fut /\ loc' = loc /\ held' = held /\ pc[t] = "add"
  BY DEF AddFull
<1>3. pc' \in [Tasks -> Pcs] /\ pc'[t] = "wake" /\ \A u \in Tasks : u # t => pc'[u] = pc[u]
  BY DEF IInv, Typed, AddFull, GoTo, Pcs
<1>4. Typed'
  BY <1>2, <1>3 DEF IInv, Typed
<1>5. Stage(t)' /\ Reach(t)'
  BY <1>1, <1>2, <1>3 DEF Stage, Reach
<1>6. Others(t)
  BY <1>2, <1>3 DEF Others
<1> QED
  BY <1>2, <1>4, <1>5, <1>6, QuietStep

(* add_permits_locked goes on, or returns to a poll or to its caller. *)
LEMMA AddAgainStep ==
  ASSUME IInv, NEW t \in Tasks, AddAgain(t)
  PROVE  IInv'
<1>1. /\ Stage(t) /\ permits \in Nat /\ fut[t].want \in Nat /\ fut[t].rem \in Nat
      /\ loc[t].poll \in BOOLEAN
  BY Numbers
<1>2. closed' = closed /\ queue' = queue /\ hand' = hand /\ total' = total
      /\ notified' = notified /\ changes' = changes /\ permits' = permits /\ pc[t] = "wake"
  BY DEF AddAgain
<1>3. ASSUME NEW l \in {"idle", "add"}, GoTo(t, l), UNCHANGED <<fut, loc, held>>,
             l = "idle" => loc[t].acq = 0 /\ ~loc[t].poll
      PROVE  IInv'
  <2>1. pc' \in [Tasks -> Pcs] /\ pc'[t] = l /\ \A u \in Tasks : u # t => pc'[u] = pc[u]
    BY <1>3 DEF IInv, Typed, GoTo, Pcs
  <2>2. Typed'
    BY <1>2, <1>3, <2>1 DEF IInv, Typed
  <2>3. l = "idle" => fut[t] = NoFuture /\ loc[t] = NoLocals
    BY ZenonT(20), <1>1, <1>2, <1>3 DEF Stage, NoLocals
  <2>4. CASE l = "idle"
    <3>1. Stage(t)' /\ Reach(t)'
      BY <1>3, <2>1, <2>3, <2>4, IdleStage DEF Reach
    <3> QED
      BY <1>2, <1>3, <2>1, <2>2, <3>1, QuietStep DEF Others
  <2>5. CASE l = "add"
    <3>1. Stage(t)' /\ Reach(t)'
      BY <1>1, <1>2, <1>3, <2>1, <2>5 DEF Stage, Reach
    <3> QED
      BY <1>2, <1>3, <2>1, <2>2, <3>1, QuietStep DEF Others
  <2> QED
    BY <2>4, <2>5
<1>4. CASE loc[t].acq > 0 /\ GoTo(t, "add") /\ UNCHANGED <<fut, loc, held>>
  BY <1>3, <1>4
<1>5. CASE loc[t].acq = 0 /\ ~loc[t].poll /\ GoTo(t, "idle") /\ UNCHANGED <<fut, loc, held>>
  BY <1>3, <1>5
<1>6. CASE loc[t].acq = 0 /\ loc[t].poll /\ Ready(t, fut[t].want)
  <2>1. held[t] = 0 /\ fut[t].queued /\ fut[t].rem = 0
    BY <1>1, <1>2, <1>6 DEF Stage
  <2>2. Gain(t) = fut[t].want /\ ~Needs(t)
    BY <1>1, <2>1 DEF Gain, Collected, Needs
  <2>3. permits' + fut[t].want = permits + held[t] + Gain(t) + loc[t].acq
    BY <1>1, <1>2, <1>6, <2>1, <2>2
  <2>4. permits' <= permits /\ permits' \in Nat
    BY <1>1, <1>2
  <2> QED
    BY <1>1, <1>2, <1>6, <2>2, <2>3, <2>4, ReadyStep
<1> QED
  BY <1>4, <1>5, <1>6 DEF AddAgain

(* A waiter is pushed once it has taken all the permits there were. *)
LEMMA EnqueueStep ==
  ASSUME IInv, NEW t \in Tasks, ~closed,
         pc[t] = "take", ~fut[t].queued, permits < fut[t].want,
         permits' = 0, queue' = Append(queue, t),
         fut' = [fut EXCEPT ![t].rem = fut[t].want - permits, ![t].queued = TRUE],
         loc' = [loc EXCEPT ![t] = NoLocals], GoTo(t, "future"),
         closed' = closed, hand' = hand, total' = total, notified' = notified,
         changes' = changes, held' = held
  PROVE  IInv'
<1>1. /\ permits \in Nat /\ total \in Int /\ total <= MAX_PERMITS /\ held[t] \in Nat
      /\ fut[t].want \in Nat /\ Gain(t) \in Nat /\ Stage(t)
  BY Numbers
<1>2. loc[t].acq = 0 /\ held[t] = 0
  BY <1>1 DEF Stage, FutureOk
<1>3. t \notin Elems(queue) /\ Distinct(queue) /\ queue \in Seq(Tasks)
  BY DEF IInv, ListInv, Needs, Typed
<1>4. /\ queue' \in Seq(Tasks) /\ queue' # <<>> /\ Distinct(queue')
      /\ Elems(queue') = Elems(queue) \cup {t}
  BY <1>3, AppendElems
<1>5. fut'[t] = [want |-> fut[t].want, rem |-> fut[t].want - permits, queued |-> TRUE]
  <2>1. fut'[t] = [fut[t] EXCEPT !.rem = fut[t].want - permits, !.queued = TRUE] /\ fut[t] \in Future
    BY DEF IInv, Typed
  <2> QED
    BY <2>1, ZenonT(30) DEF Future
<1>6. pc'[t] = "future" /\ loc'[t] = NoLocals /\ Others(t)
  BY DEF IInv, Typed, GoTo, Others
<1>7. fut' \in [Tasks -> Future]
  <2>1. fut[t].want - permits \in Nat
    BY <1>1
  <2>2. [want |-> fut[t].want, rem |-> fut[t].want - permits, queued |-> TRUE] \in Future
    BY <1>1, <2>1 DEF Future
  <2> QED
    BY <1>5, <2>2 DEF IInv, Typed
<1>8. Typed'
  <2>1. loc' \in [Tasks -> Locals] /\ pc' \in [Tasks -> Pcs]
    BY DEF IInv, Typed, Locals, NoLocals, GoTo, Pcs
  <2> QED
    BY <1>4, <1>7, <2>1 DEF IInv, Typed
<1>9. Stage(t)'
  <2>1. NoLocals.curr # CLOSED /\ ~NoLocals.poll
    BY ClosedIsLarge DEF NoLocals
  <2> QED
    BY <1>1, <1>2, <1>5, <1>6, <2>1 DEF Stage, FutureOk
<1>10. StageInv'
  BY <1>6, <1>9, StageOfOthers DEF IInv
<1>11. ListInv'
  <2>1. Needs(t)'
    BY <1>1, <1>5 DEF Needs
  <2>2. \A u \in Tasks : u # t => (Needs(u)' <=> u \in Elems(queue))
    BY <1>6, Zenon DEF Needs, Others, IInv, ListInv
  <2> QED
    BY <1>4, <2>1, <2>2 DEF ListInv
<1>12. PermitsAreConserved'
  <2>1. Gain(t) = 0 /\ Gain(t)' = permits /\ loc'[t].acq = 0
    <3>1. fut'[t].want - fut'[t].rem = permits /\ fut'[t].queued
      BY <1>1, <1>5
    <3> QED
      BY <1>6, <3>1 DEF Gain, Collected, NoLocals
  <2>2. permits' + held'[t] + Gain(t)' + loc'[t].acq - total'
          = permits + held[t] + Gain(t) + loc[t].acq - total
    BY <1>1, <1>2, <2>1
  <2> QED
    BY <1>6, <1>8, <1>10, <2>2, OthersKeep, Conserve DEF IInv
<1>13. CountInv'
  BY <1>12 DEF IInv, CountInv
<1>14. WaitersAreReachable'
  <2> SUFFICES ASSUME NEW u \in Tasks PROVE Reach(u)'
    BY DEF WaitersAreReachable, Reach
  <2>1. Elems(queue) \subseteq Elems(queue') /\ t \in Elems(queue')
    BY <1>4
  <2>2. Reach(u)
    BY Numbers
  <2> QED
    BY <1>6, <2>1, <2>2 DEF Reach, Others, Elems
<1> QED
  BY <1>8, <1>10, <1>11, <1>13, <1>14 DEF IInv

(* RemainingPermits::add, with a permits that were taken from the           *)
(* semaphore: a waiter that is linked has nothing to take, since there are  *)
(* no free permits as long as there are linked waiters.                     *)
LEMMA SettleStep ==
  ASSUME IInv, NEW t \in Tasks, NEW a \in Nat, Settle(t, a), pc[t] \in {"take", "settle"},
         permits' \in Nat, closed' = closed, hand' = hand, total' = total,
         notified' = notified, changes' = changes,
         ~closed => /\ permits' <= permits
                    /\ permits' = permits + loc[t].acq - a
                    /\ fut[t].queued /\ fut[t].rem > 0 => a = 0
                    /\ ~fut[t].queued => /\ pc[t] = "take" /\ a < fut[t].want
                                         /\ permits = a /\ permits' = 0
  PROVE  IInv'
<1>1. /\ permits \in Nat /\ total \in Int /\ (~closed => total <= MAX_PERMITS)
      /\ fut[t].want \in Nat /\ fut[t].rem \in Nat /\ fut[t].queued \in BOOLEAN
      /\ loc[t].acq \in Nat /\ Gain(t) \in Nat /\ Stage(t)
  BY Numbers
<1>2. held[t] = 0 /\ FutureOk(t)
  BY <1>1 DEF Stage, FutureOk
<1> DEFINE taken == Least(fut[t].rem, a)
           left == fut[t].rem - taken
<1>3. taken \in Nat /\ taken <= a /\ taken <= fut[t].rem /\ left \in Nat
      /\ (taken = a \/ taken = fut[t].rem)
  BY <1>1 DEF Least
<1>4. CASE closed
  <2>1. Ready(t, 0) /\ queue' = queue
    BY <1>4 DEF Settle
  <2> QED
    BY <1>4, <2>1, ReadyStep
<1>5. ASSUME ~closed, left = 0 PROVE fut[t].queued /\ fut[t].rem = 0 /\ taken = 0
  <2>1. fut[t].rem = taken
    BY <1>1, <1>3, <1>5
  <2>2. ~fut[t].queued => fut[t].rem = fut[t].want /\ a < fut[t].want
    BY <1>2, <1>5 DEF FutureOk
  <2>3. fut[t].queued
    BY <1>1, <1>3, <2>1, <2>2
  <2>4. fut[t].rem > 0 => a = 0
    BY <1>5, <2>3
  <2> QED
    BY SMTT(30), <1>1, <1>3, <2>1, <2>3, <2>4
<1>6. CASE ~closed /\ left = 0 /\ a = taken /\ Ready(t, fut[t].want) /\ queue' = queue
  <2>1. fut[t].queued /\ fut[t].rem = 0 /\ a = 0
    BY <1>5, <1>6
  <2>2. ~Needs(t) /\ Gain(t) = fut[t].want
    BY <1>1, <2>1 DEF Needs, Gain, Collected
  <2>3. permits' = permits + loc[t].acq
    BY SMTT(30), <1>1, <1>6, <2>1
  <2>4. permits' + fut[t].want = permits + held[t] + Gain(t) + loc[t].acq
    BY <1>1, <1>2, <2>2, <2>3, SMTT(30)
  <2> QED
    BY <1>1, <1>6, <2>2, <2>4, ReadyStep
<1>7. CASE /\ ~closed /\ left = 0
           /\ fut' = [fut EXCEPT ![t].rem = 0]
           /\ loc' = [loc EXCEPT ![t].acq = a - taken, ![t].poll = TRUE]
           /\ GoTo(t, "add") /\ UNCHANGED <<queue, held>>
  <2>1. fut[t].queued /\ fut[t].rem = 0 /\ a - taken = a
    BY <1>5, <1>7
  <2>2. fut[t] \in Future /\ loc[t] \in Locals
    BY DEF IInv, Typed
  <2>3. fut' = fut
    <3>1. [fut[t] EXCEPT !.rem = 0] = fut[t]
      BY <2>1, <2>2 DEF Future
    <3> QED
      BY <1>7, <3>1 DEF IInv, Typed
  <2>4. loc' = [loc EXCEPT ![t] = [loc[t] EXCEPT !.acq = a, !.poll = TRUE]]
    BY <1>7, <2>1, Zenon
  <2>5. [loc[t] EXCEPT !.acq = a, !.poll = TRUE] \in Locals
    BY <2>2, Zenon DEF Locals
  <2>6. loc' \in [Tasks -> Locals] /\ loc'[t] = [loc[t] EXCEPT !.acq = a, !.poll = TRUE]
        /\ \A u \in Tasks : u # t => loc'[u] = loc[u]
    BY <2>4, <2>5 DEF IInv, Typed
  <2>7. loc'[t].acq = a /\ loc'[t].poll = TRUE /\ loc'[t].curr = loc[t].curr
    BY <2>2, <2>6 DEF Locals
  <2>8. pc' \in [Tasks -> Pcs] /\ pc'[t] = "add" /\ \A u \in Tasks : u # t => pc'[u] = pc[u]
    BY <1>7 DEF GoTo, IInv, Typed, Pcs
  <2>9. Typed'
    BY <1>7, <2>3, <2>6, <2>8, Zenon DEF IInv, Typed
  <2>10. Others(t)
    BY <1>7, <2>3, <2>6, <2>8 DEF Others
  <2>11. Stage(t)' /\ Reach(t)'
    BY <1>1, <1>2, <1>7, <2>1, <2>3, <2>7, <2>8 DEF Stage, Reach
  <2>12. Gain(t)' = Gain(t) /\ (Needs(t)' <=> Needs(t))
    BY <2>3 DEF Gain, Collected, Needs
  <2>13. permits' + held'[t] + Gain(t)' + loc'[t].acq - total'
           = permits + held[t] + Gain(t) + loc[t].acq - total
    <3>1. permits' = permits + loc[t].acq - a /\ held'[t] = 0
      BY <1>2, <1>7
    <3> QED
      BY <1>1, <1>2, <2>7, <2>12, <3>1, SMTT(30)
  <2> QED
    BY <1>1, <1>7, <2>9, <2>10, <2>11, <2>12, <2>13, LocalStep, Zenon
<1> HIDE DEF taken
<1>8. CASE /\ ~closed /\ left > 0 /\ fut[t].queued /\ queue' = queue
           /\ fut' = [fut EXCEPT ![t].rem = left, ![t].queued = TRUE]
           /\ loc' = [loc EXCEPT ![t] = NoLocals]
           /\ GoTo(t, "future") /\ UNCHANGED held
  <2>1. fut[t].rem > 0
    BY <1>1, <1>3, <1>8
  <2>2. a = 0
    BY <1>8, <2>1
  <2>3. left = fut[t].rem
    BY <1>1, <1>3, <2>2
  <2>4. fut[t] \in Future
    BY DEF IInv, Typed
  <2>5. fut' = fut
    <3>1. [fut[t] EXCEPT !.rem = left, !.queued = TRUE] = fut[t]
      BY <1>8, <2>3, <2>4, Zenon DEF Future
    <3> HIDE DEF left
    <3>2. fut' = [fut EXCEPT ![t] = [fut[t] EXCEPT !.rem = left, !.queued = TRUE]]
      BY <1>8, Zenon
    <3> QED
      BY <3>1, <3>2 DEF IInv, Typed
  <2>6. NoLocals \in Locals /\ NoLocals.acq = 0 /\ NoLocals.curr # CLOSED /\ ~NoLocals.poll
    BY ClosedIsLarge DEF NoLocals, Locals
  <2>7. loc' \in [Tasks -> Locals] /\ loc'[t] = NoLocals
        /\ \A u \in Tasks : u # t => loc'[u] = loc[u]
    BY <1>8, <2>6 DEF IInv, Typed
  <2>8. pc' \in [Tasks -> Pcs] /\ pc'[t] = "future" /\ \A u \in Tasks : u # t => pc'[u] = pc[u]
    BY <1>8 DEF GoTo, IInv, Typed, Pcs
  <2>9. Typed'
    BY <1>8, <2>5, <2>7, <2>8, Zenon DEF IInv, Typed
  <2>10. Others(t)
    BY <1>8, <2>5, <2>7, <2>8 DEF Others
  <2>11. Stage(t)'
    BY <1>1, <1>2, <1>8, <2>5, <2>6, <2>7, <2>8, Zenon DEF Stage, FutureOk
  <2>12. Reach(t)'
    <3>1. t \in Elems(queue)
      BY ZenonT(20), <1>8, <2>1 DEF IInv, ListInv, Needs
    <3> QED
      BY <1>8, <3>1 DEF Reach, Elems
  <2>13. Gain(t)' = Gain(t) /\ (Needs(t)' <=> Needs(t))
    BY <2>5 DEF Gain, Collected, Needs
  <2>14. permits' + held'[t] + Gain(t)' + loc'[t].acq - total'
           = permits + held[t] + Gain(t) + loc[t].acq - total
    <3>1. permits' = permits + loc[t].acq /\ held'[t] = 0 /\ loc'[t].acq = 0
      BY <1>1, <1>2, <1>8, <2>2, <2>6, <2>7
    <3> QED
      BY <1>1, <1>2, <2>13, <3>1, SMTT(30)
  <2> QED
    BY <1>1, <1>8, <2>9, <2>10, <2>11, <2>12, <2>13, <2>14, LocalStep
<1>9. CASE /\ ~closed /\ left > 0 /\ ~fut[t].queued /\ queue' = Append(queue, t)
           /\ fut' = [fut EXCEPT ![t].rem = left, ![t].queued = TRUE]
           /\ loc' = [loc EXCEPT ![t] = NoLocals]
           /\ GoTo(t, "future") /\ UNCHANGED held
  <2>1. pc[t] = "take" /\ a < fut[t].want /\ permits' = 0 /\ permits = a /\ fut[t].rem = fut[t].want
    BY <1>2, <1>9 DEF FutureOk
  <2>2. taken = a
    BY <1>1, <1>3, <2>1
  <2>3. left = fut[t].want - permits
    BY <2>1, <2>2
  <2>4. permits < fut[t].want
    BY <2>1
  <2> QED
    BY <1>9, <2>1, <2>3, <2>4, EnqueueStep, Zenon
<1> QED
  BY ZenonT(20), <1>4, <1>6, <1>7, <1>8, <1>9 DEF Settle, PushFront, taken

(* A queued waiter that took all it needed: its waiter needs nothing. *)
LEMMA PollSettleStep ==
  ASSUME IInv, NEW t \in Tasks, PollSettle(t)
  PROVE  IInv'
<1>1. permits \in Nat /\ loc[t].acq \in Nat /\ fut[t].rem \in Nat /\ Stage(t)
  BY Numbers
<1>2. /\ pc[t] = "settle" /\ Settle(t, loc[t].acq) /\ permits' = permits /\ closed' = closed
      /\ hand' = hand /\ total' = total /\ notified' = notified /\ changes' = changes
  BY DEF PollSettle
<1>3. fut[t].queued /\ (~closed => fut[t].rem = 0)
  BY <1>1, <1>2 DEF Stage
<1>4. permits' <= permits /\ permits' = permits + loc[t].acq - loc[t].acq /\ permits' \in Nat
  BY <1>1, <1>2
<1>5. ~closed => ~(fut[t].rem > 0)
  BY <1>1, <1>3
<1> QED
  BY <1>1, <1>2, <1>3, <1>4, <1>5, SettleStep

(* The compare_exchange loop of poll_acquire. *)
LEMMA PollTakeStep ==
  ASSUME IInv, NEW t \in Tasks, PollTake(t)
  PROVE  IInv'
<1>1. /\ permits \in Nat /\ total \in Int /\ (~closed => permits # CLOSED /\ total <= MAX_PERMITS)
      /\ fut[t].want \in Nat /\ fut[t].rem \in Nat /\ fut[t].queued \in BOOLEAN
      /\ loc[t].need \in Nat /\ loc[t].curr \in Nat /\ Gain(t) \in Nat /\ Stage(t)
  BY Numbers
<1>2. /\ pc[t] = "take" /\ closed' = closed /\ hand' = hand /\ total' = total
      /\ notified' = notified /\ changes' = changes
  BY DEF PollTake
<1>3. FutureOk(t) /\ loc[t].acq = 0 /\ NeedOk(t) /\ (~closed => loc[t].curr # CLOSED) /\ held[t] = 0
  BY <1>1, <1>2 DEF Stage, FutureOk
<1>4. ~closed /\ fut[t].queued /\ fut[t].rem > 0 => permits = 0
  <2>1. ~closed /\ Needs(t) => t \in Elems(queue) /\ (permits > 0 => queue = <<>>)
    BY DEF IInv, ListInv
  <2>2. Elems(<<>>) = {}
    BY DEF Elems
  <2> QED
    BY <1>1, <2>1, <2>2 DEF Needs
<1>5. loc[t] \in Locals
  BY DEF IInv, Typed
<1>6. CASE loc[t].curr = CLOSED /\ Ready(t, 0) /\ UNCHANGED <<permits, queue>>
  <2>1. closed
    BY <1>3, <1>6
  <2> QED
    BY <1>1, <1>2, <1>6, <2>1, ReadyStep
<1>7. CASE loc' = [loc EXCEPT ![t].curr = permits] /\ UNCHANGED <<permits, queue, pc, fut, held>>
  <2>1. loc'[t] = [loc[t] EXCEPT !.curr = permits] /\ \A u \in Tasks : u # t => loc'[u] = loc[u]
    BY <1>7 DEF IInv, Typed
  <2>2. /\ loc'[t].need = loc[t].need /\ loc'[t].curr = permits
        /\ loc'[t].acq = loc[t].acq /\ loc'[t].poll = loc[t].poll
    BY <1>5, <2>1 DEF Locals
  <2>3. Typed'
    BY <1>1, <1>2, <1>7, Zenon DEF IInv, Typed, Locals
  <2>4. Stage(t)' /\ Reach(t)'
    BY <1>1, <1>2, <1>7, <2>2 DEF Stage, FutureOk, NeedOk, Reach
  <2>5. Others(t)
    BY <1>7, <2>1 DEF Others
  <2> QED
    BY <1>2, <1>7, <2>2, <2>3, <2>4, <2>5, QuietStep
<1>8. CASE /\ permits >= loc[t].need /\ permits' = permits - loc[t].need /\ fut[t].queued
           /\ loc' = [loc EXCEPT ![t].acq = loc[t].need] /\ GoTo(t, "settle")
           /\ UNCHANGED <<fut, held, queue>>
  <2>1. loc'[t] = [loc[t] EXCEPT !.acq = loc[t].need] /\ \A u \in Tasks : u # t => loc'[u] = loc[u]
    BY <1>8 DEF IInv, Typed
  <2>2. /\ loc'[t].curr = loc[t].curr /\ loc'[t].acq = loc[t].need /\ loc'[t].poll = loc[t].poll
    BY <1>5, <2>1 DEF Locals
  <2>3. pc' \in [Tasks -> Pcs] /\ pc'[t] = "settle" /\ \A u \in Tasks : u # t => pc'[u] = pc[u]
    BY <1>8 DEF GoTo, IInv, Typed, Pcs
  <2>4. permits' \in Nat /\ permits' <= permits
    BY <1>1, <1>8
  <2>5. loc' \in [Tasks -> Locals]
    BY <1>1, <1>8, Zenon DEF IInv, Typed, Locals
  <2>6. Typed'
    BY <1>2, <1>8, <2>3, <2>4, <2>5 DEF IInv, Typed
  <2>7. Others(t)
    BY <1>8, <2>1, <2>3 DEF Others
  <2>8. loc[t].need >= fut[t].rem /\ (~closed => fut[t].rem = 0)
    BY <1>1, <1>3, <1>4, <1>8 DEF NeedOk
  <2>9. Stage(t)' /\ Reach(t)'
    BY <1>1, <1>2, <1>3, <1>8, <2>2, <2>3, <2>8 DEF Stage, FutureOk, Reach
  <2>10. Gain(t)' = Gain(t) /\ (Needs(t)' <=> Needs(t))
    BY <1>8 DEF Gain, Collected, Needs
  <2>11. permits' + held'[t] + Gain(t)' + loc'[t].acq - total'
           = permits + held[t] + Gain(t) + loc[t].acq - total
    <3>1. held'[t] = 0 /\ loc'[t].acq = loc[t].need /\ permits' = permits - loc[t].need
      BY <1>3, <1>8, <2>2
    <3> QED
      BY <1>1, <1>2, <1>3, <2>10, <3>1
  <2> QED
    BY <1>1, <1>2, <1>8, <2>4, <2>6, <2>7, <2>9, <2>10, <2>11, LocalStep
<1>9. CASE /\ permits >= loc[t].need /\ permits' = permits - loc[t].need /\ ~fut[t].queued
           /\ Ready(t, fut[t].want) /\ UNCHANGED queue
  <2>1. loc[t].need = fut[t].want /\ Gain(t) = 0 /\ ~Needs(t)
    BY <1>3, <1>9 DEF NeedOk, Gain, Needs
  <2>2. permits' \in Nat /\ permits' <= permits
    BY <1>1, <1>9
  <2>3. permits' + fut[t].want = permits + held[t] + Gain(t) + loc[t].acq
    <3>1. permits' = permits - fut[t].want
      BY <1>9, <2>1
    <3> QED
      BY <1>1, <1>3, <2>1, <3>1, SMTT(30)
  <2> QED
    BY ZenonT(20), <1>1, <1>2, <1>9, <2>1, <2>2, <2>3, ReadyStep
<1>10. CASE permits = loc[t].curr /\ loc[t].curr < loc[t].need /\ permits' = 0 /\ Settle(t, loc[t].curr)
  <2>1. permits' \in Nat /\ permits' <= permits
    BY SMTT(30), <1>1, <1>10
  <2>2. permits' = permits + loc[t].acq - loc[t].curr
    BY <1>1, <1>3, <1>10, SMTT(30)
  <2>3. ~fut[t].queued => loc[t].curr < fut[t].want
    BY <1>3, <1>10 DEF NeedOk
  <2>4. ~closed /\ fut[t].queued /\ fut[t].rem > 0 => loc[t].curr = 0
    BY <1>4, <1>10
  <2> QED
    BY <1>1, <1>2, <1>10, <2>1, <2>2, <2>3, <2>4, SettleStep
<1> QED
  BY <1>6, <1>7, <1>8, <1>9, <1>10 DEF PollTake, TakeLocked

-----------------------------------------------------------------------------
(* Steps that change the list, or the state of a waiter. *)

(* drop_acquire: the node is unlinked and what it collected is in transit. *)
LEMMA DropStep ==
  ASSUME IInv, NEW t \in Tasks, Drop(t)
  PROVE  IInv'
<1>1. /\ permits \in Nat /\ total \in Int /\ (~closed => total <= MAX_PERMITS)
      /\ fut[t].want \in Nat /\ fut[t].rem \in Nat /\ fut[t].rem <= fut[t].want
      /\ Gain(t) \in Nat /\ Stage(t)
  BY Numbers
<1>2. /\ pc[t] = "future" /\ closed' = closed /\ hand' = hand /\ total' = total /\ held' = held
      /\ permits' = permits /\ changes' = changes
  BY DEF Drop
<1>3. loc[t] = NoLocals /\ held[t] = 0 /\ loc[t].acq = 0
  BY <1>1, <1>2 DEF Stage, FutureOk, NoLocals
<1>4. fut' \in [Tasks -> Future] /\ fut'[t] = NoFuture /\ \A u \in Tasks : u # t => fut'[u] = fut[u]
  BY DEF IInv, Typed, Drop, NoFuture, Future
<1>5. notified' \in [Tasks -> BOOLEAN] /\ \A u \in Tasks : u # t => notified'[u] = notified[u]
  BY DEF IInv, Typed, Drop
<1>6. Gain(t)' = 0 /\ ~Needs(t)'
  BY SMTT(30), <1>4 DEF Gain, Needs, NoFuture
<1>7. CASE ~fut[t].queued
  <2>1. GoTo(t, "idle") /\ queue' = queue /\ loc' = loc
    BY <1>7 DEF Drop
  <2>2. pc' \in [Tasks -> Pcs] /\ pc'[t] = "idle" /\ \A u \in Tasks : u # t => pc'[u] = pc[u]
    BY <2>1 DEF GoTo, IInv, Typed, Pcs
  <2>3. Typed'
    BY ZenonT(20), <1>2, <1>4, <1>5, <2>1, <2>2 DEF IInv, Typed
  <2>4. Stage(t)' /\ Reach(t)'
    BY <1>3, <1>4, <2>1, <2>2, IdleStage DEF Reach
  <2>5. Others(t)
    BY <1>2, <1>4, <2>1, <2>2, Zenon DEF Others
  <2>6. Gain(t) = 0 /\ ~Needs(t)
    BY ZenonT(20), <1>7 DEF Gain, Needs
  <2>7. permits' + held'[t] + Gain(t)' + loc'[t].acq - total'
           = permits + held[t] + Gain(t) + loc[t].acq - total
    BY ZenonT(20), <1>1, <1>2, <1>3, <1>6, <2>1, <2>6
  <2>8. permits' <= permits
    BY <1>1, <1>2, SMTT(30)
  <2> QED
    BY ZenonT(20), <1>1, <1>2, <1>5, <1>6, <2>1, <2>3, <2>4, <2>5, <2>6, <2>7, <2>8, LocalStep
<1>8. CASE fut[t].queued
  <2>1. queue' = Unlink(queue, t) /\ StartAdd(t, Collected(t)) /\ Collected(t) \in Nat
        /\ Gain(t) = Collected(t)
    BY <1>1, <1>8 DEF Drop, RemoveNode, Collected, Gain
  <2>2. /\ pc' \in [Tasks -> Pcs] /\ loc' \in [Tasks -> Locals]
        /\ \A u \in Tasks : u # t => pc'[u] = pc[u] /\ loc'[u] = loc[u]
        /\ pc'[t] \in {"idle", "add"} /\ loc'[t] = [NoLocals EXCEPT !.acq = loc'[t].acq]
        /\ pc'[t] = "idle" => loc'[t] = NoLocals
        /\ ~closed => loc'[t].acq = Collected(t)
    BY <1>3, <2>1, StartAddEffect
  <2>3. queue \in Seq(Tasks) /\ Distinct(queue)
    BY DEF IInv, Typed, ListInv
  <2>4. queue' \in Seq(Tasks) /\ Distinct(queue') /\ Elems(queue') = Elems(queue) \ {t}
    BY <2>1, <2>3, UnlinkElems
  <2>5. Typed'
    BY <1>2, <1>4, <1>5, <2>2, <2>4 DEF IInv, Typed
  <2>6. Stage(t)' /\ Reach(t)'
    BY <1>2, <1>3, <1>4, <2>2, AddingStage
  <2>7. Others(t)
    BY <1>2, <1>4, <2>2 DEF Others
  <2>8. StageInv'
    BY <1>2, <2>6, <2>7, StageOfOthers DEF IInv
  <2>9. ListInv'
    <3>1. ~closed => \A u \in Tasks : u # t => (Needs(u)' <=> u \in Elems(queue))
      BY <2>7, OthersKeep DEF IInv, ListInv
    <3>2. ~closed => (permits > 0 => queue = <<>>)
      BY DEF IInv, ListInv
    <3>3. queue = <<>> => queue' = <<>>
      BY <2>1 DEF Unlink
    <3> QED
      BY <1>2, <1>6, <2>4, <3>1, <3>2, <3>3 DEF ListInv
  <2>10. PermitsAreConserved'
    <3>1. ASSUME ~closed
          PROVE  permits' + held'[t] + Gain(t)' + loc'[t].acq - total'
                   = permits + held[t] + Gain(t) + loc[t].acq - total
      <4>1. loc'[t].acq = Gain(t)
        BY <2>1, <2>2, <3>1
      <4> QED
        BY <1>1, <1>2, <1>3, <1>6, <4>1
    <3> QED
      BY ZenonT(20), <1>2, <2>5, <2>7, <2>8, <3>1, OthersKeep, Conserve DEF IInv
  <2>11. CountInv'
    BY <1>2, <2>10 DEF IInv, CountInv
  <2>12. WaitersAreReachable'
    <3> SUFFICES ASSUME NEW u \in Tasks, u # t PROVE Reach(u)'
      BY <2>6 DEF WaitersAreReachable, Reach
    <3>1. Reach(u) /\ pc'[u] = pc[u] /\ notified'[u] = notified[u]
      BY <1>5, <2>2, Numbers
    <3>2. u \in Elems(queue) => u \in Elems(queue')
      BY <2>4
    <3> QED
      BY <1>2, <3>1, <3>2 DEF Reach, Elems
  <2> QED
    BY ZenonT(20), <2>5, <2>8, <2>9, <2>11, <2>12 DEF IInv
<1> QED
  BY <1>7, <1>8

(* What is free and what is in transit never exceeds what can be free. *)
LEMMA TransitBound ==
  ASSUME IInv, ~closed, NEW t \in Tasks
  PROVE  permits + loc[t].acq <= MAX_PERMITS
<1>1. /\ Gains \in [Tasks -> Nat] /\ Transit \in [Tasks -> Nat]
      /\ PermitsAreConserved <=> (~closed => permits + Sum(held) + Sum(Gains) + Sum(Transit) = total)
  BY ConservedIs DEF IInv
<1>2. Sum(held) \in Nat /\ Sum(Gains) \in Nat /\ Sum(Transit) \in Nat /\ permits \in Nat
  BY <1>1, SumIsFinite DEF IInv, Typed
<1>3. loc[t].acq <= Sum(Transit) /\ loc[t].acq \in Nat
  <2>1. Transit[t] <= Sum(Transit)
    BY <1>1, SumBound
  <2> QED
    BY <2>1, Numbers DEF Transit
<1>4. total = permits + Sum(held) + Sum(Gains) + Sum(Transit) /\ total <= MAX_PERMITS
  BY <1>1, Numbers DEF IInv, CountInv
<1> HIDE DEF Gains, Transit
<1> QED
  BY <1>2, <1>3, <1>4, ClosedIsLarge

(* The list is empty: what is left is free, and does not overflow. *)
LEMMA AddRestStep ==
  ASSUME IInv, NEW t \in Tasks, AddRest(t)
  PROVE  IInv'
<1> DEFINE rest == loc[t].acq
           sum == (permits + rest) % (UsizeMax + 1)
<1>1. /\ permits \in Nat /\ total \in Int /\ (~closed => total <= MAX_PERMITS)
      /\ rest \in Nat /\ held[t] \in Nat /\ Gain(t) \in Nat /\ Stage(t)
  BY Numbers
<1>2. /\ pc[t] = "add" /\ queue = <<>> /\ closed' = closed /\ hand' = hand /\ total' = total
      /\ held' = held /\ fut' = fut /\ notified' = notified /\ changes' = changes
      /\ queue' = queue /\ permits' = sum /\ loc' = [loc EXCEPT ![t].acq = 0]
      /\ GoTo(t, IF rest = 0 \/ sum <= MAX_PERMITS THEN "wake" ELSE "panicOverflow")
  BY DEF AddRest
<1>3. sum \in Nat /\ (~closed => sum = permits + rest /\ sum <= MAX_PERMITS)
  <2>1. UsizeMax + 1 \in Nat /\ UsizeMax + 1 > 0 /\ permits + rest \in Nat
    BY <1>1, SemaphoreAssumption
  <2>2. \A m, n \in Nat : n > 0 => m % n \in Nat /\ (m < n => m % n = m)
    OBVIOUS
  <2>3. sum \in Nat
    BY <2>1, <2>2
  <2>4. ASSUME ~closed PROVE permits + rest <= MAX_PERMITS
    BY <2>4, TransitBound
  <2>5. ASSUME ~closed PROVE permits + rest < UsizeMax + 1
    BY <1>1, <2>1, <2>4, <2>5, ClosedIsLarge DEF CLOSED
  <2> QED
    BY <2>1, <2>2, <2>3, <2>4, <2>5
<1> HIDE DEF sum
<1>4. loc[t] \in Locals /\ loc'[t] = [loc[t] EXCEPT !.acq = 0] /\ \A u \in Tasks : u # t => loc'[u] = loc[u]
  BY <1>2 DEF IInv, Typed
<1>5. /\ loc'[t].need = loc[t].need /\ loc'[t].curr = loc[t].curr /\ loc'[t].acq = 0
      /\ loc'[t].poll = loc[t].poll
  BY <1>4 DEF Locals
<1>6. /\ pc' \in [Tasks -> Pcs] /\ \A u \in Tasks : u # t => pc'[u] = pc[u]
      /\ pc'[t] \in {"wake", "panicOverflow"} /\ (~closed => pc'[t] = "wake")
  BY <1>2, <1>3 DEF GoTo, IInv, Typed, Pcs
<1>7. Typed'
  BY <1>2, <1>3, <1>6, Zenon DEF IInv, Typed, Locals
<1>8. Others(t)
  BY <1>2, <1>4, <1>6 DEF Others
<1>9. Stage(t)'
  <2>1. ~loc[t].poll => fut[t] = NoFuture /\ loc[t] = [NoLocals EXCEPT !.acq = loc[t].acq]
    BY <1>1, <1>2 DEF Stage
  <2>2. ~loc[t].poll => loc'[t] = [NoLocals EXCEPT !.acq = loc'[t].acq]
    BY <1>4, <1>5, <2>1 DEF NoLocals
  <2> QED
    BY <1>1, <1>2, <1>5, <1>6, <2>2 DEF Stage
<1>10. Reach(t)' /\ Gain(t)' = Gain(t) /\ (Needs(t)' <=> Needs(t))
  BY <1>2, <1>6 DEF Reach, Gain, Collected, Needs
<1>11. ASSUME ~closed
       PROVE  permits' + held'[t] + Gain(t)' + loc'[t].acq - total'
                = permits + held[t] + Gain(t) + loc[t].acq - total
  <2>1. permits' = permits + rest
    BY <1>2, <1>3, <1>11
  <2> QED
    BY <1>1, <1>2, <1>5, <1>10, <2>1
<1> QED
  BY <1>1, <1>2, <1>7, <1>8, <1>9, <1>10, <1>11, LocalStep

(* n permits go from t to the waiter w. *)
LEMMA Shift ==
  ASSUME NEW t \in Tasks, NEW w \in Tasks, NEW n \in Nat,
         permits \in Nat, held[t] \in Nat, Gain(w) \in Nat, loc[t].acq \in Nat, total \in Int,
         permits' = permits, held'[t] = held[t], total' = total,
         Gain(w)' = Gain(w) + n, loc'[t].acq = loc[t].acq - n
  PROVE  permits' + held'[t] + Gain(w)' + loc'[t].acq - total'
           = permits + held[t] + Gain(w) + loc[t].acq - total
OBVIOUS

(* The inner loop of add_permits_locked, with the head of the list as w. *)
LEMMA ServeStep ==
  ASSUME IInv, NEW t \in Tasks, NEW w \in Tasks, NEW taken \in Nat,
         pc[t] = "add", queue # <<>>, w = Head(queue),
         taken <= fut[w].rem, taken <= loc[t].acq,
         fut' = [fut EXCEPT ![w].rem = @ - taken],
         loc' = [loc EXCEPT ![t].acq = @ - taken],
         \/ /\ fut[w].rem = taken
            /\ queue' = Tail(queue) /\ hand' = [hand EXCEPT ![t] = @ \cup {w}] /\ pc' = pc
         \/ fut[w].rem # taken /\ GoTo(t, "wake") /\ queue' = queue /\ hand' = hand,
         permits' = permits, closed' = closed, held' = held, notified' = notified,
         total' = total, changes' = changes
  PROVE  IInv'
<1>1. /\ permits \in Nat /\ total \in Int /\ (~closed => total <= MAX_PERMITS)
      /\ held[t] \in Nat /\ loc[t].acq \in Nat /\ Stage(t)
  BY Numbers
<1>2. /\ fut[w].want \in Nat /\ fut[w].rem \in Nat /\ fut[w].rem <= fut[w].want
      /\ Gain(w) \in Nat /\ Stage(w)
  BY Numbers
<1>3. fut[w] \in Future /\ loc[t] \in Locals /\ queue \in Seq(Tasks) /\ Distinct(queue)
  BY DEF IInv, Typed, ListInv
<1>4. /\ fut'[w] = [fut[w] EXCEPT !.rem = fut[w].rem - taken]
      /\ \A u \in Tasks : u # w => fut'[u] = fut[u]
  BY Zenon DEF IInv, Typed
<1>5. /\ fut'[w].want = fut[w].want /\ fut'[w].queued = fut[w].queued
      /\ fut'[w].rem = fut[w].rem - taken
  BY <1>3, <1>4 DEF Future
<1>6. /\ loc'[t] = [loc[t] EXCEPT !.acq = loc[t].acq - taken]
      /\ \A u \in Tasks : u # t => loc'[u] = loc[u]
  BY DEF IInv, Typed
<1>7. /\ loc'[t].need = loc[t].need /\ loc'[t].curr = loc[t].curr
      /\ loc'[t].acq = loc[t].acq - taken /\ loc'[t].poll = loc[t].poll
  BY <1>3, <1>6 DEF Locals
<1>8. /\ pc' \in [Tasks -> Pcs] /\ pc'[t] \in {"add", "wake"}
      /\ \A u \in Tasks : u # t => pc'[u] = pc[u]
  BY Zenon DEF IInv, Typed, GoTo, Pcs
<1>9. /\ Tail(queue) \in Seq(Tasks) /\ Distinct(Tail(queue)) /\ w \in Elems(queue)
      /\ Elems(Tail(queue)) = Elems(queue) \ {w}
  BY <1>3, TailElems
<1>10. /\ hand' \in [Tasks -> SUBSET Tasks]
       /\ \A u \in Tasks : hand[u] \subseteq hand'[u]
       /\ fut[w].rem = taken => w \in hand'[t]
  <2>1. hand \in [Tasks -> SUBSET Tasks]
    BY DEF IInv, Typed
  <2>2. CASE hand' = [hand EXCEPT ![t] = hand[t] \cup {w}]
    BY <2>1, <2>2
  <2>3. CASE fut[w].rem # taken /\ hand' = hand
    BY <2>1, <2>3
  <2> QED
    BY <2>2, <2>3
<1>11. Typed'
  <2>1. fut[w].rem - taken \in Nat /\ loc[t].acq - taken \in Nat
    BY <1>1, <1>2, SMTT(30)
  <2>2. fut' \in [Tasks -> Future]
    BY <2>1, ZenonT(30) DEF IInv, Typed, Future
  <2>3. loc' \in [Tasks -> Locals]
    BY <2>1, Zenon DEF IInv, Typed, Locals
  <2>4. queue' \in Seq(Tasks)
    BY <1>3, <1>9, Zenon
  <2> QED
    BY <1>8, <1>10, <2>2, <2>3, <2>4 DEF IInv, Typed
<1>12. ASSUME NEW u \in Tasks, fut[u].rem = 0 PROVE fut'[u] = fut[u]
  <2>1. CASE u = w
    <3>1. taken = 0 /\ fut[w].rem - taken = fut[w].rem
      BY <1>2, <1>12, <2>1
    <3> QED
      BY <1>3, <1>4, <2>1, <3>1 DEF Future
  <2> QED
    BY <1>4, <2>1
<1>13. ~closed => Needs(w)
  BY <1>9 DEF IInv, ListInv
<1>14. Stage(t)'
  <2>1. held[t] = 0 /\ (loc[t].poll => fut[t].queued /\ fut[t].rem = 0)
        /\ (~loc[t].poll => fut[t] = NoFuture /\ loc[t] = [NoLocals EXCEPT !.acq = loc[t].acq])
    BY <1>1 DEF Stage
  <2>2. fut[t].rem = 0
    BY <2>1, Numbers DEF NoFuture
  <2>3. fut'[t] = fut[t]
    BY <1>12, <2>2
  <2>4. ~loc[t].poll => loc'[t] = [NoLocals EXCEPT !.acq = loc'[t].acq]
    BY ZenonT(20), <1>6, <1>7, <2>1 DEF NoLocals
  <2> QED
    BY <1>1, <1>7, <1>8, <2>1, <2>3, <2>4, Zenon DEF Stage
<1>15. ASSUME w # t PROVE Stage(w)'
  <2>1. pc'[w] = pc[w] /\ loc'[w] = loc[w]
    BY <1>6, <1>8, <1>15
  <2>2. fut[w] = NoFuture => fut'[w] = NoFuture
    BY <1>12 DEF NoFuture
  <2>3. fut'[w].rem <= fut[w].rem /\ fut'[w].rem \in Nat /\ fut'[w].rem <= fut'[w].want
        /\ (fut[w].rem = 0 => fut'[w].rem = 0)
    BY <1>2, <1>5
  <2>4. FutureOk(w) => FutureOk(w)'
    BY <1>5, <1>13, <2>1, <2>3 DEF FutureOk, Needs
  <2>5. loc[w].need \in Nat /\ loc[w].acq \in Nat
    BY Numbers
  <2>6. NeedOk(w) => NeedOk(w)'
    BY <1>2, <1>5, <2>1, <2>3, <2>5 DEF NeedOk
  <2>7. loc[w].acq >= fut[w].rem => loc'[w].acq >= fut'[w].rem
    <3>1. loc[w].acq >= fut[w].rem => loc[w].acq >= fut'[w].rem
      BY <1>2, <2>3, <2>5
    <3> QED
      BY <2>1, <3>1, Zenon
  <2> QED
    BY <1>2, <1>5, <2>1, <2>2, <2>3, <2>4, <2>6, <2>7 DEF Stage
<1>16. StageInv'
  <2> SUFFICES ASSUME NEW u \in Tasks, u # t, u # w PROVE Stage(u)'
    BY <1>14, <1>15 DEF StageInv
  <2>1. pc'[u] = pc[u] /\ fut'[u] = fut[u] /\ loc'[u] = loc[u] /\ Stage(u)
    BY <1>4, <1>6, <1>8, Numbers
  <2> QED
    BY <2>1 DEF Stage, FutureOk, NeedOk
<1>17. ListInv'
  <2>1. Distinct(queue')
    BY <1>3, <1>9, Zenon
  <2>2. ASSUME ~closed PROVE \A u \in Tasks : u \in Elems(queue') <=> Needs(u)'
    <3>1. \A u \in Tasks : u # w => (Needs(u)' <=> u \in Elems(queue))
      BY <1>4, <2>2 DEF IInv, ListInv, Needs
    <3>2. Needs(w)' <=> fut[w].rem # taken
      BY <1>2, <1>5, <1>13, <2>2 DEF Needs
    <3>3. fut[w].rem = taken => Elems(queue') = Elems(queue) \ {w}
      BY <1>9, Zenon
    <3>4. fut[w].rem # taken => queue' = queue
      OBVIOUS
    <3> QED
      BY <1>9, <3>1, <3>2, <3>3, <3>4
  <2>3. ~closed => ~(permits > 0)
    BY DEF IInv, ListInv
  <2> QED
    BY <2>1, <2>2, <2>3 DEF ListInv
<1>18. PermitsAreConserved'
  <2>1. \A u \in Tasks : u # t => held'[u] = held[u] /\ loc'[u].acq = loc[u].acq
    BY <1>6
  <2>2. \A u \in Tasks : u # w => Gain(u)' = Gain(u)
    BY <1>4 DEF Gain, Collected
  <2>3. ASSUME ~closed
        PROVE  permits' + held'[t] + Gain(w)' + loc'[t].acq - total'
                 = permits + held[t] + Gain(w) + loc[t].acq - total
    <3>1. fut'[w].queued /\ fut[w].queued
      BY <1>5, <1>13, <2>3 DEF Needs
    <3>2. Gain(w)' = fut'[w].want - fut'[w].rem /\ Gain(w) = fut[w].want - fut[w].rem
      BY <3>1 DEF Gain, Collected
    <3>3. Gain(w)' = Gain(w) + taken
      BY <1>2, <1>5, <3>2
    <3>4. permits \in Nat /\ held[t] \in Nat /\ Gain(w) \in Nat /\ loc[t].acq \in Nat /\ total \in Int
          /\ permits' = permits /\ held'[t] = held[t] /\ total' = total
          /\ loc'[t].acq = loc[t].acq - taken
      BY <1>1, <1>2, <1>7
    <3> QED
      BY <3>3, <3>4, Shift, Zenon
  <2> QED
    BY <1>11, <1>16, <2>1, <2>2, <2>3, Conserve DEF IInv
<1>19. CountInv'
  BY <1>18 DEF IInv, CountInv
<1>20. WaitersAreReachable'
  <2> SUFFICES ASSUME NEW u \in Tasks, pc'[u] = "future"
               PROVE  u \in Elems(queue') \/ notified[u] \/ \E v \in Tasks : u \in hand'[v]
    BY DEF WaitersAreReachable, Elems
  <2>1. pc[u] = "future"
    BY <1>8
  <2>2. u \in Elems(queue) \/ notified[u] \/ \E v \in Tasks : u \in hand[v]
    BY <2>1 DEF IInv, WaitersAreReachable, Elems
  <2>3. u \in Elems(queue) => u \in Elems(queue') \/ u \in hand'[t]
    BY <1>9, <1>10, Zenon
  <2> QED
    BY <1>10, <2>2, <2>3
<1> QED
  BY <1>11, <1>16, <1>17, <1>19, <1>20 DEF IInv

(* The inner loop of add_permits_locked. *)
LEMMA AddToWaiterStep ==
  ASSUME IInv, NEW t \in Tasks, AddToWaiter(t)
  PROVE  IInv'
<1> DEFINE w == Head(queue)
           taken == Least(fut[w].rem, loc[t].acq)
<1>1. queue \in Seq(Tasks) /\ queue # <<>>
  BY DEF IInv, Typed, AddToWaiter
<1>2. w \in Tasks
  BY <1>1
<1>3. fut[w].rem \in Nat /\ loc[t].acq \in Nat
  BY <1>2, Numbers
<1>4. taken \in Nat /\ taken <= fut[w].rem /\ taken <= loc[t].acq
  BY <1>3 DEF Least
<1>5. /\ pc[t] = "add"
      /\ fut' = [fut EXCEPT ![w].rem = @ - taken] /\ loc' = [loc EXCEPT ![t].acq = @ - taken]
      /\ \/ /\ fut[w].rem = taken
            /\ queue' = Tail(queue) /\ hand' = [hand EXCEPT ![t] = @ \cup {w}] /\ pc' = pc
         \/ fut[w].rem # taken /\ GoTo(t, "wake") /\ queue' = queue /\ hand' = hand
      /\ permits' = permits /\ closed' = closed /\ held' = held /\ notified' = notified
      /\ total' = total /\ changes' = changes
  BY DEF AddToWaiter
<1> HIDE DEF w, taken
<1>6. w = Head(queue)
  BY DEF w
<1> QED
  BY <1>1, <1>2, <1>4, <1>5, <1>6, ServeStep, Zenon

(* Waking a task does not concern the permits. *)
LEMMA Unmoved ==
  ASSUME IInv, UNCHANGED <<permits, queue, closed, pc, fut, loc, held, total>>
  PROVE  StageInv' /\ ListInv' /\ CountInv'
<1>1. StageInv'
  BY DEF IInv, StageInv, Stage, FutureOk, NeedOk
<1>2. ListInv'
  BY DEF IInv, ListInv, Needs
<1>3. CountInv'
  BY DEF IInv, CountInv, PermitsAreConserved, Collected
<1> QED
  BY <1>1, <1>2, <1>3

(* A pending future that is woken is notified. *)
LEMMA NotifyEffect ==
  ASSUME Typed, NEW w \in Tasks, Notify(w)
  PROVE  /\ notified' \in [Tasks -> BOOLEAN] /\ (pc[w] = "future" => notified'[w])
         /\ \A u \in Tasks : u # w => notified'[u] = notified[u]
<1> DEFINE b == pc[w] \in {"future", "load", "take", "settle"}
<1>1. b \in BOOLEAN /\ (pc[w] = "future" => b)
  OBVIOUS
<1>2. notified' = [notified EXCEPT ![w] = b]
  BY DEF Notify
<1> HIDE DEF b
<1>3. notified \in [Tasks -> BOOLEAN]
  BY DEF Typed
<1>4. notified'[w] = b /\ \A u \in Tasks : u # w => notified'[u] = notified[u]
  BY <1>2, <1>3
<1>5. notified' \in [Tasks -> BOOLEAN]
  BY <1>1, <1>2, <1>3
<1> QED
  BY <1>1, <1>4, <1>5

(* WakeBatch::wake_all. *)
LEMMA AddWakeStep ==
  ASSUME IInv, NEW t \in Tasks, AddWake(t)
  PROVE  IInv'
<1>1. PICK w \in hand[t] : Notify(w) /\ hand' = [hand EXCEPT ![t] = @ \ {w}]
  BY Zenon DEF AddWake
<1>2. UNCHANGED <<permits, queue, closed, pc, fut, loc, held, total, changes>>
  BY DEF AddWake
<1>3. w \in Tasks /\ notified \in [Tasks -> BOOLEAN] /\ hand \in [Tasks -> SUBSET Tasks]
  BY DEF IInv, Typed
<1>4. /\ notified' \in [Tasks -> BOOLEAN] /\ (pc[w] = "future" => notified'[w])
      /\ \A u \in Tasks : u # w => notified'[u] = notified[u]
  BY <1>1, <1>3, NotifyEffect DEF IInv
<1>5. /\ hand' \in [Tasks -> SUBSET Tasks]
      /\ \A u, v \in Tasks : u # w /\ u \in hand[v] => u \in hand'[v]
  BY <1>1, <1>3
<1>6. Typed'
  BY <1>2, <1>4, <1>5 DEF IInv, Typed
<1>7. WaitersAreReachable'
  <2> SUFFICES ASSUME NEW u \in Tasks PROVE Reach(u)'
    BY DEF WaitersAreReachable, Reach
  <2>1. Reach(u)
    BY Numbers
  <2> QED
    BY <1>2, <1>3, <1>4, <1>5, <2>1, ZenonT(20) DEF Reach
<1> QED
  BY <1>2, <1>6, <1>7, Unmoved DEF IInv

(* close stores the count and sets the flag. *)
LEMMA CloseStep ==
  ASSUME IInv, NEW t \in Tasks, Close(t)
  PROVE  IInv'
<1>1. /\ pc[t] = "idle" /\ closed' = TRUE /\ permits' = CLOSED
      /\ UNCHANGED <<queue, fut, loc, hand, held, notified, total, changes>>
  BY DEF Close
<1>2. pc' \in [Tasks -> Pcs] /\ pc'[t] = "close" /\ \A u \in Tasks : u # t => pc'[u] = pc[u]
  BY DEF IInv, Typed, Close, GoTo, Pcs
<1>3. Typed'
  BY <1>1, <1>2, ClosedIsLarge DEF IInv, Typed
<1>4. Others(t)
  BY <1>1, <1>2, Zenon DEF Others
<1>5. Stage(t)
  BY Numbers
<1>6. Stage(t)'
  BY <1>1, <1>2, <1>5 DEF Stage
<1>7. StageInv'
  BY ZenonT(20), <1>1, <1>4, <1>6, StageOfOthers DEF IInv
<1>8. ListInv' /\ CountInv'
  BY <1>1 DEF IInv, ListInv, CountInv, PermitsAreConserved
<1>9. WaitersAreReachable'
  BY <1>1, <1>2 DEF IInv, WaitersAreReachable
<1> QED
  BY <1>3, <1>7, <1>8, <1>9 DEF IInv

(* close unlinks and wakes the waiters. *)
LEMMA CloseWakeStep ==
  ASSUME IInv, NEW t \in Tasks, CloseWake(t)
  PROVE  IInv'
<1>1. /\ pc[t] = "close" /\ Stage(t)
      /\ UNCHANGED <<permits, closed, fut, loc, hand, held, total, changes>>
  BY Numbers DEF CloseWake
<1>2. closed /\ fut[t] = NoFuture /\ loc[t] = NoLocals
  BY <1>1 DEF Stage
<1>3. CASE queue # <<>> /\ queue' = Tail(queue) /\ Notify(Head(queue)) /\ pc' = pc
  <2>1. queue \in Seq(Tasks) /\ Distinct(queue)
    BY DEF IInv, Typed, ListInv
  <2>2. /\ Tail(queue) \in Seq(Tasks) /\ Head(queue) \in Tasks /\ Distinct(Tail(queue))
        /\ Elems(Tail(queue)) = Elems(queue) \ {Head(queue)}
    BY <1>3, <2>1, TailElems
  <2>3. /\ notified' \in [Tasks -> BOOLEAN]
        /\ pc[Head(queue)] = "future" => notified'[Head(queue)]
        /\ \A u \in Tasks : u # Head(queue) => notified'[u] = notified[u]
    BY <1>3, <2>2, NotifyEffect DEF IInv
  <2>4. Typed'
    BY <1>1, <1>3, <2>2, <2>3 DEF IInv, Typed
  <2>5. StageInv'
    BY ZenonT(20), <1>1, <1>3 DEF IInv, StageInv, Stage, FutureOk, NeedOk
  <2>6. ListInv' /\ CountInv'
    BY ZenonT(20), <1>1, <1>2, <1>3, <2>2 DEF ListInv, CountInv, PermitsAreConserved
  <2>7. WaitersAreReachable'
    <3> SUFFICES ASSUME NEW u \in Tasks, pc[u] = "future"
                 PROVE  u \in Elems(queue') \/ notified'[u] \/ \E v \in Tasks : u \in hand[v]
      BY <1>1, <1>3 DEF WaitersAreReachable, Elems
    <3>1. u \in Elems(queue) \/ notified[u] \/ \E v \in Tasks : u \in hand[v]
      BY DEF IInv, WaitersAreReachable, Elems
    <3> QED
      BY <1>3, <2>2, <2>3, <3>1
  <2> QED
    BY <2>4, <2>5, <2>6, <2>7 DEF IInv
<1>4. CASE queue = <<>> /\ GoTo(t, "idle") /\ UNCHANGED <<queue, notified>>
  <2>1. pc' \in [Tasks -> Pcs] /\ pc'[t] = "idle" /\ \A u \in Tasks : u # t => pc'[u] = pc[u]
    BY <1>4 DEF IInv, Typed, GoTo, Pcs
  <2>2. Typed'
    BY ZenonT(20), <1>1, <1>4, <2>1 DEF IInv, Typed
  <2>3. Stage(t)' /\ Reach(t)'
    BY ZenonT(20), <1>1, <1>2, <2>1, IdleStage DEF Reach
  <2>4. Others(t)
    BY <1>1, <2>1 DEF Others
  <2> QED
    BY <1>1, <1>4, <2>2, <2>3, <2>4, QuietStep
<1> QED
  BY <1>3, <1>4 DEF CloseWake

-----------------------------------------------------------------------------
(* The invariant and what follows from it. *)

(* Semaphore::new. *)
LEMMA InitIInv == Init => IInv
<1> SUFFICES ASSUME Init PROVE IInv
  OBVIOUS
<1>1. NoFuture \in Future /\ NoLocals \in Locals /\ NoFuture.rem = 0 /\ NoFuture.want = 0
      /\ ~NoFuture.queued /\ NoLocals.acq = 0 /\ NoLocals.curr # CLOSED
  BY ClosedIsLarge DEF NoFuture, NoLocals, Future, Locals
<1>2. Initial \in Nat /\ Initial <= MAX_PERMITS
  BY SemaphoreAssumption DEF MAX_PERMITS
<1>3. <<>> \in Seq(Tasks) /\ Elems(<<>>) = {} /\ Distinct(<<>>)
  BY DEF Elems, Distinct
<1>4. Typed
  <2>1. permits \in Nat /\ total \in Int /\ changes \in Nat /\ queue \in Seq(Tasks) /\ closed \in BOOLEAN
    <3>1. permits = Initial /\ total = Initial /\ changes = 0 /\ queue = <<>> /\ closed = FALSE
      BY DEF Init
    <3>2. permits \in Nat /\ total \in Int /\ changes \in Nat
      BY <1>2, <3>1
    <3> QED
      BY <1>3, <3>1, <3>2, Zenon
  <2>2. pc \in [Tasks -> Pcs]
    BY DEF Init, PerTask, Pcs
  <2>3. fut \in [Tasks -> Future] /\ loc \in [Tasks -> Locals]
    BY <1>1 DEF Init, PerTask
  <2>4. hand \in [Tasks -> SUBSET Tasks] /\ held \in [Tasks -> Nat] /\ notified \in [Tasks -> BOOLEAN]
    BY DEF Init, PerTask
  <2> QED
    BY <2>1, <2>2, <2>3, <2>4 DEF Typed
<1>5. StageInv
  BY <1>1 DEF Init, StageInv, Stage, PerTask
<1>6. ListInv
  BY <1>1, <1>3 DEF Init, ListInv, Needs, PerTask
<1>7. Gains = [t \in Tasks |-> 0] /\ Transit = [t \in Tasks |-> 0] /\ held = [t \in Tasks |-> 0]
  BY <1>1 DEF Init, Gains, Gain, Transit, PerTask
<1>8. PermitsAreConserved
  <2>1. PermitsAreConserved <=> (~closed => permits + Sum(held) + Sum(Gains) + Sum(Transit) = total)
    BY <1>4, <1>5, ConservedIs
  <2>2. permits + 0 + 0 + 0 = total
    BY <1>2 DEF Init
  <2> QED
    BY <1>7, <2>1, <2>2, SumOfZeros
<1>9. CountInv
  BY <1>2, <1>8, ClosedIsLarge DEF CountInv, Init
<1>10. WaitersAreReachable
  BY DEF Init, WaitersAreReachable, PerTask
<1> QED
  BY <1>4, <1>5, <1>6, <1>9, <1>10 DEF IInv

(* Every step keeps the invariant. *)
LEMMA NextIInv == IInv /\ [Next]_vars => IInv'
<1> SUFFICES ASSUME IInv, [Next]_vars PROVE IInv'
  OBVIOUS
<1>1. ASSUME NEW t \in Tasks, Proceed(t) PROVE IInv'
  BY <1>1, PollNeedStep, PollLoadStep, PollTakeStep, PollSettleStep, TryCasStep, AddToWaiterStep,
     AddRestStep, AddFullStep, AddWakeStep, AddAgainStep, CloseWakeStep DEF Proceed
<1>2. ASSUME NEW t \in Tasks,
             Acquire(t) \/ TryAcquire(t) \/ Release(t) \/ AddPermits(t) \/ Forget(t) \/ Drop(t) \/ Close(t)
      PROVE  IInv'
  BY <1>2, AcquireStep, TryAcquireStep, ReleaseStep, AddPermitsStep, ForgetStep, DropStep, CloseStep
<1>3. CASE UNCHANGED vars
  <2>1. StageInv' /\ ListInv' /\ CountInv'
    BY <1>3, Unmoved DEF vars
  <2>2. Typed' /\ WaitersAreReachable'
    BY <1>3 DEF IInv, vars, Typed, WaitersAreReachable
  <2> QED
    BY <2>1, <2>2 DEF IInv
<1> QED
  BY <1>1, <1>2, <1>3 DEF Next

(* The inductive invariant holds. *)
THEOREM Invariance == Spec => []IInv
BY InitIInv, NextIInv, PTL DEF Spec

(* Permits are neither lost nor made up: however polls, drops and releases  *)
(* interleave, the free ones, those in Permits, those collected by waiting  *)
(* futures and those in transit add up to what the semaphore was given.     *)
THEOREM PermitsConserved == Spec => []PermitsAreConserved
<1>1. IInv => PermitsAreConserved
  BY DEF IInv, CountInv
<1> QED
  BY <1>1, Invariance, PTL

(* While a task is queued there are no free permits that a newcomer could   *)
(* take before it: the compare_exchange of poll_acquire leaves none behind  *)
(* when it enqueues, and add_permits_locked serves the list first.          *)
THEOREM QueueIsServedFirst == Spec => []NoFreePermitsWhileWaiting
<1>1. IInv => NoFreePermitsWhileWaiting
  BY DEF IInv, ListInv, NoFreePermitsWhileWaiting
<1> QED
  BY <1>1, Invariance, PTL

(* Exactly the futures that wait for permits are linked, once each, and a   *)
(* pending future that is not linked has been or will be woken.             *)
THEOREM ListHoldsTheWaiters == Spec => []WaitersAreListed
<1>1. IInv => WaitersAreListed
  <2> SUFFICES ASSUME IInv, ~closed PROVE WaitersAreLinkedOnce
    BY DEF IInv, WaitersAreListed, WaitersAreLinkedOnce
  <2>1. ASSUME NEW i \in DOMAIN queue
        PROVE  Needs(queue[i]) /\ pc[queue[i]] \in {"future", "load", "take"}
    <3>1. queue[i] \in Tasks /\ queue[i] \in Elems(queue)
      BY DEF IInv, Typed, Elems
    <3> DEFINE u == queue[i]
    <3>2. Needs(u) /\ Stage(u) /\ pc[u] \in Pcs /\ fut[u].rem \in Nat
      BY <3>1, Numbers DEF IInv, Typed, ListInv
    <3> HIDE DEF u
    <3>3. \A r \in Nat : r > 0 => r # 0
      OBVIOUS
    <3>4. fut[u].rem > 0
      BY <3>2, Zenon DEF Needs
    <3>5. fut[u].rem # 0
      BY <3>2, <3>3, <3>4, Zenon
    <3>6. NoFuture.rem = 0
      BY DEF NoFuture
    <3>7. pc[u] \in {"future", "load", "take"}
      <4>1. fut[u] # NoFuture
        BY <3>5, <3>6, Zenon
      <4> QED
        BY <3>2, <3>5, <4>1, SMTT(30) DEF Stage, Pcs
    <3> QED
      BY <3>2, <3>7, Zenon DEF u
  <2>2. Distinct(queue)
    BY DEF IInv, ListInv
  <2> QED
    BY <2>1, <2>2 DEF WaitersAreLinkedOnce, Needs, Distinct
<1> QED
  BY <1>1, Invariance, PTL
=============================================================================
