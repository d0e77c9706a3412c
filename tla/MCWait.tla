-------------------------------- MODULE MCWait --------------------------------
(* WaitQueue, WaitMap and InitOnce on small sets of tasks and threads.  Which  *)
(* of them the program uses is chosen in the initial state; the others stay as *)
(* they are, and nothing is shared.                                            *)
EXTENDS WaitQueue, TLC

CONSTANTS Keys, Vals, MapBatchSize,  \* of the map
          Users, Null                \* of the InitOnce

VARIABLES
  which,
  mstate, mqueue, mlock, wakeup, mwstate, key, mpc, call, sent, taken, woken, unsent,
  kind, cell, contents, opc, op, ref

Map == INSTANCE WaitMap WITH BatchSize <- MapBatchSize, wstate <- mwstate
Once == INSTANCE InitOnce WITH Threads <- Users

mapVars == <<mstate, mqueue, mlock, wakeup, mwstate, key, mpc, call, sent, taken, woken, unsent>>
onceVars == <<kind, cell, contents, opc, op, ref>>
waitVars == <<which, vars, mapVars, onceVars>>

WaitInit ==
  /\ which \in {"queue", "map", "once"}
  /\ Init /\ Map!Init /\ Once!Init
  /\ which # "queue" => ops = {"wake"}
  /\ which # "once" => kind = "Lazy"

(* Only the queue is checked for deadlock: a closed map, or one whose values   *)
(* have all been sent, comes to rest.                                          *)
Ended == which # "queue" /\ UNCHANGED waitVars

WaitNext ==
  \/ which = "queue" /\ Next /\ UNCHANGED <<which, mapVars, onceVars>>
  \/ which = "map" /\ Map!Next /\ UNCHANGED <<which, vars, onceVars>>
  \/ which = "once" /\ Once!Next /\ UNCHANGED <<which, vars, mapVars>>
  \/ Ended

WaitSpec == WaitInit /\ [][WaitNext]_waitVars

Symmetry == Permutations(Waiters) \cup Permutations(Wakers)

-----------------------------------------------------------------------------
(* WaitMap: a value passed to wake is given back to the caller or to one live  *)
(* future that waits for its key; it is never lost or handed out twice.        *)
MapIsSound == which = "map" => Map!MapIsSound

(* WaitMap: a future that waits is listed where wake or close will find it, or *)
(* has been resolved, and then its task is woken.                              *)
MapWaitersAreReachable == which = "map" => Map!WaitersAreReachable

(* InitOnce and Lazy: no reference to the contents is made before they are     *)
(* written, and all references ever made are to the same value.                *)
InitializedOnce == which = "once" => Once!InitializedOnce
=============================================================================
