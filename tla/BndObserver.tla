----------------------------- MODULE BndObserver -----------------------------
(***************************************************************************)
(* What the monitors of B&D calls promise to the history: a snapshot is    *)
(* the order list as it was at some moment of one request, and its time is *)
(* the moment the answer was applied.  Logins, failures, delays, hours and *)
(* restarts are only reasons to ask late or to abandon a request.          *)
(* BndMonitor implements it (BndMonitor!ImplementsObserver).               *)
(***************************************************************************)
EXTENDS Integers

CONSTANTS Orders, Processes, RequestTime, MaxTime

VARIABLES
    clock,
    list,   \* [Orders -> state of the order upstream]
    obs     \* [Processes -> Observer]

observerVars == <<clock, list, obs>>

Never == -1
\* An order is not yet in the list, waits in it, was claimed, or has left the list.
OrderStates == {"absent", "waiting", "claimed", "gone"}

Nothing == [o \in Orders |-> "absent"]
IdleObserver == [pc |-> "idle", asked |-> 0, answer |-> Nothing, observedAt |-> 0]

Observer == [pc: {"idle", "read", "answer", "snapshot"}, asked: 0 .. MaxTime,
             answer: [Orders -> OrderStates], observedAt: 0 .. MaxTime]

ObserverTypeOK ==
    /\ clock \in 0 .. MaxTime
    /\ list \in [Orders -> OrderStates]
    /\ obs \in [Processes -> Observer]

ObserverInit ==
    /\ clock = 0
    /\ list = Nothing
    /\ obs = [p \in Processes |-> IdleObserver]

At(p, pc) == obs[p].pc = pc

Ask(p) ==
    /\ At(p, "idle")
    /\ obs' = [obs EXCEPT ![p].pc = "read", ![p].asked = clock]
    /\ UNCHANGED <<clock, list>>

Read(p) ==
    /\ At(p, "read")
    /\ obs' = [obs EXCEPT ![p].pc = "answer", ![p].answer = list]
    /\ UNCHANGED <<clock, list>>

Apply(p) ==
    /\ At(p, "answer")
    /\ obs' = [obs EXCEPT ![p].pc = "snapshot", ![p].asked = 0, ![p].observedAt = clock]
    /\ UNCHANGED <<clock, list>>

\* A request that fails, or a snapshot callback that ends.
Release(p) ==
    /\ ~At(p, "idle")
    /\ obs' = [obs EXCEPT ![p] = IdleObserver]
    /\ UNCHANGED <<clock, list>>

ListChanges(o) ==
    /\ \/ list[o] = "absent" /\ list' = [list EXCEPT ![o] = "waiting"]
       \/ list[o] = "waiting" /\ list' = [list EXCEPT ![o] = "claimed"]
       \/ list[o] \in {"waiting", "claimed"} /\ list' = [list EXCEPT ![o] = "gone"]
    /\ UNCHANGED <<clock, obs>>

Tick ==
    /\ clock < MaxTime
    /\ \A p \in Processes :
          obs[p].pc \in {"read", "answer"} => clock < obs[p].asked + RequestTime
    /\ clock' = clock + 1
    /\ UNCHANGED <<list, obs>>

ObserverNext ==
    \/ \E p \in Processes : Ask(p) \/ Read(p) \/ Apply(p) \/ Release(p)
    \/ \E o \in Orders : ListChanges(o)
    \/ Tick

ObserverSpec == ObserverInit /\ [][ObserverNext]_observerVars
=============================================================================
