---------------------------- MODULE CapacityPool ----------------------------
(***************************************************************************)
(* What the provider admission promises: a counting semaphore over several *)
(* overlapping budgets.  An operation takes a place in every budget that   *)
(* covers it, uses the provider only while it has that place, and gives    *)
(* the place back only when the provider has stopped.                      *)
(***************************************************************************)
EXTENDS Naturals, FiniteSets

CONSTANTS
    Ops,        \* operations that use a provider
    Budgets,    \* global, credential-slot and relationship budgets
    Covers,     \* the operations counted by each budget
    MaxActive   \* the ceiling of each budget

VARIABLES
    holders,    \* operations with a place
    using       \* operations whose provider run is going on

poolVars == <<holders, using>>

HasRoom(o) ==
    \A b \in Budgets : o \in Covers[b] => Cardinality(holders \cap Covers[b]) < MaxActive[b]

PoolInit == holders = {} /\ using = {}

Take(o) ==
    /\ o \notin holders /\ HasRoom(o)
    /\ holders' = holders \cup {o} /\ UNCHANGED using

Use(o) ==
    /\ o \in holders \ using
    /\ using' = using \cup {o} /\ UNCHANGED holders

Stop(o) ==
    /\ o \in using
    /\ using' = using \ {o} /\ UNCHANGED holders

Give(o) ==
    /\ o \in holders \ using
    /\ holders' = holders \ {o} /\ UNCHANGED using

PoolNext == \E o \in Ops : Take(o) \/ Use(o) \/ Stop(o) \/ Give(o)

PoolSpec == PoolInit /\ [][PoolNext]_poolVars
=============================================================================
