----------------------------- MODULE ConnLease -----------------------------
(***************************************************************************)
(* What connPool promises its callers, without semaphore, locks or reaper: *)
(* a conn is leased to one fetch at a time; between leases it is idle or   *)
(* retired; a retired conn is never leased again; a pool that is shut      *)
(* keeps nothing idle.                                                     *)
(***************************************************************************)
CONSTANTS Fetchers, Conns, NoConn

VARIABLES
    holder,   \* holder[f]: the conn leased to f, or NoConn
    idle,     \* conns kept for reuse
    retired,  \* conns given up, their socket not closed yet
    shut

leaseVars == <<holder, idle, retired, shut>>

Held == {holder[f] : f \in Fetchers} \ {NoConn}

Init ==
    /\ holder = [f \in Fetchers |-> NoConn]
    /\ idle = {}
    /\ retired = {}
    /\ shut = FALSE

Reuse(f, c) ==
    /\ ~shut
    /\ holder[f] = NoConn
    /\ c \in idle
    /\ holder' = [holder EXCEPT ![f] = c]
    /\ idle' = idle \ {c}
    /\ UNCHANGED <<retired, shut>>

\* Also in a shut pool: a dial that was under way may still succeed.
Fresh(f, c) ==
    /\ holder[f] = NoConn
    /\ c \in Conns \ (Held \cup idle \cup retired)
    /\ holder' = [holder EXCEPT ![f] = c]
    /\ UNCHANGED <<idle, retired, shut>>

GiveBack(f) ==
    /\ ~shut
    /\ holder[f] # NoConn
    /\ idle' = idle \cup {holder[f]}
    /\ holder' = [holder EXCEPT ![f] = NoConn]
    /\ UNCHANGED <<retired, shut>>

Retire(f) ==
    /\ holder[f] # NoConn
    /\ retired' = retired \cup {holder[f]}
    /\ holder' = [holder EXCEPT ![f] = NoConn]
    /\ UNCHANGED <<idle, shut>>

Expire(S) ==
    /\ idle' = idle \ S
    /\ retired' = retired \cup S
    /\ UNCHANGED <<holder, shut>>

Shut ==
    /\ ~shut
    /\ shut' = TRUE
    /\ idle' = {}
    /\ retired' = retired \cup idle
    /\ UNCHANGED holder

Discard(c) ==
    /\ c \in retired
    /\ retired' = retired \ {c}
    /\ UNCHANGED <<holder, idle, shut>>

Next ==
    \/ \E f \in Fetchers : GiveBack(f) \/ Retire(f)
    \/ \E f \in Fetchers, c \in Conns : Reuse(f, c) \/ Fresh(f, c)
    \/ \E S \in SUBSET idle : Expire(S)
    \/ \E c \in Conns : Discard(c)
    \/ Shut

Spec == Init /\ [][Next]_leaseVars
=============================================================================
