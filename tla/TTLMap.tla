------------------------------- MODULE TTLMap -------------------------------
(***************************************************************************)
(* What lruCache promises Client.Fetch: a hit is what was put last under   *)
(* the key, and no longer ago than the key's TTL.  Nothing is promised     *)
(* about how long an entry stays: every get may miss.                      *)
(***************************************************************************)
EXTENDS Integers

CONSTANTS Keys, Data, TTL, Nothing

VARIABLES
    now,
    promise,  \* promise[k]: the last put under k and its end, or Nothing
    answer    \* what the last get returned

Init ==
    /\ now = 0
    /\ promise = [k \in Keys |-> Nothing]
    /\ answer = Nothing

Promised(k, d) ==
    promise' = [promise EXCEPT ![k] = [data |-> d, expiresAt |-> now + TTL[k]]]

Put(k, d) ==
    /\ TTL[k] > 0
    /\ Promised(k, d)
    /\ UNCHANGED <<now, answer>>

Unexpired(k) == promise[k] # Nothing /\ now <= promise[k].expiresAt

Hit(k) ==
    /\ Unexpired(k)
    /\ answer' = [key |-> k, data |-> promise[k].data]
    /\ UNCHANGED <<now, promise>>

Miss ==
    /\ answer' = Nothing
    /\ UNCHANGED <<now, promise>>

Tick ==
    /\ now' = now + 1
    /\ UNCHANGED <<promise, answer>>

Next ==
    \/ \E k \in Keys, d \in Data : Put(k, d)
    \/ \E k \in Keys : Hit(k)
    \/ Miss
    \/ Tick

Spec == Init /\ [][Next]_<<now, promise, answer>>
=============================================================================
