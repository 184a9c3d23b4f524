---------------------------- MODULE FetchPromise ----------------------------
(***************************************************************************)
(* What a Client promises its callers, without pool, cache and errgroup:   *)
(* every call is answered once, with a chart of its own request or with an *)
(* error that has its reason; a chart that was not fetched for the call    *)
(* was fetched for another one of the same key; FetchMulti returns what    *)
(* its resolutions were answered; a call that begins after a Close has     *)
(* returned is refused.                                                    *)
(***************************************************************************)
EXTENDS Integers

CONSTANTS Requests, Keys, KeyOf, TTL, Solo, Asks, Batches, Slots, Charts, Nothing

VARIABLES
    wanted,    \* the resolutions of the one FetchMulti, as requests
    stage,     \* stage[f]: "idle"; "open", begun in time; or "late", after a Close
    answer,    \* answer[f]: what call f returns, or Nothing
    multi,     \* FetchMulti: "idle", "running", "done", "refused" or "invalid"
    report,    \* what FetchMulti returns, or Nothing
    closed,    \* a Close has begun
    over,      \* a Close has returned
    canceled   \* the context of FetchMulti's caller is done

promiseVars == <<wanted, stage, answer, multi, report, closed, over, canceled>>

Calls == Solo \cup Slots
Asked(f) == IF f \in Slots THEN wanted[f] ELSE Asks[f]
Key(f)   == KeyOf[Asked(f)]

Served(f) == answer[f] # Nothing /\ answer[f].code \in {"ok", "hit"}
Fetched == {answer[f].chart : f \in {g \in Calls : Served(g) /\ answer[g].code = "ok"}}

Init ==
    /\ wanted \in Batches
    /\ stage = [f \in Calls |-> "idle"]
    /\ answer = [f \in Calls |-> Nothing]
    /\ multi = "idle"
    /\ report = Nothing
    /\ closed = FALSE
    /\ over = FALSE
    /\ canceled = FALSE

\* A resolution of FetchMulti begins with it: it is never late.
Begin(f) ==
    /\ stage[f] = "idle"
    /\ f \in Slots => f \in DOMAIN wanted /\ multi = "running"
    /\ stage' = [stage EXCEPT ![f] = IF f \in Solo /\ over THEN "late" ELSE "open"]
    /\ UNCHANGED <<wanted, answer, multi, report, closed, over, canceled>>

\* Begun, and not answered yet.
Pending(f) == answer[f] = Nothing /\ stage[f] # "idle"
InTime(f)  == Pending(f) /\ stage[f] = "open"

Answer(f, a) ==
    /\ answer' = [answer EXCEPT ![f] = a]
    /\ UNCHANGED <<wanted, stage, multi, report, closed, over, canceled>>

\* ErrClosed.  A late call gets no other answer.
Refuse(f) == Pending(f) /\ closed /\ Answer(f, [code |-> "closed"])

Reject(f) ==
    /\ InTime(f)
    /\ Key(f) = Nothing
    /\ Answer(f, [code |-> "invalid"])

\* A part of FetchMulti is canceled by FetchMulti's caller only.
Fail(f) ==
    /\ InTime(f)
    /\ Key(f) \in Keys
    /\ \/ Answer(f, [code |-> "failed"])
       \/ (f \in Slots => canceled) /\ Answer(f, [code |-> "canceled"])

Fresh(f) ==
    /\ InTime(f)
    /\ \E c \in Charts :
          /\ c.key = Key(f)
          /\ Answer(f, [code |-> "ok", chart |-> c])

\* Only a key that CacheTTLs lists is answered with somebody else's chart.
Cached(f) ==
    /\ InTime(f)
    /\ \E c \in Fetched :
          /\ c.key = Key(f)
          /\ TTL[c.key] > 0
          /\ Answer(f, [code |-> "hit", chart |-> c])

Start ==
    /\ multi = "idle"
    /\ ~over
    /\ wanted # <<>>
    /\ multi' = "running"
    /\ UNCHANGED <<wanted, stage, answer, report, closed, over, canceled>>

Decline ==
    /\ multi = "idle"
    /\ closed
    /\ multi' = "refused"
    /\ UNCHANGED <<wanted, stage, answer, report, closed, over, canceled>>

\* Who asks for nothing is told so.
RejectEmpty ==
    /\ multi = "idle"
    /\ ~over
    /\ wanted = <<>>
    /\ multi' = "invalid"
    /\ UNCHANGED <<wanted, stage, answer, report, closed, over, canceled>>

\* Every part has been answered.  Under each key there is the chart of one of
\* the parts that have it, and there is an error for each of the others.
Report ==
    /\ multi = "running"
    /\ \A i \in DOMAIN wanted : answer[i] # Nothing
    /\ LET good == {i \in DOMAIN wanted : Served(i)} IN
       \E part \in [{Key(i) : i \in good} -> good] :
          /\ \A k \in DOMAIN part : Key(part[k]) = k
          /\ report' = [slabs  |-> [k \in DOMAIN part |-> answer[part[k]].chart],
                        errors |-> {Asked(i) : i \in DOMAIN wanted \ good}]
    /\ multi' = "done"
    /\ UNCHANGED <<wanted, stage, answer, closed, over, canceled>>

CloseBegins ==
    /\ closed' = TRUE
    /\ UNCHANGED <<wanted, stage, answer, multi, report, over, canceled>>

CloseReturns ==
    /\ closed
    /\ over' = TRUE
    /\ UNCHANGED <<wanted, stage, answer, multi, report, closed, canceled>>

Cancel ==
    /\ canceled' = TRUE
    /\ UNCHANGED <<wanted, stage, answer, multi, report, closed, over>>

Next ==
    \/ \E f \in Calls :
          Begin(f) \/ Refuse(f) \/ Reject(f) \/ Fail(f) \/ Fresh(f) \/ Cached(f)
    \/ Start \/ Decline \/ RejectEmpty \/ Report
    \/ CloseBegins \/ CloseReturns \/ Cancel

Spec == Init /\ [][Next]_promiseVars
=============================================================================
