---------------------------- MODULE ChartSession ----------------------------
(***************************************************************************)
(* The fetches that one slot of the pool runs, one after the other, over   *)
(* its websocket: conn.fetchSeries, conn.send and the release at the end   *)
(* of Client.fetchOnce, with the link and TradingView's server around      *)
(* them.                                                                   *)
(*                                                                         *)
(* A fetch opens a chart session, asks for its bars, reads messages until  *)
(* one decides it, and deletes the session.  A successful fetch leaves the *)
(* conn to the next one, with whatever is still unread on it; a failed one *)
(* has it closed, and the next fetch dials.                                *)
(*                                                                         *)
(* A message of the server is a batch of frames, and a frame is only what  *)
(* fetchSeries does with it: a heartbeat, bars or an error of a session,   *)
(* or something to skip.                                                   *)
(***************************************************************************)
EXTENDS Integers, FiniteSets, SequencesExt

CONSTANTS MaxFetches,  \* bound of the number of fetches
          MaxFrames    \* bound of the frames in flight to the client

ASSUME ChartAssumption == MaxFetches \in Nat /\ MaxFrames \in Nat

VARIABLES
    pc,        \* where the current fetch is in fetchSeries
    session,   \* number of the newest session: genSessionID's counter
    outcome,   \* what the current fetch returns: code, and whose bars
    canceled,  \* ctx is done
    expired,   \* the deadline has passed
    first,     \* the first session of this conn
    up,        \* the link still carries messages
    wdead,     \* a write failed: gorilla/websocket fails every later one
    rdead,     \* a read failed: gorilla/websocket panics if reads go on
    c2s, s2c,  \* requests and messages in flight
    chart,     \* the server's sessions on this conn
    failed     \* history: sessions whose fetch returned an error

fetchVars  == <<session, outcome, canceled, expired, failed>>
socketVars == <<first, up, wdead, rdead>>
serverVars == <<chart, s2c>>
vars == <<pc, fetchVars, socketVars, c2s, serverVars>>

Sessions == 1 .. MaxFetches

Codes == {"none", "ok", "symbol_unknown", "upstream_timeout",
          "upstream_protocol"}

Requests == [op : {"create", "resolve", "series", "delete"}, of : Sessions]

Frames == {[kind |-> k, of |-> 0] : k \in {"beat", "other"}}
          \cup [kind : {"bars", "error"}, of : Sessions]

\* The batches of at most k frames out of F.
Batches(F, k) == UNION {[1 .. n -> F] : n \in 1 .. k}

NoOutcome == [code |-> "none", from |-> 0]
Failure(code) == [code |-> code, from |-> 0]

Live == {s \in Sessions : chart[s] \in {"created", "resolved", "streaming"}}

Init ==
    /\ pc = "idle"
    /\ session = 0
    /\ outcome = NoOutcome
    /\ canceled = FALSE
    /\ expired = FALSE
    /\ first = 1
    /\ up = TRUE
    /\ wdead = FALSE
    /\ rdead = FALSE
    /\ c2s = <<>>
    /\ s2c = <<>>
    /\ chart = [s \in Sessions |-> "none"]
    /\ failed = {}

-----------------------------------------------------------------------------
(* conn.send: one write of the websocket *)

\* The write is taken; on a broken link it goes nowhere.
WriteOk(r) ==
    /\ ~wdead
    /\ c2s' = IF up THEN Append(c2s, r) ELSE c2s
    /\ UNCHANGED wdead

WriteFails ==
    /\ wdead \/ ~up
    /\ wdead' = TRUE
    /\ UNCHANGED c2s

Ask(op) == [op |-> op, of |-> session]

\* A step of fetchSeries that asks for something and has nothing else to do.
Sends(from, op, to) ==
    /\ pc = from
    /\ WriteOk(Ask(op))
    /\ pc' = to
    /\ UNCHANGED <<fetchVars, first, up, rdead, serverVars>>

SendFails(from, to) ==
    /\ pc = from
    /\ WriteFails
    /\ outcome' = Failure("upstream_protocol")
    /\ pc' = to
    /\ UNCHANGED <<session, canceled, expired, failed, first, up, rdead,
                   serverVars>>

-----------------------------------------------------------------------------
(* fetchSeries *)

\* Mutant of Begin: every fetch of the process uses the same session id.
Begin_SameId ==
    /\ pc = "idle"
    /\ session < MaxFetches
    /\ session' = IF session = 0 THEN 1 ELSE session
    /\ pc' = "create"
    /\ UNCHANGED <<outcome, canceled, expired, failed, socketVars, c2s,
                   serverVars>>

Begin ==
    /\ pc = "idle"
    /\ session < MaxFetches
    /\ session' = session + 1
    /\ pc' = "create"
    /\ UNCHANGED <<outcome, canceled, expired, failed, socketVars, c2s,
                   serverVars>>

\* The deferred delete is in place only after chart_create_session went out.
SendCreate ==
    Sends("create", "create", "resolve") \/ SendFails("create", "release")

SendResolve ==
    Sends("resolve", "resolve", "series") \/ SendFails("resolve", "delete")

SendSeries ==
    Sends("series", "series", "top") \/ SendFails("series", "delete")

\* Top of the loop: the deadline, then ctx.
TopStops ==
    /\ pc = "top"
    /\ expired \/ canceled
    /\ outcome' = Failure("upstream_timeout")
    /\ pc' = "delete"
    /\ UNCHANGED <<session, canceled, expired, failed, socketVars, c2s,
                   serverVars>>

\* Mutant of TopReads: for { ... } in place of for time.Now().Before(deadline).
TopReads_Always ==
    /\ pc = "top"
    /\ ~canceled
    /\ pc' = "read"
    /\ UNCHANGED <<fetchVars, socketVars, c2s, serverVars>>

\* The deadline may pass between the check and the read.
TopReads ==
    /\ pc = "top"
    /\ ~expired /\ ~canceled
    /\ pc' = "read"
    /\ UNCHANGED <<fetchVars, socketVars, c2s, serverVars>>

HasBeat(m) == \E i \in DOMAIN m : m[i].kind = "beat"

\* Where the frames are on which fetchSeries returns; it takes the first one.
\* It looks at the method and at the shape of the payload, not at the session.
Verdicts(m) == {i \in DOMAIN m : m[i].kind \in {"bars", "error"}}

Decides(m, f) ==
    \E i \in Verdicts(m) : f = m[i] /\ \A j \in Verdicts(m) : i <= j

Read(to) ==
    /\ pc = "read"
    /\ s2c # <<>>
    /\ s2c' = Tail(s2c)
    /\ pc' = to
    /\ UNCHANGED <<session, canceled, expired, failed, socketVars, c2s, chart>>

\* heartbeatPong looks for ~h~ anywhere in the message, and the rest of the
\* batch is not decoded.
ReadBeat ==
    /\ Read("pong")
    /\ HasBeat(Head(s2c))
    /\ UNCHANGED outcome

\* Mutant of ReadVerdict: the method of the frame is returned as the code.
ReadVerdict_RawCode ==
    /\ Read("delete")
    /\ ~HasBeat(Head(s2c))
    /\ \E f \in Range(Head(s2c)) :
          /\ Decides(Head(s2c), f)
          /\ outcome' = IF f.kind = "bars" THEN [code |-> "ok", from |-> f.of]
                                           ELSE Failure("symbol_error")

ReadVerdict ==
    /\ Read("delete")
    /\ ~HasBeat(Head(s2c))
    /\ \E f \in Range(Head(s2c)) :
          /\ Decides(Head(s2c), f)
          /\ outcome' = IF f.kind = "bars" THEN [code |-> "ok", from |-> f.of]
                                           ELSE Failure("symbol_unknown")

ReadNothing ==
    /\ Read("top")
    /\ ~HasBeat(Head(s2c))
    /\ Verdicts(Head(s2c)) = {}
    /\ UNCHANGED outcome

\* The read deadline, or the link.
ReadFails ==
    /\ pc = "read"
    /\ expired \/ ~up
    /\ rdead' = TRUE
    /\ outcome' = Failure("upstream_protocol")
    /\ pc' = "delete"
    /\ UNCHANGED <<session, canceled, expired, failed, first, up, wdead, c2s,
                   serverVars>>

\* A pong changes nothing at the server, so none is put on c2s.
PongOk ==
    /\ pc = "pong"
    /\ ~wdead
    /\ pc' = "top"
    /\ UNCHANGED <<fetchVars, socketVars, c2s, serverVars>>

Pong == PongOk \/ SendFails("pong", "delete")

\* Mutant of SendDelete: the session is not torn down.
SendDelete_Missing ==
    /\ pc = "delete"
    /\ pc' = "release"
    /\ UNCHANGED <<fetchVars, socketVars, c2s, serverVars>>

\* The deferred chart_delete_session, whose error is ignored.
SendDelete ==
    /\ pc = "delete"
    /\ WriteOk(Ask("delete")) \/ WriteFails
    /\ pc' = "release"
    /\ UNCHANGED <<fetchVars, first, up, rdead, serverVars>>

-----------------------------------------------------------------------------
(* The end of fetchOnce, and what the pool does with the conn *)

\* The fetch returns: its locals are gone.
Return ==
    /\ pc' = "idle"
    /\ outcome' = NoOutcome
    /\ canceled' = FALSE
    /\ expired' = FALSE
    /\ UNCHANGED session

\* The conn is closed, and the slot's next fetch dials another one.
Redial ==
    /\ first' = session + 1
    /\ up' = TRUE
    /\ wdead' = FALSE
    /\ rdead' = FALSE
    /\ c2s' = <<>>
    /\ s2c' = <<>>
    /\ chart' = [s \in Sessions |-> IF s \in Live THEN "gone" ELSE chart[s]]

ReleaseHealthy ==
    /\ pc = "release"
    /\ outcome.code = "ok"
    /\ Return
    /\ UNCHANGED <<failed, socketVars, c2s, serverVars>>

\* Mutant of ReleaseBroken: release(conn, true) on the error path.
ReleaseBroken_Keeps ==
    /\ pc = "release"
    /\ outcome.code # "ok"
    /\ Return
    /\ failed' = failed \cup {session}
    /\ UNCHANGED <<socketVars, c2s, serverVars>>

ReleaseBroken ==
    /\ pc = "release"
    /\ outcome.code # "ok"
    /\ Return
    /\ Redial
    /\ failed' = failed \cup {session}

\* The reaper, or close, gets the idle conn.
Retire ==
    /\ pc = "idle"
    /\ first <= session
    /\ Redial
    /\ UNCHANGED <<pc, fetchVars>>

-----------------------------------------------------------------------------
(* ctx, the clock, the link and the server *)

Fetching == pc \notin {"idle", "delete", "release"}

Cancel ==
    /\ Fetching
    /\ ~canceled
    /\ canceled' = TRUE
    /\ UNCHANGED <<pc, session, outcome, expired, failed, socketVars, c2s,
                   serverVars>>

\* The deadline is set after the three requests are out.
Expire ==
    /\ pc \in {"top", "read", "pong"}
    /\ ~expired
    /\ expired' = TRUE
    /\ UNCHANGED <<pc, session, outcome, canceled, failed, socketVars, c2s,
                   serverVars>>

\* What was sent to the client may still be read; the server drops its
\* sessions.
Break ==
    /\ up
    /\ up' = FALSE
    /\ c2s' = <<>>
    /\ chart' = [s \in Sessions |-> IF s \in Live THEN "gone" ELSE chart[s]]
    /\ UNCHANGED <<pc, fetchVars, first, wdead, rdead, s2c>>

\* What a request finds its session in, and leaves it in.
Before == [create |-> "none", resolve |-> "created", series |-> "resolved"]
After  == [create |-> "created", resolve |-> "resolved",
           series |-> "streaming", delete |-> "deleted"]

Legal(r) ==
    IF r.op = "delete" THEN r.of \in Live ELSE chart[r.of] = Before[r.op]

Serve ==
    /\ up
    /\ c2s # <<>>
    /\ LET r == Head(c2s) IN
          chart' = IF Legal(r) THEN [chart EXCEPT ![r.of] = After[r.op]] ELSE chart
    /\ c2s' = Tail(c2s)
    /\ UNCHANGED <<pc, fetchVars, socketVars, s2c>>

\* Bars, as long as the session streams; an error once its symbol is asked
\* for; heartbeats and other notices at any time.
Sayable ==
    {f \in Frames :
        \/ f.kind \in {"beat", "other"}
        \/ f.kind = "bars" /\ chart[f.of] = "streaming"
        \/ f.kind = "error" /\ chart[f.of] \in {"resolved", "streaming"}}

Push ==
    /\ up
    /\ \E m \in Batches(Sayable, MaxFrames) : s2c' = Append(s2c, m)
    /\ Len(FlattenSeq(s2c')) <= MaxFrames
    /\ UNCHANGED <<pc, fetchVars, socketVars, c2s, chart>>

-----------------------------------------------------------------------------

FetchSeries ==
    \/ SendCreate \/ SendResolve \/ SendSeries
    \/ TopStops \/ TopReads
    \/ ReadBeat \/ ReadVerdict \/ ReadNothing \/ ReadFails
    \/ Pong \/ SendDelete

Release == ReleaseHealthy \/ ReleaseBroken

Next ==
    \/ Begin \/ FetchSeries \/ Release \/ Retire
    \/ Cancel \/ Expire \/ Break
    \/ Serve \/ Push

Spec == Init /\ [][Next]_vars

\* The goroutine of the fetch runs, its deadline passes, and the server takes
\* the requests off an unbroken link.  The server owes no answer.
Fairness == WF_vars(FetchSeries \/ Release) /\ WF_vars(Expire) /\ WF_vars(Serve)

FairSpec == Spec /\ Fairness

-----------------------------------------------------------------------------
(* Properties *)

TypeOK ==
    /\ pc \in {"idle", "create", "resolve", "series", "top", "read", "pong",
               "delete", "release"}
    /\ session \in 0 .. MaxFetches
    /\ outcome \in [code : Codes, from : 0 .. MaxFetches]
    /\ {canceled, expired, up, wdead, rdead} \subseteq BOOLEAN
    /\ first \in 1 .. MaxFetches + 1
    /\ c2s \in Seq(Requests)
    /\ s2c \in Seq(Seq(Frames))
    /\ chart \in [Sessions -> {"none", "created", "resolved", "streaming",
                               "deleted", "gone"}]
    /\ failed \in SUBSET Sessions

\* conn.go:110-112: one chart session per fetch and torn down after it.  The
\* server has at most one live session per conn, and every request it gets
\* names a session that is in the state the request is about: none is created
\* twice, used before it exists or after it was deleted.
ServerNeverSurprised ==
    /\ Cardinality(Live) <= 1
    /\ c2s # <<>> => Legal(Head(c2s))

\* client.go:120-123: what a failed fetch has asked for is answered to nobody.
\* No fetch runs on a conn after one failed on it, and whatever a fetch can
\* still read, or returns, comes from a session of its own conn: its own, or an
\* earlier one whose fetch succeeded.  In particular no read follows a failed
\* read of the same websocket, on which gorilla/websocket would panic, and a
\* conn on which only the deferred delete failed, which is released as healthy
\* (conn.go:120-123), gets no fetch past its first request.
\* conn.go:17 promises more: see DocOwnBars.
FailedNeverAnswers ==
    /\ failed \cap (first .. session) = {}
    /\ \A i \in DOMAIN s2c : \A j \in DOMAIN s2c[i] :
          s2c[i][j].of \in {0} \cup (first .. session)
    /\ outcome.from \in {0} \cup (first .. session)
    /\ pc \in {"resolve", "series", "top", "read", "pong"} => ~rdead /\ ~wdead

\* conn.go:17-19: "each fetch creates its own chart session on the conn so
\* series IDs never collide".
DocOwnBars == outcome.code = "ok" => outcome.from = session

\* protocol.go:27-28: a raw message is split into its JSON and heartbeat
\* parts, for TradingView batches messages.  Whoever reads bars or an error of
\* the session returns with them.
DocBatchDecides ==
    [][s2c # <<>> /\ s2c' = Tail(s2c) /\ Verdicts(Head(s2c)) # {} /\ pc = "read"
          => pc' = "delete"]_vars

\* Config.FetchTimeout: every fetch returns, whatever the server sends or
\* does not send.
FetchEnds == pc # "idle" ~> pc = "idle"

\* Every session of a fetch that is over is torn down at the server.
SessionsTornDown ==
    \A s \in Sessions : s \in Live /\ pc \in {"idle", "release"} ~> s \notin Live
=============================================================================
