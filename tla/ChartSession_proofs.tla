------------------------- MODULE ChartSession_proofs -------------------------
(***************************************************************************)
(* Proofs about ChartSession, for any number of fetches and frames in      *)
(* flight.                                                                 *)
(***************************************************************************)
EXTENDS ChartSession, SequenceTheorems, FiniteSetTheorems, TLAPS

(***************************************************************************)
(* Types.  A fetch that has begun has a session.                           *)
(***************************************************************************)
States == {"none", "created", "resolved", "streaming", "deleted", "gone"}

Types ==
    /\ pc \in {"idle", "create", "resolve", "series", "top", "read", "pong",
               "delete", "release"}
    /\ session \in 0 .. MaxFetches
    /\ outcome \in [code : Codes, from : 0 .. MaxFetches]
    /\ canceled \in BOOLEAN /\ expired \in BOOLEAN
    /\ up \in BOOLEAN /\ wdead \in BOOLEAN /\ rdead \in BOOLEAN
    /\ first \in 1 .. MaxFetches + 1
    /\ c2s \in Seq(Requests)
    /\ s2c \in Seq(Seq(Frames))
    /\ chart \in [Sessions -> States]
    /\ failed \in SUBSET Sessions

TypeInv == Types /\ (pc # "idle" => session \in Sessions)

(***************************************************************************)
(* Whom the messages are about: everything that is live, asked for, said   *)
(* or returned on a conn is of a session of this conn, and the sessions of *)
(* failed fetches are of conns before it.  A failed read ends the fetch,   *)
(* and so does a failed write, the one of a request to create included.    *)
(***************************************************************************)
OfThisConn == first .. session

ConnInv ==
    /\ first <= session + 1
    /\ pc # "idle" => first <= session
    /\ \A s \in failed : s < first
    /\ Live \subseteq OfThisConn
    /\ \A i \in DOMAIN c2s : c2s[i].of \in OfThisConn
    /\ \A i \in DOMAIN s2c : \A j \in DOMAIN s2c[i] :
          s2c[i][j].of \in {0} \cup OfThisConn
    /\ outcome.from \in {0} \cup OfThisConn
    /\ pc = "idle" => outcome = NoOutcome
    /\ rdead => pc \in {"delete", "release"} /\ outcome.code # "ok"
    /\ wdead => pc \in {"idle", "create", "delete", "release"}

(***************************************************************************)
(* What the server is asked.  As long as the link is up, every request was *)
(* written, so that what is on its way, with the request that comes next,  *)
(* is a part of the one sequence create, resolve, series, delete, create   *)
(* of the next session, and so on; and the server has got to just where    *)
(* this part begins.                                                       *)
(***************************************************************************)
Upcoming ==
    CASE pc = "create"  -> Ask("create")
      [] pc = "resolve" -> Ask("resolve")
      [] pc = "series"  -> Ask("series")
      [] pc \in {"top", "read", "pong", "delete"} -> Ask("delete")
      [] pc \in {"idle", "release"} -> [op |-> "create", of |-> session + 1]

Follows(r, q) ==
    CASE r.op = "create"  -> q = [op |-> "resolve", of |-> r.of]
      [] r.op = "resolve" -> q = [op |-> "series", of |-> r.of]
      [] r.op = "series"  -> q = [op |-> "delete", of |-> r.of]
      [] r.op = "delete"  -> q = [op |-> "create", of |-> r.of + 1]

\* The server has done all that comes before r, and nothing else.
Ready(r) ==
    \A s \in Sessions :
        /\ s < r.of => s \notin Live
        /\ s > r.of => chart[s] = "none"
        /\ s = r.of => chart[s] = IF r.op = "delete" THEN "streaming" ELSE Before[r.op]

Line ==
    [i \in 1 .. Len(c2s) + 1 |-> IF i <= Len(c2s) THEN c2s[i] ELSE Upcoming]

ServerInv ==
    /\ wdead => ~up
    /\ ~up => c2s = <<>> /\ Live = {}
    /\ \A s \in Sessions : s > session => chart[s] = "none"
    /\ up => Ready(Line[1])
    /\ up => \A i \in 1 .. Len(c2s) : Follows(Line[i], Line[i + 1])
-----------------------------------------------------------------------------
(* Types *)

\* The records that the actions make are of the types of outcome and c2s.
LEMMA RecordTypes ==
    /\ NoOutcome \in [code : Codes, from : 0 .. MaxFetches]
    /\ \A c \in Codes : Failure(c) \in [code : Codes, from : 0 .. MaxFetches]
    /\ \A o \in {"create", "resolve", "series", "delete"} :
          session \in Sessions => Ask(o) \in Requests
  BY ChartAssumption DEF ChartAssumption, NoOutcome, Failure, Codes, Ask, Requests

\* What a write leaves.
LEMMA WriteTypes ==
    ASSUME c2s \in Seq(Requests), wdead \in BOOLEAN,
           NEW r \in Requests, WriteOk(r) \/ WriteFails
    PROVE  c2s' \in Seq(Requests) /\ wdead' \in BOOLEAN
<1>1. Append(c2s, r) \in Seq(Requests)
  BY AppendProperties
<1> QED
  BY <1>1 DEF WriteOk, WriteFails

\* A batch is a sequence of frames.
LEMMA BatchTypes ==
    ASSUME NEW F, F \subseteq Frames, NEW k, NEW m \in Batches(F, k)
    PROVE  m \in Seq(Frames)
<1> PICK n \in 1 .. k : m \in [1 .. n -> F]
  BY DEF Batches
<1> n \in Nat
  OBVIOUS
<1> QED
  BY DEF Batches

\* Every step keeps the types.
LEMMA TypeNext == TypeInv /\ [Next]_vars => TypeInv'
<1> SUFFICES ASSUME TypeInv, [Next]_vars
             PROVE  TypeInv'
  OBVIOUS
<1> USE ChartAssumption DEF ChartAssumption, fetchVars, socketVars,
        serverVars, TypeInv, Types, Sessions
<1>1. CASE Begin
  BY <1>1 DEF Begin
<1>2. CASE SendCreate
  <2>1. session \in Sessions /\ Ask("create") \in Requests
    BY <1>2, RecordTypes DEF SendCreate, Sends, SendFails
  <2>2. WriteOk(Ask("create")) \/ WriteFails
    BY <1>2 DEF SendCreate, Sends, SendFails
  <2>3. c2s' \in Seq(Requests) /\ wdead' \in BOOLEAN
    BY <2>1, <2>2, WriteTypes
  <2>4. outcome' \in [code : Codes, from : 0 .. MaxFetches]
    BY <1>2, RecordTypes DEF SendCreate, Sends, SendFails, Codes
  <2> QED
    BY <1>2, <2>1, <2>3, <2>4 DEF SendCreate, Sends, SendFails
<1>3. CASE SendResolve
  <2>1. session \in Sessions /\ Ask("resolve") \in Requests
    BY <1>3, RecordTypes DEF SendResolve, Sends, SendFails
  <2>2. WriteOk(Ask("resolve")) \/ WriteFails
    BY <1>3 DEF SendResolve, Sends, SendFails
  <2>3. c2s' \in Seq(Requests) /\ wdead' \in BOOLEAN
    BY <2>1, <2>2, WriteTypes
  <2>4. outcome' \in [code : Codes, from : 0 .. MaxFetches]
    BY <1>3, RecordTypes DEF SendResolve, Sends, SendFails, Codes
  <2> QED
    BY <1>3, <2>1, <2>3, <2>4 DEF SendResolve, Sends, SendFails
<1>4. CASE SendSeries
  <2>1. session \in Sessions /\ Ask("series") \in Requests
    BY <1>4, RecordTypes DEF SendSeries, Sends, SendFails
  <2>2. WriteOk(Ask("series")) \/ WriteFails
    BY <1>4 DEF SendSeries, Sends, SendFails
  <2>3. c2s' \in Seq(Requests) /\ wdead' \in BOOLEAN
    BY <2>1, <2>2, WriteTypes
  <2>4. outcome' \in [code : Codes, from : 0 .. MaxFetches]
    BY <1>4, RecordTypes DEF SendSeries, Sends, SendFails, Codes
  <2> QED
    BY <1>4, <2>1, <2>3, <2>4 DEF SendSeries, Sends, SendFails
<1>5. CASE TopStops
  <2>1. outcome' \in [code : Codes, from : 0 .. MaxFetches]
    BY <1>5, RecordTypes DEF TopStops, Codes
  <2> QED
    BY <1>5, <2>1 DEF TopStops
<1>6. CASE TopReads
  BY <1>6 DEF TopReads
<1>7. CASE ReadBeat
  <2>1. Tail(s2c) \in Seq(Seq(Frames))
    BY <1>7, HeadTailProperties DEF ReadBeat, Read
  <2> QED
    BY <1>7, <2>1 DEF ReadBeat, Read
<1>8. CASE ReadVerdict
  <2>1. Tail(s2c) \in Seq(Seq(Frames))
    BY <1>8, HeadTailProperties DEF ReadVerdict, Read
  <2>2. Head(s2c) \in Seq(Frames)
    BY <1>8, HeadTailProperties DEF ReadVerdict, Read
  <2>3. PICK f \in Range(Head(s2c)) :
           /\ Decides(Head(s2c), f)
           /\ outcome' = IF f.kind = "bars" THEN [code |-> "ok", from |-> f.of]
                                            ELSE Failure("symbol_unknown")
    BY <1>8 DEF ReadVerdict
  <2>4. f \in Frames /\ f.kind \in {"bars", "error"}
    BY <2>2, <2>3 DEF Decides, Verdicts
  <2>5. f.of \in 0 .. MaxFetches
    BY <2>4 DEF Frames
  <2>6. outcome' \in [code : Codes, from : 0 .. MaxFetches]
    BY <2>3, <2>5, RecordTypes DEF Codes
  <2> QED
    BY <1>8, <2>1, <2>6 DEF ReadVerdict, Read
<1>9. CASE ReadNothing
  <2>1. Tail(s2c) \in Seq(Seq(Frames))
    BY <1>9, HeadTailProperties DEF ReadNothing, Read
  <2> QED
    BY <1>9, <2>1 DEF ReadNothing, Read
<1>10. CASE ReadFails
  <2>1. outcome' \in [code : Codes, from : 0 .. MaxFetches]
    BY <1>10, RecordTypes DEF ReadFails, Codes
  <2> QED
    BY <1>10, <2>1 DEF ReadFails
<1>11. CASE Pong
  <2>1. outcome' \in [code : Codes, from : 0 .. MaxFetches]
    BY <1>11, RecordTypes DEF Pong, PongOk, SendFails, Codes
  <2> QED
    BY <1>11, <2>1 DEF Pong, PongOk, SendFails, WriteFails
<1>12. CASE SendDelete
  <2>1. session \in Sessions /\ Ask("delete") \in Requests
    BY <1>12, RecordTypes DEF SendDelete
  <2>2. WriteOk(Ask("delete")) \/ WriteFails
    BY <1>12 DEF SendDelete
  <2>3. c2s' \in Seq(Requests) /\ wdead' \in BOOLEAN
    BY <2>1, <2>2, WriteTypes
  <2> QED
    BY <1>12, <2>1, <2>3 DEF SendDelete
<1>13. CASE ReleaseHealthy
  BY <1>13, RecordTypes DEF ReleaseHealthy, Return
<1>14. CASE ReleaseBroken
  <2>1. <<>> \in Seq(Requests) /\ <<>> \in Seq(Seq(Frames))
    OBVIOUS
  <2>2. chart' \in [Sessions -> States]
    BY <1>14 DEF ReleaseBroken, Redial, States
  <2>3. first' \in 1 .. MaxFetches + 1
    BY <1>14 DEF ReleaseBroken, Redial
  <2> QED
    BY <1>14, <2>1, <2>2, <2>3, RecordTypes DEF ReleaseBroken, Return, Redial
<1>15. CASE Retire
  <2>1. <<>> \in Seq(Requests) /\ <<>> \in Seq(Seq(Frames))
    OBVIOUS
  <2>2. chart' \in [Sessions -> States]
    BY <1>15 DEF Retire, Redial, States
  <2>3. first' \in 1 .. MaxFetches + 1
    BY <1>15 DEF Retire, Redial
  <2> QED
    BY <1>15, <2>1, <2>2, <2>3 DEF Retire, Redial
<1>16. CASE Cancel
  BY <1>16 DEF Cancel, Fetching
<1>17. CASE Expire
  BY <1>17 DEF Expire
<1>18. CASE Break
  <2>1. <<>> \in Seq(Requests)
    OBVIOUS
  <2>2. chart' \in [Sessions -> States]
    BY <1>18 DEF Break, States
  <2> QED
    BY <1>18, <2>1, <2>2 DEF Break
<1>19. CASE Serve
  <2>1. Head(c2s) \in Requests /\ Tail(c2s) \in Seq(Requests)
    BY <1>19, HeadTailProperties DEF Serve
  <2>2. After[Head(c2s).op] \in States
    BY <2>1 DEF Requests, After, States
  <2>3. chart' \in [Sessions -> States]
    BY <1>19, <2>2 DEF Serve
  <2> QED
    BY <1>19, <2>1, <2>3 DEF Serve
<1>20. CASE Push
  <2>1. PICK m \in Batches(Sayable, MaxFrames) : s2c' = Append(s2c, m)
    BY <1>20 DEF Push
  <2>2. Sayable \subseteq Frames
    BY DEF Sayable
  <2>3. m \in Seq(Frames)
    BY <2>2, BatchTypes
  <2>4. s2c' \in Seq(Seq(Frames))
    BY <2>1, <2>3, AppendProperties
  <2> QED
    BY <1>20, <2>4 DEF Push
<1>21. CASE UNCHANGED vars
  BY <1>21 DEF vars
<1> QED
  BY <1>1, <1>2, <1>3, <1>4, <1>5, <1>6, <1>7, <1>8, <1>9, <1>10, <1>11,
     <1>12, <1>13, <1>14, <1>15, <1>16, <1>17, <1>18, <1>19, <1>20, <1>21
     DEF Next, FetchSeries, Release

-----------------------------------------------------------------------------
(* Whom the messages are about *)

\* No session outlives its conn.
LEMMA RedialEndsAll ==
    ASSUME chart' = [s \in Sessions |-> IF s \in Live THEN "gone" ELSE chart[s]]
    PROVE  Live' = {}
  BY DEF Live

\* As long as no conn is closed, what was of this conn still is.
LEMMA ConnKept ==
    ASSUME TypeInv, ConnInv, first' = first, session' = session,
           failed' = failed, chart' = chart
    PROVE  /\ OfThisConn' = OfThisConn
           /\ Live' = Live
           /\ \A s \in failed' : s < first'
           /\ first' <= session' + 1
  BY DEF OfThisConn, ConnInv, Live

\* What a write adds is of the session of the fetch.
LEMMA WriteOfConn ==
    ASSUME TypeInv, ConnInv, NEW o \in {"create", "resolve", "series", "delete"},
           pc # "idle", WriteOk(Ask(o)) \/ WriteFails
    PROVE  \A i \in DOMAIN c2s' : c2s'[i].of \in OfThisConn
<1>1. session \in OfThisConn /\ Ask(o) \in Requests
  BY RecordTypes, ChartAssumption
     DEF TypeInv, Types, ConnInv, OfThisConn, ChartAssumption, Sessions
<1>2. \A i \in DOMAIN Append(c2s, Ask(o)) : Append(c2s, Ask(o))[i].of \in OfThisConn
  BY <1>1 DEF TypeInv, Types, ConnInv, Ask
<1> QED
  BY <1>2 DEF WriteOk, WriteFails, ConnInv

\* What Append leaves where.
LEMMA AppendElements ==
    ASSUME NEW S, NEW s \in Seq(S), NEW x \in S
    PROVE  /\ Append(s, x) \in Seq(S)
           /\ Len(Append(s, x)) = Len(s) + 1
           /\ \A i \in DOMAIN Append(s, x) :
                 \/ i \in DOMAIN s /\ Append(s, x)[i] = s[i]
                 \/ i = Len(s) + 1 /\ Append(s, x)[i] = x
<1>1. /\ Append(s, x) \in Seq(S)
      /\ Len(Append(s, x)) = Len(s) + 1
      /\ \A i \in 1 .. Len(s) : Append(s, x)[i] = s[i]
      /\ Append(s, x)[Len(s) + 1] = x
  BY AppendProperties
<1>2. /\ Len(s) \in Nat
      /\ DOMAIN s = 1 .. Len(s)
      /\ DOMAIN Append(s, x) = 1 .. Len(s) + 1
  BY <1>1, LenProperties
<1> QED
  BY <1>1, <1>2

\* A push adds one batch, of what the server has to say.
LEMMA PushElements ==
    ASSUME TypeInv, Push
    PROVE  \E m \in Batches(Sayable, MaxFrames) :
              \A i \in DOMAIN s2c' :
                 s2c'[i] = m \/ (i \in DOMAIN s2c /\ s2c'[i] = s2c[i])
<1>1. PICK m \in Batches(Sayable, MaxFrames) : s2c' = Append(s2c, m)
  BY DEF Push
<1>2. Sayable \subseteq Frames
  BY DEF Sayable
<1>3. m \in Seq(Frames)
  BY <1>2, BatchTypes
<1>4. s2c \in Seq(Seq(Frames))
  BY DEF TypeInv, Types
<1>5. \A i \in DOMAIN Append(s2c, m) :
         \/ i \in DOMAIN s2c /\ Append(s2c, m)[i] = s2c[i]
         \/ i = Len(s2c) + 1 /\ Append(s2c, m)[i] = m
  BY <1>3, <1>4, AppendElements
<1> QED
  BY <1>1, <1>5

\* Every step keeps the messages of a conn among its own sessions.
LEMMA ConnNext == TypeInv /\ ConnInv /\ [Next]_vars => ConnInv'
<1> SUFFICES ASSUME TypeInv, ConnInv, [Next]_vars
             PROVE  ConnInv'
  OBVIOUS
<1> USE DEF fetchVars, socketVars, serverVars, ConnInv
<1>1. CASE Begin
  <2>1. OfThisConn \subseteq OfThisConn'
    BY <1>1 DEF Begin, TypeInv, Types, OfThisConn, socketVars
  <2>2. Live' = Live
    BY <1>1 DEF Begin, Live
  <2> QED
    BY <1>1, <2>1, <2>2 DEF Begin, NoOutcome, TypeInv, Types
<1>2. CASE SendCreate
  <2>1. \A i \in DOMAIN c2s' : c2s'[i].of \in OfThisConn
    BY <1>2, WriteOfConn DEF SendCreate, Sends, SendFails
  <2> QED
    BY <1>2, <2>1, ConnKept DEF SendCreate, Sends, SendFails, WriteOk, Failure
<1>3. CASE SendResolve
  <2>1. \A i \in DOMAIN c2s' : c2s'[i].of \in OfThisConn
    BY <1>3, WriteOfConn DEF SendResolve, Sends, SendFails
  <2> QED
    BY <1>3, <2>1, ConnKept DEF SendResolve, Sends, SendFails, WriteOk, Failure
<1>4. CASE SendSeries
  <2>1. \A i \in DOMAIN c2s' : c2s'[i].of \in OfThisConn
    BY <1>4, WriteOfConn DEF SendSeries, Sends, SendFails
  <2> QED
    BY <1>4, <2>1, ConnKept DEF SendSeries, Sends, SendFails, WriteOk, Failure
<1>5. CASE TopStops
  BY <1>5, ConnKept DEF TopStops, Failure
<1>6. CASE TopReads
  BY <1>6, ConnKept DEF TopReads
<1>7. CASE ReadBeat
  <2>1. \A i \in DOMAIN Tail(s2c) : i + 1 \in DOMAIN s2c /\ Tail(s2c)[i] = s2c[i + 1]
    BY <1>7 DEF ReadBeat, Read, TypeInv, Types
  <2> QED
    BY <1>7, <2>1, ConnKept DEF ReadBeat, Read
<1>8. CASE ReadVerdict
  <2>1. \A i \in DOMAIN Tail(s2c) : i + 1 \in DOMAIN s2c /\ Tail(s2c)[i] = s2c[i + 1]
    BY <1>8 DEF ReadVerdict, Read, TypeInv, Types
  <2>2. PICK f \in Range(Head(s2c)) :
           /\ Decides(Head(s2c), f)
           /\ outcome' = IF f.kind = "bars" THEN [code |-> "ok", from |-> f.of]
                                            ELSE Failure("symbol_unknown")
    BY <1>8 DEF ReadVerdict
  <2>3. 1 \in DOMAIN s2c /\ Head(s2c) = s2c[1]
    BY <1>8 DEF ReadVerdict, Read, TypeInv, Types
  <2>4. f.of \in {0} \cup OfThisConn
    BY <2>2, <2>3 DEF Decides, Verdicts
  <2>5. outcome'.from \in {0} \cup OfThisConn
    BY <2>2, <2>4 DEF Failure
  <2> QED
    BY <1>8, <2>1, <2>5, ConnKept DEF ReadVerdict, Read
<1>9. CASE ReadNothing
  <2>1. \A i \in DOMAIN Tail(s2c) : i + 1 \in DOMAIN s2c /\ Tail(s2c)[i] = s2c[i + 1]
    BY <1>9 DEF ReadNothing, Read, TypeInv, Types
  <2> QED
    BY <1>9, <2>1, ConnKept DEF ReadNothing, Read
<1>10. CASE ReadFails
  BY <1>10, ConnKept DEF ReadFails, Failure
<1>11. CASE Pong
  BY <1>11, ConnKept DEF Pong, PongOk, SendFails, WriteOk, WriteFails, Failure
<1>12. CASE SendDelete
  <2>1. \A i \in DOMAIN c2s' : c2s'[i].of \in OfThisConn
    BY <1>12, WriteOfConn DEF SendDelete
  <2> QED
    BY <1>12, <2>1, ConnKept DEF SendDelete
<1>13. CASE ReleaseHealthy
  BY <1>13, ConnKept DEF ReleaseHealthy, Return, NoOutcome
<1>14. CASE ReleaseBroken
  <2>1. Live' = {}
    BY <1>14, RedialEndsAll DEF ReleaseBroken, Redial
  <2>2. \A s \in failed' : s < first'
    BY <1>14 DEF ReleaseBroken, Redial, TypeInv, Types, Sessions
  <2> QED
    BY <1>14, <2>1, <2>2 DEF ReleaseBroken, Return, Redial, NoOutcome, TypeInv, Types, Sessions
<1>15. CASE Retire
  <2>1. Live' = {}
    BY <1>15, RedialEndsAll DEF Retire, Redial
  <2>2. \A s \in failed' : s < first'
    BY <1>15 DEF Retire, Redial, TypeInv, Types, Sessions
  <2> QED
    BY <1>15, <2>1, <2>2 DEF Retire, Redial, NoOutcome, TypeInv, Types, Sessions
<1>16. CASE Cancel
  BY <1>16, ConnKept DEF Cancel, Fetching
<1>17. CASE Expire
  BY <1>17, ConnKept DEF Expire
<1>18. CASE Break
  <2>1. Live' = {}
    BY <1>18, RedialEndsAll DEF Break
  <2>2. OfThisConn' = OfThisConn
    BY <1>18 DEF Break, OfThisConn
  <2> QED
    BY <1>18, <2>1, <2>2 DEF Break
<1>19. CASE Serve
  <2>1. Head(c2s) = c2s[1] /\ 1 \in DOMAIN c2s
    BY <1>19 DEF Serve, TypeInv, Types
  <2>2. Head(c2s).of \in OfThisConn
    BY <2>1
  <2>3. Live' \subseteq Live \cup {Head(c2s).of}
    BY <1>19 DEF Serve, Live, TypeInv, Types
  <2>4. \A i \in DOMAIN Tail(c2s) : i + 1 \in DOMAIN c2s /\ Tail(c2s)[i] = c2s[i + 1]
    BY <1>19 DEF Serve, TypeInv, Types
  <2>5. OfThisConn' = OfThisConn
    BY <1>19 DEF Serve, OfThisConn
  <2> QED
    BY <1>19, <2>2, <2>3, <2>4, <2>5 DEF Serve
<1>20. CASE Push
  <2>1. PICK m \in Batches(Sayable, MaxFrames) :
           \A i \in DOMAIN s2c' :
              s2c'[i] = m \/ (i \in DOMAIN s2c /\ s2c'[i] = s2c[i])
    BY <1>20, PushElements
  <2>2. \A f \in Sayable : f.of \in {0} \cup Live
    BY DEF Sayable, Frames, Live
  <2>3. \A j \in DOMAIN m : m[j] \in Sayable
    BY DEF Batches
  <2>5. \A i \in DOMAIN s2c' : \A j \in DOMAIN s2c'[i] :
           s2c'[i][j].of \in {0} \cup OfThisConn
    BY <2>1, <2>2, <2>3
  <2> QED
    BY <1>20, <2>5, ConnKept DEF Push
<1>21. CASE UNCHANGED vars
  BY <1>21, ConnKept DEF vars
<1> QED
  BY <1>1, <1>2, <1>3, <1>4, <1>5, <1>6, <1>7, <1>8, <1>9, <1>10, <1>11,
     <1>12, <1>13, <1>14, <1>15, <1>16, <1>17, <1>18, <1>19, <1>20, <1>21
     DEF Next, FetchSeries, Release

-----------------------------------------------------------------------------
(* What the server is asked *)

\* The line consists of requests, the last of which may be of a session that
\* the bound on the fetches no longer admits.
LEMMA LineTypes ==
    ASSUME TypeInv
    PROVE  /\ Len(c2s) \in Nat
           /\ \A i \in 1 .. Len(c2s) : Line[i] = c2s[i] /\ Line[i] \in Requests
           /\ Line[Len(c2s) + 1] = Upcoming
<1>1. Len(c2s) \in Nat /\ \A i \in 1 .. Len(c2s) : c2s[i] \in Requests
  BY DEF TypeInv, Types
<1> QED
  BY <1>1 DEF Line

\* A step that changes nothing at the server and nothing in the line.
LEMMA LineKept ==
    ASSUME ServerInv, TypeInv, c2s' = c2s, chart' = chart, up' = up,
           session' \in Nat, session <= session',
           wdead' => wdead \/ ~up, up => Upcoming' = Upcoming
    PROVE  ServerInv'
<1>1. Live' = Live
  BY DEF Live
<1>2. \A r : Ready(r) => Ready(r)'
  BY <1>1 DEF Ready
<1>3. up => Line' = Line
  BY DEF Line
<1>4. \A s \in Sessions : s > session' => s > session
  BY ChartAssumption DEF TypeInv, Types, Sessions, ChartAssumption
<1>5. /\ wdead' => ~up'
      /\ ~up' => c2s' = <<>> /\ Live' = {}
      /\ \A s \in Sessions : s > session' => chart'[s] = "none"
  BY <1>1, <1>4 DEF ServerInv
<1>6. up' => Ready(Line[1])'
  BY <1>2, <1>3 DEF ServerInv, Ready
<1>7. up' => \A i \in 1 .. Len(c2s') : Follows(Line[i], Line[i + 1])'
  BY <1>3 DEF ServerInv, Follows
<1> QED
  BY <1>5, <1>6, <1>7 DEF ServerInv

\* Nothing is asked over a broken link.
LEMMA DownKept ==
    ASSUME ServerInv, TypeInv, ~up, c2s' = c2s, chart' = chart, up' = up,
           session' = session
    PROVE  ServerInv'
  BY DEF ServerInv, Live

\* A write puts the upcoming request on its way, and the one after it is next.
LEMMA LineGrows ==
    ASSUME ServerInv, TypeInv, up, up' = up, wdead' = wdead, chart' = chart,
           session' = session, c2s' = Append(c2s, Upcoming),
           Upcoming \in Requests, Follows(Upcoming, Upcoming')
    PROVE  ServerInv'
<1>1. Live' = Live
  BY DEF Live
<1> DEFINE n == Len(c2s)
<1>2. /\ n \in Nat /\ Len(c2s') = n + 1
      /\ \A i \in 1 .. n : c2s'[i] = c2s[i]
      /\ c2s'[n + 1] = Upcoming
  BY AppendProperties DEF TypeInv, Types
<1>3. /\ \A i \in 1 .. n + 1 : Line'[i] = Line[i]
      /\ Line'[n + 2] = Upcoming'
  BY <1>2 DEF Line
<1>4. Line[n + 1] = Upcoming
  BY LineTypes
<1>5. Ready(Line[1])'
  BY <1>1, <1>2, <1>3 DEF ServerInv, Ready
<1>6. \A i \in 1 .. n + 1 : Follows(Line'[i], Line'[i + 1])
  <2> SUFFICES ASSUME NEW i \in 1 .. n + 1
               PROVE  Follows(Line'[i], Line'[i + 1])
    OBVIOUS
  <2>1. CASE i \in 1 .. n
    <3>1. i + 1 \in 1 .. n + 1
      BY <1>2, <2>1
    <3> QED
      BY <1>2, <1>3, <2>1, <3>1 DEF ServerInv
  <2>2. CASE i = n + 1
    BY <1>2, <1>3, <1>4, <2>2
  <2> QED
    BY <1>2, <2>1, <2>2
<1>7. \A i \in 1 .. Len(c2s') : Follows(Line[i], Line[i + 1])'
  BY <1>2, <1>6 DEF Follows
<1>8. /\ wdead' => ~up'
      /\ \A s \in Sessions : s > session' => chart'[s] = "none"
  BY DEF ServerInv
<1> QED
  BY <1>5, <1>7, <1>8 DEF ServerInv

\* A new conn starts with the first request of the next session.
LEMMA LineStarts ==
    ASSUME ServerInv, TypeInv, Redial, pc' = "idle", session' = session
    PROVE  ServerInv'
<1>1. Live' = {}
  BY RedialEndsAll DEF Redial
<1>2. Line'[1] = [op |-> "create", of |-> session + 1] /\ Len(c2s') = 0
  BY DEF Line, Upcoming, Redial
<1>3. \A s \in Sessions : s > session => chart'[s] = "none"
  BY DEF ServerInv, Redial, Live
<1>4. Ready(Line[1])'
  BY <1>1, <1>2, <1>3, ChartAssumption
     DEF Ready, Before, TypeInv, Types, Sessions, ChartAssumption
<1> QED
  BY <1>1, <1>2, <1>3, <1>4 DEF ServerInv, Redial

\* What comes next is what the server is ready for.
LEMMA ReadyIsLegal ==
    ASSUME TypeInv, NEW r \in Requests, Ready(r)
    PROVE  Legal(r)
  BY DEF Requests, Ready, Legal, Live, TypeInv, Types, Before

\* The server takes a request, and has got to where the next one begins.
LEMMA ServeAdvances ==
    ASSUME ServerInv, TypeInv, ConnInv, Serve
    PROVE  ServerInv'
<1> DEFINE r == Head(c2s)
           q == Line[2]
<1>1. /\ r = c2s[1] /\ r \in Requests
      /\ c2s' = Tail(c2s) /\ c2s' \in Seq(Requests)
      /\ Len(c2s) \in Nat \ {0}
      /\ Len(c2s') = Len(c2s) - 1
      /\ \A i \in 1 .. Len(c2s) - 1 : c2s'[i] = c2s[i + 1]
  BY HeadTailProperties, EmptySeq, LenProperties DEF Serve, TypeInv, Types
<1>2. Upcoming' = Upcoming
  BY DEF Serve, Upcoming, Ask, fetchVars
<1>3. \A i \in 1 .. Len(c2s) : Line'[i] = Line[i + 1]
  BY <1>1, <1>2 DEF Line
<1>4. Line[1] = r
  BY <1>1 DEF Line
<1>5. Ready(r) /\ Follows(r, q)
  BY <1>1, <1>4 DEF ServerInv, Serve
<1>6. chart' = [chart EXCEPT ![r.of] = After[r.op]]
  BY <1>1, <1>5, ReadyIsLegal DEF Serve
<1>7. r.of \in Sessions /\ r.op \in {"create", "resolve", "series", "delete"}
  BY <1>1 DEF Requests
<1>8. \A s \in Sessions : chart'[s] = IF s = r.of THEN After[r.op] ELSE chart[s]
  BY <1>6 DEF TypeInv, Types
<1>9. \A s \in Sessions : (s \in Live') <=>
         IF s = r.of THEN r.op # "delete" ELSE s \in Live
  BY <1>7, <1>8 DEF Live, After
<1>10. \A s \in Sessions :
          /\ s < q.of => s \notin Live'
          /\ s > q.of => chart'[s] = "none"
          /\ s = q.of => chart'[s] = IF q.op = "delete" THEN "streaming" ELSE Before[q.op]
  <2>1. \A s \in Sessions :
           /\ s \in Nat
           /\ s < r.of => s \notin Live
           /\ s > r.of => chart[s] = "none"
    BY <1>5, ChartAssumption DEF Ready, Sessions, ChartAssumption
  <2> HIDE DEF r, q
  <2>2. CASE r.op = "create"
    <3>1. q.op = "resolve" /\ q.of = r.of
      BY <1>5, <2>2 DEF Follows
    <3>2. After[r.op] = "created" /\ Before[q.op] = "created"
      BY <2>2, <3>1 DEF After, Before
    <3> QED
      BY <1>7, <1>8, <1>9, <2>1, <3>1, <3>2
  <2>3. CASE r.op = "resolve"
    <3>1. q.op = "series" /\ q.of = r.of
      BY <1>5, <2>3 DEF Follows
    <3>2. After[r.op] = "resolved" /\ Before[q.op] = "resolved"
      BY <2>3, <3>1 DEF After, Before
    <3> QED
      BY <1>7, <1>8, <1>9, <2>1, <3>1, <3>2
  <2>4. CASE r.op = "series"
    <3>1. q.op = "delete" /\ q.of = r.of
      BY <1>5, <2>4 DEF Follows
    <3>2. After[r.op] = "streaming"
      BY <2>4, <3>1 DEF After, Before
    <3> QED
      BY <1>7, <1>8, <1>9, <2>1, <3>1, <3>2
  <2>5. CASE r.op = "delete"
    <3>1. q.op = "create" /\ q.of = r.of + 1
      BY <1>5, <2>5 DEF Follows
    <3>2. Before[q.op] = "none"
      BY <3>1 DEF Before
    <3>3. r.of \in Nat
      BY <1>7, <2>1
    <3> QED
      BY <1>7, <1>8, <1>9, <2>1, <2>5, <3>1, <3>2, <3>3
  <2> QED
    BY <1>7, <2>2, <2>3, <2>4, <2>5
<1>11. Ready(Line[1])'
  <2>1. Line'[1] = q
    BY <1>1, <1>3
  <2> HIDE DEF q
  <2> QED
    BY <1>10, <2>1 DEF Ready
<1>12. \A i \in 1 .. Len(c2s') : Follows(Line[i], Line[i + 1])'
  <2>1. \A i \in 1 .. Len(c2s') : Line'[i] = Line[i + 1] /\ Line'[i + 1] = Line[i + 2]
    BY <1>1, <1>3
  <2>2. \A i \in 1 .. Len(c2s') : Follows(Line[i + 1], Line[i + 2])
    BY <1>1 DEF ServerInv, Serve
  <2> QED
    BY <2>1, <2>2 DEF Follows
<1>13. \A s \in Sessions : s > session' => chart'[s] = "none"
  <2>1. r.of \in OfThisConn
    BY <1>1 DEF ConnInv
  <2>2. ~(r.of > session)
    BY <2>1, <1>7, ChartAssumption
       DEF OfThisConn, TypeInv, Types, Sessions, ChartAssumption
  <2> QED
    BY <1>8, <2>2 DEF ServerInv, Serve, fetchVars
<1> QED
  BY <1>11, <1>12, <1>13 DEF ServerInv, Serve, socketVars

\* Every step keeps the server where the line begins.
LEMMA ServerNext == TypeInv /\ ConnInv /\ ServerInv /\ [Next]_vars => ServerInv'
<1> SUFFICES ASSUME TypeInv, ConnInv, ServerInv, [Next]_vars
             PROVE  ServerInv'
  OBVIOUS
<1> USE DEF fetchVars, socketVars, serverVars
<1>1. CASE Begin
  <2>1. /\ session' \in Nat /\ session <= session'
        /\ c2s' = c2s /\ chart' = chart /\ up' = up /\ wdead' = wdead
    BY <1>1, ChartAssumption DEF Begin, TypeInv, Types, ChartAssumption
  <2>2. Upcoming' = Upcoming
    BY <1>1 DEF Begin, Upcoming, Ask
  <2> QED
    BY <2>1, <2>2, LineKept
<1>2. CASE SendCreate
  <2>1. session' = session /\ chart' = chart /\ up' = up
    BY <1>2 DEF SendCreate, Sends, SendFails
  <2>2. CASE ~up
    <3>1. c2s' = c2s
      BY <1>2, <2>2 DEF SendCreate, Sends, SendFails, WriteOk, WriteFails
    <3> QED
      BY <2>1, <2>2, <3>1, DownKept
  <2>3. CASE up
    <3>1. /\ Upcoming = Ask("create") /\ session \in Sessions
          /\ wdead' = wdead /\ c2s' = Append(c2s, Upcoming)
      BY <1>2, <2>3 DEF SendCreate, Sends, SendFails, WriteOk, WriteFails,
         ServerInv, Upcoming, TypeInv, Types
    <3>2. Upcoming' = Ask("resolve")
      BY <1>2, <2>3 DEF SendCreate, Sends, SendFails, WriteFails, ServerInv,
         Upcoming, Ask
    <3>3. Upcoming \in Requests /\ Follows(Upcoming, Upcoming')
      BY <3>1, <3>2, RecordTypes DEF Ask, Follows
    <3> QED
      BY <2>1, <2>3, <3>1, <3>3, LineGrows
  <2> QED
    BY <2>2, <2>3
<1>3. CASE SendResolve
  <2>1. session' = session /\ chart' = chart /\ up' = up
    BY <1>3 DEF SendResolve, Sends, SendFails
  <2>2. CASE ~up
    <3>1. c2s' = c2s
      BY <1>3, <2>2 DEF SendResolve, Sends, SendFails, WriteOk, WriteFails
    <3> QED
      BY <2>1, <2>2, <3>1, DownKept
  <2>3. CASE up
    <3>1. /\ Upcoming = Ask("resolve") /\ session \in Sessions
          /\ wdead' = wdead /\ c2s' = Append(c2s, Upcoming)
      BY <1>3, <2>3 DEF SendResolve, Sends, SendFails, WriteOk, WriteFails,
         ServerInv, Upcoming, TypeInv, Types
    <3>2. Upcoming' = Ask("series")
      BY <1>3, <2>3 DEF SendResolve, Sends, SendFails, WriteFails, ServerInv,
         Upcoming, Ask
    <3>3. Upcoming \in Requests /\ Follows(Upcoming, Upcoming')
      BY <3>1, <3>2, RecordTypes DEF Ask, Follows
    <3> QED
      BY <2>1, <2>3, <3>1, <3>3, LineGrows
  <2> QED
    BY <2>2, <2>3
<1>4. CASE SendSeries
  <2>1. session' = session /\ chart' = chart /\ up' = up
    BY <1>4 DEF SendSeries, Sends, SendFails
  <2>2. CASE ~up
    <3>1. c2s' = c2s
      BY <1>4, <2>2 DEF SendSeries, Sends, SendFails, WriteOk, WriteFails
    <3> QED
      BY <2>1, <2>2, <3>1, DownKept
  <2>3. CASE up
    <3>1. /\ Upcoming = Ask("series") /\ session \in Sessions
          /\ wdead' = wdead /\ c2s' = Append(c2s, Upcoming)
      BY <1>4, <2>3 DEF SendSeries, Sends, SendFails, WriteOk, WriteFails,
         ServerInv, Upcoming, TypeInv, Types
    <3>2. Upcoming' = Ask("delete")
      BY <1>4, <2>3 DEF SendSeries, Sends, SendFails, WriteFails, ServerInv,
         Upcoming, Ask
    <3>3. Upcoming \in Requests /\ Follows(Upcoming, Upcoming')
      BY <3>1, <3>2, RecordTypes DEF Ask, Follows
    <3> QED
      BY <2>1, <2>3, <3>1, <3>3, LineGrows
  <2> QED
    BY <2>2, <2>3
<1>5. CASE TopStops
  <2>1. /\ session' = session /\ c2s' = c2s /\ chart' = chart /\ up' = up
        /\ wdead' => wdead \/ ~up
    BY <1>5 DEF TopStops, Failure
  <2>2. up => Upcoming' = Upcoming
    BY <1>5 DEF TopStops, Failure, Upcoming, Ask, ServerInv
  <2>3. session \in Nat
    BY ChartAssumption DEF ChartAssumption, TypeInv, Types
  <2> QED
    BY <2>1, <2>2, <2>3, LineKept
<1>6. CASE TopReads
  <2>1. /\ session' = session /\ c2s' = c2s /\ chart' = chart /\ up' = up
        /\ wdead' => wdead \/ ~up
    BY <1>6 DEF TopReads
  <2>2. up => Upcoming' = Upcoming
    BY <1>6 DEF TopReads, Upcoming, Ask, ServerInv
  <2>3. session \in Nat
    BY ChartAssumption DEF ChartAssumption, TypeInv, Types
  <2> QED
    BY <2>1, <2>2, <2>3, LineKept
<1>7. CASE ReadBeat
  <2>1. /\ session' = session /\ c2s' = c2s /\ chart' = chart /\ up' = up
        /\ wdead' => wdead \/ ~up
    BY <1>7 DEF ReadBeat, Read
  <2>2. up => Upcoming' = Upcoming
    BY <1>7 DEF ReadBeat, Read, Upcoming, Ask, ServerInv
  <2>3. session \in Nat
    BY ChartAssumption DEF ChartAssumption, TypeInv, Types
  <2> QED
    BY <2>1, <2>2, <2>3, LineKept
<1>8. CASE ReadVerdict
  <2>1. /\ session' = session /\ c2s' = c2s /\ chart' = chart /\ up' = up
        /\ wdead' => wdead \/ ~up
    BY <1>8 DEF ReadVerdict, Read, Failure, Decides, Verdicts
  <2>2. up => Upcoming' = Upcoming
    BY <1>8 DEF ReadVerdict, Read, Failure, Decides, Verdicts, Upcoming, Ask, ServerInv
  <2>3. session \in Nat
    BY ChartAssumption DEF ChartAssumption, TypeInv, Types
  <2> QED
    BY <2>1, <2>2, <2>3, LineKept
<1>9. CASE ReadNothing
  <2>1. /\ session' = session /\ c2s' = c2s /\ chart' = chart /\ up' = up
        /\ wdead' => wdead \/ ~up
    BY <1>9 DEF ReadNothing, Read
  <2>2. up => Upcoming' = Upcoming
    BY <1>9 DEF ReadNothing, Read, Upcoming, Ask, ServerInv
  <2>3. session \in Nat
    BY ChartAssumption DEF ChartAssumption, TypeInv, Types
  <2> QED
    BY <2>1, <2>2, <2>3, LineKept
<1>10. CASE ReadFails
  <2>1. /\ session' = session /\ c2s' = c2s /\ chart' = chart /\ up' = up
        /\ wdead' => wdead \/ ~up
    BY <1>10 DEF ReadFails, Failure
  <2>2. up => Upcoming' = Upcoming
    BY <1>10 DEF ReadFails, Failure, Upcoming, Ask, ServerInv
  <2>3. session \in Nat
    BY ChartAssumption DEF ChartAssumption, TypeInv, Types
  <2> QED
    BY <2>1, <2>2, <2>3, LineKept
<1>11. CASE Pong
  <2>1. /\ session' = session /\ c2s' = c2s /\ chart' = chart /\ up' = up
        /\ wdead' => wdead \/ ~up
    BY <1>11 DEF Pong, PongOk, SendFails, WriteOk, WriteFails, Failure
  <2>2. up => Upcoming' = Upcoming
    BY <1>11 DEF Pong, PongOk, SendFails, WriteOk, WriteFails, Failure, Upcoming, Ask, ServerInv
  <2>3. session \in Nat
    BY ChartAssumption DEF ChartAssumption, TypeInv, Types
  <2> QED
    BY <2>1, <2>2, <2>3, LineKept
<1>12. CASE SendDelete
  <2>1. session' = session /\ chart' = chart /\ up' = up
    BY <1>12 DEF SendDelete
  <2>2. CASE ~up
    <3>1. c2s' = c2s
      BY <1>12, <2>2 DEF SendDelete, WriteOk, WriteFails
    <3> QED
      BY <2>1, <2>2, <3>1, DownKept
  <2>3. CASE up
    <3>1. /\ Upcoming = Ask("delete") /\ session \in Sessions
          /\ wdead' = wdead /\ c2s' = Append(c2s, Upcoming)
      BY <1>12, <2>3 DEF SendDelete, WriteOk, WriteFails,
         ServerInv, Upcoming, TypeInv, Types
    <3>2. Upcoming' = [op |-> "create", of |-> session + 1]
      BY <1>12, <2>3 DEF SendDelete, Upcoming
    <3>3. Upcoming \in Requests /\ Follows(Upcoming, Upcoming')
      BY <3>1, <3>2, RecordTypes DEF Ask, Follows
    <3> QED
      BY <2>1, <2>3, <3>1, <3>3, LineGrows
  <2> QED
    BY <2>2, <2>3
<1>13. CASE ReleaseHealthy
  <2>1. /\ session' = session /\ c2s' = c2s /\ chart' = chart /\ up' = up
        /\ wdead' => wdead \/ ~up
    BY <1>13 DEF ReleaseHealthy, Return, NoOutcome
  <2>2. up => Upcoming' = Upcoming
    BY <1>13 DEF ReleaseHealthy, Return, NoOutcome, Upcoming, Ask, ServerInv
  <2>3. session \in Nat
    BY ChartAssumption DEF ChartAssumption, TypeInv, Types
  <2> QED
    BY <2>1, <2>2, <2>3, LineKept
<1>14. CASE ReleaseBroken
  <2>1. Redial /\ pc' = "idle" /\ session' = session
    BY <1>14 DEF ReleaseBroken, Return
  <2> QED
    BY <2>1, LineStarts
<1>15. CASE Retire
  <2>1. Redial /\ pc' = "idle" /\ session' = session
    BY <1>15 DEF Retire
  <2> QED
    BY <2>1, LineStarts
<1>16. CASE Cancel
  <2>1. /\ session' = session /\ c2s' = c2s /\ chart' = chart /\ up' = up
        /\ wdead' => wdead \/ ~up
    BY <1>16 DEF Cancel, Fetching
  <2>2. up => Upcoming' = Upcoming
    BY <1>16 DEF Cancel, Fetching, Upcoming, Ask, ServerInv
  <2>3. session \in Nat
    BY ChartAssumption DEF ChartAssumption, TypeInv, Types
  <2> QED
    BY <2>1, <2>2, <2>3, LineKept
<1>17. CASE Expire
  <2>1. /\ session' = session /\ c2s' = c2s /\ chart' = chart /\ up' = up
        /\ wdead' => wdead \/ ~up
    BY <1>17 DEF Expire
  <2>2. up => Upcoming' = Upcoming
    BY <1>17 DEF Expire, Upcoming, Ask, ServerInv
  <2>3. session \in Nat
    BY ChartAssumption DEF ChartAssumption, TypeInv, Types
  <2> QED
    BY <2>1, <2>2, <2>3, LineKept
<1>18. CASE Break
  <2>1. Live' = {}
    BY <1>18, RedialEndsAll DEF Break
  <2>2. \A s \in Sessions : s > session' => chart'[s] = "none"
    BY <1>18 DEF Break, ServerInv, Live
  <2> QED
    BY <1>18, <2>1, <2>2 DEF Break, ServerInv
<1>19. CASE Serve
  BY <1>19, ServeAdvances
<1>20. CASE Push
  <2>1. /\ session' = session /\ c2s' = c2s /\ chart' = chart /\ up' = up
        /\ wdead' => wdead \/ ~up
    BY <1>20 DEF Push
  <2>2. up => Upcoming' = Upcoming
    BY <1>20 DEF Push, Upcoming, Ask, ServerInv
  <2>3. session \in Nat
    BY ChartAssumption DEF ChartAssumption, TypeInv, Types
  <2> QED
    BY <2>1, <2>2, <2>3, LineKept
<1>21. CASE UNCHANGED vars
  <2>1. up => Upcoming' = Upcoming
    BY <1>21 DEF vars, Upcoming, Ask
  <2>2. session \in Nat
    BY ChartAssumption DEF ChartAssumption, TypeInv, Types
  <2> QED
    BY <1>21, <2>1, <2>2, LineKept DEF vars
<1> QED
  BY <1>1, <1>2, <1>3, <1>4, <1>5, <1>6, <1>7, <1>8, <1>9, <1>10, <1>11,
     <1>12, <1>13, <1>14, <1>15, <1>16, <1>17, <1>18, <1>19, <1>20, <1>21
     DEF Next, FetchSeries, Release

-----------------------------------------------------------------------------
(* Theorems *)

\* A slot that has fetched nothing yet.
LEMMA InitInv == Init => TypeInv /\ ConnInv /\ ServerInv
<1> SUFFICES ASSUME Init
             PROVE  TypeInv /\ ConnInv /\ ServerInv
  OBVIOUS
<1> USE ChartAssumption DEF ChartAssumption, Init, Sessions
<1>1. TypeInv
  <2>1. c2s \in Seq(Requests) /\ s2c \in Seq(Seq(Frames))
    OBVIOUS
  <2>2. outcome \in [code : Codes, from : 0 .. MaxFetches]
    BY RecordTypes
  <2>3. chart \in [Sessions -> States]
    BY DEF States
  <2>4. canceled \in BOOLEAN /\ expired \in BOOLEAN
    OBVIOUS
  <2>5. up \in BOOLEAN /\ wdead \in BOOLEAN /\ rdead \in BOOLEAN
    OBVIOUS
  <2>6. session \in 0 .. MaxFetches /\ first \in 1 .. MaxFetches + 1
    OBVIOUS
  <2>7. failed \in SUBSET Sessions
    OBVIOUS
  <2> QED
    BY <2>1, <2>2, <2>3, <2>4, <2>5, <2>6, <2>7 DEF TypeInv, Types
<1>2. Live = {}
  BY DEF Live
<1>3. ConnInv
  BY <1>2 DEF ConnInv, NoOutcome
<1>4. Line[1] = [op |-> "create", of |-> 1] /\ Len(c2s) = 0
  BY DEF Line, Upcoming
<1>5. Ready(Line[1])
  BY <1>2, <1>4 DEF Ready, Before
<1>6. ServerInv
  BY <1>4, <1>5 DEF ServerInv
<1> QED
  BY <1>1, <1>3, <1>6

\* TypeInv, ConnInv and ServerInv together are inductive.
LEMMA Invariant == Spec => [](TypeInv /\ ConnInv /\ ServerInv)
<1>1. TypeInv /\ ConnInv /\ ServerInv /\ [Next]_vars
         => (TypeInv /\ ConnInv /\ ServerInv)'
  BY TypeNext, ConnNext, ServerNext
<1> QED
  BY InitInv, <1>1, PTL DEF Spec

\* Every variable has its type: a session number stays within the bound, a
\* request on its way names a session that was begun.
THEOREM Typed == Spec => []TypeOK
<1>1. TypeInv => TypeOK
  BY DEF TypeInv, Types, TypeOK, States
<1> QED
  BY <1>1, Invariant, PTL

\* conn.fetchSeries, conn.send and the release in Client.fetchOnce: what a
\* failed fetch has asked for is answered to nobody, no read follows a failed
\* read of the same websocket, and no fetch gets past its first request on a
\* websocket on which a write has failed.
THEOREM FailedAnswersNobody == Spec => []FailedNeverAnswers
<1>1. TypeInv /\ ConnInv => FailedNeverAnswers
  <2> SUFFICES ASSUME TypeInv, ConnInv
               PROVE  FailedNeverAnswers
    OBVIOUS
  <2> USE ChartAssumption DEF ChartAssumption, TypeInv, Types, Sessions,
          ConnInv, OfThisConn
  <2>1. failed \cap (first .. session) = {}
    OBVIOUS
  <2>2. pc \in {"resolve", "series", "top", "read", "pong"} => ~rdead /\ ~wdead
    OBVIOUS
  <2> QED
    BY <2>1, <2>2 DEF FailedNeverAnswers
<1> QED
  BY <1>1, Invariant, PTL

\* conn.fetchSeries: one chart session per fetch and torn down after it.
\* Whatever fails and whenever the conn is reused, the server never has two
\* sessions of it, and never gets a request that its session is not up to.
THEOREM ServerGetsWhatItExpects == Spec => []ServerNeverSurprised
<1>1. TypeInv /\ ServerInv => ServerNeverSurprised
  <2> SUFFICES ASSUME TypeInv, ServerInv
               PROVE  ServerNeverSurprised
    OBVIOUS
  <2>1. Cardinality({}) = 0 /\ \A x : Cardinality({x}) = 1
    BY FS_EmptySet, FS_Singleton
  <2>2. Live = {} \/ \E x : Live = {x}
    <3>1. CASE ~up
      BY <3>1 DEF ServerInv
    <3>2. CASE up
      <4>1. \A s \in Live : s \in Sessions /\ chart[s] # "none"
        BY DEF Live
      <4>2. Line[1].of \in Nat
        <5>1. CASE Len(c2s) = 0
          <6>1. Line[1] = Upcoming
            BY <5>1, LineTypes
          <6>2. Upcoming.of \in {session, session + 1}
            BY DEF Upcoming, Ask, TypeInv, Types
          <6>3. session \in Nat
            BY ChartAssumption DEF TypeInv, Types, ChartAssumption
          <6> QED
            BY <6>1, <6>2, <6>3
        <5>2. CASE Len(c2s) # 0
          <6>1. Line[1] \in Requests
            BY <5>2, LineTypes
          <6>2. Line[1].of \in Sessions
            BY <6>1 DEF Requests
          <6> QED
            BY <6>2, ChartAssumption DEF Sessions, ChartAssumption
        <5> QED
          BY <5>1, <5>2
      <4>3. \A s \in Live : s = Line[1].of
        <5>1. Ready(Line[1])
          BY <3>2 DEF ServerInv
        <5> TAKE s \in Live
        <5>2. s \in Nat
          BY <4>1, ChartAssumption DEF Sessions, ChartAssumption
        <5>3. chart[s] # "none" /\ s \in Sessions
          BY <4>1
        <5>4. ~(s < Line[1].of) /\ ~(s > Line[1].of)
          BY <5>1, <5>3 DEF Ready
        <5> QED
          BY <4>2, <5>2, <5>4
      <4> DEFINE x == Line[1].of
      <4>4. \A s \in Live : s = x
        BY <4>3
      <4> HIDE DEF x
      <4>5. Live # {} => Live = {x}
        BY <4>4, Zenon
      <4> QED
        BY <4>5, Zenon
    <3> QED
      BY <3>1, <3>2
  <2>3. Cardinality(Live) <= 1
    <3>1. CASE Live = {}
      BY <2>1, <3>1
    <3>2. CASE \E x : Live = {x}
      <4>1. PICK x : Live = {x}
        BY <3>2
      <4> QED
        BY <2>1, <4>1
    <3> QED
      BY <2>2, <3>1, <3>2
  <2>4. ASSUME c2s # <<>>
        PROVE  Legal(Head(c2s))
    <3>1. Head(c2s) = c2s[1] /\ Head(c2s) \in Requests /\ Len(c2s) >= 1
      BY <2>4, HeadTailProperties, EmptySeq, LenProperties DEF TypeInv, Types
    <3>2. Line[1] = Head(c2s)
      BY <3>1, LineTypes
    <3>3. up
      BY <2>4 DEF ServerInv, TypeInv, Types
    <3> QED
      BY <3>1, <3>2, <3>3, ReadyIsLegal DEF ServerInv
  <2> QED
    BY <2>3, <2>4 DEF ServerNeverSurprised
<1> QED
  BY <1>1, Invariant, PTL
=============================================================================
