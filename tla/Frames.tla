------------------------------- MODULE Frames -------------------------------
(***************************************************************************)
(* The wire format of protocol.go: decodeFrames and heartbeatPong on one   *)
(* raw message, as fetchSeries and stream call them.                       *)
(*                                                                         *)
(* A message is a batch of frames, each with the length of its body before *)
(* it.  The length counts bytes, and the server may count otherwise: a     *)
(* frame of the model declares Len(body) + off.                            *)
(*                                                                         *)
(* A string is a sequence of characters; decodeFrames is a loop, with one  *)
(* action for every way a round can go.                                    *)
(***************************************************************************)
EXTENDS Integers, SequencesExt, FiniteSetsExt

CONSTANTS Bodies,      \* what a frame may carry
          Offs,        \* how far a declared length may be off
          MaxFrames    \* bound of the batch

ASSUME FramesAssumption ==
    /\ Offs \subseteq Int
    /\ MaxFrames \in Nat
    /\ \A b \in Bodies : Len(b) \in 0 .. 9
    /\ \A b \in Bodies, off \in Offs : Len(b) + off \in -9 .. 9

VARIABLES
    batch,   \* the frames of the message
    pc,
    raw,     \* what is left of the message
    out,     \* the result of decodeFrames
    pong     \* what is sent back, or <<>>

vars == <<batch, pc, raw, out, pong>>

FramesSet == [body : Bodies, off : Offs]

Marker == <<"~", "m", "~">>
Tag    == <<"~", "h", "~">>

Digits == <<"0", "1", "2", "3", "4", "5", "6", "7", "8", "9">>
Decimal(n) == IF n < 0 THEN <<"-", Digits[1 - n]>> ELSE <<Digits[n + 1]>>

\* encodeFrame, for a body of which the length is said to be n.
Framed(n, body) == Marker \o Decimal(n) \o Marker \o body

Declared(f) == Len(f.body) + f.off

Wire(b) == FlattenSeq([i \in DOMAIN b |-> Framed(Declared(b[i]), b[i].body)])

From(s, i) == SubSeq(s, i, Len(s))

\* Where s occurs in t; strings.Index is the least of these, or -1.
Occurrences(s, t) ==
    {i \in 1 .. Len(t) - Len(s) + 1 : SubSeq(t, i, i + Len(s) - 1) = s}

Occurs(s, t) == Occurrences(s, t) # {}
Before(s, t) == SubSeq(t, 1, Min(Occurrences(s, t)) - 1)
After(s, t)  == From(t, Min(Occurrences(s, t)) + Len(s))

\* What the searches of the raw text rely on, of a body between two headers: the
\* tag occurs only where a heartbeat begins, and then no tilde does; nothing
\* looks like the header of a negative length; and the end of the body does not
\* begin a marker which the next header seems to complete.
Separable(b) ==
    LET between == Marker \o b \o Marker IN
    /\ Occurrences(Tag, between) = {i \in {Len(Marker) + 1} : IsPrefix(Tag, b)}
    /\ IsPrefix(Tag, b) => ~Occurs(<<"~">>, From(b, Len(Tag) + 1))
    /\ ~Occurs(Append(Marker, "-"), between)
    /\ ~IsSuffix(<<"~", "m">>, b)

ASSUME BodiesAssumption ==
    \A b \in Bodies : b \in Seq(Range(b)) /\ Separable(b)

Init ==
    /\ batch \in UNION {[1 .. n -> FramesSet] : n \in 1 .. MaxFrames}
    /\ pc = "received"
    /\ raw = Wire(batch)
    /\ out = <<>>
    /\ pong = <<>>

-----------------------------------------------------------------------------

\* Mutant of Number: the digits after the last tag of the message.
Number_Last(t) ==
    LET rest == From(t, Max(Occurrences(Tag, t)) + Len(Tag)) IN
    IF Occurs(<<"~">>, rest) THEN Before(<<"~">>, rest) ELSE rest

\* What follows the first tag, up to the next tilde.
Number(t) ==
    LET rest == After(Tag, t) IN
    IF Occurs(<<"~">>, rest) THEN Before(<<"~">>, rest) ELSE rest

\* heartbeatPong searches the whole message; it is answered and not decoded.
Ping ==
    /\ pc = "received"
    /\ Occurs(Tag, raw)
    /\ LET body == Tag \o Number(raw) IN pong' = Framed(Len(body), body)
    /\ pc' = "done"
    /\ UNCHANGED <<batch, raw, out>>

Decode ==
    /\ pc = "received"
    /\ ~Occurs(Tag, raw)
    /\ pc' = "loop"
    /\ UNCHANGED <<batch, raw, out, pong>>

Breaks ==
    /\ pc' = "done"
    /\ UNCHANGED <<batch, raw, out, pong>>

\* The whole message has been used up, too.
NoMarker == pc = "loop" /\ ~Occurs(Marker, raw) /\ Breaks

Opened == pc = "loop" /\ Occurs(Marker, raw)
Length == After(Marker, raw)

NoLength == Opened /\ ~Occurs(Marker, Length) /\ Breaks

Numerals == {Decimal(n) : n \in -9 .. 9}

NotANumber ==
    /\ Opened
    /\ Occurs(Marker, Length)
    /\ Before(Marker, Length) \notin Numerals
    /\ Breaks

Headed ==
    /\ Opened
    /\ Occurs(Marker, Length)
    /\ Before(Marker, Length) \in Numerals

n    == CHOOSE k \in -9 .. 9 : Decimal(k) = Before(Marker, Length)
tail == After(Marker, Length)

\* json.Valid, of the objects that the bodies are.
Valid(s) ==
    /\ s # <<>> /\ Head(s) = "{" /\ Last(s) = "}"
    /\ Cardinality({i \in DOMAIN s : s[i] = "{"}) = 1

\* Fewer characters are left than declared.
Short ==
    /\ Headed
    /\ Len(tail) < n
    /\ out' = IF Valid(tail) THEN Append(out, tail) ELSE out
    /\ pc' = "done"
    /\ UNCHANGED <<batch, raw, pong>>

\* raw[:n] with a negative n.
Panic ==
    /\ Headed
    /\ n < 0
    /\ pc' = "panicked"
    /\ UNCHANGED <<batch, raw, out, pong>>

\* The body of the declared length ends with the first character of a marker.
IntoMarker ==
    /\ n > 0
    /\ tail[n] = "~"
    /\ IsPrefix(<<"m", "~">>, From(tail, n + 1))

\* Mutant of Resync: raw = raw[n:], as in the other branch.
Resync_PastTilde ==
    /\ Headed
    /\ n <= Len(tail)
    /\ IntoMarker
    /\ out' = Append(out, SubSeq(tail, 1, n - 1))
    /\ raw' = From(tail, n + 1)
    /\ UNCHANGED <<batch, pc, pong>>

\* One too many was declared: the tilde goes back.
Resync ==
    /\ Headed
    /\ n <= Len(tail)
    /\ IntoMarker
    /\ out' = Append(out, SubSeq(tail, 1, n - 1))
    /\ raw' = From(tail, n)
    /\ UNCHANGED <<batch, pc, pong>>

Take ==
    /\ Headed
    /\ n \in 0 .. Len(tail)
    /\ ~IntoMarker
    /\ out' = Append(out, SubSeq(tail, 1, n))
    /\ raw' = From(tail, n + 1)
    /\ UNCHANGED <<batch, pc, pong>>

\* The message has been dealt with.
Returned == pc \in {"done", "panicked"} /\ UNCHANGED vars

Next ==
    \/ Ping \/ Decode
    \/ NoMarker \/ NoLength \/ NotANumber
    \/ Short \/ Panic \/ Resync \/ Take
    \/ Returned

Spec == Init /\ [][Next]_vars

-----------------------------------------------------------------------------
(* Properties.  That the loop ends in every case is the absence of         *)
(* deadlock: each round but the last makes raw shorter.                    *)

Beats == {i \in DOMAIN batch : IsPrefix(Tag, batch[i].body)}

\* What a declared length leaves of the body.
Kept(f) == IF f.off < 0 THEN SubSeq(f.body, 1, Declared(f)) ELSE f.body

\* A wrong length does no harm to other frames: too short, unless the rest of
\* the body looks like a marker; too long by one; too long by whatever in the
\* last frame, if its body is whole.
Harmless(i) ==
    LET f == batch[i] IN
    \/ f.off = 0
    \/ f.off < 0 /\ Declared(f) >= 0 /\ ~Occurs(Marker, f.body)
    \/ f.off > 0 /\ i = Len(batch) /\ Valid(f.body)
    \/ f.off = 1 /\ i < Len(batch)

\* protocol.go:27-28, 46-56: the parts of a message come out in their order,
\* whole where the length was right or too large by one, and a wrong length
\* costs at most its own frame: every frame before the first harmful length
\* comes out at its place, and nothing is made up if there is none.  Only a
\* negative length makes the slice expression panic.
WrongLengthIsContained ==
    /\ pc = "panicked" => \E f \in Range(batch) : Declared(f) < 0
    /\ pc = "done" /\ pong = <<>> =>
          LET harmful == {i \in DOMAIN batch : ~Harmless(i)}
              intact  == IF harmful = {} THEN Len(batch) ELSE Min(harmful) - 1
          IN  /\ Len(out) >= intact
              /\ \A i \in 1 .. intact : out[i] = Kept(batch[i])
              /\ harmful = {} => Len(out) = intact

\* protocol.go:63, conn.go:163: the pong is the first heartbeat of the message,
\* as one frame whose length is right, whatever else the message holds and
\* however its lengths are off; without a heartbeat there is no pong.
PongEchoesFirst ==
    pc = "done" =>
        pong = IF Beats = {} THEN <<>>
               ELSE LET b == batch[Min(Beats)].body IN Framed(Len(b), b)
=============================================================================
