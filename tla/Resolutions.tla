---------------------------- MODULE Resolutions ----------------------------
(***************************************************************************)
(* The tables of protocol.go and NormalizeResolution, by which Client      *)
(* turns the spelling of a caller into the key of the cache and of Slabs.  *)
(***************************************************************************)
EXTENDS TLC

\* ("", false)
Unknown == ""

ValidResolutions ==
    {"1", "3", "5", "15", "30", "45", "60", "120", "180", "240",
     "D", "1D", "W", "1W", "M", "1M"}

friendlyToWire ==
       "1M" :> "1"   @@ "1MIN" :> "1"
    @@ "3M" :> "3"   @@ "3MIN" :> "3"
    @@ "5M" :> "5"   @@ "5MIN" :> "5"
    @@ "15M" :> "15" @@ "15MIN" :> "15"
    @@ "30M" :> "30" @@ "30MIN" :> "30"
    @@ "45M" :> "45" @@ "45MIN" :> "45"
    @@ "1H" :> "60"  @@ "60M" :> "60"
    @@ "2H" :> "120" @@ "3H" :> "180" @@ "4H" :> "240"
    @@ "1D" :> "D"   @@ "DAILY" :> "D"
    @@ "1W" :> "W"   @@ "WEEKLY" :> "W"
    @@ "1MN" :> "M"  @@ "MONTHLY" :> "M"

\* strings.ToUpper(strings.TrimSpace(r)) for the spellings in lower case that
\* the documentation and the tests use, and one with a space.
UpperCase ==
       "1m" :> "1M" @@ "5m" :> "5M" @@ "15m" :> "15M" @@ "1h" :> "1H"
    @@ "4h" :> "4H" @@ "1d" :> "1D" @@ "1w" :> "1W" @@ "1mn" :> "1MN"
    @@ "daily" :> "DAILY" @@ "weekly" :> "WEEKLY" @@ "monthly" :> "MONTHLY"
    @@ " 1H" :> "1H"

Cleaned(r) == IF r \in DOMAIN UpperCase THEN UpperCase[r] ELSE r

NormalizeResolution(r) ==
    LET u == Cleaned(r) IN
    CASE u \in DOMAIN friendlyToWire -> friendlyToWire[u]
      [] u \notin DOMAIN friendlyToWire /\ u \in ValidResolutions -> u
      [] OTHER -> Unknown

-----------------------------------------------------------------------------

Spellings == ValidResolutions \cup DOMAIN friendlyToWire \cup DOMAIN UpperCase

\* protocol.go:158: whatever the spelling, the result is a wire form, and
\* normalizing it again changes nothing, as when a name taken from Slabs is
\* asked for again.
ASSUME WireFormsAreStable ==
    \A r \in Spellings :
        LET w == NormalizeResolution(r)
        IN  w \in ValidResolutions /\ NormalizeResolution(w) = w

\* protocol.go:133: "ValidResolutions is the set the upstream protocol
\* accepts".  Every form in it keeps its meaning, but for 1M: a month to the
\* server, and a minute to friendlyToWire, which is looked up first.
ASSUME OneMonthIsAMinute ==
    {w \in ValidResolutions :
        NormalizeResolution(w) # w /\ w \notin {"1D", "1W"}} = {"1M"}
=============================================================================
