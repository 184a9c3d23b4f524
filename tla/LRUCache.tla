------------------------------ MODULE LRUCache ------------------------------
(***************************************************************************)
(* cache.go: lruCache, a list of entries in order of use and an index into *)
(* it.  get and put hold c.mu from end to end and read the clock inside,   *)
(* so each is one step, whatever goroutine calls it.                       *)
(*                                                                         *)
(* An element of the list is its key, and the entry it points to is kept   *)
(* with the index: the code reaches entries through the index only.        *)
(***************************************************************************)
EXTENDS Integers, SequencesExt

CONSTANTS Keys,       \* (symbol, resolution, bars), normalized
          Data,       \* charts
          TTL,        \* TTL[k]: Config.CacheTTLs of k's resolution; 0: not listed
          CacheSize,  \* Config.CacheSize
          Nothing,    \* no element in the index; a miss
          MaxTime     \* bound of the clock

ASSUME CacheAssumption ==
    /\ CacheSize \in Nat \ {0}      \* Config.withDefaults replaces 0 and less
    /\ TTL \in [Keys -> Int]
    /\ MaxTime \in Nat
    /\ Nothing \notin [data : Data, expiresAt : Int]
    /\ Nothing \notin [key : Keys, data : Data]

VARIABLES
    ll,      \* the list: keys, the one used last in front
    idx,     \* the index: the entry of each key, or Nothing
    now,     \* the clock
    answer,  \* what the last get returned
    latest,  \* history: the last put under each key
    recent   \* history: all keys ever used, the one used last in front

historyVars == <<latest, recent>>
vars == <<ll, idx, now, answer, historyVars>>

Entry == [data : Data, expiresAt : Int]

Present == Range(ll)

Init ==
    /\ ll = <<>>
    /\ idx = [k \in Keys |-> Nothing]
    /\ now = 0
    /\ answer = Nothing
    /\ latest = [k \in Keys |-> Nothing]
    /\ recent = <<>>

\* The list without k, and with k in front; s has k at most once.
Removed(s, k) ==
    IF k \in Range(s) THEN RemoveAt(s, CHOOSE i \in DOMAIN s : s[i] = k) ELSE s
Fronted(s, k) == <<k>> \o Removed(s, k)

\* list.MoveToFront leaves the list alone when the element is not on it.
MovedToFront(k) == IF k \in Present THEN Fronted(ll, k) ELSE ll

-----------------------------------------------------------------------------

\* time.Now().After(e.expiresAt)
Expired(k) == now > idx[k].expiresAt

GetMiss(k) ==
    /\ idx[k] = Nothing
    /\ answer' = Nothing
    /\ UNCHANGED <<ll, idx, now, historyVars>>

\* Mutant of GetExpired: the element leaves the list but not the index.
GetExpired_KeepsIndex(k) ==
    /\ idx[k] # Nothing
    /\ Expired(k)
    /\ ll' = Removed(ll, k)
    /\ answer' = Nothing
    /\ UNCHANGED <<idx, now, historyVars>>

\* An entry past its TTL is evicted by the get that finds it.
GetExpired(k) ==
    /\ idx[k] # Nothing
    /\ Expired(k)
    /\ ll' = Removed(ll, k)
    /\ idx' = [idx EXCEPT ![k] = Nothing]
    /\ answer' = Nothing
    /\ UNCHANGED <<now, historyVars>>

GetHit(k) ==
    /\ idx[k] # Nothing
    /\ ~Expired(k)
    /\ ll' = MovedToFront(k)
    /\ answer' = [key |-> k, data |-> idx[k].data]
    /\ recent' = Fronted(recent, k)
    /\ UNCHANGED <<idx, now, latest>>

-----------------------------------------------------------------------------

Stamped(k, d) == [data |-> d, expiresAt |-> now + TTL[k]]

Puts(k, d) ==
    /\ latest' = [latest EXCEPT ![k] = Stamped(k, d)]
    /\ recent' = Fronted(recent, k)
    /\ UNCHANGED <<now, answer>>

\* Mutant of PutAgain: the old data is kept, only its TTL starts anew.
PutAgain_KeepsData(k, d) ==
    /\ TTL[k] > 0
    /\ idx[k] # Nothing
    /\ idx' = [idx EXCEPT ![k].expiresAt = now + TTL[k]]
    /\ ll' = MovedToFront(k)
    /\ Puts(k, d)

\* Mutant of PutAgain: e.expiresAt = e.expiresAt.Add(ttl), which adds up.
PutAgain_AddsTTL(k, d) ==
    /\ TTL[k] > 0
    /\ idx[k] # Nothing
    /\ idx' = [idx EXCEPT ![k] = [data |-> d, expiresAt |-> @.expiresAt + TTL[k]]]
    /\ ll' = MovedToFront(k)
    /\ Puts(k, d)

\* put of a key that is indexed, expired or not.
PutAgain(k, d) ==
    /\ TTL[k] > 0
    /\ idx[k] # Nothing
    /\ idx' = [idx EXCEPT ![k] = Stamped(k, d)]
    /\ ll' = MovedToFront(k)
    /\ Puts(k, d)

\* Mutant of PutNew: evicts the entry at the front before it pushes.
PutNew_EvictsFront(k, d) ==
    /\ TTL[k] > 0
    /\ idx[k] = Nothing
    /\ LET kept == IF Len(ll) >= CacheSize THEN Tail(ll) ELSE ll IN
          /\ ll' = <<k>> \o kept
          /\ idx' = [x \in Keys |-> IF x = k THEN Stamped(k, d)
                                    ELSE IF x \in Present \ Range(kept)
                                    THEN Nothing ELSE idx[x]]
    /\ Puts(k, d)

\* A new key is pushed to the front, and the list is cut to CacheSize from the
\* back; an expired entry counts and is not looked for.
PutNew(k, d) ==
    /\ TTL[k] > 0
    /\ idx[k] = Nothing
    /\ LET pushed == <<k>> \o ll
           kept   == IF Len(pushed) > CacheSize THEN SubSeq(pushed, 1, CacheSize)
                     ELSE pushed IN
          /\ ll' = kept
          /\ idx' = [x \in Keys |-> IF x = k THEN Stamped(k, d)
                                    ELSE IF x \in Present \ Range(kept)
                                    THEN Nothing ELSE idx[x]]
    /\ Puts(k, d)

-----------------------------------------------------------------------------

Tick ==
    /\ now < MaxTime
    /\ now' = now + 1
    /\ UNCHANGED <<ll, idx, answer, historyVars>>

Get(k) == GetMiss(k) \/ GetExpired(k) \/ GetHit(k)

Put(k, d) == PutAgain(k, d) \/ PutNew(k, d)

Next ==
    \/ \E k \in Keys : Get(k)
    \/ \E k \in Keys, d \in Data : Put(k, d)
    \/ Tick

Spec == Init /\ [][Next]_vars

-----------------------------------------------------------------------------
(* Properties *)

\* The types.  However often a key is put, and whenever, its entry expires at
\* most one TTL from now (cache.go:68).
TypeOK ==
    /\ ll \in Seq(Keys)
    /\ idx \in [Keys -> Entry \cup {Nothing}]
    /\ \A k \in Keys : idx[k] # Nothing => idx[k].expiresAt <= now + TTL[k]
    /\ now \in 0 .. MaxTime
    /\ answer \in [key : Keys, data : Data] \cup {Nothing}
    /\ latest \in [Keys -> Entry \cup {Nothing}]
    /\ recent \in Seq(Keys)

\* The list and the index agree, and neither outgrows Config.CacheSize: an
\* element out of the list but still indexed would never be evicted, one on
\* the list but not indexed never found.
IndexMatchesList ==
    /\ IsInjective(ll)
    /\ Present = {k \in Keys : idx[k] # Nothing}
    /\ Len(ll) <= CacheSize

\* A key that has not expired leaves the cache only when the cache is full and
\* every other key in it was used after it (or is the one being put).
EvictsOnlyOldest ==
    [][\A k \in Present \ Range(ll') :
          ~Expired(k) => /\ Len(ll) = CacheSize
                         /\ \A x \in Range(ll') :
                               \E i, j \in DOMAIN recent' :
                                  i < j /\ recent'[i] = x /\ recent'[j] = k]_vars

Map == INSTANCE TTLMap WITH promise <- latest

\* A hit returns what was put last under its key, within its TTL.
ImplementsTTLMap == Map!Spec
=============================================================================
