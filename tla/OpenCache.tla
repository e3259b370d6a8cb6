----------------------------- MODULE OpenCache -----------------------------
(***************************************************************************)
(* The cache of committed index halves that the sessions of one process    *)
(* share (crates/forgeql-core/src/storage/columnar/open_cache.rs):         *)
(* get_or_open with its two lookups, the per-key build gates, and entries  *)
(* that live exactly as long as somebody holds them.                       *)
(*                                                                         *)
(* The mutex of the cache is held for one lookup, one insertion or one     *)
(* removal at a time, so each of those is one step; decoding happens       *)
(* outside it.  The caller's closure (ColumnarStorage::shared_open) is     *)
(* Decode: it gives a whole value, a partial one, an error, or it panics.  *)
(* A caller holds its value until it lets go of it; a session that keeps   *)
(* its old index while it opens a new one counts as two callers, and       *)
(* peek() is a lookup whose value is dropped at once.                      *)
(*                                                                         *)
(* Values and gates are numbered from small pools and a number is used     *)
(* again once nothing refers to it, as an address is.                      *)
(*                                                                         *)
(* early and panicked are history.  A definition whose name starts with    *)
(* Mut is the one after it with a plausible bug, and is not part of the    *)
(* specification.                                                          *)
(***************************************************************************)
EXTENDS Naturals, FiniteSets

CONSTANTS Callers,   \* threads that open or hold an index
          Keys,      \* OpenKey: an overlay file and its segment root
          GateIds,   \* identities of build gates
          ValueIds,  \* identities of decoded values
          Nil        \* no gate, no value, no key, nobody

ASSUME OpenCacheAssumption == Nil \notin Callers \cup Keys \cup GateIds \cup ValueIds

VARIABLES
  live,       \* Inner::live, the entries whose value is still held
  gates,      \* Inner::gates
  locked,     \* locked[g]: who is inside the mutex g
  at,         \* where each caller is in get_or_open
  key,        \* the key of its call
  gate,       \* its Arc of the build gate
  value,      \* the Arc of the value it has, during its call and after it
  early,      \* history: keys with a caller that waits for a gate the map no
              \* longer has, and no value to find once it is in
  panicked    \* history: keys whose gate a panic left behind

cacheVars == <<live, gates, locked, at, key, gate, value, early, panicked>>

Places == {"idle", "gate", "lock", "second", "open", "publish", "release", "return"}

\* A value: its identity, the files it was decoded from, and whether all of
\* them could be opened.
Values == [id : ValueIds, key : Keys, whole : BOOLEAN]
NoValue == [id |-> Nil, key |-> Nil, whole |-> FALSE]

CacheTypeOK ==
  /\ live \in [Keys -> Values \cup {NoValue}]
  /\ gates \in [Keys -> GateIds \cup {Nil}]
  /\ locked \in [GateIds -> Callers \cup {Nil}]
  /\ at \in [Callers -> Places]
  /\ key \in [Callers -> Keys \cup {Nil}]
  /\ gate \in [Callers -> GateIds \cup {Nil}]
  /\ value \in [Callers -> Values \cup {NoValue}]
  /\ early \in SUBSET Keys
  /\ panicked \in SUBSET Keys

CacheInit ==
  /\ live = [k \in Keys |-> NoValue]
  /\ gates = [k \in Keys |-> Nil]
  /\ locked = [g \in GateIds |-> Nil]
  /\ at = [t \in Callers |-> "idle"]
  /\ key = [t \in Callers |-> Nil]
  /\ gate = [t \in Callers |-> Nil]
  /\ value = [t \in Callers |-> NoValue]
  /\ early = {}
  /\ panicked = {}

-----------------------------------------------------------------------------

Move(t, place) == at' = [at EXCEPT ![t] = place]

FreshIds == {v \in ValueIds : \A t \in Callers : value[t].id # v}
Waiting(t) == at[t] \in {"lock", "second"}

\* Weak::upgrade.
Hit(k) == live[k] # NoValue

\* The entries whose last Arc t has: they die with it.
Last(t) == {k \in Keys : Hit(k) /\ \A u \in Callers : value[u] = live[k] <=> u = t}

\* get_or_open begins: the first lookup.
Call(t) ==
  /\ at[t] = "idle" /\ value[t] = NoValue
  /\ \E k \in Keys :
       /\ key' = [key EXCEPT ![t] = k]
       /\ \/ /\ Hit(k)
             /\ value' = [value EXCEPT ![t] = live[k]]
             /\ Move(t, "return")
          \/ /\ ~Hit(k)
             /\ Move(t, "gate")
             /\ UNCHANGED value
       /\ early' = IF \A u \in Callers : key[u] # k THEN early \ {k} ELSE early
  /\ UNCHANGED <<live, gates, locked, gate, panicked>>

FreshGates == {g \in GateIds : /\ \A k \in Keys : gates[k] # g
                                /\ \A u \in Callers : gate[u] # g}

\* gates.entry(key).or_default(): the gate that is there, or a fresh one.
TakeGate(t) ==
  /\ at[t] = "gate"
  /\ \/ /\ gates[key[t]] # Nil
        /\ gate' = [gate EXCEPT ![t] = gates[key[t]]]
        /\ UNCHANGED gates
     \/ /\ gates[key[t]] = Nil
        /\ FreshGates # {}
        /\ LET g == CHOOSE g \in FreshGates : TRUE IN
             /\ gates' = [gates EXCEPT ![key[t]] = g]
             /\ gate' = [gate EXCEPT ![t] = g]
  /\ Move(t, "lock")
  /\ UNCHANGED <<live, locked, key, value, early, panicked>>

\* gate.lock(); a poisoned gate is taken all the same.
LockGate(t) ==
  /\ at[t] = "lock"
  /\ locked[gate[t]] = Nil
  /\ locked' = [locked EXCEPT ![gate[t]] = t]
  /\ Move(t, "second")
  /\ UNCHANGED <<live, gates, key, gate, value, early, panicked>>

MutSecondLookup(t) ==
  /\ at[t] = "second"
  /\ Move(t, "open")
  /\ UNCHANGED <<live, gates, locked, key, gate, value,
                 early, panicked>>
MutReturnsUnreleased(t) ==
  /\ at[t] = "second"
  /\ \/ /\ Hit(key[t])
        /\ value' = [value EXCEPT ![t] = live[key[t]]]
        /\ Move(t, "return")
     \/ /\ ~Hit(key[t])
        /\ Move(t, "open")
        /\ UNCHANGED value
  /\ UNCHANGED <<live, gates, locked, key, gate, early, panicked>>
\* The second lookup: a peer may have finished meanwhile.
SecondLookup(t) ==
  /\ at[t] = "second"
  /\ \/ /\ Hit(key[t])
        /\ value' = [value EXCEPT ![t] = live[key[t]]]
        /\ Move(t, "release")
     \/ /\ ~Hit(key[t])
        /\ Move(t, "open")
        /\ UNCHANGED value
  /\ UNCHANGED <<live, gates, locked, key, gate, early, panicked>>

MutToPublish(whole) == "publish"
\* Only a whole decode is shared.
ToPublish(whole) == IF whole THEN "publish" ELSE "release"

\* open() returns a value.
Decode(t) ==
  /\ at[t] = "open"
  /\ FreshIds # {}
  /\ LET v == CHOOSE v \in FreshIds : TRUE IN
       \E whole \in BOOLEAN :
         /\ value' = [value EXCEPT ![t] = [id |-> v, key |-> key[t], whole |-> whole]]
         /\ Move(t, ToPublish(whole))
  /\ UNCHANGED <<live, gates, locked, key, gate, early, panicked>>

\* open() returns an error.
DecodeFails(t) ==
  /\ at[t] = "open"
  /\ Move(t, "release")
  /\ UNCHANGED <<live, gates, locked, key, gate, value,
                 early, panicked>>

MutPanicKeepsLock(t) ==
  /\ at[t] = "open"
  /\ gate' = [gate EXCEPT ![t] = Nil]
  /\ panicked' = panicked \cup {key[t]}
  /\ key' = [key EXCEPT ![t] = Nil]
  /\ Move(t, "idle")
  /\ UNCHANGED <<live, gates, locked, value, early>>
\* open() panics: the guard unlocks the gate, which stays in the map.
DecodePanics(t) ==
  /\ at[t] = "open"
  /\ locked' = [locked EXCEPT ![gate[t]] = Nil]
  /\ gate' = [gate EXCEPT ![t] = Nil]
  /\ panicked' = panicked \cup {key[t]}
  /\ key' = [key EXCEPT ![t] = Nil]
  /\ Move(t, "idle")
  /\ UNCHANGED <<live, gates, value, early>>

\* Inner::release_gate: only the gate this caller holds.
WithoutGate(t) ==
  IF gates[key[t]] = gate[t] THEN [gates EXCEPT ![key[t]] = Nil] ELSE gates

\* publish(): the entry goes in and the gate goes out under one lock.
Publish(t) ==
  /\ at[t] = "publish"
  /\ live' = [live EXCEPT ![key[t]] = value[t]]
  /\ gates' = WithoutGate(t)
  /\ panicked' = {k \in panicked : gates'[k] # Nil}
  /\ Move(t, "return")
  /\ UNCHANGED <<locked, key, gate, value, early>>

\* release_gate() after a hit, a partial decode or an error.
ReleaseGate(t) ==
  /\ at[t] = "release"
  /\ gates' = WithoutGate(t)
  /\ panicked' = {k \in panicked : gates'[k] # Nil}
  /\ early' = IF /\ ~Hit(key[t])
                 /\ \E u \in Callers \ {t} : Waiting(u) /\ gate[u] = gate[t]
                THEN early \cup {key[t]} ELSE early
  /\ Move(t, "return")
  /\ UNCHANGED <<live, locked, key, gate, value>>

\* get_or_open returns and the guard unlocks.
Return(t) ==
  /\ at[t] = "return"
  /\ locked' = [g \in GateIds |-> IF g = gate[t] THEN Nil ELSE locked[g]]
  /\ gate' = [gate EXCEPT ![t] = Nil]
  /\ key' = [key EXCEPT ![t] = Nil]
  /\ Move(t, "idle")
  /\ UNCHANGED <<live, gates, value, early, panicked>>

\* A session ends, or an answer of peek() is let go.
DropValue(t) ==
  /\ at[t] = "idle" /\ value[t] # NoValue
  /\ value' = [value EXCEPT ![t] = NoValue]
  /\ live' = [k \in Keys |-> IF k \in Last(t) THEN NoValue ELSE live[k]]
  /\ early' = early \cup {k \in Last(t) : \E u \in Callers :
                            key[u] = k /\ Waiting(u) /\ gate[u] # gates[k]}
  /\ UNCHANGED <<gates, locked, at, key, gate, panicked>>

OpenStep(t) == Decode(t) \/ DecodeFails(t) \/ DecodePanics(t)
InCall(t) == TakeGate(t) \/ LockGate(t) \/ SecondLookup(t) \/ OpenStep(t)
             \/ Publish(t) \/ ReleaseGate(t) \/ Return(t)

CacheNext == \E t \in Callers : Call(t) \/ InCall(t) \/ DropValue(t)

CacheSpec == CacheInit /\ [][CacheNext]_cacheVars

DecodeEnds(k) == \E t \in Callers : key[t] = k /\ (Decode(t) \/ DecodeFails(t))

\* A thread that can go on does; nobody has to call, or to let a value go.
\* Decodes that are tried again and again do not all panic: the gate is no
\* fair mutex, and callers that panic for ever starve a waiting one.
CacheFairness == /\ \A t \in Callers : WF_cacheVars(InCall(t))
                 /\ \A k \in Keys : SF_cacheVars(DecodeEnds(k))

-----------------------------------------------------------------------------

(* open_cache.rs:31-38, "every file behind an entry is content-addressed"  *)
(* and Opened::shareable: what a lookup can return was decoded whole from  *)
(* the files of exactly that key, and somebody still holds it.             *)
ServesWhole ==
  \A k \in Keys :
    Hit(k) => /\ live[k].key = k /\ live[k].whole
              /\ \E t \in Callers : value[t] = live[k]

(* open_cache.rs:178-180, "two callers arriving together on a cold key     *)
(* decode it once rather than twice", as long as no decode failed under    *)
(* waiting callers and no value died under them.                           *)
DecodesOnce ==
  \A t, u \in Callers :
    /\ t # u
    /\ key[t] = key[u] /\ key[t] \notin early
    /\ at[t] = "open"
    => at[u] \notin {"open", "publish"}

(* Inner::release_gate, "a caller can delete a gate it never held": a gate *)
(* leaves the map only by the caller that is inside it.                    *)
GateRemovedByHolder ==
  [][\A k \in Keys :
       gates[k] # Nil /\ gates'[k] # gates[k] =>
         /\ gates'[k] = Nil
         /\ \E t \in Callers : /\ locked[gates[k]] = t
                               /\ at[t] \in {"publish", "release"} /\ at'[t] = "return"]_cacheVars

(* get_or_open(), "Every exit from here on releases the gate": between     *)
(* calls on a key the map keeps no gate for it, unless a decode panicked.  *)
NoGateLeft ==
  \A k \in Keys \ panicked : gates[k] # Nil => \E t \in Callers : key[t] = k

(* get_or_open() comes back to every caller, however many wait on one gate *)
(* and whatever becomes of the decodes.                                    *)
CallReturns == \A t \in Callers : at[t] # "idle" ~> at[t] = "idle"

=============================================================================
