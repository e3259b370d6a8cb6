--------------------------- MODULE StorageProofs ---------------------------
(***************************************************************************)
(* Theorems about the two parts of the overlay store that several          *)
(* processes and threads share, each for any number of them.               *)
(*                                                                         *)
(* OpenCache, for any callers, keys, gates and values.  A gate is the      *)
(* mutex of one decode because whoever is inside it holds it (Inside), it  *)
(* leaves the map only by its holder, and a caller that waits for one the  *)
(* map no longer has finds a value once it is in, unless the key is        *)
(* `early` (Gated).                                                        *)
(*                                                                         *)
(* OverlayStore, for any attachers, segments and number of faults.         *)
(* Nothing smaller is ever served because an overlay lists every segment   *)
(* or is not written (Complete); no attach is refused without a cause      *)
(* because, from its first look on, an attacher either holds a decode or   *)
(* has parsed, and then nothing but a fault or a late removal takes away   *)
(* what it put there (Provided).                                           *)
(***************************************************************************)
EXTENDS OpenCache, OverlayStore, TLAPS

-----------------------------------------------------------------------------
\* The open cache.

Entered == {"second", "open", "publish", "release"}
InGate == Entered \cup {"lock"}

(* Each place of a call fixes what the caller has.                         *)
Placed ==
  \A t \in Callers :
    /\ at[t] # "idle" <=> key[t] # Nil
    /\ at[t] \in InGate => gate[t] # Nil
    /\ at[t] \in {"idle", "gate"} => gate[t] = Nil
    /\ at[t] \in {"gate", "lock", "second", "open"} => value[t] = NoValue
    /\ at[t] = "publish" => value[t] # NoValue /\ value[t].key = key[t] /\ value[t].whole

(* The guard of a gate: from the lock to the return.                       *)
Inside ==
  \A t \in Callers :
    at[t] \in Entered \/ (at[t] = "return" /\ gate[t] # Nil) => locked[gate[t]] = t

(* A gate in the map is in use, for its key only.                          *)
InUse ==
  \A k \in Keys \ panicked :
    gates[k] # Nil => \E t \in Callers : key[t] = k /\ gate[t] = gates[k] /\ at[t] \in InGate

(* One decode at a time per key, but for what `early` is about.            *)
Gated ==
  \A t \in Callers :
    key[t] \notin early =>
      /\ at[t] \in {"open", "publish"} => gate[t] = gates[key[t]]
      /\ Waiting(t) /\ gate[t] # gates[key[t]] => Hit(key[t])

CacheInv == CacheTypeOK /\ Placed /\ Inside /\ InUse /\ Gated /\ ServesWhole

-----------------------------------------------------------------------------

LEMMA NilApart == Nil \notin Callers /\ Nil \notin Keys /\ Nil \notin GateIds /\ NoValue \notin Values
  BY OpenCacheAssumption DEF NoValue, Values

LEMMA CacheInitInv == CacheInit => CacheInv
<1> SUFFICES ASSUME CacheInit PROVE CacheInv
  OBVIOUS
<1>1. CacheTypeOK
  BY DEF CacheInit, CacheTypeOK, Places
<1>2. Placed /\ Inside /\ InUse /\ Gated /\ ServesWhole
  BY DEF CacheInit, Placed, Inside, InUse, Gated, ServesWhole, Entered, InGate, Waiting, Hit
<1> QED
  BY <1>1, <1>2 DEF CacheInv

LEMMA CacheTypeStep == CacheInv /\ [CacheNext]_cacheVars => CacheTypeOK'
<1> SUFFICES ASSUME CacheInv, [CacheNext]_cacheVars PROVE CacheTypeOK'
  OBVIOUS
<1> USE NilApart DEF CacheInv, CacheTypeOK, Places, Move
<1>1. ASSUME NEW t \in Callers, Call(t) PROVE CacheTypeOK'
  BY <1>1 DEF Call
<1>2. ASSUME NEW t \in Callers, TakeGate(t) PROVE CacheTypeOK'
  <2>1. key[t] \in Keys
    BY <1>2 DEF TakeGate, Placed
  <2>2. \E g \in GateIds : /\ gate' = [gate EXCEPT ![t] = g]
                           /\ gates' = gates \/ gates' = [gates EXCEPT ![key[t]] = g]
    <3>1. CASE gates[key[t]] # Nil
      BY <1>2, <2>1, <3>1 DEF TakeGate
    <3>2. CASE gates[key[t]] = Nil
      <4>1. FreshGates # {}
        BY <1>2, <3>2 DEF TakeGate
      <4>2. (CHOOSE g \in FreshGates : TRUE) \in GateIds
        BY <4>1 DEF FreshGates
      <4> QED
        BY <1>2, <3>2, <4>2 DEF TakeGate
    <3> QED
      BY <3>1, <3>2
  <2>3. gate' \in [Callers -> GateIds \cup {Nil}] /\ gates' \in [Keys -> GateIds \cup {Nil}]
    BY <2>2
  <2> QED
    BY <1>2, <2>3 DEF TakeGate
<1>3. ASSUME NEW t \in Callers, LockGate(t) PROVE CacheTypeOK'
  BY <1>3 DEF LockGate
<1>4. ASSUME NEW t \in Callers, SecondLookup(t) PROVE CacheTypeOK'
  BY <1>4 DEF SecondLookup, Placed
<1>5. ASSUME NEW t \in Callers, Decode(t) PROVE CacheTypeOK'
  <2>1. key[t] \in Keys
    BY <1>5 DEF Decode, Placed
  <2>2. PICK v \in ValueIds, whole \in BOOLEAN :
          /\ value' = [value EXCEPT ![t] = [id |-> v, key |-> key[t], whole |-> whole]]
          /\ Move(t, ToPublish(whole))
    BY <1>5 DEF Decode, FreshIds
  <2>3. [id |-> v, key |-> key[t], whole |-> whole] \in Values
    BY <2>1 DEF Values
  <2> QED
    BY <1>5, <2>2, <2>3 DEF Decode, ToPublish
<1>6. ASSUME NEW t \in Callers, DecodeFails(t) PROVE CacheTypeOK'
  BY <1>6 DEF DecodeFails
<1>7. ASSUME NEW t \in Callers, DecodePanics(t) PROVE CacheTypeOK'
  BY <1>7 DEF DecodePanics, Placed
<1>8. ASSUME NEW t \in Callers, Publish(t) PROVE CacheTypeOK'
  BY <1>8 DEF Publish, WithoutGate
<1>9. ASSUME NEW t \in Callers, ReleaseGate(t) PROVE CacheTypeOK'
  BY <1>9 DEF ReleaseGate, WithoutGate, Placed
<1>10. ASSUME NEW t \in Callers, Return(t) PROVE CacheTypeOK'
  BY <1>10 DEF Return
<1>11. ASSUME NEW t \in Callers, DropValue(t) PROVE CacheTypeOK'
  BY <1>11 DEF DropValue, Last
<1>12. CASE UNCHANGED cacheVars
  BY <1>12 DEF cacheVars
<1> QED
  BY <1>1, <1>2, <1>3, <1>4, <1>5, <1>6, <1>7, <1>8, <1>9, <1>10, <1>11, <1>12
  DEF CacheNext, InCall, OpenStep

LEMMA PlacedStep == CacheInv /\ [CacheNext]_cacheVars => Placed'
<1> SUFFICES ASSUME CacheInv, [CacheNext]_cacheVars PROVE Placed'
  OBVIOUS
<1> USE NilApart DEF CacheInv, CacheTypeOK, Placed, InGate, Entered, Move
<1>1. ASSUME NEW t \in Callers, Call(t) PROVE Placed'
  BY <1>1 DEF Call
<1>2. ASSUME NEW t \in Callers, TakeGate(t) PROVE Placed'
  <2>1. FreshGates # {} => (CHOOSE g \in FreshGates : TRUE) # Nil
    BY DEF FreshGates
  <2> QED
    BY <1>2, <2>1 DEF TakeGate
<1>3. ASSUME NEW t \in Callers, LockGate(t) PROVE Placed'
  BY <1>3 DEF LockGate
<1>4. ASSUME NEW t \in Callers, SecondLookup(t) PROVE Placed'
  BY <1>4 DEF SecondLookup
<1>5. ASSUME NEW t \in Callers, Decode(t) PROVE Placed'
  <2>1. key[t] \in Keys
    BY <1>5 DEF Decode
  <2>2. PICK v \in ValueIds, whole \in BOOLEAN :
          /\ value' = [value EXCEPT ![t] = [id |-> v, key |-> key[t], whole |-> whole]]
          /\ at' = [at EXCEPT ![t] = ToPublish(whole)]
    BY <1>5 DEF Decode, FreshIds
  <2>3. [id |-> v, key |-> key[t], whole |-> whole] # NoValue
    BY <2>1 DEF NoValue
  <2>4. UNCHANGED <<key, gate>>
    BY <1>5 DEF Decode
  <2>5. at[t] = "open"
    BY <1>5 DEF Decode
  <2> QED
    BY <2>1, <2>2, <2>3, <2>4, <2>5 DEF ToPublish
<1>6. ASSUME NEW t \in Callers, DecodeFails(t) PROVE Placed'
  BY <1>6 DEF DecodeFails
<1>7. ASSUME NEW t \in Callers, DecodePanics(t) PROVE Placed'
  BY <1>7 DEF DecodePanics
<1>8. ASSUME NEW t \in Callers, Publish(t) PROVE Placed'
  BY <1>8 DEF Publish
<1>9. ASSUME NEW t \in Callers, ReleaseGate(t) PROVE Placed'
  BY <1>9 DEF ReleaseGate
<1>10. ASSUME NEW t \in Callers, Return(t) PROVE Placed'
  BY <1>10 DEF Return
<1>11. ASSUME NEW t \in Callers, DropValue(t) PROVE Placed'
  BY <1>11 DEF DropValue
<1>12. CASE UNCHANGED cacheVars
  BY <1>12 DEF cacheVars
<1> QED
  BY <1>1, <1>2, <1>3, <1>4, <1>5, <1>6, <1>7, <1>8, <1>9, <1>10, <1>11, <1>12
  DEF CacheNext, InCall, OpenStep

LEMMA InsideStep == CacheInv /\ [CacheNext]_cacheVars => Inside'
<1> SUFFICES ASSUME CacheInv, [CacheNext]_cacheVars PROVE Inside'
  OBVIOUS
<1> USE NilApart DEF CacheInv, CacheTypeOK, Placed, Inside, InGate, Entered, Move
<1>1. ASSUME NEW t \in Callers, Call(t) PROVE Inside'
  BY <1>1 DEF Call
<1>2. ASSUME NEW t \in Callers, TakeGate(t) PROVE Inside'
  <2>1. /\ at' = [at EXCEPT ![t] = "lock"]
        /\ \A u \in Callers \ {t} : gate'[u] = gate[u]
        /\ locked' = locked
    BY <1>2 DEF TakeGate
  <2> QED
    BY <2>1
<1>3. ASSUME NEW t \in Callers, LockGate(t) PROVE Inside'
  BY <1>3 DEF LockGate
<1>4. ASSUME NEW t \in Callers, SecondLookup(t) PROVE Inside'
  BY <1>4 DEF SecondLookup
<1>5. ASSUME NEW t \in Callers, Decode(t) PROVE Inside'
  <2>1. \E place \in {"publish", "release"} : at' = [at EXCEPT ![t] = place]
    BY <1>5 DEF Decode, ToPublish
  <2> QED
    BY <1>5, <2>1 DEF Decode
<1>6. ASSUME NEW t \in Callers, DecodeFails(t) PROVE Inside'
  BY <1>6 DEF DecodeFails
<1>7. ASSUME NEW t \in Callers, DecodePanics(t) PROVE Inside'
  BY <1>7 DEF DecodePanics
<1>8. ASSUME NEW t \in Callers, Publish(t) PROVE Inside'
  BY <1>8 DEF Publish
<1>9. ASSUME NEW t \in Callers, ReleaseGate(t) PROVE Inside'
  BY <1>9 DEF ReleaseGate
<1>10. ASSUME NEW t \in Callers, Return(t) PROVE Inside'
  BY <1>10 DEF Return
<1>11. ASSUME NEW t \in Callers, DropValue(t) PROVE Inside'
  BY <1>11 DEF DropValue
<1>12. CASE UNCHANGED cacheVars
  BY <1>12 DEF cacheVars
<1> QED
  BY <1>1, <1>2, <1>3, <1>4, <1>5, <1>6, <1>7, <1>8, <1>9, <1>10, <1>11, <1>12
  DEF CacheNext, InCall, OpenStep

(* What TakeGate does to the gates: t has the one of its key, which may be *)
(* new, and no caller has a new one.                                       *)
LEMMA GateTaken ==
  ASSUME CacheInv, NEW t \in Callers, TakeGate(t)
  PROVE  /\ key[t] \in Keys
         /\ gates'[key[t]] \in GateIds
         /\ gate' = [gate EXCEPT ![t] = gates'[key[t]]]
         /\ \A k \in Keys \ {key[t]} : gates'[k] = gates[k]
         /\ gates'[key[t]] # gates[key[t]] =>
              /\ gates[key[t]] = Nil
              /\ \A k \in Keys : gates[k] # gates'[key[t]]
              /\ \A u \in Callers : gate[u] # gates'[key[t]]
<1> USE NilApart DEF CacheInv, CacheTypeOK
<1>1. key[t] \in Keys
  BY DEF TakeGate, Placed
<1>2. CASE gates[key[t]] # Nil
  BY <1>1, <1>2 DEF TakeGate
<1>3. CASE gates[key[t]] = Nil
  <2> DEFINE g == CHOOSE g \in FreshGates : TRUE
  <2>1. g \in FreshGates
    BY <1>3 DEF TakeGate
  <2>2. gates' = [gates EXCEPT ![key[t]] = g] /\ gate' = [gate EXCEPT ![t] = g]
    BY <1>3 DEF TakeGate
  <2> HIDE DEF g
  <2> QED
    BY <1>1, <1>3, <2>1, <2>2 DEF FreshGates
<1> QED
  BY <1>2, <1>3

LEMMA InUseStep == CacheInv /\ [CacheNext]_cacheVars => InUse'
<1> SUFFICES ASSUME CacheInv, [CacheNext]_cacheVars PROVE InUse'
  OBVIOUS
<1> USE NilApart DEF CacheInv, CacheTypeOK, Placed, InGate, Entered, Move, InUse
<1>1. ASSUME NEW t \in Callers, Call(t) PROVE InUse'
  BY <1>1 DEF Call
<1>2. ASSUME NEW t \in Callers, TakeGate(t) PROVE InUse'
  <2>1. at' = [at EXCEPT ![t] = "lock"] /\ key' = key /\ panicked' = panicked /\ at[t] = "gate"
    BY <1>2 DEF TakeGate
  <2> QED
    BY <1>2, <2>1, GateTaken
<1>3. ASSUME NEW t \in Callers, LockGate(t) PROVE InUse'
  BY <1>3 DEF LockGate
<1>4. ASSUME NEW t \in Callers, SecondLookup(t) PROVE InUse'
  BY <1>4 DEF SecondLookup
<1>5. ASSUME NEW t \in Callers, Decode(t) PROVE InUse'
  <2>1. \E place \in {"publish", "release"} : at' = [at EXCEPT ![t] = place]
    BY <1>5 DEF Decode, ToPublish
  <2> QED
    BY <1>5, <2>1 DEF Decode
<1>6. ASSUME NEW t \in Callers, DecodeFails(t) PROVE InUse'
  BY <1>6 DEF DecodeFails
<1>7. ASSUME NEW t \in Callers, DecodePanics(t) PROVE InUse'
  BY <1>7 DEF DecodePanics
<1>8. ASSUME NEW t \in Callers, Publish(t) PROVE InUse'
  BY <1>8 DEF Publish, WithoutGate
<1>9. ASSUME NEW t \in Callers, ReleaseGate(t) PROVE InUse'
  BY <1>9 DEF ReleaseGate, WithoutGate
<1>10. ASSUME NEW t \in Callers, Return(t) PROVE InUse'
  BY <1>10 DEF Return
<1>11. ASSUME NEW t \in Callers, DropValue(t) PROVE InUse'
  BY <1>11 DEF DropValue
<1>12. CASE UNCHANGED cacheVars
  BY <1>12 DEF cacheVars
<1> QED
  BY <1>1, <1>2, <1>3, <1>4, <1>5, <1>6, <1>7, <1>8, <1>9, <1>10, <1>11, <1>12
  DEF CacheNext, InCall, OpenStep

LEMMA GatedStep == CacheInv /\ [CacheNext]_cacheVars => Gated'
<1> SUFFICES ASSUME CacheInv, [CacheNext]_cacheVars PROVE Gated'
  OBVIOUS
<1> USE NilApart DEF CacheInv, CacheTypeOK, Placed, InGate, Entered, Move, Gated, Waiting, Hit
<1>1. ASSUME NEW t \in Callers, Call(t) PROVE Gated'
  BY <1>1 DEF Call
<1>2. ASSUME NEW t \in Callers, TakeGate(t) PROVE Gated'
  <2>1. /\ at' = [at EXCEPT ![t] = "lock"] /\ at[t] = "gate"
        /\ key' = key /\ early' = early /\ live' = live
    BY <1>2 DEF TakeGate
  <2> QED
    BY <1>2, <2>1, GateTaken
<1>3. ASSUME NEW t \in Callers, LockGate(t) PROVE Gated'
  BY <1>3 DEF LockGate
<1>4. ASSUME NEW t \in Callers, SecondLookup(t) PROVE Gated'
  BY <1>4 DEF SecondLookup
<1>5. ASSUME NEW t \in Callers, Decode(t) PROVE Gated'
  <2>1. \E place \in {"publish", "release"} : at' = [at EXCEPT ![t] = place]
    BY <1>5 DEF Decode, ToPublish
  <2> QED
    BY <1>5, <2>1 DEF Decode
<1>6. ASSUME NEW t \in Callers, DecodeFails(t) PROVE Gated'
  BY <1>6 DEF DecodeFails
<1>7. ASSUME NEW t \in Callers, DecodePanics(t) PROVE Gated'
  BY <1>7 DEF DecodePanics
<1>8. ASSUME NEW t \in Callers, Publish(t) PROVE Gated'
  BY <1>8 DEF Publish, WithoutGate, Inside
<1>9. ASSUME NEW t \in Callers, ReleaseGate(t) PROVE Gated'
  BY <1>9 DEF ReleaseGate, WithoutGate, Inside
<1>10. ASSUME NEW t \in Callers, Return(t) PROVE Gated'
  BY <1>10 DEF Return
<1>11. ASSUME NEW t \in Callers, DropValue(t) PROVE Gated'
  BY <1>11 DEF DropValue, Last
<1>12. CASE UNCHANGED cacheVars
  BY <1>12 DEF cacheVars
<1> QED
  BY <1>1, <1>2, <1>3, <1>4, <1>5, <1>6, <1>7, <1>8, <1>9, <1>10, <1>11, <1>12
  DEF CacheNext, InCall, OpenStep

LEMMA ServesStep == CacheInv /\ [CacheNext]_cacheVars => ServesWhole'
<1> SUFFICES ASSUME CacheInv, [CacheNext]_cacheVars PROVE ServesWhole'
  OBVIOUS
<1> USE NilApart DEF CacheInv, CacheTypeOK, Placed, InGate, Entered, Move, ServesWhole, Hit
<1>1. ASSUME NEW t \in Callers, Call(t) PROVE ServesWhole'
  BY <1>1 DEF Call
<1>2. ASSUME NEW t \in Callers, TakeGate(t) PROVE ServesWhole'
  BY <1>2 DEF TakeGate
<1>3. ASSUME NEW t \in Callers, LockGate(t) PROVE ServesWhole'
  BY <1>3 DEF LockGate
<1>4. ASSUME NEW t \in Callers, SecondLookup(t) PROVE ServesWhole'
  BY <1>4 DEF SecondLookup
<1>5. ASSUME NEW t \in Callers, Decode(t) PROVE ServesWhole'
  <2>1. /\ value[t] = NoValue /\ live' = live
        /\ \A u \in Callers \ {t} : value'[u] = value[u]
    BY <1>5 DEF Decode
  <2> QED
    BY <2>1
<1>6. ASSUME NEW t \in Callers, DecodeFails(t) PROVE ServesWhole'
  BY <1>6 DEF DecodeFails
<1>7. ASSUME NEW t \in Callers, DecodePanics(t) PROVE ServesWhole'
  BY <1>7 DEF DecodePanics
<1>8. ASSUME NEW t \in Callers, Publish(t) PROVE ServesWhole'
  BY <1>8 DEF Publish
<1>9. ASSUME NEW t \in Callers, ReleaseGate(t) PROVE ServesWhole'
  BY <1>9 DEF ReleaseGate
<1>10. ASSUME NEW t \in Callers, Return(t) PROVE ServesWhole'
  BY <1>10 DEF Return
<1>11. ASSUME NEW t \in Callers, DropValue(t) PROVE ServesWhole'
  <2> SUFFICES ASSUME NEW k \in Keys, live'[k] # NoValue
               PROVE  /\ live'[k].key = k /\ live'[k].whole
                      /\ \E u \in Callers : value'[u] = live'[k]
    OBVIOUS
  <2>1. k \notin Last(t) /\ live'[k] = live[k]
    BY <1>11 DEF DropValue
  <2>2. \E u \in Callers \ {t} : value[u] = live[k]
    BY <2>1 DEF Last
  <2> QED
    BY <1>11, <2>1, <2>2 DEF DropValue
<1>12. CASE UNCHANGED cacheVars
  BY <1>12 DEF cacheVars
<1> QED
  BY <1>1, <1>2, <1>3, <1>4, <1>5, <1>6, <1>7, <1>8, <1>9, <1>10, <1>11, <1>12
  DEF CacheNext, InCall, OpenStep

LEMMA CacheInvariant == CacheSpec => []CacheInv
<1>1. CacheInv /\ [CacheNext]_cacheVars => CacheInv'
  BY CacheTypeStep, PlacedStep, InsideStep, InUseStep, GatedStep, ServesStep DEF CacheInv
<1> QED
  BY CacheInitInv, <1>1, PTL DEF CacheSpec

-----------------------------------------------------------------------------

(* Every variable of the cache keeps its type.                             *)
THEOREM CacheTypeCorrect == CacheSpec => []CacheTypeOK
<1>1. CacheInv => CacheTypeOK
  BY DEF CacheInv
<1> QED
  BY CacheInvariant, <1>1, PTL

(* A lookup only ever returns a whole decode of its own key that somebody  *)
(* still holds.                                                            *)
THEOREM LookupsServeWhole == CacheSpec => []ServesWhole
<1>1. CacheInv => ServesWhole
  BY DEF CacheInv
<1> QED
  BY CacheInvariant, <1>1, PTL

(* get_or_open() decodes a cold key once, whoever arrives meanwhile.       *)
THEOREM OneDecode == CacheSpec => []DecodesOnce
<1>1. CacheInv => DecodesOnce
  <2> SUFFICES ASSUME CacheInv, NEW t \in Callers, NEW u \in Callers, t # u,
                      key[t] = key[u], key[t] \notin early,
                      at[t] = "open", at[u] \in {"open", "publish"}
               PROVE  FALSE
    BY DEF DecodesOnce
  <2>1. gate[t] = gate[u]
    BY DEF CacheInv, Gated
  <2> QED
    BY <2>1 DEF CacheInv, Inside, Entered
<1> QED
  BY CacheInvariant, <1>1, PTL

(* get_or_open() leaves no gate behind, unless a decode panicked.          *)
THEOREM GatesReleased == CacheSpec => []NoGateLeft
<1>1. CacheInv => NoGateLeft
  BY DEF CacheInv, InUse, NoGateLeft
<1> QED
  BY CacheInvariant, <1>1, PTL

(* release_gate() never removes a gate from under the caller inside it.    *)
THEOREM OwnGateRemoved == CacheSpec => GateRemovedByHolder
<1> DEFINE ByHolder(k) ==
      /\ gates'[k] = Nil
      /\ \E t \in Callers : /\ locked[gates[k]] = t
                            /\ at[t] \in {"publish", "release"} /\ at'[t] = "return"
<1>1. CacheInv /\ [CacheNext]_cacheVars
        => \A k \in Keys : gates[k] # Nil /\ gates'[k] # gates[k] => ByHolder(k)
  <2> SUFFICES ASSUME CacheInv, CacheNext \/ UNCHANGED cacheVars, NEW k \in Keys,
                      gates[k] # Nil, gates'[k] # gates[k]
               PROVE  ByHolder(k)
    OBVIOUS
  <2> USE NilApart DEF CacheInv, CacheTypeOK
  <2>1. ASSUME NEW t \in Callers, Publish(t) \/ ReleaseGate(t) PROVE ByHolder(k)
    <3>1. /\ at[t] \in {"publish", "release"} /\ at' = [at EXCEPT ![t] = "return"]
          /\ gates' = WithoutGate(t)
      BY <2>1 DEF Publish, ReleaseGate, Move
    <3>2. gates[k] = gate[t] /\ gates'[k] = Nil
      BY <3>1 DEF WithoutGate
    <3>3. locked[gate[t]] = t
      BY <3>1 DEF Inside, Entered
    <3> QED
      BY <3>1, <3>2, <3>3
  <2>2. ASSUME NEW t \in Callers, TakeGate(t) PROVE FALSE
    BY <2>2, GateTaken
  <2>3. ASSUME NEW t \in Callers,
               \/ Call(t) \/ LockGate(t) \/ SecondLookup(t) \/ OpenStep(t) \/ Return(t)
               \/ DropValue(t)
        PROVE  FALSE
    BY <2>3 DEF Call, LockGate, SecondLookup, OpenStep, Decode, DecodeFails, DecodePanics,
                Return, DropValue
  <2>4. CASE UNCHANGED cacheVars
    BY <2>4 DEF cacheVars
  <2> QED
    BY <2>1, <2>2, <2>3, <2>4 DEF CacheNext, InCall
<1> QED
  BY CacheInvariant, <1>1, PTL DEF CacheSpec, GateRemovedByHolder

-----------------------------------------------------------------------------
\* The overlay store.

(* The steps under OverlayLock.                                            *)
Locked == \A a \in Attachers : phase[a] \in {"again", "build", "unlock"} => lock = a

(* Whoever builds found no overlay, or removed it.                         *)
NothingToLose == \A a \in Attachers : phase[a] = "build" => overlay # "good"

(* Overlays and decodes are of the whole commit.                           *)
Complete ==
  /\ overlay = "good" => listed = Segs
  /\ \A a \in Attachers : rows[a] \in {{}, Segs}
  /\ \A a \in Attachers : phase[a] = "served" => rows[a] = Segs

Past == {"look", "drop", "wait", "again", "build", "unlock", "open"}

(* An attacher past its probe can open the commit, or has parsed it; and   *)
(* once it has built, the overlay is there.                                *)
Provided ==
  /\ ~faulty => \A s \in Segs : segment[s] # "damaged"
  /\ \A a \in Attachers :
       phase[a] \in Past /\ rows[a] = {} /\ ~faulty =>
         /\ parsed[a]
         /\ \A s \in Segs : segment[s] = "good"
         /\ phase[a] \in {"unlock", "open"} /\ ~late => overlay = "good"

StoreInv == StoreTypeOK /\ Locked /\ NothingToLose /\ Complete /\ Provided

-----------------------------------------------------------------------------

LEMMA StoreInitInv == StoreInit => StoreInv
<1> SUFFICES ASSUME StoreInit PROVE StoreInv
  OBVIOUS
<1> USE OverlayStoreAssumption DEF StoreInit
<1>1. StoreTypeOK
  <2>1. 0 \in 0..MaxFaults
    OBVIOUS
  <2> QED
    BY <2>1 DEF StoreTypeOK, Steps
<1>2. Locked /\ NothingToLose
  BY DEF Locked, NothingToLose
<1>3. Complete
  BY DEF Complete
<1>4. Provided
  BY DEF Provided, Past
<1> QED
  BY <1>1, <1>2, <1>3, <1>4 DEF StoreInv

LEMMA StoreTypeStep == StoreInv /\ [StoreNext]_storeVars => StoreTypeOK'
<1> SUFFICES ASSUME StoreInv, [StoreNext]_storeVars PROVE StoreTypeOK'
  OBVIOUS
<1> USE OverlayStoreAssumption DEF StoreInv, StoreTypeOK, Steps, Complete, files, StepTo
<1>r. \A a \in Attachers : Opens(a) => OpenedRows(a) \in SUBSET Segs
  BY DEF Opens, OpenedRows, Cached, Process, Readable
<1>1. ASSUME NEW a \in Attachers, Begin(a) PROVE StoreTypeOK'
  BY <1>1 DEF Begin
<1>2. ASSUME NEW a \in Attachers, Probe(a) PROVE StoreTypeOK'
  BY <1>2, <1>r DEF Probe
<1>3. ASSUME NEW a \in Attachers, Parse(a) PROVE StoreTypeOK'
  BY <1>3 DEF Parse
<1>4. ASSUME NEW a \in Attachers, Look(a) PROVE StoreTypeOK'
  BY <1>4, <1>r DEF Look, Serve, Refuse
<1>5. ASSUME NEW a \in Attachers, Drop(a) PROVE StoreTypeOK'
  BY <1>5 DEF Drop
<1>6. ASSUME NEW a \in Attachers, Lock(a) PROVE StoreTypeOK'
  BY <1>6 DEF Lock
<1>7. ASSUME NEW a \in Attachers, LookAgain(a) PROVE StoreTypeOK'
  BY <1>7, <1>r DEF LookAgain, Serve, Refuse
<1>8. ASSUME NEW a \in Attachers, Build(a) PROVE StoreTypeOK'
  BY <1>8 DEF Build, Readable
<1>9. ASSUME NEW a \in Attachers, Unlock(a) PROVE StoreTypeOK'
  BY <1>9 DEF Unlock
<1>10. ASSUME NEW a \in Attachers, FinalOpen(a) PROVE StoreTypeOK'
  BY <1>10, <1>r DEF FinalOpen, Serve, Refuse
<1>11. ASSUME NEW a \in Attachers, Leave(a) PROVE StoreTypeOK'
  BY <1>11 DEF Leave
<1>12. ASSUME NEW group \in Processes, Die(group) PROVE StoreTypeOK'
  BY <1>12 DEF Die
<1>13. CASE Fault
  <2>1. faults' \in 0..MaxFaults /\ faulty' \in BOOLEAN
    BY <1>13 DEF Fault
  <2>2. overlay' \in {"none", "bad", "good"} /\ listed' \in SUBSET Segs
    BY <1>13 DEF Fault
  <2>3. segment' \in [Segs -> {"none", "damaged", "good"}]
    BY <1>13 DEF Fault
  <2> QED
    BY <1>13, <2>1, <2>2, <2>3 DEF Fault
<1>14. CASE UNCHANGED storeVars
  BY <1>14 DEF storeVars
<1> QED
  BY <1>1, <1>2, <1>3, <1>4, <1>5, <1>6, <1>7, <1>8, <1>9, <1>10, <1>11, <1>12, <1>13, <1>14
  DEF StoreNext, AttachStep

(* A decode that is handed out is of the whole commit.                     *)
LEMMA OpensWhole ==
  ASSUME StoreInv, NEW a \in Attachers, Opens(a)
  PROVE  OpenedRows(a) = Segs
<1>1. CASE Cached(a) # {}
  <2> DEFINE b == CHOOSE b \in Cached(a) : TRUE
  <2>1. b \in Cached(a)
    BY <1>1
  <2>2. rows[b] # {} /\ b \in Attachers
    BY <2>1 DEF Cached, Process, StoreInv, StoreTypeOK
  <2> QED
    BY <1>1, <2>2 DEF OpenedRows, StoreInv, Complete
<1>2. CASE Cached(a) = {}
  BY <1>2 DEF Opens, OpenedRows, Readable, StoreInv, Complete
<1> QED
  BY <1>1, <1>2

(* What keeps an attacher from the overlay.                                *)
LEMMA OpensWhenProvided ==
  ASSUME StoreInv, NEW a \in Attachers, overlay = "good",
         rows[a] # {} \/ \A s \in Segs : segment[s] = "good"
  PROVE  Opens(a)
<1>1. CASE rows[a] # {}
  BY <1>1 DEF Opens, Cached, Process
<1>2. CASE \A s \in Segs : segment[s] = "good"
  BY <1>2, OverlayStoreAssumption DEF Opens, Readable, StoreInv, Complete
<1> QED
  BY <1>1, <1>2

LEMMA LockedStep == StoreInv /\ [StoreNext]_storeVars => Locked' /\ NothingToLose'
<1> SUFFICES ASSUME StoreInv, [StoreNext]_storeVars PROVE Locked' /\ NothingToLose'
  OBVIOUS
<1> USE OverlayStoreAssumption DEF StoreInv, StoreTypeOK, Locked, NothingToLose, files, StepTo
<1>1. ASSUME NEW a \in Attachers, Begin(a) PROVE Locked' /\ NothingToLose'
  BY <1>1 DEF Begin
<1>2. ASSUME NEW a \in Attachers, Probe(a) PROVE Locked' /\ NothingToLose'
  BY <1>2 DEF Probe
<1>3. ASSUME NEW a \in Attachers, Parse(a) PROVE Locked' /\ NothingToLose'
  BY <1>3 DEF Parse
<1>4. ASSUME NEW a \in Attachers, Look(a) PROVE Locked' /\ NothingToLose'
  BY <1>4 DEF Look, Serve, Refuse
<1>5. ASSUME NEW a \in Attachers, Drop(a) PROVE Locked' /\ NothingToLose'
  BY <1>5 DEF Drop
<1>6. ASSUME NEW a \in Attachers, Lock(a) PROVE Locked' /\ NothingToLose'
  BY <1>6 DEF Lock, BuildLockFree
<1>7. ASSUME NEW a \in Attachers, LookAgain(a) PROVE Locked' /\ NothingToLose'
  BY <1>7 DEF LookAgain, Serve, Refuse
<1>8. ASSUME NEW a \in Attachers, Build(a) PROVE Locked' /\ NothingToLose'
  BY <1>8 DEF Build
<1>9. ASSUME NEW a \in Attachers, Unlock(a) PROVE Locked' /\ NothingToLose'
  BY <1>9 DEF Unlock
<1>10. ASSUME NEW a \in Attachers, FinalOpen(a) PROVE Locked' /\ NothingToLose'
  BY <1>10 DEF FinalOpen, Serve, Refuse
<1>11. ASSUME NEW a \in Attachers, Leave(a) PROVE Locked' /\ NothingToLose'
  BY <1>11 DEF Leave
<1>12. ASSUME NEW group \in Processes, Die(group) PROVE Locked' /\ NothingToLose'
  BY <1>12 DEF Die
<1>13. CASE Fault
  BY <1>13 DEF Fault
<1>14. CASE UNCHANGED storeVars
  BY <1>14 DEF storeVars
<1> QED
  BY <1>1, <1>2, <1>3, <1>4, <1>5, <1>6, <1>7, <1>8, <1>9, <1>10, <1>11, <1>12, <1>13, <1>14
  DEF StoreNext, AttachStep

LEMMA CompleteStep == StoreInv /\ [StoreNext]_storeVars => Complete'
<1> SUFFICES ASSUME StoreInv, [StoreNext]_storeVars PROVE Complete'
  OBVIOUS
<1>r. \A a \in Attachers : Opens(a) => OpenedRows(a) = Segs
  BY OpensWhole
<1> USE OverlayStoreAssumption DEF StoreInv, StoreTypeOK, Complete, files, StepTo
<1>1. ASSUME NEW a \in Attachers, Begin(a) PROVE Complete'
  BY <1>1 DEF Begin
<1>2. ASSUME NEW a \in Attachers, Probe(a) PROVE Complete'
  BY <1>2, <1>r DEF Probe
<1>3. ASSUME NEW a \in Attachers, Parse(a) PROVE Complete'
  BY <1>3 DEF Parse
<1>4. ASSUME NEW a \in Attachers, Look(a) PROVE Complete'
  BY <1>4, <1>r DEF Look, Serve, Refuse
<1>5. ASSUME NEW a \in Attachers, Drop(a) PROVE Complete'
  BY <1>5 DEF Drop
<1>6. ASSUME NEW a \in Attachers, Lock(a) PROVE Complete'
  BY <1>6 DEF Lock
<1>7. ASSUME NEW a \in Attachers, LookAgain(a) PROVE Complete'
  BY <1>7, <1>r DEF LookAgain, Serve, Refuse
<1>8. ASSUME NEW a \in Attachers, Build(a) PROVE Complete'
  BY <1>8 DEF Build, Readable
<1>9. ASSUME NEW a \in Attachers, Unlock(a) PROVE Complete'
  BY <1>9 DEF Unlock
<1>10. ASSUME NEW a \in Attachers, FinalOpen(a) PROVE Complete'
  BY <1>10, <1>r DEF FinalOpen, Serve, Refuse
<1>11. ASSUME NEW a \in Attachers, Leave(a) PROVE Complete'
  BY <1>11 DEF Leave
<1>12. ASSUME NEW group \in Processes, Die(group) PROVE Complete'
  BY <1>12 DEF Die
<1>13. CASE Fault
  BY <1>13 DEF Fault
<1>14. CASE UNCHANGED storeVars
  BY <1>14 DEF storeVars
<1> QED
  BY <1>1, <1>2, <1>3, <1>4, <1>5, <1>6, <1>7, <1>8, <1>9, <1>10, <1>11, <1>12, <1>13, <1>14
  DEF StoreNext, AttachStep

LEMMA ProvidedStep == StoreInv /\ [StoreNext]_storeVars => Provided'
<1> SUFFICES ASSUME StoreInv, [StoreNext]_storeVars PROVE Provided'
  OBVIOUS
<1>r. \A a \in Attachers : Opens(a) => OpenedRows(a) = Segs /\ Segs # {}
  BY OpensWhole, OverlayStoreAssumption
<1> USE OverlayStoreAssumption DEF StoreInv, StoreTypeOK, Provided, Past, files, StepTo
<1>1. ASSUME NEW a \in Attachers, Begin(a) PROVE Provided'
  BY <1>1 DEF Begin
<1>2. ASSUME NEW a \in Attachers, Probe(a) PROVE Provided'
  BY <1>2, <1>r DEF Probe
<1>3. ASSUME NEW a \in Attachers, Parse(a) PROVE Provided'
  BY <1>3 DEF Parse
<1>4. ASSUME NEW a \in Attachers, Look(a) PROVE Provided'
  BY <1>4, <1>r DEF Look, Serve, Refuse
<1>5. ASSUME NEW a \in Attachers, Drop(a) PROVE Provided'
  BY <1>5 DEF Drop
<1>6. ASSUME NEW a \in Attachers, Lock(a) PROVE Provided'
  BY <1>6 DEF Lock
<1>7. ASSUME NEW a \in Attachers, LookAgain(a) PROVE Provided'
  <2>1. Unreadable(a) => overlay # "good"
    BY DEF Unreadable
  <2> QED
    BY <1>7, <1>r, <2>1 DEF LookAgain, Serve, Refuse
<1>8. ASSUME NEW a \in Attachers, Build(a) PROVE Provided'
  BY <1>8 DEF Build, Readable
<1>9. ASSUME NEW a \in Attachers, Unlock(a) PROVE Provided'
  BY <1>9 DEF Unlock
<1>10. ASSUME NEW a \in Attachers, FinalOpen(a) PROVE Provided'
  BY <1>10, <1>r DEF FinalOpen, Serve, Refuse
<1>11. ASSUME NEW a \in Attachers, Leave(a) PROVE Provided'
  BY <1>11 DEF Leave
<1>12. ASSUME NEW group \in Processes, Die(group) PROVE Provided'
  BY <1>12 DEF Die
<1>13. CASE Fault
  <2>1. ~faulty' => /\ ~faulty
                    /\ \A a \in Attachers : phase[a] \notin Past
                    /\ \A s \in Segs : segment'[s] # "damaged"
    BY <1>13 DEF Fault, Attaching
  <2>2. phase' = phase
    BY <1>13 DEF Fault
  <2> QED
    BY <2>1, <2>2
<1>14. CASE UNCHANGED storeVars
  BY <1>14 DEF storeVars
<1> QED
  BY <1>1, <1>2, <1>3, <1>4, <1>5, <1>6, <1>7, <1>8, <1>9, <1>10, <1>11, <1>12, <1>13, <1>14
  DEF StoreNext, AttachStep

LEMMA StoreInvariant == StoreSpec => []StoreInv
<1>1. StoreInv /\ [StoreNext]_storeVars => StoreInv'
  BY StoreTypeStep, LockedStep, CompleteStep, ProvidedStep DEF StoreInv
<1> QED
  BY StoreInitInv, <1>1, PTL DEF StoreSpec

-----------------------------------------------------------------------------

(* Every variable keeps its type, whoever attaches, dies or loses a file.  *)
THEOREM StoreTypeCorrect == StoreSpec => []StoreTypeOK
<1>1. StoreInv => StoreTypeOK
  BY DEF StoreInv
<1> QED
  BY StoreInvariant, <1>1, PTL

(* warm_or_open() never serves an index that lacks the rows of a file.     *)
THEOREM NothingSmallerServed == StoreSpec => []NeverSmaller
<1>1. StoreInv => NeverSmaller
  BY DEF StoreInv, Complete, NeverSmaller
<1> QED
  BY StoreInvariant, <1>1, PTL

(* OverlayLock with the second look under it: no two builds at a time, and *)
(* none over an overlay that can be read.                                  *)
THEOREM OneBuild == StoreSpec => []BuildsOnce
<1>1. StoreInv => BuildsOnce
  BY DEF StoreInv, StoreTypeOK, Locked, NothingToLose, BuildsOnce
<1> QED
  BY StoreInvariant, <1>1, PTL

(* rebuild_or_refuse() and step8_write_overlay(): a readable overlay stays *)
(* readable, but for a fault or a removal that comes late.                 *)
THEOREM ReadableKept == StoreSpec => KeepsReadable
<1>1. StoreInv /\ [StoreNext]_storeVars
        => (overlay = "good" /\ overlay' # "good" => faults' # faults \/ late')
  <2> SUFFICES ASSUME StoreInv, StoreNext \/ UNCHANGED storeVars,
                      overlay = "good", overlay' # "good"
               PROVE  faults' # faults \/ late'
    OBVIOUS
  <2> USE DEF files
  <2>1. ASSUME NEW a \in Attachers, Begin(a) \/ AttachStep(a) \/ Leave(a)
        PROVE  late'
    BY <2>1 DEF Begin, Leave, AttachStep, Probe, Parse, Look, Drop, Lock, LookAgain,
                Unreadable, Build, Unlock, FinalOpen, Serve, Refuse
  <2>2. ASSUME NEW group \in Processes, Die(group) PROVE FALSE
    BY <2>2 DEF Die
  <2>3. CASE Fault
    BY <2>3 DEF Fault, StoreInv, StoreTypeOK
  <2>4. CASE UNCHANGED storeVars
    BY <2>4 DEF storeVars
  <2> QED
    BY <2>1, <2>2, <2>3, <2>4 DEF StoreNext
<1> QED
  BY StoreInvariant, <1>1, PTL DEF StoreSpec, KeepsReadable

(* warm_or_open() refuses the shared index to an attach only for a fault   *)
(* or a late removal.                                                      *)
THEOREM RefusalsHaveCause == StoreSpec => RefusesForCause
<1>1. StoreInv /\ [StoreNext]_storeVars
        => ((\E a \in Attachers : Refused(a)) => faulty \/ late)
  <2> SUFFICES ASSUME StoreInv, StoreNext \/ UNCHANGED storeVars,
                      NEW b \in Attachers, Refused(b), ~faulty, ~late
               PROVE  FALSE
    OBVIOUS
  <2> USE DEF files, StepTo, Refused, StoreInv, StoreTypeOK
  <2>r. phase[b] \in Past => rows[b] # {} \/ \A s \in Segs : segment[s] = "good"
    BY DEF Provided
  <2>i. phase[b] \in Past => ~Incomplete(b)
    BY <2>r, OpensWhenProvided DEF Incomplete
  <2>1. ASSUME NEW a \in Attachers, Begin(a) \/ Leave(a) PROVE FALSE
    BY <2>1 DEF Begin, Leave
  <2>2. ASSUME NEW a \in Attachers, AttachStep(a), a # b PROVE FALSE
    BY <2>2 DEF AttachStep, Probe, Parse, Look, Drop, Lock, LookAgain, Build, Unlock,
                FinalOpen, Serve, Refuse
  <2>3. ASSUME AttachStep(b) PROVE FALSE
    <3>1. ~(Probe(b) \/ Parse(b) \/ Drop(b) \/ Lock(b) \/ Build(b) \/ Unlock(b))
      BY DEF Probe, Parse, Drop, Lock, Build, Unlock
    <3>2. ~(Look(b) \/ LookAgain(b))
      BY <2>i DEF Look, LookAgain, Serve, Past
    <3>3. ~FinalOpen(b)
      <4>1. FinalOpen(b) => phase[b] = "open" /\ ~Opens(b)
        BY DEF FinalOpen, Serve
      <4>2. phase[b] = "open" => rows[b] # {} \/ overlay = "good"
        BY DEF Provided, Past
      <4>3. rows[b] # {} => Opens(b)
        BY DEF Opens, Cached, Process
      <4> QED
        BY <4>1, <4>2, <4>3, <2>r, OpensWhenProvided DEF Past
    <3> QED
      BY <2>3, <3>1, <3>2, <3>3 DEF AttachStep
  <2>4. ASSUME NEW group \in Processes, Die(group) PROVE FALSE
    BY <2>4 DEF Die
  <2>5. CASE Fault
    BY <2>5 DEF Fault
  <2>6. CASE UNCHANGED storeVars
    BY <2>6 DEF storeVars
  <2> QED
    BY <2>1, <2>2, <2>3, <2>4, <2>5, <2>6 DEF StoreNext
<1> QED
  BY StoreInvariant, <1>1, PTL DEF StoreSpec, RefusesForCause
=============================================================================
