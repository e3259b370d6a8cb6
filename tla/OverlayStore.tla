---------------------------- MODULE OverlayStore ----------------------------
(***************************************************************************)
(* How an attach gets the full index of one commit out of the files the    *)
(* processes share (crates/forgeql-core/src/storage/columnar):             *)
(* load_session_index with its probe, ColumnarStorage::warm_or_open with   *)
(* the unlocked and the locked look at the overlay, rebuild_or_refuse, the *)
(* build under OverlayLock, and the overlay file put in place by a rename. *)
(*                                                                         *)
(* An attacher is one process, or its warmer thread; its engine runs one   *)
(* command at a time.  local is the set of attachers that are threads of   *)
(* one process and so share its OpenCache, of which only the promise is    *)
(* used: an open entry is handed out without a look at the files.  It      *)
(* never changes.                                                          *)
(*                                                                         *)
(* Abstracted: the commit has no chain manifest (module SessionIndex), and *)
(* the files an attacher parses are those of the commit.  A temporary file *)
(* that a dead process leaves behind is read by nobody.  VACUUM ALL APPLY  *)
(* of the current generation, a disk that loses or damages a file, and a   *)
(* file of an older format are the environment; MaxFaults bounds them.     *)
(*                                                                         *)
(* late and faulty are history.  A definition whose name starts with Mut   *)
(* is the one after it with a plausible bug, and is not part of the        *)
(* specification.                                                          *)
(***************************************************************************)
EXTENDS Naturals, FiniteSets

CONSTANTS Attachers,   \* who may attach to the commit
          Segs,        \* the segments of the commit, one per source file
          Unlocked,    \* nobody holds the lock
          MaxFaults    \* bound: files lost or damaged

ASSUME OverlayStoreAssumption == /\ Unlocked \notin Attachers
                                 /\ Segs # {}
                                 /\ MaxFaults \in Nat

VARIABLES
  local,     \* the attachers that are threads of one process
  overlay,   \* the overlay file: "none", "bad" when it does not parse, "good"
  listed,    \* the segments a good overlay lists
  segment,   \* each segment file: "none", "damaged" behind intact magic
             \* bytes, "good"
  lock,      \* who holds OverlayLock
  phase,     \* where each attacher is
  parsed,    \* its parse left a segment map to build from
  rows,      \* the segments in the decode it holds: its probe's, its session's
  faults,    \* how many faults so far
  late,      \* history: an attacher removed an overlay it had not looked at
  faulty     \* history: a fault struck while an attacher was attaching, or
             \* left a segment that no parse writes again

storeVars == <<local, overlay, listed, segment, lock, phase, parsed, rows, faults, late, faulty>>

Steps == {"out", "probe", "parse", "look", "drop", "wait", "again", "build",
          "unlock", "open", "served", "refused"}

StoreTypeOK ==
  /\ local \in SUBSET Attachers
  /\ overlay \in {"none", "bad", "good"}
  /\ listed \in SUBSET Segs
  /\ segment \in [Segs -> {"none", "damaged", "good"}]
  /\ lock \in Attachers \cup {Unlocked}
  /\ phase \in [Attachers -> Steps]
  /\ parsed \in [Attachers -> BOOLEAN]
  /\ rows \in [Attachers -> SUBSET Segs]
  /\ faults \in 0..MaxFaults
  /\ late \in BOOLEAN
  /\ faulty \in BOOLEAN

\* A commit nobody has attached to, or one whose overlay was left by an older
\* format.
StoreInit ==
  /\ local \in SUBSET Attachers
  /\ overlay \in {"none", "bad"}
  /\ listed = {}
  /\ segment = [s \in Segs |-> "none"]
  /\ lock = Unlocked
  /\ phase = [a \in Attachers |-> "out"]
  /\ parsed = [a \in Attachers |-> FALSE]
  /\ rows = [a \in Attachers |-> {}]
  /\ faults = 0
  /\ late = FALSE
  /\ faulty = FALSE

-----------------------------------------------------------------------------

StepTo(a, place) == phase' = [phase EXCEPT ![a] = place]
files == <<overlay, listed, segment>>

MutReadable(segs) == {s \in segs : segment[s] = "good"}
\* open_segments_from_overlay: one segment that does not open fails the lot.
Readable(segs) == IF \A s \in segs : segment[s] = "good" THEN segs ELSE {}

\* What shared_open makes of the overlay: the decode another thread of this
\* process holds, or the files.
Process(a) == IF a \in local THEN local ELSE {a}
Cached(a) == {b \in Process(a) : rows[b] # {}}
Opens(a) == \/ Cached(a) # {}
            \/ overlay = "good" /\ Readable(listed) # {}
OpenedRows(a) == IF Cached(a) # {} THEN rows[CHOOSE b \in Cached(a) : TRUE]
                 ELSE Readable(listed)
Incomplete(a) == ~Opens(a) /\ overlay = "good"
MutUnreadable(a) == ~Opens(a) /\ overlay # "none"
Unreadable(a) == ~Opens(a) /\ overlay = "bad"

Serve(a) == StepTo(a, "served") /\ rows' = [rows EXCEPT ![a] = OpenedRows(a)]
Refuse(a) == StepTo(a, "refused") /\ rows' = [rows EXCEPT ![a] = {}]

-----------------------------------------------------------------------------

\* USE, or the warmer, begins.
Begin(a) ==
  /\ phase[a] = "out"
  /\ StepTo(a, "probe")
  /\ parsed' = [parsed EXCEPT ![a] = FALSE]
  /\ UNCHANGED <<files, lock, rows, faults, late, faulty, local>>

\* load_session_index: is the overlay there and does it open?  The decode is
\* kept until warm_or_open is done.
MutProbe(a) ==
  /\ phase[a] = "probe"
  /\ StepTo(a, IF overlay # "none" /\ Opens(a) THEN "look" ELSE "parse")
  /\ UNCHANGED <<files, lock, parsed, rows, faults, late, faulty, local>>
Probe(a) ==
  /\ phase[a] = "probe"
  /\ \/ /\ overlay # "none" /\ Opens(a)
        /\ rows' = [rows EXCEPT ![a] = OpenedRows(a)]
        /\ StepTo(a, "look")
     \/ /\ overlay = "none" \/ ~Opens(a)
        /\ StepTo(a, "parse")
        /\ UNCHANGED rows
  /\ UNCHANGED <<files, lock, parsed, faults, late, faulty, local>>

\* resume_index parses the worktree; each file's segment is written unless one
\* with intact magic bytes is there.
Parse(a) ==
  /\ phase[a] = "parse"
  /\ segment' = [s \in Segs |-> IF segment[s] = "none" THEN "good" ELSE segment[s]]
  /\ parsed' = [parsed EXCEPT ![a] = TRUE]
  /\ StepTo(a, "look")
  /\ UNCHANGED <<overlay, listed, lock, rows, faults, late, faulty, local>>

\* warm_or_open: the look at the overlay without the lock.  A readable overlay
\* with a segment that does not open is refused: a prebuilt segment map, or
\* none, regenerates nothing.
Look(a) ==
  /\ phase[a] = "look"
  /\ \/ overlay = "none" /\ StepTo(a, "wait") /\ UNCHANGED rows
     \/ overlay # "none" /\ Opens(a) /\ Serve(a)
     \/ Incomplete(a) /\ Refuse(a)
     \/ Unreadable(a) /\ StepTo(a, "drop") /\ UNCHANGED rows
  /\ UNCHANGED <<files, lock, parsed, faults, late, faulty, local>>

\* rebuild_or_refuse removes the file it could not read, by its name.
Drop(a) ==
  /\ phase[a] = "drop"
  /\ overlay' = "none"
  /\ listed' = {}
  /\ late' = (late \/ overlay = "good")
  /\ StepTo(a, "wait")
  /\ UNCHANGED <<segment, lock, parsed, rows, faults, faulty, local>>

BuildLockFree == lock = Unlocked

Lock(a) ==
  /\ phase[a] = "wait"
  /\ BuildLockFree
  /\ lock' = a
  /\ StepTo(a, "again")
  /\ UNCHANGED <<files, parsed, rows, faults, late, faulty, local>>

\* The second look, under the lock: a peer may have built the overlay.
MutLookAgain(a) ==
  /\ phase[a] = "again"
  /\ StepTo(a, "build")
  /\ UNCHANGED <<files, lock, parsed, rows, faults, late, faulty, local>>
LookAgain(a) ==
  /\ phase[a] = "again"
  /\ \/ /\ overlay = "none"
        /\ StepTo(a, "build")
        /\ UNCHANGED <<overlay, listed, lock, rows>>
     \/ /\ overlay # "none" /\ Opens(a)
        /\ lock' = Unlocked
        /\ Serve(a)
        /\ UNCHANGED <<overlay, listed>>
     \/ /\ Incomplete(a)
        /\ lock' = Unlocked
        /\ Refuse(a)
        /\ UNCHANGED <<overlay, listed>>
     \/ /\ Unreadable(a)
        /\ overlay' = "none"
        /\ listed' = {}
        /\ StepTo(a, "build")
        /\ UNCHANGED <<lock, rows>>
  /\ UNCHANGED <<segment, parsed, faults, late, faulty, local>>

\* build_overlay: nothing to build from, a segment that does not open (the
\* error is only logged), or the new file renamed into place.
Build(a) ==
  /\ phase[a] = "build"
  /\ \/ /\ parsed[a] /\ Readable(Segs) # {}
        /\ overlay' = "good" /\ listed' = Readable(Segs)
     \/ /\ ~parsed[a] \/ Readable(Segs) = {}
        /\ UNCHANGED <<overlay, listed>>
  /\ StepTo(a, "unlock")
  /\ UNCHANGED <<segment, lock, parsed, rows, faults, late, faulty, local>>

Unlock(a) ==
  /\ phase[a] = "unlock"
  /\ lock' = Unlocked
  /\ StepTo(a, "open")
  /\ UNCHANGED <<files, parsed, rows, faults, late, faulty, local>>

\* The last open: whatever is there now.
FinalOpen(a) ==
  /\ phase[a] = "open"
  /\ \/ Opens(a) /\ Serve(a)
     \/ ~Opens(a) /\ Refuse(a)
  /\ UNCHANGED <<files, lock, parsed, faults, late, faulty, local>>

\* The session ends, or goes on with its fallback until it ends.
Leave(a) ==
  /\ phase[a] \in {"served", "refused"}
  /\ StepTo(a, "out")
  /\ rows' = [rows EXCEPT ![a] = {}]
  /\ UNCHANGED <<files, lock, parsed, faults, late, faulty, local>>

\* A lock that is the existence of its file.
MutDie(group) ==
  /\ \E a \in group : phase[a] # "out"
  /\ phase' = [a \in Attachers |-> IF a \in group THEN "out" ELSE phase[a]]
  /\ rows' = [a \in Attachers |-> IF a \in group THEN {} ELSE rows[a]]
  /\ UNCHANGED <<files, lock, parsed, faults, late, faulty, local>>
\* A process dies; the OS releases its lock.
Die(group) ==
  /\ \E a \in group : phase[a] # "out"
  /\ phase' = [a \in Attachers |-> IF a \in group THEN "out" ELSE phase[a]]
  /\ rows' = [a \in Attachers |-> IF a \in group THEN {} ELSE rows[a]]
  /\ lock' = IF lock \in group THEN Unlocked ELSE lock
  /\ UNCHANGED <<files, parsed, faults, late, faulty, local>>
Processes == {local} \cup {{a} : a \in Attachers \ local}

Attaching(a) == phase[a] \notin {"out", "served", "refused"}

\* VACUUM ALL APPLY of another process removes the overlays, then the
\* segments, directory by directory; a disk loses or damages a segment, or the
\* overlay.
Fault ==
  /\ faults < MaxFaults
  /\ faults' = faults + 1
  /\ \/ /\ overlay # "none"
        /\ overlay' \in {"none", "bad"}
        /\ listed' = {}
        /\ UNCHANGED segment
     \/ /\ \E s \in Segs, harm \in {"none", "damaged"} :
             segment[s] = "good" /\ segment' = [segment EXCEPT ![s] = harm]
        /\ UNCHANGED <<overlay, listed>>
  /\ faulty' = (\/ faulty
                \/ \E a \in Attachers : Attaching(a)
                \/ \E s \in Segs : segment'[s] = "damaged")
  /\ UNCHANGED <<lock, phase, parsed, rows, late, local>>

AttachStep(a) == \/ Probe(a) \/ Parse(a) \/ Look(a) \/ Drop(a) \/ Lock(a) \/ LookAgain(a)
                 \/ Build(a) \/ Unlock(a) \/ FinalOpen(a)

StoreNext == \/ \E a \in Attachers : Begin(a) \/ AttachStep(a) \/ Leave(a)
             \/ \E group \in Processes : Die(group)
             \/ Fault

StoreSpec == StoreInit /\ [][StoreNext]_storeVars

\* A process that is alive goes on with its attach.
StoreFairness == \A a \in Attachers : WF_storeVars(AttachStep(a))

-----------------------------------------------------------------------------

(* IncompleteIndex and rebuild_or_refuse, "a smaller index that never says *)
(* it is smaller": a session that serves the shared index serves the rows  *)
(* of every file, whatever was lost, damaged or half done meanwhile.       *)
NeverSmaller == \A a \in Attachers : phase[a] = "served" => rows[a] = Segs

(* overlay_lock.rs:3-12, "Build the same overlay twice": one attacher      *)
(* builds at a time, and only an overlay that is not there.                *)
BuildsOnce ==
  /\ \A a, b \in Attachers : phase[a] = "build" /\ phase[b] = "build" => a = b
  /\ \A a \in Attachers : phase[a] = "build" => overlay # "good"

(* step8_write_overlay, "a crash mid-write leaves either the old overlay   *)
(* or the new one, never a partial file", and rebuild_or_refuse, "A        *)
(* readable overlay is never removed here": an attach makes no readable    *)
(* overlay unreadable, but for a removal that comes late.                  *)
KeepsReadable ==
  [][overlay = "good" /\ overlay' # "good" => faults' # faults \/ late']_storeVars

\* An attach ends without the shared index.
Refused(a) == phase[a] # "refused" /\ phase'[a] = "refused"

(* warm_or_open(): an attach is refused the index only because of a fault  *)
(* under way, a segment no parse writes again, or a late removal.          *)
RefusesForCause == [][(\E a \in Attachers : Refused(a)) => faulty \/ late]_storeVars

(* Every attach is answered, however many wait for the lock and wherever   *)
(* the one that held it died, unless new ones come for ever (a file lock   *)
(* makes no promise to the one that waited longest).                       *)
AttachEnds ==
  <>[][~\E a \in Attachers : Begin(a)]_storeVars =>
    \A a \in Attachers : Attaching(a) ~> ~Attaching(a)

=============================================================================
