--------------------------- MODULE PolicyWatcher ---------------------------
(***************************************************************************)
(* watchOperatingPolicy (packages/core/src/operating-policy.ts): saves of   *)
(* the policy file raise events on its directory, a debounce timer starts   *)
(* anew at each, and when it fires the file is loaded and the result handed *)
(* to a callback.  Loads are asynchronous and nothing keeps a second from   *)
(* starting before the first is done.                                       *)
(***************************************************************************)
EXTENDS Integers

CONSTANT MaxSaves    \* bound

ASSUME WatcherAssumption == MaxSaves \in Nat

VARIABLES setting,      \* may a load outlast the debounce window? may the callback throw?
          file,      \* the version on disk, and whether it is a valid policy
          events,    \* directory events not yet delivered
          timer,     \* is the debounce timer running?
          loads,     \* loads in progress: what each has read
          closed,
          delivered, \* the last result the callback was given
          saves
watcherVars == <<setting, file, events, timer, loads, closed, delivered, saves>>

NotRead == [version |-> -1, valid |-> FALSE]
LoadResult == [version : 0..MaxSaves, valid : BOOLEAN]
EventNames == {"the file", "another file", "unknown"}

WatcherInit == /\ setting \in [slow : BOOLEAN, throws : BOOLEAN]
        /\ file = [version |-> 0, valid |-> TRUE]
        /\ events = {} /\ timer = FALSE /\ loads = {} /\ closed = FALSE
        /\ delivered = [file EXCEPT !.valid = TRUE] /\ saves = 0

\* The rename puts a new version in place; the events name the file, or not.
Save == \E valid \in BOOLEAN, name \in {"the file", "unknown"} :
  /\ saves < MaxSaves /\ saves' = saves + 1
  /\ file' = [version |-> saves', valid |-> valid]
  /\ events' = events \cup {name}
  /\ UNCHANGED <<setting, timer, loads, closed, delivered>>

OtherFile == /\ events = {} /\ saves < MaxSaves /\ events' = {"another file"}
             /\ UNCHANGED <<setting, file, timer, loads, closed, delivered, saves>>

\* Mutant: an event while a load is under way is taken for its echo.
ConcernsIfIdle(name) == ~closed /\ loads = {} /\ name # "another file"

\* An event that names no file may be about this one.
Concerns(name) == ~closed /\ name # "another file"

Event == \E name \in events :
  /\ events' = events \ {name}
  /\ timer' = (timer \/ Concerns(name))
  /\ UNCHANGED <<setting, file, loads, closed, delivered, saves>>

\* fire: the timer ran out.
Fire == /\ timer /\ timer' = FALSE
        /\ setting.slow \/ loads = {}
        /\ loads' = loads \cup {[started |-> saves, got |-> NotRead]}
        /\ UNCHANGED <<setting, file, events, closed, delivered, saves>>

\* readFile: the file as it is now.
Read == \E load \in loads :
  /\ load.got = NotRead
  /\ loads' = (loads \ {load}) \cup {[load EXCEPT !.got = file]}
  /\ UNCHANGED <<setting, file, events, timer, closed, delivered, saves>>

Calls(load) == ~closed

\* Parsed, or an error; a callback that throws is called again with an error.
Deliver == \E load \in loads :
  /\ load.got # NotRead
  /\ loads' = loads \ {load}
  /\ \/ delivered' = IF Calls(load) THEN load.got ELSE delivered
     \/ setting.throws /\ Calls(load) /\ delivered' = [load.got EXCEPT !.valid = FALSE]
  /\ UNCHANGED <<setting, file, events, timer, closed, saves>>

Close == /\ ~closed /\ closed' = TRUE /\ timer' = FALSE
         /\ UNCHANGED <<setting, file, events, loads, delivered, saves>>

WatcherNext == Save \/ OtherFile \/ Event \/ Fire \/ Read \/ Deliver \/ Close

\* Events are delivered, timers fire, loads end.
WatcherSpec == WatcherInit /\ [][WatcherNext]_watcherVars /\ WF_watcherVars(Event) /\ WF_watcherVars(Fire) /\ WF_watcherVars(Read) /\ WF_watcherVars(Deliver)
-----------------------------------------------------------------------------
WatcherTypeOK ==
  /\ setting \in [slow : BOOLEAN, throws : BOOLEAN] /\ file \in LoadResult /\ delivered \in LoadResult /\ events \subseteq EventNames
  /\ loads \subseteq [started : 0..MaxSaves, got : LoadResult \cup {NotRead}]
  /\ timer => ~closed

(* After close() the callback is never called again, whatever was in        *)
(* progress (operating-policy.ts:285-327).                                  *)
QuietAfterClose == [][closed => delivered' = delivered]_watcherVars

(* Every save is made known in the end, also one that comes while an older  *)
(* version is being loaded or after one that did not parse, so long as a    *)
(* load takes less than the debounce window and the callback does not throw *)
(* (operating-policy.ts:285-313).                                           *)
EventuallyCurrent == ~setting.slow /\ ~setting.throws => <>[](closed \/ delivered = file)
=============================================================================
