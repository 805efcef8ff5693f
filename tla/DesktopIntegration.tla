-------------------------- MODULE DesktopIntegration --------------------------
(***************************************************************************)
(* The files that the widget puts outside its package                      *)
(* (kdeaichat/desktop_integration.py), and the runner that the bus can     *)
(* start while they are there.  Sync is one helper process, run by the     *)
(* settings page or by a widget that starts; one runs at a time.           *)
(***************************************************************************)
EXTENDS RunnerService

CONSTANTS
    Switches,     \* what a user may choose: records of krunner, dolphin, selection and prefix
    None,
    MaxSyncs,     \* helpers that run sync
    MaxOthers,    \* files of the same names that others put there, and updates of the package
    MaxFaults     \* writes, removals and desktop tools that fail, and helpers that are killed

ASSUME SyncAssumption == MaxSyncs \in Nat /\ MaxOthers \in Nat /\ MaxFaults \in Nat

VARIABLES
    files,       \* for each file: "none", "new" as it should be, "old" from an earlier package, "foreign"
    flags,       \* the switches of desktop-integration.json, None without it
    config,      \* the switches in the widget's settings
    step,        \* the helper: its next step, "off"
    want,        \* the helper: the switches, and whether KRunner shall be restarted
    was,         \* the helper: is_installed("krunner") before
    changed,     \* the helper: runner_changed
    busKnows,    \* whether the bus can start the runner
    krunnerKnows,\* whether KRunner has seen the runner's file
    left         \* budgets: syncs, others, faults

syncVars == <<files, flags, config, step, want, was, changed, busKnows, krunnerKnows, left>>
vars == <<serviceVars, syncVars>>

Files == {"runner", "service", "menu", "selection"}
Ours == {"new", "old"}

_files(kind) == CASE kind = "krunner" -> {"runner", "service"} [] kind = "dolphin" -> {"menu"} [] kind = "selection" -> {"selection"}

is_installed(kind) == \A f \in _files(kind) : files[f] \in Ours

AllOff == [krunner |-> FALSE, dolphin |-> FALSE, selection |-> FALSE, prefix |-> <<>>]

Spend(budget) == left[budget] > 0 /\ left' = [left EXCEPT ![budget] = @ - 1]

-----------------------------------------------------------------------------
(* sync, step by step.                                                     *)

Begin(w, restart) ==
    /\ step = "off" /\ Spend("syncs")
    /\ want' = [switches |-> w, restart |-> restart]
    /\ was' = is_installed("krunner")
    /\ changed' = FALSE
    /\ step' = "runner"

\* saveConfig of the settings page: KRunner is restarted if its status is not known, or another one.
PageSaves(w) ==
    /\ \E restart \in {TRUE, is_installed("krunner") # w.krunner} : Begin(w, restart)
    /\ config' = w
    /\ UNCHANGED <<files, flags, busKnows, krunnerKnows>>

\* start of AskInbox: a widget with a switch on repairs the files.
WidgetStarts ==
    /\ config.krunner \/ config.dolphin \/ config.selection
    /\ Begin(config, FALSE)
    /\ UNCHANGED <<files, flags, config, busKnows, krunnerKnows>>

_ours(f) == files[f] \in Ours

\* _install and _remove of one file: it fails, or the file is as the switch says.
InTheWay(f, on) == on /\ files[f] # "none" /\ ~_ours(f)
Put(f, on) == files' = [files EXCEPT ![f] = IF on THEN "new" ELSE IF _ours(f) THEN "none" ELSE @]

Changes(f, on) == (on /\ files[f] # "new") \/ changed

\* A file that cannot be written or removed ends its part of the sync.
SyncFile(f, on, then, otherwise) ==
    /\ step = f
    /\ \/ InTheWay(f, on) /\ step' = otherwise /\ UNCHANGED <<files, left, changed>>
       \/ ~InTheWay(f, on) /\ Put(f, on) /\ step' = then /\ UNCHANGED left
          /\ changed' = IF f \in _files("krunner") THEN Changes(f, on) ELSE changed
       \/ Spend("faults") /\ step' = otherwise /\ UNCHANGED <<files, changed>>
    /\ UNCHANGED <<flags, config, want, was, busKnows, krunnerKnows>>

SyncFiles ==
    \/ SyncFile("runner", want.switches.krunner, "service", "menu")
    \/ SyncFile("service", want.switches.krunner, "menu", "menu")
    \/ SyncFile("menu", want.switches.dolphin, "selection", "selection")
    \/ SyncFile("selection", want.switches.selection, "state", "state")

Flag(w, kind) == w[kind] /\ is_installed(kind)

_write_state ==
    /\ step = "state" /\ step' = "tell"
    /\ LET w == want.switches IN
       \/ /\ w.krunner \/ w.dolphin \/ w.selection \/ flags # None
          /\ flags' = [krunner |-> Flag(w, "krunner"), dolphin |-> Flag(w, "dolphin"), selection |-> Flag(w, "selection")]
          /\ prefix' = w.prefix
          /\ UNCHANGED left
       \/ /\ ~(w.krunner \/ w.dolphin \/ w.selection) /\ flags = None
          /\ UNCHANGED <<flags, prefix, left>>
       \/ Spend("faults") /\ UNCHANGED <<flags, prefix>>
    /\ UNCHANGED <<files, config, want, was, changed, busKnows, krunnerKnows>>

NoHelper == [switches |-> AllOff, restart |-> FALSE]
Over == step' = "off" /\ want' = NoHelper /\ was' = FALSE /\ changed' = FALSE

\* Mutant: only a file that was written is told.
Tells_IfWritten(written) == written

Tells(written) == written \/ was # is_installed("krunner")

\* _reload_bus and _restart_krunner, which may fail unseen.
Tell ==
    /\ step = "tell"
    /\ LET tells == Tells(changed)
           restarts == tells /\ (changed \/ want.restart)
       IN \/ /\ busKnows' = IF tells THEN files["service"] # "none" ELSE busKnows
             /\ krunnerKnows' = IF restarts THEN files["runner"] # "none" ELSE krunnerKnows
             /\ UNCHANGED left
          \/ tells /\ Spend("faults") /\ UNCHANGED <<busKnows, krunnerKnows>>
    /\ Over
    /\ UNCHANGED <<files, flags, config>>

\* The helper is killed.
HelperKilled ==
    /\ step # "off" /\ Spend("faults")
    /\ Over
    /\ UNCHANGED <<files, flags, config, busKnows, krunnerKnows>>

\* Somebody else's file of the same name, and an update of the package.
Foreign ==
    /\ Spend("others")
    /\ \E f \in Files : files[f] = "none" /\ step # f /\ files' = [files EXCEPT ![f] = "foreign"]
    /\ UNCHANGED <<flags, config, step, want, was, changed, busKnows, krunnerKnows>>

Updated ==
    /\ step = "off" /\ Spend("others")
    /\ files' = [f \in Files |-> IF files[f] = "new" THEN "old" ELSE files[f]]
    /\ UNCHANGED <<flags, config, step, want, was, changed, busKnows, krunnerKnows>>

-----------------------------------------------------------------------------
Init ==
    /\ ServiceInit
    /\ files = [f \in Files |-> "none"]
    /\ flags = None
    /\ config = AllOff
    /\ step = "off" /\ want = NoHelper /\ was = FALSE /\ changed = FALSE
    /\ busKnows = FALSE /\ krunnerKnows = FALSE
    /\ left = [syncs |-> MaxSyncs, others |-> MaxOthers, faults |-> MaxFaults]

SyncStep ==
    \/ /\ UNCHANGED prefix
       /\ \/ \E w \in Switches : PageSaves(w)
          \/ WidgetStarts \/ SyncFiles \/ Tell \/ HelperKilled \/ Foreign \/ Updated
    \/ _write_state

Untroubled == left.faults = MaxFaults
Quiet == pc \in {"off", "loop"} /\ wire = <<>> /\ pending = <<>>

\* The helper and the service share only the prefix and what the bus knows: the helper's other steps are
\* taken together with those that change these, and while the service has nothing to read.
\* Either the helper is troubled, or the service is killed.
Next ==
    \/ /\ Quiet /\ SyncStep /\ (left'.faults < left.faults => kills = MaxKills)
       /\ UNCHANGED <<calls, answers, queued, wire, upto, owner, pc, pending, cur, done, fresh, inbox, kills>>
    \/ /\ step \in {"off", "tell"} /\ (ServiceStep \/ BusStep \/ Call(busKnows)) /\ (kills' < kills => Untroubled)
       /\ UNCHANGED syncVars

Spec == Init /\ [][Next]_vars

-----------------------------------------------------------------------------

\* sync (desktop_integration.py:214-256): when a sync has ended and nothing failed, the bus can start the
\* runner exactly if its service file is there, and KRunner knows its file, however often the switch was
\* turned and updated; a file of somebody else's in the place of one of them hides the other.
BusAgrees ==
    step = "off" /\ Untroubled /\ (\A f \in {"runner", "service"} : files[f] # "foreign") =>
        /\ busKnows <=> files["service"] \in Ours
        /\ krunnerKnows <=> files["runner"] \in Ours

\* _write_state (desktop_integration.py:245-248): what desktop-integration.json says is installed is there,
\* though one part was refused and another went on.
StateTrue ==
    step = "off" /\ Untroubled =>
        /\ flags # None => flags = [krunner |-> is_installed("krunner"), dolphin |-> is_installed("dolphin"),
                                    selection |-> is_installed("selection")]
        /\ flags = None => \A f \in Files : files[f] \notin Ours

\* The bus, KRunner and the widget's own note agree with the files.
FilesAgree == BusAgrees /\ StateTrue

=============================================================================
