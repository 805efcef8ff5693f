# A TLA+ model of KDE AI Chat

KDE AI Chat is a Plasma widget: a chat with language models in QML, and a Python
helper that the widget runs as short-lived processes. This directory models the
parts of it in which several actors change the same state – the requests of a
chat, the chats on disk, scheduled prompts, agents, memories, voice, and what other
programs leave for the widget – and says what holds of them. TLC checks small
instances; TLAPS proves what matters most for every instance.

Paths below are relative to `src/org.kde.plasma.kdeaichat/contents/ui/`.

## The system

| Part | Where | State it keeps | Operations | Talks to | What is hard |
|---|---|---|---|---|---|
| Chat requests and queue | `chat/SendController`, `DirectRequest`, `DirectToolRounds`, `ReplyEvents`, `MessageEdits`, `main` | messages of the open chat, `loading`, `requestGeneration`, `activeRequestSessionId`, `activeXhr`, stream index, pending question | send, queue, stop, answer, resend, retry, edit, delete, undo | network, chat list, notifier, agents | answers for requests given up; a queue that every path must restart; indices into a list that moves |
| Chat list | `chat/Sessions`, `UndoNotice`, `HistoryRecovery`, `PartialSave` | `sessions`, `currentSessionId` | create, switch, delete, undo, archive, rename, reload | chat store, requests, schedules | a switch while a reply comes; undo after what it undoes has been written |
| Chat store | `store/ChatStore`, `store/Storage`, `kdeaichat/chats.py` | pending list and hints, what was written, index problem; `chat-<id>.ini`, `index.ini`, `index.ini.bak` | save, flush, load, rebuild, delete files | chat list, helper processes | crash between two files; damaged files; hints that add up; an asynchronous delete |
| Scheduled job | `kdeaichat/schedule_job.py`, `schedule_runs.py`, `schedule_rules.py` | `schedule-runs/<id>.json` | wake, decide, run, skip, finish, disable | systemd, delivery | dying while the prompt runs; a definition edited meanwhile; a clock that goes back |
| Schedule commands and timers | `kdeaichat/schedule_store.py`, `schedule_units.py`, `schedules.py` | `schedules.v2.json`, `*.timer` | save, delete, startup sync, sync | widget, settings page, systemd | two processes; a failing `systemctl`; a timer that must be armed again |
| Delivery of scheduled runs | `kdeaichat/schedule_chat.py`, `schedule_exec.py`, `chat/ScheduleInbox` | chat file, `inbox/run-*.ini`, merged and to-remove lists | deliver, watch, scan, merge, save, remove | chat store, jobs | two writers of one file and no common lock; exactly once across restarts |
| Schedule calendar and editor | `kdeaichat/schedule_calendar.py`, `schedule_cron.py`, `schedule_model.py`, `schedule_text.py`, `config/Schedule*` | drafts | compile rules to `OnCalendar=`, validate, preview | schedule commands | a calendar that wakes for every instant the rules select |
| A scheduled prompt's request | `kdeaichat/schedule_exec.py`, `schedule_direct.py`, `schedule_pi.py`, `schedule_opencode.py`, `schedule_context.py`, `schedule_wallet.py`, `schedule_notify.py` | none of its own | one request in the chat's mode | providers, Pi bridge, OpenCode | time limits |
| Pi mode | `chat/PiMode`, `backends/PiBackend.js`, `kdeaichat/pi_bridge*.py` | one Pi process per chat, event backlog, permissions | start, attach, prompt, abort, answer | requests, loopback HTTP | reattaching; events lost or doubled |
| OpenCode mode | `chat/OpenCodeMode`, `backends/OpenCode*.js`, `kdeaichat/opencode_server.py` | remote session, server process | start, prompt, stop, permissions, history | requests, SSE | event stream and reply poll race |
| Image services | `chat/ImageJobs`, `ImageStore`, `backends/HordeBackend.js`, `PollinationsBackend.js`, `kdeaichat/images.py` | the job, image files | queue, poll, cancel, save | requests | a job that outlives its request |
| Memory | `chat/Memory`, `store/MemoryStore`, `MemoryWatch`, `MemoryMigration`, `kdeaichat/memory.py` | `memory.json` | add, edit, forget, recall, migrate | requests, settings | two widgets and one file; migration |
| Wallet and migrations | `store/Wallet`, `Migration`, `SettingsCleanup`, `kdeaichat/privacy.py`, `config_cleanup.py` | keys in KWallet, old copies | read, write, move, clear | settings | an old copy cleared before the new one is safe |
| Helper runner | `store/HelperRunner`, `kde_ai_helper.py`, `kdeaichat/private_payload.py`, `common.py` | running commands | run a command in a process | everything | answers in any order |
| Ask inbox, KRunner, selection | `chat/AskInbox`, `kdeaichat/ask_inbox.py`, `krunner.py`, `minidbus.py`, `selection.py`, `desktop_integration.py` | request files in `$XDG_RUNTIME_DIR` | put, take, open | requests | a question taken once |
| Voice | `VoiceManager`, `voice/*`, `kdeaichat/stt_*.py`, `tts.py`, `speechnote*.py`, `voice_*.py` | recording, playback | dictate, read aloud, stop | Speech Note, servers | stop against a late answer |
| Chat names, projects, incognito, overrides | `chat/SessionTitles`, `Projects`, `Incognito`, `ModeSync`, `EffectiveConfig.js` | names, projects, per-chat settings | rename, group, discard | chat list | a title that comes after a rename |
| Diagnostics, storage, desktop | `kdeaichat/diag*.py`, `storage.py`, `maintenance.py`, `local_servers.py`, `panel_icon.py` | none | report, remove | settings | – |
| Views and settings pages | the other `chat/*.qml`, `components/*`, `config/*`, `Config*.qml` | what is shown | draw, edit a setting | everything | – |

The widget runs one handler at a time. What interleaves with it are the network,
helper processes, jobs that systemd starts, other programs, and the end of the
session. Every module below draws its atomic steps along these lines.

## Modules

| Module | Models | Extends |
|---|---|---|
| `ScheduleRules` | the decision a wake-up takes: `should_run`, `next_occurrence`, `apply_decision`, `finish_run`, `check_finished`, trimming of the history | – |
| `ScheduleJob` | helper commands, run-state files, timer files, systemd timers and jobs | `ScheduleRules` |
| `ScheduleCalendar` | rules and cron lines compiled to `OnCalendar=` lines, and the occurrences of both over a small calendar | – |
| `ScheduleEditor` | the store's commands as the user meets them: drafts, validation, warnings, previews, saving, reopening, and the migration of old entries | `ScheduleCalendar` |
| `ScheduledPrompt` | one scheduled prompt's request: settings of the chat, wallet, providers, OpenCode | – |
| `ChatStore` | the chats in memory and on disk | – |
| `ScheduleDelivery` | jobs that write into chats, the inbox, the widget's merge | `ChatStore` |
| `ChatRequests` | requests, replies, questions and the queue of direct chats | – |
| `PiBridge` | the bridge, its Pi processes, and the attempts of the widget and of jobs | – |
| `MemoryList` | what `memory.json` promises: the abstract specification | – |
| `Memory` | helper processes, their lock and file, the widget's and the settings page's lists | (`MemoryList` by INSTANCE) |
| `DBusWire`, `RunnerService` | D-Bus messages on the socket, and the KRunner service that reads them | each the one before |
| `DesktopIntegration` | the files that switch the runner, the menu and the shortcut on | `RunnerService` |
| `AskInbox` | requests that other programs leave for the widget | – |
| `SpeechNote`, `Recorder`, `FileSpeech` | dictation and reading aloud by Speech Note; dictation by a recorder and a server; reading by a server | – |
| `Voice` | the engine of the settings | the three |
| `ScheduleJobProofs`, `ScheduleDeliveryProofs`, `ScheduledPromptProofs`, `ChatRequestsProofs`, `MemoryProofs`, `PiBridgeProofs`, `VoiceProofs`, `AskInboxProofs` | theorems and their proofs | each its module, TLAPS |
| `MC…` | the values of constants that a `.cfg` cannot write | each its module |

Definitions carry the name of the function they model where it has one.
`PROJECT.json` maps each to its lines. Definitions whose comment begins with
"Mutant" are not part of the specifications: each is a plausible mistake in the
definition after it, and shows that the property checked is able to fail.

### Scheduled prompts: `ScheduleRules`, `ScheduleJob`

Time is a number, a rule the set of instants it selects, and the `OnCalendar=`
lines a set that includes these (an every-N-days rule wakes the job on every
candidate day). A definition with its dates, limit, catch-up flag and `editedAt`
is a record; a run state is `lastScheduledFor`, `finishedAt`, the count and the
history.

A helper command (`cmd`) goes through its steps: it takes the store lock, changes
`store`, takes a snapshot of what should fire, writes the timer files, calls
`systemctl`, and, for a delete, removes run states after releasing the lock. A
job (`job`) reads its definition without the lock, decides and records under the
run-state lock, runs the prompt without it, records the outcome under it, and stops
its timer when the schedule is over or gone (nobody looks whether that worked).
`armed` and `stamp` are systemd's active timer and its persistent stamp. Helpers
and jobs may die between two steps, `systemctl` may fail for either, the clock may go
back.

### The calendar and the editor: `ScheduleCalendar`, `ScheduleEditor`

Here instants are minutes of numbered days and rules are those of the forms. The
lines a rule compiles to are evaluated by a reference definition of systemd's
`OnCalendar=` (external), the occurrences by the walk over the days of
`schedule_rules.py`, and the properties compare the two: so `TimesRight`
discharges the assumption of `ScheduleJob` that the lines include the rules'
instants. A draft is new or opened from the list (`fromListItem`: one that needs
review opens switched on and with a rule), changed, sent (`forSave`), validated, warned
about, previewed, saved and deleted; an old entry is migrated, also by a command that is
killed and the next. The switch of the list is an opening, a change and a save.
`Warned` compares what `warnings` reads off the rules with the days that the rules
select. A chat, a message and a name are one field, "complete"; how a rule is edited
field by field is a replacement of the rule.

### A prompt without the widget: `ScheduledPrompt`

The job resolves the chat's mode, provider and model, reads the key from the
wallet, sends the request, follows redirects, or drives OpenCode with a watcher
thread that answers permission requests. Pi's run is one outcome here and
`PiBridge` there. Servers, the wallet and OpenCode are external; each may fail at
each step as often as `MaxFaults` allows.

### Chats on disk: `ChatStore`

A chat is the sequence of its messages; message contents, the order of the list
and settings are left out (a change of a setting is an event that makes the index
differ); incognito chats, which a flush passes over, are not in it. A flush is a
sequence of steps – each chat file, the index, its backup,
the start of the delete helper – during which no handler of the widget runs and
after each of which a crash may come. `kept` remembers what the user once had on
disk and has not deleted.

### Runs arriving in a chat: `ScheduleDelivery`

Composes jobs with `ChatStore`: its actions are those of `ChatStore` with the
inbox left alone, plus the job's steps and `ScheduleInbox`'s. A run is one
message, its prompt and reply being always written together.

### Requests: `ChatRequests`

The root's properties are one record `w`, and each handler an operator from a
state to the next one, composed as the handlers call each other: `stopStreaming`
is `processNextQueuedMessage` of `saveCurrentSessionState` of
`invalidateActiveRequest`. The network's answers are actions of their own, for
current and for stale requests. A message is its id, its role and the chat it was
written for; "card" is a reply with an image job and no text, "asked" an open
question card. `waiting`, `w.cut` and `w.returned` are history, used by properties
only: the queued messages that must still be sent, the chats whose request was cut
off when the list was rebuilt or by an Undo, and the cards that Undo brought back.
A message is never empty, and Pi, OpenCode and image requests, whose handlers are
others, are not in it.

### Agents: `PiBridge`

One chat; chats share nothing but the lock. A Pi process has what it was given and
has not read (`prompts`), whether it works, and the lines that wait in its output;
the bridge keeps `running` for it. An attempt is a client's stream, its thread for
the prompt and its watchdog; the threads stop between two points where another can
run, which is where the code takes or releases the lock or writes to a pipe. A
subscriber of the bridge is an open attempt.

### Memories: `MemoryList`, `Memory`

Every change of `memory.json` is a helper process that takes the lock, reads the
file, changes the list and saves it; the widget and the settings page each queue
their commands and run one at a time, watch the file's stamp, and keep what a
deleted chat's memories were for Undo. `MemoryList` says the same as one atomic
change of a list. Pinned, enabled, dates and projects are left out.

### Other programs: `AskInbox`, `DBusWire`, `RunnerService`, `DesktopIntegration`

A request is its number, its kind and the state of its file; every change of the
folder is told to the widgets that watch it (`stir`: the model of files goes from loading
to ready, also when their number stays as it was), and one that finds a request starts a
helper. Helpers of one widget run one after the other. They claim files
by renaming them, widgets handle theirs in order, and a timer sends what should be
sent when it is in the right chat. A box is the row of what was put into it and what the
user typed; `Onward` is one `_next`, and `Handled` the row of those that one handler makes.
The user may go to any chat, also to one that a request made. `DBusWire` writes and reads the cells of
messages, and `RunnerService` passes every message through both: a call may be
split by the socket, be too large or have a type the reader lacks. The bus and the
callers are external. `DesktopIntegration` is one `sync` at a time, step by step,
and takes steps with the service only where they share something.

### Voice: `SpeechNote`, `Recorder`, `FileSpeech`, `Voice`

Speech Note is external: a service with one current task, which other programs
use too, which decodes a text some time after it stopped listening. Each command
is a helper process. The recorder's `stt_dictate` and `stt_stop` are two processes
that meet in a state file, a folder and a process number; a dictation that ends reads
the file, and removes what has its name later (`_clear_state`, `unlink`). A WAV of the reader is a
pair of reading and part; one helper makes it, another removes it.

## What the runs check

| Run | Properties | Bounds |
|---|---|---|
| `ScheduleOnce` | `UnitFolderMatches`, `NeverSentTwice`, `RunsWithinLimit`, `StaleJobNeverFinishes` | one schedule, two helper processes, 3 commands, a limit of one run, history of one, time to 2, failing `systemctl` (a job's once), one job dies, the clock goes back once |
| `ScheduleLive` | `FiringHasUnitFile`, `StrayTimerStops`, `DueIsHandled` (liveness) | one helper at a time, 2 commands, time to 4, timings with a limit, with catch-up and switched off, failing `systemctl` (a job's once), one helper dies |
| `Calendar` | `TimesRight`, `KeepsTimes`, `Warned`, `AsPreviewed` | February and March 2026 with a skipped hour, fifteen rules, drafts of up to two, four pairs of dates, two instants of now, two changes besides the texts; seventy old entries, finished if they need review |
| `Prompts` | `SameAsWidget`, `KeyGuarded`, `AgentsHeard` | 3,168 settings of a chat and its project, two runs, two faults, two permission requests, two redirects |
| `Store` | `RestartShowsRuns`, `ListIntact`, `RunKept`, `DamagedFileStays` | three chats; a message, a crash, a logout, an Undo, two damaged files, a lost index, three edits; or a message, a run, a crash, a logout, an edit and a dying job; or the same with an Undo and two edits |
| `DeliverLive` | `MergedAgree`, `RunArrives` (liveness) | two chats, two runs, a message, one change of the list |
| `Requests` | `StopReaches`, `AskedIsPending`, `QueuedStays`, `OwnChat` | three chats and one of four mixtures: three messages with a question, a failure and moves; rewrites, edits and settings; deletes, Undo and a rebuilt list; a question in a chat cleared and brought back |
| `Pi` | `OnePrompt`, `OnlyIdleRetired`, `AttemptEnds` (liveness) | an attempt of the widget and one of a job, two Pi processes, two settings, one turn out of turn |
| `Memories` | `FileKept`, `Settled`, `Implements` (refinement) | a widget and its settings page, one chat, two texts, three ids, room for two memories, three commands, one fault |
| `Asks` | `RequestKept`, `SentAsAsked`, `RequestApplied` (liveness) | two widgets with a helper each, the user at one of them, two requests of three kinds, one tick of the send timer; one of a killed helper, the end of plasmashell and a request of yesterday, or two steps of the user |
| `Runner` | `CallersServed`, `QuestionAsTyped`, `FilesAgree` | two calls of six kinds, two ways the socket splits, two syncs, one foreign file or update, one failure or kill |
| `Voice` | `GivenBack`, `TextTrue`, `RecorderObeys`, `ReadAloud` | up to two dictations or readings and two clicks, a task of another program, one fault; two dictations to a recorder, a stop, two troubles; two texts of one or three parts, two mishaps |

These properties need two of each racing thing to fail: two messages in a queue,
two writers of a file, two helper processes, a request and its replacement. The
bounds give each run those and about one event of every other kind: the code has
no threshold beyond two except the ones set as constants (`MaxMemories`,
`HistoryLimit`, `MaxMessage`, three failed looks of `_wait_spoken`), and those are
set so that they are met. The mutants listed in `PROJECT.json`, one for each
property, fail under the same bounds.
Symmetry is used over sets whose members no definition tells apart – helper
processes, chats, ids and texts of memories, dictations – and in no run with a
liveness property (in `Store` and `Memories` the one PROPERTY is safety). Three chats
in `Store`, not two: a start that finds no index needs an id that nothing has had.
`CHECK_DEADLOCK FALSE` is in every configuration but `Calendar`'s: with the bounds
used up, an idle widget with nothing scheduled rightly has nothing left to do.

History variables excuse what the code is known to do and the properties are not
about: `undone` and `kept` in `ChatStore` (a chat Undo brought back while its file
was damaged or about to be deleted, or that a rebuilt list brought back then; the chats listed before index.ini was lost),
`discarded` in `ScheduleDelivery` (runs whose chat was not in the list),
`w.cut` and `w.returned` in `ChatRequests`, `excused` in `Memory` (a command that
was killed or refused, or a stamp that came twice) and `forgotten` (without what a
second delete of a chat has displaced, `replaced` in `Answered`), `left` in `FileSpeech`, `alone`
in `Recorder`, `lost` and `missed` in `AskInbox` (what a fault has taken, what waited when a
helper was killed and is asked for only when the folder changes again). Each of these cases is in the next table.

### Stated, and broken by the code

Some promises one would make of this code it does not keep. Those with a name are
definitions of the modules that TLC refutes in a few steps.

| What | How the code breaks it |
|---|---|
| `StartupArmsTimers` (`ScheduleJob`) | after a job stopped the timer and the limit was raised, nothing arms it again at startup (`schedule_units.py:100`) |
| `DeletedLeavesNoRunState` (`ScheduleJob`) | a job running when its schedule is deleted saves its run state afterwards (`schedule_job.py:68-72`) |
| `FiringHasUnitFile` with two helpers | a save waits for the lock while another helper deletes the same schedule, and syncs before that one removes the run state: the schedule is back, still finished, without a timer (`schedule_store.py:196-198`) |
| `BackupStandsIn` (`ChatStore`) | a missing or empty `index.ini` reads as the empty list, and its intact backup is not used (`ChatStore.qml:188`) |
| `UndoneChatHasFile` (`ChatStore`) | the helper of a delete removes the file that Undo and a flush have written meanwhile (`ChatStore.qml:329`) |
| a rebuilt list has its files | a list rebuilt while a delete helper has yet to run lists the chat whose file then goes (`ChatStore.qml:329`); a chat Undo brought back whose file the helper took is missing from it |
| `PartialReplyStays` (`ChatStore`) | the partial reply is only in the list given to one save; any other save replaces it (`PartialSave.qml:31-35`) |
| a damaged chat brought back | the chat stays in `damagedIds` after its file is deleted, so Undo puts it in the list and nothing of it is saved (`ChatStore.qml:302`) |
| `DeletedChatHasNoFile` (`ScheduleDelivery`) | a job writes the file of a chat deleted since it looked it up (`schedule_chat.py:146`) |
| a saved message stays | a job writes back the messages it read before a save of the widget, which ends before it merges the run (`schedule_chat.py:146`) |
| two runs for one chat (`RunStays` without `OnlyRun`) | a job writes back what it read before the widget saved the merge of an earlier run, whose inbox file then goes; if the widget dies before it merges the second, the first is in no file (`schedule_chat.py:146`; the two steps "together can't lose anything", `schedule_chat.py:8-9`) |
| `RunNeverLost` (`ScheduleDelivery`) | a scan before the chats are loaded discards a run (`main.qml:201`) |
| a discarded run is gone | a run whose chat is deleted when the inbox is read is discarded, and Undo brings back a chat whose file still holds it: memory shows the chat without the run until a restart shows it again (`ScheduleInbox.qml:66`; `ShownAgain`) |
| `BegunUnsent` (`AskInbox`) | a user who sends a request themself while the timer waits, and types: the timer sends what is typed, since only another chat, or 30 seconds, ends it (`AskInbox.qml:126`) |
| `QueueDrained` (`ChatRequests`) | the chat opened after a delete keeps its queued message (`Sessions.qml:364`); saving an edit that sends nothing stops the reply that the queue waits for (`MessageEdits.qml:43`) |
| `SentInOrder` (`ChatRequests`) | Retry takes the last queued message before the error for the failed one (`MessageEdits.qml:71`) |
| `EditsThePicked` (`ChatRequests`) | the message under edit is an index, and a queued message moves when it is sent (`SendController.qml:245`) |
| a request cut off (`w.cut`) | a rebuilt list, or an Undo of a chat that is open, changes the open chat without ending its request: loading until Stop, or queued messages gone (`HistoryRecovery.qml:27`, `UndoNotice.qml:61`) |
| a card brought back (`w.returned`) | Undo after Clear and Stop brings back an open question that nobody waits for (`UndoNotice.qml:67-72`); answering it dismisses it (`DirectToolRounds.qml:109-115`) |
| memories come back with their chat (`Memory.qml:21-22`) | a chat deleted, undone before the answer and deleted again: the second answer replaces what the first has left for Undo (`Memory.qml:190`), and a memory made in between is all that comes back |
| `NoOrphan` (`PiBridge`) | `close` looks up and removes in two sections of the lock: a Pi started between them belongs to nobody. For the same reason a chat may have two Pi processes while one is stopped, and the exit of an older one can end a newer prompt's stream |
| `ChatKeepsSession` (`ScheduledPrompt`) | a session that OpenCode has forgotten is never replaced in the chat: each run makes a new one |
| files need Enter | files are never sent without Enter (`ask_inbox.py:147`), but a later request with a text and no file is sent by the timer together with what an earlier one has attached (`AskInbox.qml:109`) |
| a request is taken | a helper killed while it takes a request leaves `.taking-*` for good; when a helper is killed nothing asks for another until the folder changes, and a widget whose first one was killed has not learnt the folder and never watches it (`AskInbox.qml:50-59`, `Unheard`) |
| a dictation ends when the service went away | a keepalive without an answer is ignored (`SpeechNoteDictation.qml:122-127`) |
| a pause holds | a pause in the gap between two parts is lost when the next part starts (`FileSpeech.qml:53`, `ReadAloud.qml:120`) |
| no WAV stays | an error of the disk that is not caught, an unloaded reader and a killed helper leave one (`left`) |
| a dictation can be stopped | two begun at the same moment write one state file: one cannot be stopped (`alone`); one that ends reads the state file and removes the path afterwards, so it may remove the file of another that has begun in between, which then cannot be stopped (`stt_record.py:80-83`; the two steps `_clear_state` and `unlink`); a stop before the file is written finds nothing |
| a time that does not exist is warned of | the warning is for 02:00 to 02:59 only; where the clocks skip another hour (London's 01:00, midnight in Chile and on the Azores) the editor says nothing, and the timer and the job skip the time all the same (`schedule_text.py:96`) |
| a timer stops when its schedule is over | the exit code of the job's `systemctl disable` is not looked at: after a failure the timer wakes the job again, which then tries anew (`schedule_job.py:73-74`, `schedule_units.py:111-113`) |
| a delivered run arrives | a run for the open chat waits as long as that is loading: for good, with a question nobody answers or a request without a time limit (`ScheduleInbox.qml:69`, `Later`) |
| at most every 15 minutes | an every-46-to-59-minutes rule starts anew each hour, so gaps across the hour are shorter (`schedule_model.py:138-139`) |
| a bad old entry alone is dropped | a negative `limitCount` makes the whole migration raise, on both tries (`schedule_migrate.py:134-142`) |
| a killed migration is harmless | the next one takes a single entry that had run for one that has not (`schedule_store.py:75`, `schedule_rules.py:138`) |
| a schedule that was accepted can be saved again | with a once rule that is past, or a cron line for no day, systemd-analyze refuses it |

Less grave ones of the same kind: same-second changes of `memory.json` of the same
size are not seen; a memory restore is refused when the list is full; OpenCode is
not told to abort when a run's time is up, and a user's own prompt in the session of
a run gets its permissions refused; an uncaught `HTTPException` kills the job; a
wallet locked between two calls makes kwalletd ask for the password.

### Fairness

- `FairSpec` of `ScheduleJob`: time passes; systemd starts a due job and a running
  job goes on (weak fairness); a helper process that waits for the file lock gets
  it in the end (strong fairness: `flock` is held for the moments of another
  command only). The user's commands are not fair.
- `FairDelivery`: the widget's timers and a started helper go on (weak fairness).
  The watcher's event is strongly fair, because a flush or a handler that comes
  first only delays it: it stays in the event loop's queue. The end of a reply is
  not fair: a question waits for the user, and a request may have no time limit.
- `FairSpec` of `PiBridge`: the threads of the bridge and of the attempts run, the
  timers fire, and a Pi that has started on a prompt goes on; all weak. A Pi that is
  silent, a user who stops or answers are not fair: `AttemptEnds` holds by the
  watchdog.
- `FairSpec` of `AskInbox`: while a helper or a widget has something to do, one of
  them goes on; weak, and not for each of them: none has work without end.
- The other specifications are for safety only and assume none. Nothing ends a
  request that never answers when no time limit is set, so there is no liveness
  of `ChatRequests`.

## What is proved

Each theorem is of the module's own specification, for any sets and any bounds; the
assumptions on constants are the modules' own, which TLC evaluates on the instances.

### `ScheduleJobProofs`

- `SpecTypeOK`, with `SpecLockedOK`: `TypeOK`, and that only the holder of the
  store lock is in its critical section and its snapshot is of present, enabled
  definitions. The two are inductive together: the types of the files written
  depend on the snapshot being taken under the lock.
- `SpecNeverSentTwice`: no occurrence's prompt is started twice. The invariant
  added is `SentHandled`: every occurrence in `sent` is at or before the recorded
  `lastScheduledFor`, because `JobRun` records before the prompt starts. It does
  not mention the clock, which may go back, nor the job's death.
- `SpecStaleJobNeverFinishes`: a job that woke before the last timing edit does
  not close the schedule; from what `check_finished` may write and `editedAt`.
- `SpecUnitFolderMatches`: timer files are those of the present definitions
  whenever no command is at work, under the assumption `CmdCrashes = 0` (a helper
  that dies between writing `store` and the files leaves them apart until the next
  sync, as `StrayTimerStops` says). The invariant `FilesInv` adds that the files
  already agree in the holder's `systemctl` step.

- `SpecRunsWithinLimit`: no schedule runs more often than its limit. `Counted` says
  that each prompt started and not lost is counted in the run state or its job is still
  at work; a job decides by that count under the lock.
- `SpecFiringHasUnitFile`: a schedule that can still fire has its timer file.
  `FiringInv` says where the helper is between changing the store and writing the
  files: what can fire is among what its snapshot found, what it does not write it
  deletes, and a job never opens a finished schedule again. It assumes one helper at a
  time, and claims nothing once the clock went back or a helper died.

The assumptions are `JobAssumption` and `RulesAssumption`. Lemmas about
`ScheduleRules` (`TrimType`, `ApplyType`, `FinishRunType`, `CheckFinishedType`…)
state what its operators return for every argument.

### `ScheduleDeliveryProofs`

`SpecListIntact`, `SpecDamagedFileStays`, `DeliveryTyped`: of the composed
`DeliverySpec`, so with jobs that write into the same files. The invariant:

- `Doomed`: what a delete helper is about to remove is in no list (on the screen, in
  `_written`, in the index or its backup, in `kept`), and what is in one has a file,
  but for chats in `undone` and those a flush at work has yet to write.
- `KeptStays`: what was saved is in each list a start may read, and on the screen.
- `Flushed`: what each stage of a flush may rely on. A list equal to the one written
  last leaves nothing to delete; before the helper is told, index and backup both have
  the new list. This order (files, index, backup, delete) is what `Doomed` needs.
- `BadIsDamaged`: the widget knows which of its chats cannot be read, Undo's included.
- `Fresh`: an id not given out is nowhere, so a new chat has no old file.
- `Running`: a widget that is not on holds nothing. `Locked`: a job that writes holds
  the lock and read a good file; damage comes only while no job holds it.

The three kinds of steps that leave all this alone are one lemma (`SameKeeps`).
Looking for this proof showed two gaps of the model, now closed: with two chats a start
with an unreadable index had no fresh id and stopped there, and with that fixed the
rebuilt list's case in the table above appeared.
`Only`, the recursive function by which inbox files are picked, is shown to return a
sequence of what it picks from (`OnlyTyped`) by way of the least number for which it
would not: the general principle of induction needs an operator as parameter, this
needs none. Assumption: `StoreAssumption` (the marks for no file and for an unreadable
one are no content, no list, no chat and no stage of a flush, and messages of different
kinds are told apart).

`SpecRestartShowsRuns`: what was saved is what a restart shows. `RestartShowsRuns` speaks
of moments at which nothing is left to do, so its invariant `RInv`, inductive together
with the one above, says for every moment what is still on its way:

- `FilesExplained`: a chat's file shows what the widget wrote last (`Agrees`), or the
  flush at work has yet to write it, or the next one will because a run was merged
  (`Rewrites`), or a job put a run there that is on its way to the widget, or was
  discarded (`Differs`);
- `ChatsSaved`: what the user sees of a chat is what was written last (`Clean`), or a
  save of it is held, waiting with a hint that names it or without any, or will follow
  the reply that streams (`Marked`);
- `IndexSaved`: the index lists what is shown, or a save waits, or the flush has yet to
  write it.

`Grows` and `RunsKnown` carry this over the steps of the jobs: a run that was written
from memory stays in memory, and one that no job has written yet is nowhere. So a job that appends
to a file makes the file differ by its own run, and a merge makes the next flush
rewrite it. `InboxRight` says that each inbox file handled belongs to a job that is done
and is removed once; `BlockedBare` that with an unreadable index the chats shown have
no files, which is why a rebuilt list takes nothing away; `Whole` that a partial reply is never in
memory. Each handler of the user is an instance of `Edited`, and what leaves memory
alone is framed by `MemoryStays`.

`SpecRunKept`: a run that was delivered is in the inbox or in its chat's file at every
moment, and never twice in a chat. Its invariant `KInv`, inductive together with
the two above, follows a run from the job's write to the removal of its inbox file, for a
run whose job is the only one to have been for its chat:

- `MergeWritten`: a run in memory is in what the widget wrote, or the flush that `scan`
  asked for is next, and that writes every chat (`FlushesAll`);
- `WrittenStays`: what was written is in the file, or the flush has yet to write it;
- `SettledHeld`: once the inbox may lose the run (merged, and a helper of this or an
  earlier widget was told), memory and the file have it – `RemovedLater` holds the
  helper back until the flush that writes the run is over;
- `UnwrittenBare`: a chat that this widget has never written has no file of its own that
  lacks the run, so a restart between two steps loses nothing.

`OnceInv` says that no content anywhere – file, written, memory, Undo, what a job has
read – has a run at two places: the job and `scan` both look before they append.

`SpecMergedAgree`: with nothing left to save or to merge, memory and disk agree, and
every run is in its chat. It assumes `Undisturbed`: no crash, no quit, no Undo and no
job that dies. Each of these can break it: a start may scan before the chats are loaded
and discard a run, Undo may bring back a chat whose run was discarded, and a job that
dies after its write leaves a run in the file that no inbox file tells of. (Files are
damaged only while the widget is down, so not here.) The invariant `Calm` says what is
true for want of them (`GoneForGood`: the chat of a discarded run stays deleted;
`Begins`: before the first load there is nothing to load; `Reached`: a run that is done
is in memory, or its inbox file is still to be looked at) and the rest is `RInv`'s: with
no save waiting, `ChatsSaved` and `FilesExplained` leave only agreement.

### `ScheduledPromptProofs`

- `SpecSameAsWidget`: the job takes the provider, model and mode that the widget would
  take; `EffectiveIsTable` says so of `effective` for every chat, project and settings.
- `SpecKeyGuarded`: the wallet's handle is closed and the key sent to one origin only.
  Inductive as it stands: each of the wallet's calls either closes or leaves the handle
  with the step that will.
- `SpecAgentsHeard`: only the run's own permission requests are refused, and while the
  run waits for its agent, what that asks is on its way to an answer unless the event was
  missed. `Trying` and `Ours` say which session is the attempt's,
  `Asking` that a request that waits has a watcher or a run that will see it.
- `PromptTyped`. Assumption: `PromptAssumption`.

### `ChatRequestsProofs`

The four properties of the run are parts of one invariant, because each handler
needs the others' facts. `IInv` has these parts:

- `Sound(w, P)` for some set `P` of ids, those of the user's own messages. `Good` says
  what may stand in the list of a chat: written for that chat, with an id given out,
  a prompt exactly if its id is in `P`, an open card only as the pending question of
  the open chat. `Held` says the same of what Undo keeps, where Clear may leave an
  open card. The quantified `P` is the point: replies, errors and cards are placed
  by id, and only because no id of theirs is in `P` can none of them take the place
  of a queued message.
- `Running`: `OneRequest` (of the lookups, streams and questions at most one is the
  current one's, no other has a later generation, a question is open only while
  nothing runs, a reply is written only while loading) and `Live` (a chat that is
  loading waits for something that will answer, unless it was cut off).
- `Backed`: queued messages of the open chat are in the saved list as well, which is
  why a switch does not lose them.
- `Waits`: every message in `waiting` is in a chat or in what Undo would bring back.

`Edited`, `Rested`, `Onward` and `Carries` say how the shared handlers (a save, a
stop, the next queued message, a list rewritten by id) carry these parts over; each
action is then one lemma. Results: `RequestsTyped`, `SpecOwnChat`,
`SpecStopReaches`, `SpecAskedIsPending`, `SpecQueuedStays`. Assumption:
`RequestsAssumption` (`None` is no chat and no number).

### `PiBridgeProofs`

`SpecOnePrompt`, `SpecOnlyIdleRetired`, `BridgeTyped`. `OnePrompt` alone is not
inductive: whether a second prompt may be sent is decided by `running`, which the
reader clears when it reads an end that Pi told earlier. `UnderWay` ties the two
together: a Pi that is not running has told everything (no start, no end waits in
its output), one with a prompt under way has told no end, no start follows an end,
and at most one thread is about to write. `Unborn` keeps threads from Pi processes
that were never started, `Attempt` says in which phases a client's threads hold one.
The lemma `Calm` frames the steps that touch neither a Pi's run nor the threads that
write to it, so that each remaining action has to show only what it disturbs.

### `MemoryProofs`

`OneList`: `Memory` implements `MemoryList`, so each command of any number of widgets
and settings pages is one change of the list, and an unreadable file is never
written over. `NoneTwice`: no memory is there twice. The invariant is `InHand`: a
helper that is about to save holds the lock and has read the file as it still is; a
helper's death releases the lock and leaves the file. `MemoryTyped` is the types.

`SpecSettled`: once nothing is under way, the widget shows the file, and a chat that
came back has its memories. "Nothing is under way" says nothing of the steps before, so
the invariant says where things are at every moment, as long as no command has failed
(`Well`, and `Excused`: a failed one is excused):

- `Shown`: the widget's list is the file's, or a list of it is still to come: from the
  watcher, the queue, the helper or its answer;
- `Gone`: a forgotten memory is `Pending` – kept for Undo, in the answer to `_forget`, or
  in a batch that is queued or with the helper – and nothing like it is in the file
  (`Absent`). The second half is needed for the first: a batch skips what the file
  has, and only because that is not the forgotten memory does the batch bring it back;
- `OnlyWidget`: other stores delete no chat's memories, and their saves leave a stamp.

### `VoiceProofs`

`SpecGivenBack`, `SpecTextTrue`, `SpecRecorderObeys`, `SpecReadAloud`, each for the
composed `Voice`: its invariant has one part per engine, a step of an engine keeps its
part and frames the others.

- Recorder: `Numbers` says whose process number is whose, also in the state file and
  in a stop that has read it; `MarkedIsDropped` that a dictation once marked has its
  mark until it is over; `AloneRules` that no other begins while one that began alone is
  recorded, so the state file is still its own, and `NoneRemoves` that none is between
  reading and removing it then: one that reads it later finds a number that is not its
  own. `SpecRecorderObeys` claims nothing of a dictation that wrote its state while
  another was between the two (see the table above).
- File reader: `Course` ties the parts told, playing, ready and asked for to one row of
  numbers with at most one ahead; `Makers` says that a helper works on no other part
  unless for a reading that is over, so an answer is either awaited or stale.
- Speech Note: `OwnText` is kept always. The rest is `NoFaultYet => WhileWell`, where
  `Tasks` says each task was begun by one command, `Turns` that each command goes with
  its phase, `OverIsOver` that an answer "it is over" came when it was, `Cared` that
  what the service does for the widget somebody will end (a reply on its way, the
  widget's task, the stop at work, or an order on the bus), and `Heard` that a text sent
  for the stop is in its monitor. A step that fails ends the claim.

Assumptions: `SpeechNoteAssumption`, `RecorderAssumption`, `FileSpeechAssumption`
(bounds are numbers, process numbers suffice for the dictations, texts have parts).

### `AskInboxProofs`

`SpecRequestKept`, `SpecSentAsAsked`, `AsksTyped` (of `TypeOK` and `StirOK`). One handler of the widget may put
several requests into boxes, so the invariant `Kept` is of widgets, chats, helpers and
messages given as arguments: `OnwardKeeps` says that one `_next` keeps it, `HandledIn` that
what each step keeps the whole row keeps (by the least step for which it would not, as
for `Only` above), and `GoesKeeps` combines the two for the handlers that end so.

- `Claimed`: a claimed file is with one helper – the rename decides – and is claimed still.
- `Queueing`: a request that was read and is in no box waits in one place, once: in the
  answer of one helper or in one queue.
- `Placed`: it is put into one box; what is in a box is in no message and no other box.
- `Somewhere`: what no fault has taken is with a helper, in a queue or was put into a box,
  and its text is then in a box or in a message.
- `Sending`: while the timer runs, the request it runs for begins what is in the box and
  was put there in the chat to which it is to be sent; or the user has sent it. The user
  may go elsewhere and come back in between, and send other things there, which is why
  `SentAsAsked` speaks of the chat of the request and not of that of the user's message.

`FilesMove` and `SameWidgets` frame the steps that only write, age or watch requests. The
assumption is `AskAssumption` (numbers, the shape of a request, the user at widgets there are, and chats
that are no numbers). Looking for this proof showed that an old request read by a helper was told
from others by what had been lost, not by its age; the model now keeps the age with the file.

### Model-checked only

- `ScheduleJob`: `StrayTimerStops`, `DueIsHandled`.
- `ScheduleDelivery`: `RunArrives`.
- `ScheduleEditor`, `RunnerService`, `DesktopIntegration`: everything.
- `AskInbox`: `RequestApplied`; `PiBridge`: `AttemptEnds`.

Out of reach of the provers: liveness under fairness, `ENABLED`, and what a recursive
definition computes for every input (but for a property of `Only`, see above). `DBusWire` declares the recursive operator `put`
(the encoding nests to any depth), so that nothing that extends it – `RunnerService`
and `DesktopIntegration` – can hold a theorem.

## Not modelled, and what is next

Image services (planned: the polling job and its cancellation), wallet and
migrations of keys, names, projects and incognito chats are not modelled, nor are
the widget's side of OpenCode, old histories' migration, recall's ranking, and the
D-Bus start of Speech Note. Left out for good: views and settings pages (no state of
their own beyond what is drawn), diagnostics and storage reports, the shapes of
provider requests, text extraction, translation and styles. These are data
conversions or reports that tests with examples reach well.

Abstractions a reader should know of: a helper that dies is in `ScheduleLive`, not in
`ScheduleOnce` (`CmdCrashes = 0`, as `UnitFolderMatches` needs); the one table of modes and
providers that `SameAsWidget` compares with shares the reading of a chat's own settings;
closing the wallet counts as closed also when the call fails; a chat file is whole,
damaged or absent, and never reads as the empty text; the engine of `Voice` is the one it
started with, so changing the setting while a start is pending is left out, and so are
two dictations that write the state file's temporary copy at once; a lock that spans one step is the step; two
`sync` helpers of `DesktopIntegration` do not run at once; in `Voice`, process numbers
grow and do not come round in the moment between a look and a signal; the monitor of
Speech Note that is late counts as a fault; `ensure_bridge` is one step; an empty
message is never sent.

## Running

    tlc -config Requests.cfg MCChatRequests
    tlapm ChatRequestsProofs.tla

The `MC…` module and configuration of every run are in `PROJECT.json`. Each run takes
less than four minutes with two workers. Proofs from nothing take seven and a half
minutes (`VoiceProofs`) or less.
