# The subtitler, specified

The subtitler is a Raspberry Pi program that captures HDMI, draws subtitles over
the picture, and shows it again. It is one C++ process: a GStreamer capture
pipeline, a GStreamer output pipeline, frame buffers between them, an optional
whisper "tap" that transcribes the captured sound, and a small web server.

This directory holds TLA+ modules that model its concurrent core, TLC
configurations that check them on small instances, and proofs checked by TLAPS.
Line numbers refer to the files under `src/` of the repository; where no file is
named they are lines of `src/src/stream/stream.cpp`.

Contents

1. The system: components, state, operations, interactions
2. The modules and how they correspond to the code
3. The runs: what each checks, its bounds and its fairness
4. The proofs
5. Disagreements between the code and its documents
6. What is not modelled, and the plan

## 1. The system

### Threads

| thread | code | what it does |
|---|---|---|
| main | `main.cpp` 729-747 | loops: `Failed()`, `Poll()`, sleep 50 ms; then `Stop()`, exit code |
| io | the GLib main context of `web_server.cpp` | serves HTTP, runs one hook at a time (`main.cpp` 504-606) |
| capture video / audio | `RunCapture` 951, `RunAudioCapture` 1000 | pull samples, push them into a frame buffer |
| whisper | `RunWhisper` 1051 | pulls 16 kHz sound, infers for seconds, feeds the sync session |
| screensaver | `RunScreensaver` 1990 | pushes no-signal frames once the capture is gone |
| output video / audio | `RunOutput` 1413, `RunAudioOutput` 1473 | pop a frame buffer, push into an appsrc |
| preview | `RunPreview` 1528 | turns preview samples into MJPEG frames |

Three mutexes of `Stream::Implementation` order them: `mutex_`, then `whisper_mutex_`,
then `sync_mutex_`. The first two are held across blocking work (a pipeline
rebuild, a model load, a join of threads); the last one never is. Four flags are
atomic: `capture_active_`, `capture_failed_`, `output_failed_` and
`sync_generation_`.

### Components

**Subtitle sync and whisper tap** (`stream.cpp`, `sync/sync_session.cpp`,
`stream/whisper_demand.h`, `stream/whisper_transcriber.cpp`).
*State*: the demand for the tap (an explicit, continuous one and a session's),
the transcriber and its model path, the session with its deadline and its
windows, a generation counter, the public state, and a theta that waits to be
applied. *Operations*: start a session, cancel it by a seek or a file switch,
enable, disable or change whisper, feed a window, expire, apply a lock, tear the
capture down. *Interactions*: all three threads above use it; the whisper thread
samples generation and transcriber without `sync_mutex_`, infers for seconds,
and rechecks. *Hard*: stale evidence, check-then-act between two sections under
`sync_mutex_`, a lock that is flagged by one thread and applied by another, a join
under `mutex_` of a thread that must not need `mutex_`. *Correct when*: whoever
wants the tap has it and nobody else pays for it; the last user action wins; a
lock rests on evidence of its own session only; every session ends.

**Frame buffers, feeders** (`stream/frame_buffer.cpp`, `RunCapture`,
`RunScreensaver`, `RunOutput` and the audio twins).
*State*: a bounded queue of the latest frames, a closed flag, a generation that a
flush advances. *Operations*: `PushLatest`, `Pop` with a stop token, `Flush`,
`Close`; a restart of either side. *Hard*: a flush between a pop and the read of
the generation; a stop while a feeder waits; a pipeline taken to NULL under a
feeder. *Correct when*: memory is bounded, only the oldest frames are lost, time
never runs back, no frame of the capture shows up inside the no-signal screen, a
teardown is not a failure, and every join returns.

**Capture lifecycle and failure policy** (`Poll` 2111, `StopCapturePipeline`
2034, `Stop` 2102, `Failed` 670, `stream/bus.cpp`, the loop of `main.cpp`).
*State*: the state of the capture (capturing, stopped, screensaver), three
flags, the messages on two buses. *Operations*: a poll drains the buses and then
reads the flags one after the other; it goes on, falls back to the no-signal
screen, or fails. *Hard*: every read races the threads that write. *Correct
when*: a lost signal becomes the no-signal screen, a dead device ends the
process, a teardown is never reported as a failure, and no lost capture goes
unnoticed.

**SRT clock** (`SetSubtitleTime` 1809, `SetSubtitleDelay` 1780,
`SetSubtitlesPaused` 1842, `ReparseSubtitles` 1586, `ApplySubtitleTimeLocked`
1824). *State*: the anchor of the subtitle file in the shared running time, a
trim, a frozen position while paused, the offset of the parser and of the cues it
has emitted, the overlay's silent flag. *Hard*: a file switch resets all of it
before it knows whether it will succeed; arithmetic that accumulates. *Correct
when*: any sequence of seeks, trims, pauses, locks and failed switches leaves one
position, and the overlay shows that position.

**Output switch and file replacement** (`SetSubtitleFile` 1600,
`StartOutputLocked` 1227, `utils/file_replacement.h`). *State*: the running output,
the candidate, a staging directory with the new file and a copy of the one it
replaces. *Operations*: stage, install, check, build, tear down, start, commit; and
back. *Hard*: each step may fail, the way back has steps that fail, and the file on
screen may be the one that is replaced. *Correct when*: the switch is
all-or-nothing, a failure keeps the old bytes and the old output, or says that it
could not.

**Library, active marker, configuration** (`utils/paths.h`,
`config/config.cpp`, hooks and start-up in `main.cpp`). *State*: `subtitles/` with
one file per title in a bucket directory (flat files are an older layout),
`active` with the entry to resume, `config.ini`, and a copy of its keys in memory.
Each is written to a temporary file and renamed. *Operations*: upload, select, detach,
delete, trim, boot. *Hard*: one request writes up to three files with a switch of
the output between them, and a crash or a failed write may come anywhere. *Correct
when*: a boot resumes what the last reply promised, and no acknowledged bytes are lost.

**Preview** (`utils/preview_frame.h`, `web/preview_routes.cpp`) and **transcript
stream** (`web/transcript_routes.cpp`), with the start and the end of the **web
server** (`web/web_server.cpp`). *State*: the newest frame, a watcher thread,
deliveries queued on the io thread's context, at most four clients of either route, each
with a chunk in flight and what waits behind it, and the gate of the encoder.
*Operations*: store and publish, deliver, connect, a chunk written, a client gone, stop.
*Hard*: a delivery is older than what a client already got; a socket stalls; the server
goes down under connected clients. *Correct when*: frames only advance and the newest one
wins, events keep their order, memory is bounded, nobody encodes for nobody, and the stop
leaves nothing behind.

**Streaming uploads and model store** (`web/upload_stream.cpp`, `web/whisper_routes.cpp`,
`subtitle_routes.cpp` 69-172, hooks 500-591 of `main.cpp`). *State*: a count of uploads in
flight (at most four), a staged file per upload with its counters and flags, the models in
`models/`, the model the tap runs or reports, the `[whisper]` keys in memory and in
`config.ini`. *Operations*: take a slot and stage, a chunk, complete, install, give back;
select, enable, disable, start a session with a model, remove a model, boot. *Hard*: every
step may fail and each has its own way back; uploads of one name overlap; a session changes
what is selected without persisting it. *Correct when*: slots and staged files are given back,
what is stored is whole, and a selection names a stored model.

**Cue style** (`stream.cpp` 727-742 and 1868-1967, `subtitle_routes.cpp` 264-364, `main.cpp`
59-77 and 606-688). *State*: family, size, colour and visibility in `Stream`, in the
configuration and on disk; the properties of the overlay's renderer. *Operations*: a patch, a
switch that re-applies the style, a renderer that is plugged, a save, a boot. *Hard*: a
streaming thread of the output applies the style without the mutex that the setters hold, while
they wait for the output. *Correct when*: the style that is reported is shown and kept, and
nobody waits for ever.

The other **HTTP routes** parse requests, format replies and keep no state.

**Sync matcher** (`sync/sync_matcher.cpp`), called by `SyncSession::Feed`. *State*: none of its
own; the session keeps the windows. *Operation*: each window votes for an offset by the word
trigrams it shares with the subtitles, weighed by their rarity; enough votes that agree are a
lock. *Hard*: phrases repeat and overlap themselves, words are misheard or made up, timestamps
are off. *Correct when*: it fails rather than locks wrong.

**SRT parsing** (`sync/srt_cues.cpp`), called by a file switch and a session. Text to cues,
without state. *Hard*: files are damaged. *Correct when*: a bad block costs no other cue.

**Probe, syncbench, logging, front-end, packaging**. Command-line tools, assets
and scripts without shared state.

`PROJECT.json` lists each component with its sources and status, and every hazard
found in the code with its line and the properties that cover it.

## 2. The modules

```
SyncContract              what a session promises its user
  ^ refined by
SubtitleSync              the three threads of the tap and the session
  ^ extended by             MCSubtitleSync (TLC), SubtitleSyncProofs (TLAPS)
SyncFeed                  when a session asks the matcher
  ^ extended by             SubtitleSync, SyncMatcher
FrameFlow                 producer, frame buffer, output thread, holder of mutex_
  ^ extended by             FrameFlowProofs (TLAPS)
CaptureLifecycle          capture threads, buses, Poll, main's loop, a hook
  ^ extended by             MCCaptureLifecycle (TLC), CaptureLifecycleProofs (TLAPS)
ClockContract             the position a user sees
  ^ refined by
SubtitleClock             anchor, trim, pause, parser offset, the file switch
  ^ extended by             MCSubtitleClock (TLC), SubtitleClockProofs (TLAPS)
Library                   files, marker, config.ini; hooks, switch, crashes, boot
  ^ extended by             MCLibrary (TLC), LibraryProofs (TLAPS)
WebStreams                preview and transcript clients, watcher, io thread, stop
  ^ extended by             WebStreamsProofs (TLAPS)
StoreContract             what an upload promises
  ^ refined by
ModelStore                uploads, staged files, models, selection, sessions, crashes
  ^ extended by             MCModelStore (TLC), ModelStoreProofs (TLAPS)
CueStyle                  style from a patch to the renderer and to the next boot
  ^ extended by             MCCueStyle (TLC), CueStyleProofs (TLAPS)
SrtCues                   lines to blocks to cues (operators)
  ^ extended by
SyncMatcher               from a file and words to votes to a lock
  ^ extended by             MCSyncMatcher (TLC), SubtitleSyncProofs (TLAPS)
```

The detailed modules overlap on purpose. Each models `Poll` as far as its
own state is concerned and abstracts the rest to the outcomes it can have; the
sections below name these choices.

Conventions. A section under `sync_mutex_` neither blocks nor calls out, and is
one step. A section under `mutex_` or `whisper_mutex_` that blocks is several
steps, and the mutex is a variable with its holder. A read of an atomic flag or of a
shared pointer outside a lock is a step of its own. A definition named `X_Word`
is a fault: a plausible bug in definition `X`. No specification uses them; each
is listed under "mutants" in `PROJECT.json` together with the property that
notices it.

### SubtitleSync

| model | code |
|---|---|
| `mutex`, `whisperMutex` | who holds `mutex_`, `whisper_mutex_` |
| `mainPc`: loop, poll, join, drop, sync, tidy, stop, done | before `Failed()`, before `Poll`, joining in `StopCapturePipeline`, before its `ReleaseUnusedWhisper`, before Poll's section under `sync_mutex_`, before the release at Poll's end, before `Stop`, after it |
| `ioPc`: idle, rebuild, model, commit, apply | no hook; `SetSubtitleFile` in `StartOutputLocked`; `StartSubtitleSync` before `whisper_mutex_`; before its section under `sync_mutex_`; `SetWhisperState` before its second section |
| `whisperPc`: loop, sampled, tagged, push, feed, off | the statements of `RunWhisper` between which others may run |
| `seenGeneration`, `seenTranscriber` | the two locals of `RunWhisper` |
| `sessionCues`, `remaining`, `windows` | `sync_session_`: the file it was started for, deadline minus now, windows fed (counted up to `kMinWindows`) |
| `generation`, `syncStatus`, `pending` | `sync_generation_`, `sync_state_`, `sync_pending_`; the theta is represented by the file it was matched in |
| `transcriber` | `whisper_transcriber_`; the two other things that are always set with it, the enabled flag and the drop gate of the tap, are not repeated |
| `clockSource` | the last mover of the SRT position: output start, user, session |
| `captureHealth` | what the next poll will find of the capture: running, gone, device error |

`starts`, `seenStart` and `userMoved` are history variables: no guard reads them.

Choices. A failed model load and an empty path leave the state alone, so the
model has no action for them except `SyncModelUnavailable`, which gives the mutex
back. Whether an inference yields text is a nondeterministic choice (`Infer`).
Whether the matcher locks is one as well, once `kMinWindows` windows are in (`MayConsult` of
`SyncFeed`); that is what the matcher's interface promises, and its arithmetic is in `SyncMatcher`, which shares
`MayConsult` and leaves open when a window comes. The transcriber's identity is a counter of creations, as pointers compare
in the code. `Tick` moves a session's deadline nearer; a paused picture does not
stop it, as in the code, where the deadline is in the shared running time.

### SyncContract

The session as its user sees it: idle, listening, synced or failed, for one
target file, and a clock that follows the target only after a lock. `SubtitleSync`
implements it under the mapping at the end of that module: a lock that waits for
a poll is the phase "locked".

### FrameFlow

| model | code |
|---|---|
| `frames`, `closed`, `generation` | `FrameBuffer` of `frame_buffer.h`; each of its operations is one step, as it is one critical section |
| `source`, `producerPc`, `made` | `RunCapture` (source 1) or `RunScreensaver` (source 2), and its frame between creation and push |
| `now`, `nextPts` | the shared running time counted in frames; the screensaver's own timestamp |
| `outputPc`, `held`, `seenGeneration`, `discont` | `RunOutput` and its locals; `discont` is the DISCONT flag of the held buffer |
| `outputStop`, `pipelineUp` | the stop token; whether the output pipeline accepts buffers |
| `task`, `taskPc` | the one holder of `mutex_`: a poll that switches to the no-signal screen, a rebuild, `Stop` |

The audio buffer is the same class with the same kind of feeders, without a screensaver
producer; the module stands for either. A condition variable that is notified
under the right predicate is a guard (`PopEnds`).

### CaptureLifecycle

| model | code |
|---|---|
| `threadPc[s]` | one capture thread per stream: running, out of its loop, ended |
| `captureActive`, `captureFailed`, `outputFailed` | the atomic flags |
| `bus`, `eos` | messages on the capture bus, streams whose appsink saw the end (GStreamer, external) |
| `polled` | the health `PollBus` found earlier in this poll |
| `mainPc` | the statements of the loop in `main.cpp`, of `Poll` and of `Stop` between which other threads may run |
| `closed` | the frame buffers are closed: `Stop` has begun |
| `output` | down; up; up, and `RunOutput` or `RunAudioOutput` feeds it (fed) |
| `outputDead` | the output bus holds an error or an end of stream |
| `ioPc` | a `SetSubtitleFile` hook, which may also come after `Stop` |

A feeder whose push is rejected raises `outputFailed` itself, without `mutex_`
(`OutputRejects`); one that finds a closed and empty buffer ends its stream (`FeederEnds`), as that of an
output that is rebuilt after `Stop` soon does. History, which no guard reads: `alarms`, the kinds of
real failure that happened; `verdict`, the flags that were up when main left its loop; `since`, what was flagged and
whether the output was rebuilt between then and the read of the exit code. `ExitIsHonest` relates the
last two to the exit code, which is read off the flags as they are then.

### SubtitleClock

| model | code |
|---|---|
| `now` | `MasterRunningTime()`; time stands still within a step, and between the steps of a switch it does not: `Tick` may come anywhere |
| `path`, `anchor`, `delay`, `visible` | `subtitle_path_` (whether it is set), `subtitle_anchor_`, `subtitle_delay_`, `subtitles_visible_` |
| `paused`, `frozen` | `subtitle_frozen_`: whether it has a value, and the value |
| `branch`, `silent`, `padOffset` | the elements of the subtitle branch exist; the overlay's property; the parser's pad offset |
| `cueOffset` | the pad offset when the cues that wait in the overlay left the parser; GStreamer, as the comment at 1579 describes it |
| `output` | the identity of `output_pipeline_`, which the rollback compares at 1645 |
| `switchPc`, `saved` | the statements of `SetSubtitleFile` and `StartOutputLocked` between which something can fail; the former's locals |
| `failed` | `output_failed_` |

`SetSubtitleFile` holds `mutex_`, so no other hook comes between its steps. A user's values
are of any size in the model; the code accepts a quarter of the `int64` range. A lock is
applied in milliseconds and rounds towards zero (`ToMilliseconds`), which
`ClockContract` allows for by less than a millisecond. `ClockContract` keeps one number,
running or stopped: a switch that fails never changes it.

### Library

| model | code |
|---|---|
| `files`, `marker`, `saved` | `subtitles/`, `active`, `config.ini`; a file is its content, with or without cues |
| `loadable` | `Config::Load` accepted `config.ini`; otherwise no hook saves, and the marker alone counts |
| `backups` | the `previous` files of staging directories that a crash or a second failed rollback left behind |
| `config`, `activeTitle` | `config->values()` and `active_title` of `main` |
| `attached`, `delay`, `failed`, `open`, `playing` | `subtitle_path_`, `subtitle_delay_`, `output_failed_`, `output_pipeline_`, and the bytes its `filesrc` has opened |
| `pc` | staged, check, start, commit, reject, restore, reopen, discard, apply, save, mark: the places in a hook, `SetSubtitleFile` and `FileReplacement` between which a crash or a failure makes a difference |
| `op` | the locals of the hook and of `SetSubtitleFile`, the fields of `FileReplacement` |

`acked` and `committed` are history: the selections (a file and its trim) the next boot may come up
with after the replies so far, and what each entry should hold. A selection that was acknowledged stays
one when its file goes; a boot then comes up without it. Of a hook that is cut off only what it has
written counts (`Written`): between the save and the marker the selection on disk is already the new
one. A trim is saved on its own, so it lands on the file that `config.ini` names as well as on the one attached
(`Target`). No guard reads them. Hooks run one at a time on the
io thread. `OutputFails` is a worker or `Poll` that finds the output dead; the process is about to
end then, but a hook may come first, and may even revive the output. `SaveWhisper` is a
whisper hook, which saves the subtitle keys along with its own. A file named with
`--subtitles` or outside the library is not modelled; the other keys of a state patch, which
are saved with the same `Save`, are in `CueStyle`.

### WebStreams

| model | code |
|---|---|
| `latest` | the sequence number in `PreviewFrameBuffer`; `Store` is one step, as it is one critical section |
| `watcherPc`: check, wait, post, off; `lastSeen`; `stop` | the watcher's loop, in `WaitNewer`, before the post; its local; its stop token |
| `queue` | the deliveries attached to the io thread's `GMainContext`, in their order |
| `viewers`, `listeners` | `clients_` of either route; `pending_sequence` and `pending` are one number, 0 for none |
| `events`, `sent`, `shown`, `heard` | numbers given to the windows, and history: what was delivered last. No guard reads `sent` or `shown` |
| `gate` | `preview_gate_.active` |
| `ioPc`, `mainPc` | `Run` before its loop, in it, draining after it, gone; `main` before the destructor, joining the watcher, joining the io thread, after it |

All handlers and callbacks run on the io thread, so each is one step. A written chunk and the
end of a client are what libsoup reports, at any time and in any order; a refused client is no
step. `main` stops the stream before it destroys the server, so that no frame is stored and no
window published after that.

### ModelStore

| model | code |
|---|---|
| `stored` | `models/`, and the contents that the upload hook of the library took last; a file is the sequence of chunks written to it |
| `parts`, `counter` | the `.upload-N.part` files of the two staging directories, `upload_counter` |
| `uploads`, `inFlight` | the `StagedUpload`s of the messages under way, `uploads_in_flight` |
| an upload's `pc`: early, receiving, closed, answered | in `BeginStagedUpload`; chunks arrive; closed, not installed; the reply is on its way |
| `io` | the callback the io thread is in, where a crash or a failure makes a difference |
| `saved`, `loadable`, `config` | the `[whisper]` keys in `config.ini`; whether `Config::Load` accepts it; `config->values()` |
| `audio`, `model`, `continuous`, `session`, `enabled` | `audio_enabled_`, `whisper_model_path_`, the two demands, `whisper_enabled_` |

A model is renamed into its place (`Install`, `InstallFails`). A subtitle is read back and handed to
the hook (`HandOver`): `HandleSubtitleUpload` tests `bad()` alone, which a file that cannot be opened does not
set, so that the hook may be handed nothing (`ReadBack`); it is `SetSubtitleFile` that refuses a file without a cue
(`MayHaveCues`) and keeps nothing of it. `Library` has the steps of the hook itself.

The locks and the threads of the tap are in `SubtitleSync`; here its operations are single
steps on these five variables, and main's thread ends sessions and releases the tap between them.
`excused` is history: the selection that is reported may differ from the persisted one, after
`--whisper`, a failed save, a session with a model of its own, or a boot that could not restore it.
A stop or a loss of power may come between any two steps. What a rename or a closed file
has written is taken to survive the loss of power, although nothing calls `fsync`.
A model given with `--whisper` has a name of its own; in the code one outside the store with the name of
one in it is reported, and protected from deletion, as if it were that one.

### StoreContract

A place holds a body or nothing: a model of the store, or what the upload hook took last. A body
replaces it whole, if it is within the cap, or it is removed; there is nothing in between.

### CueStyle

| model | code |
|---|---|
| `saved`, `loadable`, `config` | the four keys in `config.ini`, whether it is accepted, `config->values()` |
| `attached`, `style`, `visible`, `output` | `subtitle_path_` (whether it is set), `subtitle_style_`, `subtitles_visible_`, the running pipeline |
| `shown` | `font-desc` and `color` of the overlay's renderer; `None` if it has none |
| `step`, `copy` | where each thread is in `ApplySubtitleStyle`, and the snapshot it loaded |
| `pc`, `op` | a hook or the start of the process: the setters still to be called, the switch with its rollback, the save |

A setter's copy, change and store is one step, as setters hold `mutex_` and nobody else
stores. The state NULL of an output waits for its streaming threads (`StartOutput`, `RollBack`); a callback
never waits. `overtaken` is history: a setter ran between a callback's load and its use; the
callback then paints the older style over the newer one, until the next setter or switch.

### SrtCues and SyncMatcher

| model | code |
|---|---|
| a line's `kind`, `start`, `end`, `words` | what `ParseBlock` and `ParseTimestamp` tell apart, after `Trim` |
| `Blocks`, `ParseBlock`, `ParseSrtCues` | the search for `"\n\n"`, a block's loop over its lines, the file |
| `script`, `file`, `damaged` | what is spoken, block by block; the file on disk; which of its blocks are damaged |
| `Stream` | `SrtIndex::stream`: each word of the session's file with its time, interpolated across its cue |
| `Hits`, `Weight`, `Score`, `Winner`, `RunnerUp` | the maps `hits` and `score` of `VoteWindow`, and what it reads off them; a hit is a pair of places, its offset their difference |
| `Endpoints`, `Match` | the file's word that the window's last matched word is: none if two are possible |
| `Ballots` | every vote a window over some stretch of the file may cast |
| `Sorted` | `std::ranges::sort`: the votes so far are sorted, one more comes in its place |
| `Run`, `RunLength`, `LongestRun`, `MatchTranscript` | the scan over the sorted votes |
| `fed`, `votes`, `theta` | the number of windows, what they voted for, and the session's result |

A line of a file may be lost, doubled or garbled, or another one come before it (`Damage`), up to the start of
a session, which reads it once (`ReadCues`). Words are atoms: normalization is left out. The true offset is 0, so that an offset is an
error; no guard knows it. Weights are whole numbers: the sums of `double` in the code may fall short
of the threshold by a rounding error (six times 1/3 is less than 2), which refuses a vote.
`kOutOfRange` is not modelled: a winner has a hit, and a hit has its word. The matcher starts from
the whole list of windows each time; as `VoteWindow` has no state, the model keeps the votes instead.

## 3. The runs

All runs use two workers and finish within a few minutes. Deadlock checking is
off throughout: the process stops (`mainPc = "done"`, `task = "done"`), and in the
bounded models users and frames run out.

| run | module | instance | distinct states | shows |
|---|---|---|---|---|
| `sync_safety` | MCSubtitleSync | 2 files, 2 models, `kMinWindows` 2, window 1, 3 generations | 1.85 million | session, demand, transcriber, model and public state agree in every interleaving; evidence is fresh; a session past its deadline never locks |
| `sync_liveness` | MCSubtitleSync | 1 file, 1 model, `kMinWindows` 1, 2 generations | 0.2 million | sessions end, locks settle, an unwanted tap is released, hooks and polls return; `SubtitleSync` implements `SyncContract`, progress included |
| `flow` | FrameFlow | capacity 2, 5 frames, 2 outputs | 62 thousand | bounds, gaps, source separation, growing time, marks; every join under `mutex_` ends |
| `lifecycle` | MCCaptureLifecycle | 2 streams | 0.25 million | one producer, no screen over a reported error, an exit code that tells what the loop ended for and what was flagged since; a lost capture falls back, a failure ends the process |
| `lifecycle_dead_device` | MCCaptureLifecycle | 2 streams | violation | an error between drain and decision is lost |
| `clock_safety` | MCSubtitleClock | time to 3, seeks and trims of either sign, millisecond of 2 | 0.2 million | one position, shown as it is, silent when asked; implements `ClockContract` |
| `cue_style` | MCCueStyle | 1 family, 2 sizes, 1 colour, 3 requests of up to 2 keys | 0.5 million | the style that is reported is kept and, but for one race, shown; every hook ends |
| `library_safety` | MCLibrary | 2 titles, 2 contents and 1 without cues, 1 trim, 3 requests | 1.8 million | the promised selection and trim come up at the next boot, the running stream agrees with it, no bytes are lost, a failed switch restores |
| `library_delete` | MCLibrary | as above, 2 requests | violation | a deleted title is found again in its flat entry |
| `model_store` | MCModelStore | 2 models, 3 bodies, 2 slots, 3 uploads, 4 requests | 1.5 million | nothing leaks, what is stored is whole (`StoreContract`), a selection names a stored model and is the persisted one |
| `web_streams` | WebStreams | 2 viewers, 1 listener, backlog 2, 3 frames, 3 windows | 0.7 million | clients get the newest frame and events in order, the encoder runs on demand, every stop of a running loop completes and leaves nothing |
| `sync_matcher` | MCSyncMatcher | 130 scripts, one of which in up to 2 lines damaged, one wrong word, 5 windows, three timestamps each | 0.1 million | damage stays local, votes are right, locks rest on the largest agreement, two stray windows do no harm |

### Bounds, and why they are enough

- `MaxGeneration` stops users, not threads: no hook that ends or starts a session
  begins at or above it. Two generations allow a session, its end and a late
  inference; the third allows a second session over the first one's evidence,
  and the cancellation of a lock that waits to be applied. Liveness and the contract are
  checked with two because the behaviour graph of three is out of reach; that a cancelled
  lock keeps the contract is part of `Refinement`, which holds for any bound.
- Two files tell an applied theta of another file from one of this file, two models
  a requested model from a running one. Symmetry is used for safety only.
- `kMinWindows` is 3 in the code. With 2 there is a window that does not lock and
  one that may; more windows repeat the first.
- `kSyncListenWindow` is 45 s in the code. One tick leaves a session that is fresh, one
  at its deadline and one past it, and the deadline is exclusive.
- `Capacity` is 8 in the code (the audio twin's differs). With 2 a buffer is empty,
  partly full and full, and a full one keeps a frame when it drops one. Five frames
  fill it, overflow it, and go on after a flush.
- Two outputs are one rebuild, with the producer running meanwhile.
- Two streams are all the code has.
- `MaxTime` 3 and `MaxAnchor` 5 stop the clock and the resumes that move the anchor on; the sums of
  two trims, a seek and a lock fit below. `Millisecond` 2 makes rounding visible, on both
  sides of zero. The theorems hold without the bounds.
- Two titles: one attached, one that is not. Two contents with cues tell an old file from a
  new one, the third is refused. Any legacy (flat) files may exist at first, and the marker may name
  one of them. Three requests are one that fails half-way, one that builds on it, and one that
  succeeds and is cut off; crashes and boots are not bounded.
- `kMaxClients` is 4 and `kMaxPending` 256 in the code. Two viewers are a first and a last one
  that differ. Three frames are one in flight, one that waits and one that replaces it; three
  windows fill a backlog of two behind the opening comment and overflow it.
- Seven words over two letters are every way in which three to seven words repeat and overlap; the
  chorus of six different words, sung twice, is the shortest file in which the margin decides. The
  constants of the matcher have their values in the code, times are in seconds. Five windows are
  a lock of three with two strays. The wrong word is one no file contains, said in place of a word or
  in addition; a word that is left out, or misheard as another word of the file, can turn a stretch into an exact
  copy of another one, and then no matcher could tell (TLC finds "aaaab" heard for "aaaabb").
  Two lines damaged are two blocks, apart or neighbours, or a block and the one before it; the file that may be
  damaged has four blocks of different words.
- `kMaxConcurrentUploads` is 4 in the code. Two slots and three uploads are two that overlap, one that is refused, and
  one that comes after. Bodies of none, one and two chunks, with caps of one and two, are empty, at the
  cap and over it in each place; one of them is a model. Four requests are a boot, two that
  build on each other, and one more, or the next boot.
- `MaxKeys` 2 lets a patch change two of the four keys, so that their order counts, and three requests are a boot,
  and two that build on each other, or a second boot. One family and one colour are set or not set; two sizes
  tell an older one from a newer one, and each key can be out of range.

### Fairness

- A thread that is not blocked runs: weak fairness of the whisper thread, the producer, the
  output thread, the capture threads and of the rest of a hook that has begun. These are
  operating-system threads without a spin or a priority among them.
- A mutex is not a queue. Main takes `mutex_` anew in each round of its loop, and
  hooks may take it in between; strong fairness says that main is not passed over
  forever. Users are not required to stop calling.
- The shared clock runs while a session listens (`Tick`).
- Nothing obliges a user to call, a sample to arrive (`PullSample` is not
  fair: a session that is starved of sound must still end), a device to die, or an
  output to fail. `FrameFlow` does not oblige a poll or a stop to begin, only to end.
  `CueStyle` obliges a hook that has begun and a callback, no renderer to be plugged.
  `WebStreams` obliges the watcher, the io thread's loop and the destructor, never a
  client: no property rests on a socket that is read or closed.

### Abstractions that a property leans on

- `SyncedIsApplied` speaks of a position only while there is a parser. After an output
  rebuild has failed there is no clock, but the process is about to end.
- `SyncContract!Apply` allows the clock to stay, for the same reason.
- `BreakIsMarked` is weaker than what a comment in the code says; see section 5.
- `SeenErrorIsFatal` exempts errors that arrive after the drain of the very poll that
  decides; see section 5.
- `StopCompletes` starts from a server whose loop runs; see section 5.
- `StyleIsShown` exempts a renderer whose callback a setter has overtaken, and
  `SelectionIsPersisted` what `excused` names; see section 5.
- `DamageIsLocal` speaks of a cue whose own block and the block before it are whole: a lost separator
  joins two blocks.

## 4. The proofs

Every theorem holds for all values of the constants that the assumption named with it allows: the
bounds of section 3 are bounds of the runs only. Each inductive invariant is called `IInv`; it was checked with TLC
on the instance of its run before it was proved. `Invariance` has one step for each action, or a lemma for
each part of `IInv` that does; the other theorems follow from it, those about steps
with the step lemma they cite.

### SubtitleSyncProofs

`SubtitleSyncProofs.tla` proves, for any sets of files and models, any listening
window, `kMinWindows` and bound on generations, under `SyncAssumption` and `FeedAssumption` only (the null
values are no files and no models, the numbers are naturals, `kMinWindows` not 0):

| theorem | states |
|---|---|
| `TypeCorrect` | `Spec => []TypeOK` |
| `Invariance` | `Spec => []IInv` |
| `TapSound` | `TapIsSound`: `TapServesDemand`, `ModelNamesTranscriber` |
| `SessionSound` | `SessionWellFormed` |
| `UserSound` | `LastActionWins`, `SyncedIsApplied` |
| `EvidenceSound` | `FreshEvidence` |
| `DeadlineSound` | `ExpiredNeverLocks` |
| `TranscriberSound` | `SessionKeepsTranscriber` |
| `NoCircle` | a hook that has begun has a step to take, and until the process is done main, the hook or the whisper thread has one |
| `Refinement` | `Spec => Contract!Safety` |

**The inductive invariant.** The five state invariants of `SubtitleSync` are not
inductive. A hook that is between two sections still has a transcriber, a path and a
demand in its locals, and its next step writes them. `IInv` adds what makes those
locals harmless:

- `LocksHeld`: who holds a mutex is where its holder is. This is what makes two
  hooks' and a teardown's blocking sections exclusive.
- `HookLocals`: a rebuild has no live session under it; a session about to start has a file,
  a running capture and a transcriber that is either the running one or a new one for
  the selected model; a `SetWhisperState` about to act has a transcriber if its demand
  will need one, and the running one if the model does not change.
- `Teardown`: once main has joined the whisper thread the capture is down.
- `TagCurrent`: a generation the whisper thread took that is still current was
  taken in the session that is live now. Starts and ends both advance the generation, so
  it cannot come back; `FreshEvidence` is a consequence.

Each step lemma (`FlagsNext`, `ValuesNext`, `AgreementNext`, `ContractNext`) has one
case per action. `ExpiredStep` and `TranscriberStep` are the two action properties for
one step, under the invariant.

`NoCircle` is the part of `NobodyBlocks` that is a safety property. `MainMoves`, `HookMoves` and `WhisperMoves`
restate what the guards of the steps wait for, as `ENABLED` is out of the prover's reach. It follows from `LocksHeld`:
whoever holds a mutex is at a step that needs none, or only the inner one.

**The matcher.** The last part of the module is about the matcher that a session feeds. The module
extends `SyncMatcher` as well, with variables and a specification (`MatcherSpec`) of its own; the two share `kMinWindows`.
The theorems hold for any scripts, damages, thresholds, latenesses and tolerance, under `MatcherAssumption` and
`FeedAssumption` only: the thresholds are naturals, those that count or weigh are not 0, and latenesses are integers.

| theorem | states |
|---|---|
| `MatcherInvariance` | `MatcherSpec => []MatcherInv` |
| `AgreementSound` | `LocksOnLargestAgreement` |
| `StraysSound` | `FewStraysNoHarm` |
| `FeedSound` | `MatcherServesSession`: of what the matcher does, what shows is what `FeedSession` and `MayLock` let it do |
| `VoteSound` | what `Match` finds, for any words heard and any file |
| `VotesAreSaid` | what `VotesFor` votes by, for any stretch and any file in which no word is the wrong one |

`MatcherInv` says that the votes are sorted (`Increasing`) and that the result is what `MatchTranscript` says of them.
It is all the session needs, as the rest is a fact about the scan for any sorted votes:

- `SortedIsIncreasing`: a vote put in its place keeps the order.
- `RunLengths`: the votes within `kMaxSpread` of the one they begin with are an interval (order), so that a length
  says which they are.
- `LongestRunIsLongest`: the scan's choice has no shorter run than any other beginning.
- `AgreementFits`: a group of votes that agree lies in the run of its first vote. No group is therefore larger than the
  longest run. This is what makes the scan over one order as good as the search among all groups.
- `RunAgrees`: the votes of a run agree with each other, and the median is one of them.
- `Decision` puts these together; `LockIsAgreed` reads it as `LocksOnLargestAgreement`.
- `StraysAreOutvoted`: a group that can lock has more votes than there are strays, so one is not a stray,
  and the lock is within the spread of it.

`VoteSound` and `VotesAreSaid` need no invariant, as `VoteWindow` has no state. The second uses that a window with one
wrong word is otherwise in its order (`MisheardIsRow`), so that three words without the wrong one among them were said
in a row. What they leave open for `VotesAreRight` is a phrase that is in the file twice:
whether its other place outweighs the right one depends on the words of the file.
`LeastNumber` stands in for induction: a set of numbers that is not empty has a least one.

### SubtitleClockProofs

`SubtitleClockProofs.tla` proves, for any sets of seeks, trims and offsets of locks, any
length of a millisecond and any bounds, under `ClockAssumption` only (the sets hold
integers, the numbers are naturals, a millisecond is not nothing):

| theorem | states |
|---|---|
| `TypeCorrect` | `Spec => []TypeOK` |
| `Invariance` | `Spec => []IInv` |
| `OverlaySound` | `OverlayFollows`: `CuesFollowClock`, `SilentWhenAsked` |
| `Refinement` | `Spec => ImplementsContract` |

**The inductive invariant.** Within a switch the settings are those of a candidate, and
what they will be rolled back to is in the switch's locals. `IInv` says for each stage what is
known: the memory is that of a consistent clock (`Memory`); before the teardown nothing but
path and trim has changed (`Untouched`); the candidate starts at zero, running (`Candidate`);
a reopening has path and trim back, but not yet anchor and pause (`Reopening`, `Selected`); no
output has no branch (`Bare`). The refinement maps the position during a switch to the remembered one, so that
only the step that ends the switch moves it. `Rounding` bounds what the conversion of a lock
to milliseconds loses, the one step of the argument that is not linear.

### CaptureLifecycleProofs

For any finite set of streams that is not empty (`LifecycleAssumption`):

| theorem | states |
|---|---|
| `TypeCorrect` | `Spec => []TypeOK` |
| `Invariance` | `Spec => []IInv` |
| `ProducerSound` | `OneProducer` |
| `FallbackSound` | `SeenErrorIsFatal` |
| `ExitSound` | `ExitIsHonest` |

**The inductive invariant.** `Poll` reads bus, failure flag and active flag in three steps, and only
the third one decides. `SeenErrorIsFatal` is therefore a statement about where the error is in
between: on the bus until the drain, in `captureFailed` until the flag is read, and with the
decision ahead only if it came too late (`ErrorKept`). `MutexHeld` and `Teardown` say who is where, so that a
hook's rebuild, a fallback and a stop exclude each other; `Producers` that a capture that does not run has no
threads; `Causes` that each failure flag has something real behind it. `Reckoned` is for the exit code: from
main's last look at the flags on, they are what `verdict` and `since` say.

### FrameFlowProofs

For any capacity and any bounds, the first and the number of outputs not zero (`FlowAssumption`):

| theorem | states |
|---|---|
| `TypeCorrect` | `Spec => []TypeOK` |
| `Invariance` | `Spec => []IInv` |
| `QueueSound` | `QueueIsSound` |
| `TeardownSound` | `TeardownIsNoFailure` |
| `OrderSound` | `OutputIsMonotonic` |
| `BreakSound` | `BreakIsMarked` |
| `JoinsMove` | a task under way has a step to take, or waits in a join for a thread that was told to stop and has one |

**The inductive invariant.** A frame is made, buffered, held and shown, one after the other. `InOrder`
says that timestamps grow and sources do not go back along these places; `CountsDown`, that
the buffer is the last frames pushed without a gap, which makes the push of one more frame and the drop
of the oldest one harmless. `Holding` gives what the holder of `mutex_` has behind it at each step
(no producer and an empty buffer before the screensaver starts, a stop request before a join). `Marks` is what is left of
"the first frame after a flush is marked" when the flush may come between the pop and the read of
the generation: an output that knows the present generation has marked a buffer or holds one that is, and one that does not
holds a frame from before the no-signal screen.

### WebStreamsProofs

For any finite sets of clients, any limits of clients and backlog from one on, any number of events, and one frame at
least (`WebAssumption`; without a frame the watcher has nothing to count up to):

| theorem | states |
|---|---|
| `TypeCorrect` | `Spec => []TypeOK`, which bounds clients and backlogs |
| `Invariance` | `Spec => []IInv` |
| `NewestSound` | `NewestIsNext` |
| `EncoderSound` | `EncoderOnDemand` |
| `BacklogSound` | `BacklogIsSound` |
| `EndLeavesNothing` | while main joins the watcher it does not wait for a frame; when main is done no delivery and no client is left |

**The inductive invariant.** What a client gets is decided by what is queued on the context. `FramesInOrder`
says that queued frames rise from the one delivered last to the one the watcher posted last;
`EventsInOrder`, that the queue holds every event published and not delivered, once and in order. From there
`ViewersServed` and `ListenersServed` follow for each delivery, whenever the client came. `Closing`, an invariant of its
own, orders the end of the server; `EndLeavesNothing` reads off it the part of `StopCompletes` that is a safety property.

### LibraryProofs

For any titles, contents, trims and number of requests, failures and crashes, under `LibraryAssumption` only
(contents with cues are contents, trims are integers, the null value is none of them):

| theorem | states |
|---|---|
| `TypeCorrect` | `Spec => []TypeOK` |
| `Invariance` | `Spec => []IInv` |
| `BytesSound` | `BytesSurvive` |
| `SelectionSound` | `SelectionSurvives` |
| `LiveSound` | `LiveStreamIsAcked` |
| `FailureSound` | `FailedSwitchRestores` |

**The inductive invariant.** A hook is several steps, each of which may fail, be the last one before a
crash, or lead back. `HookShape` says what its locals hold at each of them. `BytesKept` speaks of the bytes *below* an upload that is
installed and not yet committed (`Under`): they are what the entry should hold, or a copy in a staging directory is.
`Replies` relates what is attached, before and after the switch is decided, to what was promised; `Output`, what plays
to what was attached; `Durable`, what `config.ini` and its copy in memory select to what the next boot may come up with.

An attempt at this proof corrected the model. `acked` used to be rewritten when a file went, and
`SelectionSurvives` allowed no selection of a request that was cut off after its save: four requests (one
more than the run has) made it false, with a file from an upload that was cut off and the trim of an earlier one.
`acked` now holds selections, and the property says what a cut-off request may leave.

### ModelStoreProofs

For any models, bodies, caps and numbers of uploads, slots and requests, under `StoreAssumption` (the null value is no
other value, lengths and caps are naturals, and a body that loads as a model has chunks):

| theorem | states |
|---|---|
| `TypeCorrect` | `Spec => []TypeOK` |
| `Invariance` | `Spec => []IInv` |
| `LeakSound` | `NothingLeaks` |
| `StoredSound` | `SelectionIsStored` |
| `PersistedSound` | `SelectionIsPersisted` |
| `ContractSound` | `ImplementsContract`: `ModelStore` implements `StoreContract` |

**The inductive invariant.** `Slots` counts messages, and bounds the numbers of staged files, so that a
new one never meets an older one (`Distinct`, `Owned`). `Whole` says that a staged file that is not to be discarded is
the body as far as it has come; a file that is renamed or taken by the hook (`Installs`) is then the body, which is
what the refinement needs.
`NoStrays` is the second half of `NothingLeaks` for every step of an upload. `Selected` says when the model that the stream
reports, the one in memory and the one in `config.ini` agree, `excused` apart. `IInv` falls into what the uploads
keep (`WebInv`) and what the selection keeps (`StoreInv`), and most steps touch one of them.

That loadable bodies are not empty was found by the proof: with an empty model in the initial state the
contract does not hold, since what is in the store reads as nothing. `WhisperTranscriber::Create` loads no empty file.

### CueStyleProofs

For any values of the keys and any bounds, under `StyleAssumption` (visibility is a flag, the null value and the
invalid one are no values, the bounds are naturals):

| theorem | states |
|---|---|
| `Invariance` | `Spec => []IInv`, whose first part is the types |
| `KeptSound` | `StyleIsKept` |
| `ShownSound` | `StyleIsShown` |

**The inductive invariant.** A hook is a list of setters still to be called. `Listed` says that each of them
carries either what is already in memory or a value of the patch, the persisted ones first; `Agreed`, that a
key in which stream, memory and disk differ is still on that list, and that a switch starts with a clean list, so that its
rollback finds the style of before. `Painted` is about the two threads that style a renderer: what is wrong about it is going to be
painted by a thread that has yet to load the style, or has loaded it after the last change; a callback
that was overtaken is the exception.

### What is not proved, and what is only proved

**Only model-checked**

- All liveness: `SyncSettles`, `NobodyBlocks` and the fairness part of `SyncContract`, `TasksComplete`,
  `LossesAreNoticed`, `FramesArrive`, `StopCompletes`, `HookEnds`. TLAPS supports neither `ENABLED` nor
  arguments under fairness. `NoCircle`, `JoinsMove` and `EndLeavesNothing` prove what these rest on in every state:
  that somebody has a step to take, and what the end leaves.
- `DamageIsLocal` of `SrtCues`: blocks and cues are defined by recursion over the lines of a file, and induction over
  data is out of the provers' reach.
- `VotesAreRight`, as it stands: the scores it rests on are sums over sets, again a recursion, and whether they tell two
  places of a phrase apart depends on the script. `VotesAreSaid` is proved instead for every script.
- The two runs that expect a violation.

**Only proved**: the types of every module but `WebStreams`, `SyncedIsApplied`,
`SessionKeepsTranscriber`, `MatcherServesSession`, `VoteSound`, `VotesAreSaid`, `NoCircle`, `JoinsMove` and `EndLeavesNothing`, which no run repeats
(before they were proved, TLC found the last three to hold on the instances of `sync_safety`, `flow` and `web_streams`); and the safety part of `SyncContract` for more than two generations.

## 5. Disagreements between the code and its documents

Two runs expect a violation. Each checks what a comment or a document says.

- `DeadDeviceIsFatal` (2117, `bus.h` 22). An error that is posted after Poll
  drained the bus, followed by the end of the capture thread before Poll reads
  the active flag, looks like a lost signal; the teardown drops the bus with the error. The
  no-signal screen then fronts a dead device. What holds is `SeenErrorIsFatal`.
- `DeletedIsGone` (`utils/paths.h` 285, `docs/rest-api.md` 128). A title may have a bucket and a
  flat entry, when a file of an old version was uploaded again. A deletion removes the first
  that is found; the title is still listed afterwards, with its older bytes.

What the models show as well, without a run of their own:

- The first buffer after a flush is the one that is marked (1448, `frame_buffer.h` 23). `RunOutput` reads
  the generation after `Pop` has returned (1450). A flush between the two puts the discontinuity flag on the frame
  of the capture it already holds, and the first frame of the no-signal screen is unmarked. What holds is
  `BreakIsMarked`: some buffer since the flush carries the mark when the first new frame is shown.
- Every composition of millisecond inputs is free of overflow (`utils/validation.h` 12). Each input is
  bounded; but a resume folds the change of the trim into the anchor (1854), and the anchor is part of
  the next sum. `SubtitleClock` needs `MaxAnchor` to stop that growth.
- The selected model survives a reboot (`docs/rest-api.md` 281-283, `main.cpp` 338). A session with a model
  of its own changes what is reported as selected (1763) and nothing persists it; a deletion of that model then clears the
  persisted selection of another one (`main.cpp` 582); and a persisted model that is enabled but does not load, or
  comes up under `--no-audio`, leaves nothing selected, as `SetWhisperState` returns before it stores the
  path (1163). `excused` in `ModelStore` names these cases.
- The cues follow the style that is reported (`docs/rest-api.md` 170). A callback that has loaded the
  style (1893) may be overtaken by a setter and paint the older one over the newer. `overtaken` in `CueStyle` names it.
- A stream failure is fatal: exit, so that the service manager brings the appliance back (`main.cpp` 727). The
  exit code is read off the flags after `Stop` (746). A hook that switches the file between the end of the loop
  and that read clears the flag of a dead output when its candidate comes up (`stream.cpp` 1387), and the process
  ends with success, after which `Restart=on-failure` starts nothing; one whose candidate fails turns a stop
  by a signal into a failure. What holds is `ExitIsHonest`, which names both cases.
- A read-back of a staged subtitle that fails is answered 500 (`subtitle_routes.cpp` 95). A file that cannot be opened sets
  `failbit`, not `badbit`: the hook is handed nothing, and refuses it (`stream.cpp` 1609), with the same
  answer. What holds is `ImplementsContract`.
- `Run` reports that it listens (`web_server.cpp` 90) before it enters its loop, and a `g_main_loop_quit`
  that comes in between has no effect, so that a stop right after the start waits for ever.

Read, and not modelled: `docs/rest-api.md` 130 says that a deletion removes the
entry first, where the hook detaches first and removes as its commit (`main.cpp` 455), as the
document itself says at 14-16; it says at 205-207 that a failed save is only logged, where
the subtitle hooks answer 500 (`main.cpp` 686); `docs/pi-setup.md` 74-75 says that the no-signal screen comes up on device
loss, where `Poll` fails the process (2122); `docs/rest-api.md` 245 says that a whisper toggle
leaves a session's state "idle", where it is "failed" (1175); `docs/sync-matching.md` 33 and
`sync_matcher.h` 60 call the votes that decide a lock the tightest run, where
`sync_matcher.cpp` 275 takes the longest one, the first of several; `docs/architecture.md` 183-185 says that the
whisper thread takes no locks (it takes `sync_mutex_` at 1126); `main.cpp` 60 and `stream.h` call the font
setters no-ops without subtitles, where they store the style (1931); `srt_cues.cpp` 10 calls hours unbounded,
where two digits are read; the pause flag of the
clock survives a detach of the file; a screensaver that cannot allocate a frame leaves
its loop and nothing notices; an upload whose client stalls keeps its slot for as long as the
connection lasts.

## 6. Not modelled, and the plan

Not modelled: GStreamer itself (only which messages and returns the code gets from
it), libsoup and GLib, the whisper model, rendering, the characters of SRT and HTTP text,
formatting and logging, the command-line tools, the front-end and the packaging.

The plan, most important behaviour first. All modules are written, and their safety is proved but for
two properties of the words and lines of files, which section 4 names.

1. `SubtitleSync` against `SyncContract`: tap and session; proved.
2. `FrameFlow`: frames across threads; proved.
3. `CaptureLifecycle`: failure policy; proved.
4. `SubtitleClock` against `ClockContract`: one position; proved.
5. `Library`: files, marker and configuration with the switch between them; proved.
6. `WebStreams`: clients against callbacks and the end of the server; proved.
7. `ModelStore` against `StoreContract`: uploads, models and selection; proved.
8. `CueStyle`: the style on two threads; proved.
9. `SyncMatcher` with `SrtCues`: cues of a damaged file, the votes of windows and their clustering against a
   reference definition; the clustering proved, and of the votes what holds for every file.
