------------------------------ MODULE ModelStore ------------------------------
(***************************************************************************)
(* Streaming uploads and the whisper model store: bodies are staged chunk  *)
(* by chunk (web/upload_stream.cpp) and installed once complete            *)
(* (web/whisper_routes.cpp; web/subtitle_routes.cpp reads them back for    *)
(* the library), while hooks of main.cpp select, run and remove the models *)
(* that are stored, sessions borrow them, and the process ends between     *)
(* any two steps.                                                          *)
(*                                                                         *)
(* The io thread runs one callback at a time; the other thread here is     *)
(* main's, which ends sessions and releases the tap. SubtitleSync has what *)
(* this module takes for one step of Stream (SetWhisperState, StartSubti-  *)
(* tleSync). A file is the sequence of the chunks written to it.           *)
(***************************************************************************)
EXTENDS Naturals, FiniteSets, SequencesExt

CONSTANTS
  Models,       \* names for the store (WhisperModelNameValid)
  Library,      \* where subtitle bodies go: the upload hook
  Outside,      \* a model file that --whisper names, not in the store
  None,
  Bodies, Length, \* body -> its number of chunks
  Loadable,     \* bodies that are models to whisper.cpp
  Limit,        \* place -> kMaxModelBytes or kMaxSubtitleBytes, in chunks
  kMaxConcurrentUploads,
  MaxRequests, MaxUploads \* bounds: uploads, hooks and boots that begin; uploads of these

Places == Models \union {Library}

ASSUME StoreAssumption ==
  /\ Length \in [Bodies -> Nat] /\ Limit \in [Places -> Nat]
  /\ Loadable \subseteq Bodies /\ \A body \in Loadable : Length[body] > 0
  /\ {kMaxConcurrentUploads, MaxRequests, MaxUploads} \subseteq Nat
  /\ None \notin Places \union Bodies \union BOOLEAN \union {Outside}
  /\ None \notin {"upload", "save", "select"}
  /\ None \notin Seq(Bodies \X Nat) /\ None \notin {"temp", "models"} \X Nat
  /\ Library \notin Models /\ Outside \notin Models

VARIABLES
  \* on disk
  stored,       \* models/, and the contents that the upload hook took last
  parts,        \* <<directory, number>> -> a staged file
  saved,        \* the [whisper] keys of config.ini
  loadable,     \* Config::Load accepts config.ini
  \* the web server, on the io thread
  uploads,      \* the StagedUploads of the messages under way
  inFlight,     \* uploads_in_flight
  counter,      \* upload_counter
  io,           \* the callback the thread is in
  \* the process
  up, audio, config,
  \* Stream: whisper_model_path_, the two demands, whisper_enabled_
  model, continuous, session, enabled,
  \* history, for the properties
  requests, begun,
  leftovers,    \* staged files of processes that ended, or that resisted removal
  excused       \* the reported selection may differ from the persisted one

disk    == <<stored, parts, saved, loadable>>
web     == <<uploads, inFlight, counter, io>>
stream  == <<model, continuous, session, enabled>>
process == <<up, audio, config, stream>>
history == <<requests, begun, leftovers, excused>>
vars    == <<disk, web, process, history>>

NoUpload == [pc |-> "none", place |-> None, body |-> None, path |-> None,
             got |-> 0, bytes |-> 0, overflow |-> FALSE, failed |-> FALSE,
             consumed |-> FALSE]
NoKeys   == [model |-> None, enabled |-> None]

Or(value, default) == IF value = None THEN default ELSE value

Chunks(body) == [i \in 1 .. Length[body] |-> <<body, i>>]
BodyOf(file) == IF file \notin {None, <<>>} /\ file = Chunks(file[1][1])
                THEN file[1][1] ELSE "damaged"

Directory(place) == IF place = Library THEN "temp" ELSE "models"
Paths == {"temp", "models"} \X (0 .. MaxUploads)

Stored(name) == stored[name] # None

\* WhisperTranscriber::Create.
Loads(name) == name \in {Outside} \union {n \in Models : BodyOf(stored[n]) \in Loadable}

Init ==
  /\ \E body \in [Models -> Loadable \union {None}] :
       stored = [place \in Places |->
                   IF place = Library \/ body[place] = None THEN None
                   ELSE Chunks(body[place])]
  /\ parts = [path \in Paths |-> None] /\ saved = NoKeys /\ loadable \in BOOLEAN
  /\ uploads = {} /\ inFlight = 0 /\ counter = 0 /\ io = None
  /\ up = FALSE /\ audio = FALSE /\ config = NoKeys
  /\ model = None /\ continuous = FALSE /\ session = FALSE /\ enabled = FALSE
  /\ requests = 0 /\ begun = 0 /\ leftovers = {} /\ excused = FALSE

Begin == requests < MaxRequests /\ requests' = requests + 1 /\ UNCHANGED begun
Free  == up /\ io = None

-----------------------------------------------------------------------------
(* An upload. BeginStagedUpload runs when the headers are in; a declared   *)
(* length over the limit, or too many uploads, end the request there.      *)

SlotFree == inFlight < kMaxConcurrentUploads

BeginUpload(place, body) ==
  /\ Free /\ SlotFree
  /\ requests < MaxRequests /\ requests' = requests + 1
  /\ begun < MaxUploads /\ begun' = begun + 1
  /\ inFlight' = inFlight + 1 /\ io' = "upload"
  /\ uploads' = uploads \union
       {[NoUpload EXCEPT !.pc = "early", !.place = place, !.body = body]}
  /\ UNCHANGED <<disk, counter, process, leftovers, excused>>

Becomes(u, next) == uploads' = (uploads \ {u}) \union {next}

\* std::ios::trunc: what an earlier process left under the name goes.
StagePath_InFlight(place) == <<Directory(place), inFlight - 1>>
StagePath(place) == <<Directory(place), counter>>

Stage(u) ==
  LET path == StagePath(u.place)
  IN  /\ io = "upload" /\ u.pc = "early" /\ io' = None
      /\ Becomes(u, [u EXCEPT !.pc = "receiving", !.path = path])
      /\ parts' = [parts EXCEPT ![path] = <<>>]
      /\ counter' = counter + 1 /\ leftovers' = leftovers \ {path}
      /\ UNCHANGED <<stored, saved, loadable, inFlight, process, requests, begun, excused>>

\* The directory cannot be made, or the file not be opened.
StageFails_KeepsSlot(u) ==
  /\ io = "upload" /\ u.pc = "early" /\ io' = None
  /\ uploads' = uploads \ {u}
  /\ counter' \in {counter, counter + 1}
  /\ UNCHANGED <<disk, inFlight, process, history>>
StageFails(u) ==
  /\ io = "upload" /\ u.pc = "early" /\ io' = None
  /\ uploads' = uploads \ {u} /\ inFlight' = inFlight - 1
  /\ counter' \in {counter, counter + 1}
  /\ UNCHANGED <<disk, process, history>>

\* OnGotChunk; a write may fail.
Discarding(u) == u.overflow \/ u.failed
Fits(u)       == u.bytes + 1 <= Limit[u.place]

GotChunk(u) ==
  LET next == [u EXCEPT !.got = @ + 1]
      file == Append(Or(parts[u.path], <<>>), <<u.body, u.got + 1>>)
  IN  /\ Free /\ u.pc = "receiving" /\ u.got < Length[u.body]
      /\ \/ Discarding(u) /\ Becomes(u, next) /\ UNCHANGED parts
         \/ /\ ~Discarding(u) /\ ~Fits(u)
            /\ Becomes(u, [next EXCEPT !.overflow = TRUE]) /\ UNCHANGED parts
         \/ /\ ~Discarding(u) /\ Fits(u)
            /\ Becomes(u, [next EXCEPT !.bytes = @ + 1])
            /\ parts' = [parts EXCEPT ![u.path] = file]
         \/ /\ ~Discarding(u) /\ Fits(u)
            /\ Becomes(u, [next EXCEPT !.failed = TRUE]) /\ UNCHANGED parts
      /\ UNCHANGED <<stored, saved, loadable, inFlight, counter, io, process, history>>

\* The completion handlers refuse a body that is damaged, too long or empty (and
\* one for no valid name, in the same way); StagedUpload::Close flushes the rest.
Acceptable(u) == ~u.failed /\ ~u.overflow /\ u.bytes > 0

Received(u) == Free /\ u.pc = "receiving" /\ u.got = Length[u.body]

\* Only the file matters from here on.
Answer(u, consumed) ==
  Becomes(u, [NoUpload EXCEPT !.pc = "answered", !.path = u.path, !.consumed = consumed])

Complete(u) ==
  /\ Received(u)
  /\ IF Acceptable(u) THEN io' = "upload" /\ Becomes(u, [u EXCEPT !.pc = "closed"])
                      ELSE io' = io /\ Answer(u, FALSE)
  /\ UNCHANGED <<disk, inFlight, counter, process, history>>

CloseFails(u) ==
  /\ Received(u) /\ Acceptable(u)
  /\ parts' = [parts EXCEPT ![u.path] = Front(Or(@, <<>>))]
  /\ Answer(u, FALSE)
  /\ UNCHANGED <<stored, saved, loadable, inFlight, counter, io, process, history>>

\* HandleModelStore renames the file.
Install(u) ==
  /\ io = "upload" /\ u.pc = "closed" /\ u.place # Library /\ io' = None
  /\ stored' = [stored EXCEPT ![u.place] = parts[u.path]]
  /\ parts' = [parts EXCEPT ![u.path] = None]
  /\ Answer(u, TRUE)
  /\ UNCHANGED <<saved, loadable, inFlight, counter, process, history>>

InstallFails(u) ==
  /\ io = "upload" /\ u.pc = "closed" /\ u.place # Library /\ io' = None
  /\ Answer(u, FALSE)
  /\ UNCHANGED <<disk, inFlight, counter, process, history>>

\* HandleSubtitleUpload reads the file back. It looks at badbit alone: from a file
\* that cannot be opened it reads nothing, and hands that on.
ReadBack(u) == {parts[u.path], <<>>}

\* SetSubtitleFile takes no file without a cue; chunks may hold one.
MayHaveCues(contents) == contents # <<>>

\* The hook takes the contents, or refuses or fails and leaves what was there.
HandOver(u) ==
  /\ io = "upload" /\ u.pc = "closed" /\ u.place = Library /\ io' = None
  /\ \E contents \in ReadBack(u) :
       \/ MayHaveCues(contents) /\ stored' = [stored EXCEPT ![Library] = contents]
       \/ UNCHANGED stored
  /\ Answer(u, FALSE)
  /\ UNCHANGED <<parts, saved, loadable, inFlight, counter, process, history>>

\* DeleteStagedUpload: the reply is sent, or the client left in the middle.
MessageEnds(u) ==
  /\ Free /\ u.pc \in {"receiving", "answered"}
  /\ uploads' = uploads \ {u} /\ inFlight' = inFlight - 1
  /\ \/ u.consumed /\ UNCHANGED <<parts, leftovers>>
     \/ ~u.consumed /\ parts' = [parts EXCEPT ![u.path] = None] /\ UNCHANGED leftovers
     \/ ~u.consumed /\ leftovers' = leftovers \union {u.path} /\ UNCHANGED parts
  /\ UNCHANGED <<stored, saved, loadable, counter, io, process, requests, begun, excused>>

-----------------------------------------------------------------------------
(* The hooks. *)

Wanted == continuous \/ session

\* Stream::SetWhisperState: a model that would run at once has to load.
Path(name)       == Or(name, model)
Refused(on, name, hasAudio) ==
  /\ Or(on, continuous) /\ (Path(name) # model \/ ~enabled)
  /\ ~hasAudio \/ ~Loads(Path(name))

SetWhisperState(on, name) ==
  /\ continuous' = Or(on, continuous)
  /\ session' = (session /\ Path(name) = model /\ on # FALSE)
  /\ model' = Path(name) /\ enabled' = (continuous' \/ session')

\* The hooks take no model, or one that is stored.
Available(name) == name # None => Stored(name)

\* Config's setters. A hook goes on with Save, if there is a configuration.
Keep(keys, stage) ==
  IF loadable THEN config' = keys /\ io' = stage ELSE UNCHANGED <<config, io>>

\* HandleWhisper with whisper_state_set; what is refused changes nothing.
PutState(on, name) ==
  /\ Free /\ Begin /\ Available(name) /\ ~Refused(on, name, audio)
  /\ SetWhisperState(on, name)
  /\ Keep([model |-> Or(name, config.model), enabled |-> Or(on, config.enabled)],
          IF name = None THEN "save" ELSE "select")
  /\ UNCHANGED <<disk, uploads, inFlight, counter, up, audio, leftovers, excused>>

\* HandleModelRemove with RemoveWhisperModel and whisper_model_clear: the
\* running model stays, and one that is only selected is not selected any more.
InUse_Never(name) == FALSE
InUse(name) == enabled /\ model = name

Deselect_StreamOnly(name) ==
  /\ model' = IF model = name /\ ~enabled THEN None ELSE model
  /\ UNCHANGED <<config, io>>
Deselect(name) ==
  IF model = name
  THEN /\ model' = IF enabled THEN model ELSE None
       /\ Keep([config EXCEPT !.model = None], "select")
  ELSE UNCHANGED <<model, config, io>>

RemoveModel(name) ==
  /\ Free /\ Begin /\ Stored(name) /\ ~InUse(name)
  /\ stored' = [stored EXCEPT ![name] = None]
  /\ Deselect(name)
  /\ UNCHANGED <<parts, saved, loadable, uploads, inFlight, counter, up, audio,
                 continuous, session, enabled, leftovers, excused>>

\* Config::Save. A hook that named the model, or removed it, leaves no difference.
Save ==
  /\ io \in {"save", "select"} /\ io' = None /\ saved' = config
  /\ excused' = (excused /\ io # "select")
  /\ UNCHANGED <<stored, parts, loadable, uploads, inFlight, counter, process, requests,
                 begun, leftovers>>

SaveFails ==
  /\ io \in {"save", "select"} /\ io' = None
  /\ excused' = TRUE
  /\ UNCHANGED <<disk, uploads, inFlight, counter, process, requests, begun, leftovers>>

\* A subtitle hook saves its keys, and with them all that config holds.
SaveOther ==
  /\ Free /\ loadable /\ saved # config /\ saved' = config
  /\ UNCHANGED <<stored, parts, loadable, web, process, history>>

\* subtitle_sync_start: with the tap off the session loads its model, or the
\* selected one, which then is what the tap reports.
StartSubtitleSync(name) ==
  LET selected == Path(name)
  IN  /\ Free /\ Begin /\ Available(name)
      /\ session' = TRUE /\ enabled' = TRUE
      /\ IF enabled THEN UNCHANGED <<model, excused>>
         ELSE /\ audio /\ Loads(selected) /\ model' = selected
              /\ excused' = (excused \/ selected # model)
      /\ UNCHANGED <<disk, web, up, audio, config, continuous, leftovers>>

-----------------------------------------------------------------------------
(* The main thread, and the process. *)

\* The session locks, expires, or is cancelled; Poll then releases the tap.
EndSession ==
  /\ up /\ session /\ session' = FALSE
  /\ UNCHANGED <<disk, web, up, audio, config, model, continuous, enabled, history>>

ReleaseUnusedWhisper ==
  /\ up /\ enabled /\ ~Wanted /\ enabled' = FALSE
  /\ UNCHANGED <<disk, web, up, audio, config, model, continuous, session, history>>

\* main restores the persisted selection if its file is there, and not over
\* --whisper, which needs the audio branch and a model that loads.
Restored == loadable /\ saved.model # None /\ Stored(saved.model)

BootFlag ==
  /\ audio' = TRUE /\ model' = Outside /\ continuous' = TRUE /\ enabled' = TRUE
  /\ excused' = TRUE

BootRestore ==
  LET on     == Or(saved.enabled, FALSE)
      cannot == on /\ (~audio' \/ ~Loads(saved.model))
  IN  /\ Restored
      /\ model' = IF cannot THEN None ELSE saved.model
      /\ continuous' = (on /\ ~cannot) /\ enabled' = (on /\ ~cannot)
      /\ excused' = cannot

BootNone ==
  /\ ~Restored /\ model' = None /\ continuous' = FALSE /\ enabled' = FALSE
  /\ excused' = (loadable /\ saved.model # None)

Boot ==
  /\ ~up /\ Begin /\ up' = TRUE
  /\ config' = IF loadable THEN saved ELSE NoKeys
  /\ \/ BootFlag
     \/ audio' \in BOOLEAN /\ (BootRestore \/ BootNone)
  /\ session' = FALSE
  /\ UNCHANGED <<disk, web, leftovers>>

Held == {u.path : u \in uploads} \ {None}

\* A stop ends every message; a crash, or a loss of power, none.
ProcessEnds ==
  /\ up /\ up' = FALSE
  /\ \/ io = None /\ parts' = [path \in Paths |-> IF path \in Held THEN None ELSE parts[path]]
        /\ UNCHANGED leftovers
     \/ UNCHANGED parts /\ leftovers' = leftovers \union
          {path \in Held : parts[path] # None}
  /\ uploads' = {} /\ inFlight' = 0 /\ counter' = 0 /\ io' = None
  /\ audio' = FALSE /\ config' = NoKeys
  /\ model' = None /\ continuous' = FALSE /\ session' = FALSE /\ enabled' = FALSE
  /\ excused' = FALSE
  /\ UNCHANGED <<stored, saved, loadable, requests, begun>>

Uploading ==
  \/ \E place \in Places, body \in Bodies : BeginUpload(place, body)
  \/ \E u \in uploads :
       \/ Stage(u) \/ StageFails(u) \/ GotChunk(u) \/ Complete(u) \/ CloseFails(u)
       \/ Install(u) \/ InstallFails(u) \/ HandOver(u) \/ MessageEnds(u)

Hooks ==
  \/ \E on \in BOOLEAN \union {None}, name \in Models \union {None} : PutState(on, name)
  \/ \E name \in Models \union {None} : StartSubtitleSync(name)
  \/ \E name \in Models : RemoveModel(name)
  \/ Save \/ SaveFails \/ SaveOther

Next ==
  \/ Uploading \/ Hooks \/ EndSession \/ ReleaseUnusedWhisper
  \/ Boot \/ ProcessEnds

Spec == Init /\ [][Next]_vars

-----------------------------------------------------------------------------
(* Properties. *)

File   == {None} \union Seq(Bodies \X Nat)
Keys   == [model : Models \union {None}, enabled : BOOLEAN \union {None}]
Upload == [pc : {"early", "receiving", "closed", "answered"},
           place : Places \union {None}, body : Bodies \union {None},
           path : Paths \union {None}, got : Nat, bytes : Nat, overflow : BOOLEAN,
           failed : BOOLEAN, consumed : BOOLEAN]

DiskTypes ==
  /\ stored \in [Places -> File] /\ parts \in [Paths -> File]
  /\ saved \in Keys /\ loadable \in BOOLEAN
WebTypes ==
  /\ uploads \subseteq Upload /\ inFlight \in 0 .. kMaxConcurrentUploads
  /\ counter \in 0 .. MaxUploads /\ io \in {None, "upload", "save", "select"}
FlagTypes ==
  /\ up \in BOOLEAN /\ audio \in BOOLEAN
  /\ continuous \in BOOLEAN /\ session \in BOOLEAN /\ enabled \in BOOLEAN
StreamTypes == config \in Keys /\ model \in Models \union {None, Outside}
HistoryTypes ==
  /\ requests \in 0 .. MaxRequests /\ begun \in 0 .. MaxUploads
  /\ leftovers \subseteq Paths /\ excused \in BOOLEAN

\* Every variable stays within its type (StagedUpload, Config::Values,
\* Stream::Implementation), and the number of uploads within its limit.
TypeOK == DiskTypes /\ WebTypes /\ FlagTypes /\ StreamTypes /\ HistoryTypes

\* Whatever fails on the way of an upload, its slot and its staged file are
\* given back: the count is that of the messages that hold an upload, and a
\* staged file belongs to one of them, or was left by an ended process or a
\* removal that failed (BeginStagedUpload, DeleteStagedUpload, ~StagedUpload).
NothingLeaks ==
  /\ inFlight = Cardinality(uploads) /\ inFlight <= kMaxConcurrentUploads
  /\ \A path \in Paths : parts[path] # None => path \in leftovers \union Held

\* The model that the tap runs or reports has its file: a deletion takes
\* neither the one in use nor leaves a selection behind, whatever session or
\* release comes between (HandleModelRemove, ClearWhisperModel, StartSubtitleSync).
SelectionIsStored == model \in {None, Outside} \/ Stored(model)

\* What GET /api/whisper reports between requests is what config.ini holds for
\* the next boot, except after --whisper, a failed save, a session with a model
\* of its own, or a boot that could not restore it (hooks.whisper_state_set,
\* whisper_model_clear, boot).
SelectionIsPersisted ==
  (up /\ io = None /\ loadable) => (model = saved.model \/ excused)

Accepted(place, body) == Length[body] \in 1 .. Limit[place]

Store == INSTANCE StoreContract
           WITH holds <- [place \in Places |->
                            IF stored[place] = None THEN None ELSE BodyOf(stored[place])]

\* A model is installed, and a subtitle taken by the upload hook, whole or not at
\* all, however bodies overlap, fail, exceed the limit, end with their connection or
\* the process, or are read back as nothing (HandleModelStore, HandleSubtitleUpload,
\* which leaves an empty read-back to the hook): the store implements StoreContract.
ImplementsContract == Store!Spec

=============================================================================
