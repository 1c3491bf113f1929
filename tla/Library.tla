------------------------------- MODULE Library -------------------------------
(***************************************************************************)
(* What survives a restart: the subtitle library, the marker "active" and  *)
(* config.ini, as the hooks of main.cpp for uploads, selections, deletions *)
(* and trims change them (utils/paths.h, utils/file_replacement.h,         *)
(* config/config.cpp), with the switch of the output in their middle       *)
(* (Stream::SetSubtitleFile) and a crash or power loss between any two     *)
(* steps.                                                                  *)
(*                                                                         *)
(* One hook runs at a time, on the io thread. A rename is atomic, so that  *)
(* WriteFileAtomic is one step that happens or fails. A file is its        *)
(* content, a content has cues or not, and None is what is missing.        *)
(***************************************************************************)
EXTENDS Integers

CONSTANTS
  Titles, Contents,
  Playable,     \* contents with at least one cue (ParseSrtCues)
  Delays,       \* the trims users ask for
  None,
  MaxRequests   \* bound: hooks that begin

\* A title is stored under its bucket; old versions stored it flat.
Entries == Titles \X {"bucket", "flat"}

ASSUME LibraryAssumption ==
  /\ Playable \subseteq Contents /\ Delays \subseteq Int /\ MaxRequests \in Nat
  /\ None \notin Titles \union Contents \union Entries \union Int

VARIABLES
  \* on disk
  files,        \* entry -> content, below subtitles/
  marker,       \* the entry that the file "active" names
  saved,        \* the keys of config.ini
  loadable,     \* Config::Load accepts config.ini
  backups,      \* <<entry, content>>: copies in staging directories left behind
  \* in the process
  up, config, attached, delay,    \* attached: subtitle_path_
  activeTitle, failed,            \* failed: output_failed_
  open,         \* there is an output_pipeline_
  playing,      \* the content its source has opened
  \* in the hook
  pc, op,
  \* history, for the properties
  requests,
  acked,        \* the selections the next boot may find, by the replies sent so far
  committed     \* what each entry should hold

disk    == <<files, marker, saved, loadable, backups>>
stream  == <<attached, delay, failed, open, playing>>
process == <<up, config, activeTitle, stream>>
history == <<requests, acked, committed>>
vars    == <<disk, process, pc, op, history>>

\* Config::Values: the file key may be absent, empty (None) or an entry.
NoKeys == [selected |-> FALSE, file |-> None, delay |-> None]

\* entry: what is to be attached; previous: the copy in the staging
\* directory; switched: output_pipeline_ is no longer the one of the start.
NoHook == [kind |-> "none", title |-> None, entry |-> None, trim |-> None,
           content |-> None, previous |-> None, installed |-> FALSE,
           done |-> FALSE, was |-> None, wasDelay |-> 0, wasOpen |-> FALSE,
           switched |-> FALSE]

ContentOf(entry) == IF entry = None THEN None ELSE files[entry]
TitleOf(entry) == IF entry = None THEN None ELSE entry[1]
Or(value, default) == IF value = None THEN default ELSE value

\* FindLibrarySubtitle: the bucket wins over the flat entry.
Find(title) ==
  IF files[<<title, "bucket">>] # None THEN <<title, "bucket">>
  ELSE IF files[<<title, "flat">>] # None THEN <<title, "flat">> ELSE None

-----------------------------------------------------------------------------
(* What a boot comes up with. *)

\* main: config.ini decides once it has the key; a file that is gone is dropped.
Named(keys) == IF loadable /\ keys.selected THEN keys.file ELSE marker
BootFile_MarkerToo ==
  LET chosen == IF loadable /\ saved.file # None THEN saved.file ELSE marker
  IN  IF ContentOf(chosen) = None THEN None ELSE chosen
BootFile == IF ContentOf(Named(saved)) = None THEN None ELSE Named(saved)

\* ApplySubtitleStyle at start-up: the trim lands with the subtitles only.
BootDelay == IF loadable /\ BootFile # None THEN Or(saved.delay, 0) ELSE 0

\* A file and its trim, which config.ini alone keeps.
Selection(entry, trim) == [file |-> entry, delay |-> IF loadable THEN trim ELSE 0]

\* What the running hook is about to make of it. A trim goes with the file that is
\* attached; config.ini may name another, that was gone at start-up.
Target ==
  IF op.kind = "trim" THEN {Selection(file, op.trim) : file \in {attached, Named(config)}}
  ELSE {Selection(op.entry, Or(op.trim, Or(config.delay, 0)))}

\* Of a hook that is cut off, only what it has written can be found.
Written == IF pc = "mark" THEN Target ELSE {}

Init ==
  /\ \E legacy \in [Titles -> Playable \union {None}] :
       files = [entry \in Entries |->
                  IF entry[2] = "flat" THEN legacy[entry[1]] ELSE None]
  /\ marker \in {entry \in Entries : files[entry] # None} \union {None}
  /\ saved = NoKeys /\ loadable \in BOOLEAN /\ backups = {}
  /\ up = FALSE /\ config = NoKeys /\ attached = None /\ delay = 0
  /\ activeTitle = None /\ failed = FALSE /\ open = FALSE /\ playing = None
  /\ pc = "idle" /\ op = NoHook
  /\ requests = 0 /\ acked = {Selection(marker, 0)} /\ committed = files

Boot ==
  /\ ~up /\ up' = TRUE
  /\ config' = IF loadable THEN saved ELSE NoKeys
  /\ activeTitle' = TitleOf(BootFile)
  /\ attached' = BootFile /\ delay' = BootDelay
  /\ open' = TRUE /\ playing' = ContentOf(BootFile) /\ failed' = FALSE
  /\ acked' = acked \union {Selection(BootFile, Or(saved.delay, 0))}
  /\ UNCHANGED <<disk, pc, op, requests, committed>>

\* The process ends, or the power does: a staging directory stays behind.
Crash ==
  /\ up /\ up' = FALSE
  /\ config' = NoKeys /\ activeTitle' = None /\ attached' = None /\ delay' = 0
  /\ failed' = FALSE /\ open' = FALSE /\ playing' = None
  /\ pc' = "idle" /\ op' = NoHook
  /\ backups' = backups \union
       (IF op.previous = None THEN {} ELSE {<<op.entry, op.previous>>})
  /\ acked' = acked \union Written
  /\ UNCHANGED <<files, marker, saved, loadable, requests, committed>>

\* A worker or the bus finds the output dead; Poll is about to end the process.
OutputFails ==
  /\ up /\ open /\ ~failed /\ failed' = TRUE
  /\ UNCHANGED <<disk, up, config, activeTitle, attached, delay, open, playing, pc, op,
                 history>>

\* A whisper hook saves its keys, and with them all that config holds.
SaveWhisper ==
  /\ up /\ pc = "idle" /\ loadable /\ saved # config /\ saved' = config
  /\ UNCHANGED <<files, marker, loadable, backups, process, pc, op, history>>

-----------------------------------------------------------------------------
(* The hooks begin. Invalid titles and unknown ones change nothing. *)

Accept == up /\ pc = "idle" /\ requests < MaxRequests /\ requests' = requests + 1

Begin(hook, start) ==
  /\ Accept
  /\ op' = [hook EXCEPT !.was = attached, !.wasDelay = delay, !.wasOpen = open]
  /\ pc' = start
  /\ UNCHANGED <<disk, process, acked, committed>>

\* FileReplacement::Stage copies the file that it is to replace.
Upload(title, content) ==
  LET entry == <<title, "bucket">>
  IN  Begin([NoHook EXCEPT !.kind = "upload", !.title = title, !.entry = entry,
               !.content = content, !.previous = files[entry]], "staged")

\* A state patch with a title; trim is its delay_ms, if there is one.
Select(title, trim) ==
  /\ Find(title) # None
  /\ Begin([NoHook EXCEPT !.kind = "set", !.title = title, !.entry = Find(title),
              !.trim = trim], "check")

Detach(trim) == Begin([NoHook EXCEPT !.kind = "set", !.trim = trim], "check")

DeleteAttached(title) ==
  /\ Find(title) # None /\ activeTitle = title
  /\ Begin([NoHook EXCEPT !.kind = "delete", !.title = title], "check")

\* RemoveLibrarySubtitle.
Remove(title) ==
  /\ Find(title) # None
  /\ files' = [files EXCEPT ![Find(title)] = None]
  /\ committed' = [committed EXCEPT ![Find(title)] = None]

\* Nothing is switched or saved for a file that is not attached.
DeleteOther(title) ==
  /\ Accept /\ activeTitle # title /\ Remove(title)
  /\ UNCHANGED <<marker, saved, loadable, backups, process, pc, op, acked>>

\* A patch without a file trims the stream at once.
Trim(trim) ==
  /\ Accept /\ delay' = trim
  /\ IF loadable
     THEN /\ config' = [config EXCEPT !.delay = trim]
          /\ op' = [NoHook EXCEPT !.kind = "trim", !.trim = trim] /\ pc' = "save"
     ELSE UNCHANGED <<config, op, pc>>
  /\ UNCHANGED <<disk, up, activeTitle, attached, failed, open, playing, acked,
                 committed>>

-----------------------------------------------------------------------------
(* The switch: FileReplacement around Stream::SetSubtitleFile. *)

Finish == pc' = "idle" /\ op' = NoHook

\* The switch has failed; an upload drops its staging directory on the way out.
GiveUp(hook) == IF op.kind = "upload" THEN pc' = "discard" /\ op' = hook ELSE Finish

Install ==
  /\ pc = "staged" /\ pc' = "check"
  /\ files' = [files EXCEPT ![op.entry] = op.content]
  /\ op' = [op EXCEPT !.installed = TRUE]
  /\ UNCHANGED <<marker, saved, loadable, backups, process, history>>

\* Stage or Install fails; the target is as it was.
InstallFails ==
  /\ pc = "staged" /\ GiveUp(op)
  /\ UNCHANGED <<disk, process, history>>

CheckPasses ==
  /\ pc = "check" /\ pc' = "start"
  /\ op.entry = None \/ ContentOf(op.entry) \in Playable
  /\ attached' = op.entry /\ delay' = 0
  /\ UNCHANGED <<disk, up, config, activeTitle, failed, open, playing, op, history>>

\* The file cannot be read, or has no cue.
CheckFails ==
  /\ pc = "check" /\ op.entry # None
  /\ IF op.kind = "upload" THEN pc' = "reject" /\ UNCHANGED op ELSE Finish
  /\ UNCHANGED <<disk, process, history>>

\* An upload is committed here, a deletion once its file is removed as well.
StartOutput ==
  /\ pc = "start" /\ open' = TRUE /\ playing' = ContentOf(attached) /\ failed' = FALSE
  /\ pc' = CASE op.kind = "upload" -> "discard"
             [] op.kind = "delete" -> "commit"
             [] OTHER -> "apply"
  /\ op' = [op EXCEPT !.switched = TRUE, !.done = op.kind # "delete", !.installed = FALSE]
  /\ committed' = IF op.kind = "upload" THEN [committed EXCEPT ![op.entry] = op.content]
                                        ELSE committed
  /\ UNCHANGED <<disk, up, config, activeTitle, attached, delay, requests, acked>>

\* The replacement cannot be built: the old output keeps running.
ConstructionFails ==
  /\ pc = "start" /\ pc' = "restore"
  /\ UNCHANGED <<disk, process, op, history>>

\* It was built and did not start: the old output is gone too.
StartupFails ==
  /\ pc = "start" /\ pc' = "restore"
  /\ open' = FALSE /\ playing' = None /\ failed' = TRUE
  /\ op' = [op EXCEPT !.switched = TRUE]
  /\ UNCHANGED <<disk, up, config, activeTitle, attached, delay, history>>

\* The commit_file of a deletion.
CommitDelete ==
  /\ pc = "commit" /\ pc' = "apply" /\ Remove(op.title)
  /\ UNCHANGED <<marker, saved, loadable, backups, process, op, requests, acked>>

CommitFails ==
  /\ pc = "commit" /\ pc' = "restore"
  /\ UNCHANGED <<disk, process, op, history>>

\* FileReplacement::Rollback puts the copy back, or removes what had none.
Rollback == files' = IF op.installed THEN [files EXCEPT ![op.entry] = op.previous]
                                     ELSE files

\* The old path comes back, after the bytes it may name.
Restore_BytesLast ==
  /\ pc \in {"reject", "restore"} /\ UNCHANGED files
  /\ attached' = op.was /\ delay' = op.wasDelay
  /\ IF op.switched /\ (open \/ op.wasOpen) THEN pc' = "reopen" /\ UNCHANGED op
                                            ELSE GiveUp(op)
  /\ UNCHANGED <<marker, saved, loadable, backups, up, config, activeTitle, failed, open,
                 playing, history>>
Restore ==
  LET hook == [op EXCEPT !.installed = FALSE,
                         !.previous = IF op.installed THEN None ELSE @]
  IN  /\ pc \in {"reject", "restore"} /\ Rollback
      /\ attached' = op.was /\ delay' = op.wasDelay
      /\ IF op.switched /\ (open \/ op.wasOpen) THEN pc' = "reopen" /\ op' = hook
                                                ELSE GiveUp(hook)
      /\ UNCHANGED <<marker, saved, loadable, backups, up, config, activeTitle, failed,
                     open, playing, history>>

\* Without its bytes the old path is not reopened: the process has to end.
RestoreFails ==
  /\ pc \in {"reject", "restore"} /\ op.installed
  /\ attached' = op.was /\ delay' = op.wasDelay /\ failed' = TRUE
  /\ IF pc = "restore" THEN open' = FALSE /\ playing' = None
                       ELSE UNCHANGED <<open, playing>>
  /\ GiveUp(op)
  /\ UNCHANGED <<disk, up, config, activeTitle, history>>

Reopen ==
  /\ pc = "reopen" /\ open' = TRUE /\ playing' = ContentOf(attached) /\ failed' = FALSE
  /\ GiveUp(op)
  /\ UNCHANGED <<disk, up, config, activeTitle, attached, delay, history>>

\* Built or not, there is no old output again.
ReopenFails ==
  /\ pc = "reopen" /\ failed' = TRUE
  /\ \/ open' = FALSE /\ playing' = None
     \/ UNCHANGED <<open, playing>>
  /\ GiveUp(op)
  /\ UNCHANGED <<disk, up, config, activeTitle, attached, delay, history>>

-----------------------------------------------------------------------------
(* The staging directory goes, and what was switched is written down. *)

\* ~FileReplacement tries once more to roll back what is still installed.
Discard_NoRollback ==
  /\ pc = "discard" /\ UNCHANGED files
  /\ IF op.done THEN pc' = "apply" /\ op' = [op EXCEPT !.previous = None] ELSE Finish
  /\ UNCHANGED <<marker, saved, loadable, backups, process, history>>
Discard ==
  /\ pc = "discard" /\ Rollback
  /\ IF op.done THEN pc' = "apply" /\ op' = [op EXCEPT !.previous = None] ELSE Finish
  /\ UNCHANGED <<marker, saved, loadable, backups, process, history>>

\* ... and keeps the copy when that fails; the upload is then half done.
Preserve ==
  /\ pc = "discard" /\ op.installed /\ Finish
  /\ backups' = backups \union
       (IF op.previous = None THEN {} ELSE {<<op.entry, op.previous>>})
  /\ UNCHANGED <<files, marker, saved, loadable, process, history>>

\* ApplySubtitleStyle follows an attach; the patch's own trim overrides it.
Apply_NoStyle ==
  /\ pc = "apply" /\ activeTitle' = TitleOf(op.entry)
  /\ delay' = Or(op.trim, delay)
  /\ IF loadable
     THEN /\ pc' = "save"
          /\ config' = [selected |-> TRUE, file |-> op.entry,
                        delay |-> Or(op.trim, config.delay)]
     ELSE pc' = "mark" /\ UNCHANGED config
  /\ UNCHANGED <<disk, up, attached, failed, open, playing, op, history>>
Apply ==
  /\ pc = "apply" /\ activeTitle' = TitleOf(op.entry)
  /\ delay' = Or(op.trim, IF op.entry = None THEN delay ELSE Or(config.delay, delay))
  /\ IF loadable
     THEN /\ pc' = "save"
          /\ config' = [selected |-> TRUE, file |-> op.entry,
                        delay |-> Or(op.trim, config.delay)]
     ELSE pc' = "mark" /\ UNCHANGED config
  /\ UNCHANGED <<disk, up, attached, failed, open, playing, op, history>>

\* Config::Save.
Save ==
  /\ pc = "save" /\ saved' = config
  /\ IF op.kind = "trim" THEN Finish /\ acked' = Target
                         ELSE pc' = "mark" /\ UNCHANGED <<op, acked>>
  /\ UNCHANGED <<files, marker, loadable, backups, process, requests, committed>>

\* SetActiveSubtitle or ClearActiveSubtitle; the request is answered.
Mark ==
  /\ pc = "mark" /\ marker' = op.entry /\ Finish /\ acked' = Target
  /\ UNCHANGED <<files, saved, loadable, backups, process, requests, committed>>

\* kPersistenceFailed: applied, and perhaps not for the next boot.
WriteFails ==
  /\ pc \in {"save", "mark"} /\ Finish /\ acked' = acked \union Target
  /\ UNCHANGED <<disk, process, requests, committed>>

Hooks ==
  \/ \E title \in Titles, content \in Contents : Upload(title, content)
  \/ \E title \in Titles, trim \in Delays \union {None} : Select(title, trim)
  \/ \E trim \in Delays \union {None} : Detach(trim)
  \/ \E title \in Titles : DeleteAttached(title) \/ DeleteOther(title)
  \/ \E trim \in Delays : Trim(trim)

Switching ==
  \/ Install \/ InstallFails \/ CheckPasses \/ CheckFails
  \/ StartOutput \/ ConstructionFails \/ StartupFails
  \/ CommitDelete \/ CommitFails
  \/ Restore \/ RestoreFails \/ Reopen \/ ReopenFails

Writing == Discard \/ Preserve \/ Apply \/ Save \/ Mark \/ WriteFails

Next == Boot \/ Crash \/ OutputFails \/ SaveWhisper \/ Hooks \/ Switching \/ Writing

Spec == Init /\ [][Next]_vars

-----------------------------------------------------------------------------
(* Properties. *)

Content == Contents \union {None}
Entry   == Entries \union {None}
Trims   == Delays \union {None}
Delay   == Delays \union {0}
Keys    == [selected : BOOLEAN, file : Entry, delay : Trims]
Hook    == [kind : {"none", "upload", "set", "delete", "trim"},
            title : Titles \union {None}, entry : Entry, trim : Trims,
            content : Content, previous : Content, installed : BOOLEAN, done : BOOLEAN,
            was : Entry, wasDelay : Delay, wasOpen : BOOLEAN, switched : BOOLEAN]
Steps   == {"idle", "staged", "check", "start", "commit", "reject", "restore", "reopen",
            "discard", "apply", "save", "mark"}

DiskTypes ==
  /\ files \in [Entries -> Content] /\ committed \in [Entries -> Content]
  /\ marker \in Entry /\ saved \in Keys /\ loadable \in BOOLEAN
  /\ backups \subseteq Entries \X Contents
FlagTypes == up \in BOOLEAN /\ failed \in BOOLEAN /\ open \in BOOLEAN
StreamTypes ==
  /\ config \in Keys /\ attached \in Entry /\ delay \in Delay
  /\ activeTitle \in Titles \union {None} /\ playing \in Content
ReplyTypes == requests \in 0 .. MaxRequests /\ acked \subseteq [file : Entry, delay : Delay]

\* Every variable stays within its type: the types of the fields of
\* Stream::Implementation, Config::Values and FileReplacement.
TypeOK ==
  DiskTypes /\ FlagTypes /\ StreamTypes /\ pc \in Steps /\ op \in Hook /\ ReplyTypes

\* Whenever the process dies, the next boot comes up with the file and the trim
\* of the last request answered with success, or of one that has been answered
\* with a persistence failure or cut off after its write since, and without a file
\* only if that one was deleted (main's boot resume against the order config,
\* Save, marker of the hooks).
SelectionSurvives ==
  \E sel \in acked \union Written :
    /\ BootFile = sel.file \/ (BootFile = None /\ committed[sel.file] = None)
    /\ (loadable /\ BootFile # None) => BootDelay = sel.delay

\* Between requests a healthy output plays the bytes that are on disk under the
\* attached path, the reported title is that path's, and path and trim are what a
\* reply has said, so that a restart would change nothing (SetSubtitleFile and
\* FileReplacement: the bytes come back before the old path is reopened;
\* ApplySubtitleStyle after every attach, since a switch resets the trim).
LiveStreamIsAcked ==
  (up /\ pc = "idle" /\ ~failed) =>
    /\ open /\ playing = ContentOf(attached) /\ activeTitle = TitleOf(attached)
    /\ \E sel \in acked :
         /\ sel.file = attached
         /\ (loadable /\ attached # None) => sel.delay = delay

\* No failure or crash loses an acknowledged file: it is in the library, or
\* its copy in a staging directory (FileReplacement, RemoveLibrarySubtitle as
\* the commit of a deletion).
BytesSurvive ==
  \A entry \in Entries :
    \/ files[entry] = committed[entry]
    \/ committed[entry] = None
    \/ <<entry, committed[entry]>> \in backups \union {<<op.entry, op.previous>>}

\* A switch that fails leaves path and trim as they were, with the old output
\* running on the old file unless the output is reported failed.
FailedSwitchRestores ==
  [][(/\ pc \in {"check", "reject", "restore", "reopen", "discard"}
      /\ pc' = "idle" /\ up')
       => /\ attached' = op.was /\ delay' = op.wasDelay
          /\ failed' \/ (open' /\ playing' = ContentOf(attached)')]_vars

\* A title that was deleted is not found again (tests/paths_tests.cpp:408).
DeletedIsGone ==
  [][(pc = "commit" /\ pc' = "apply") => Find(op.title)' = None]_vars

=============================================================================
