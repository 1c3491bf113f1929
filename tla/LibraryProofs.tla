---------------------------- MODULE LibraryProofs ----------------------------
(***************************************************************************)
(* Proofs about Library for any titles, contents and trims.  A hook takes  *)
(* several steps, each of which may fail or be the last one before a crash *)
(* or a power loss: IInv says what is on disk, what plays and what the     *)
(* replies sent so far have promised at each of them.                      *)
(***************************************************************************)
EXTENDS Library, TLAPS

\* The bytes below an upload that has been installed and not yet committed.
Under(entry) == IF op.installed /\ entry = op.entry THEN op.previous ELSE files[entry]
UnderOf(entry) == IF entry = None THEN None ELSE Under(entry)

\* Where the switch has not been decided, and where it has succeeded.
Undecided ==
  \/ pc \in {"staged", "check", "start", "commit", "reject", "restore", "reopen"}
  \/ pc = "discard" /\ ~op.done
Decided ==
  \/ pc = "apply"
  \/ pc \in {"save", "mark"} /\ op.kind # "trim"
  \/ pc = "discard" /\ op.done

\* What a hook has in hand at each of its steps.
HookShape ==
  /\ pc = "idle" => op = NoHook
  /\ pc # "idle" => up /\ op.kind # "none"
  /\ op.kind = "upload" => op.entry \in Entries /\ op.content \in Contents
  /\ op.kind = "delete" => op.entry = None
  /\ op.kind = "trim" => pc = "save" /\ op.trim # None /\ config.delay = op.trim
  /\ op.installed => /\ op.kind = "upload" /\ files[op.entry] = op.content
                     /\ pc \in {"check", "start", "reject", "restore", "discard"}
  /\ op.previous # None => op.kind = "upload"
  /\ pc = "staged" => /\ op.kind = "upload" /\ op.previous = files[op.entry]
  /\ pc \in {"staged", "check", "reject", "start"} => ~op.switched
  /\ pc \in {"check", "start", "reject"} => (op.kind = "upload" => op.installed)
  /\ pc \in {"reject", "discard"} => op.kind = "upload"
  /\ pc = "commit" => op.kind = "delete" /\ op.switched
  /\ Undecided => ~op.done
  /\ pc = "discard" /\ op.installed => failed /\ ~op.done
  /\ pc = "save" => loadable

\* A file that should be there is there, or below an upload in progress, or a copy
\* of it is in a staging directory; and a file that should be there is never none.
BytesKept ==
  \A entry \in Entries : committed[entry] # None =>
    /\ Under(entry) # None
    /\ Under(entry) = committed[entry] \/ <<entry, committed[entry]>> \in backups

\* What the replies allow to be attached.
Promised(entry, trim) ==
  \E sel \in acked : /\ sel.file = entry
                     /\ (loadable /\ entry # None) => sel.delay = trim
Replies ==
  /\ up /\ pc = "idle" => activeTitle = TitleOf(attached) /\ Promised(attached, delay)
  /\ Undecided => activeTitle = TitleOf(op.was) /\ Promised(op.was, op.wasDelay)
  /\ pc \in {"staged", "check", "reject", "reopen"} \/ (pc = "discard" /\ ~op.done)
       => attached = op.was /\ delay = op.wasDelay
  /\ pc \in {"start", "commit"} \/ Decided => attached = op.entry
  /\ pc \in {"start", "commit", "apply"} \/ (pc = "discard" /\ op.done) => delay = 0
  /\ pc \in {"save", "mark"} /\ op.kind # "trim" =>
       /\ activeTitle = TitleOf(op.entry)
       /\ loadable /\ op.entry # None => delay = Or(op.trim, Or(config.delay, 0))
  /\ op.kind = "trim" => activeTitle = TitleOf(attached) /\ delay = op.trim

\* What plays, unless the output is reported failed.
Output ==
  /\ up /\ ~failed => open
  /\ up /\ ~failed =>
       /\ pc \in {"staged", "check", "start", "reject"} \/ (pc = "restore" /\ ~op.switched)
            => playing = UnderOf(op.was)
       /\ pc = "idle" \/ pc = "commit" \/ pc = "discard" \/ Decided \/ op.kind = "trim"
            => playing = ContentOf(attached)

\* The selections that config.ini and the process hold.
Stored   == Selection(Named(saved), Or(saved.delay, 0))
InMemory == Selection(Named(config), Or(config.delay, 0))
Durable ==
  /\ Stored \in acked \union Written
  /\ up => InMemory \in acked \union (IF pc \in {"save", "mark"} THEN Target ELSE {})
  /\ loadable /\ pc \in {"save", "mark"} /\ op.kind # "trim" =>
       /\ config.selected /\ config.file = op.entry
       /\ op.trim # None => config.delay = op.trim
  /\ loadable /\ pc = "mark" => saved = config

IInv == TypeOK /\ HookShape /\ BytesKept /\ Replies /\ Output /\ Durable

-----------------------------------------------------------------------------
(* Types. *)

\* The fields of a hook have their types.
LEMMA HookFields == ASSUME NEW hook \in Hook
  PROVE /\ hook.title \in Titles \union {None} /\ hook.entry \in Entry
        /\ hook.trim \in Trims /\ hook.content \in Content /\ hook.previous \in Content
        /\ hook.was \in Entry /\ hook.wasDelay \in Delay
BY DEF Hook

\* The fields of keys have their types.
LEMMA KeyFields == ASSUME NEW keys \in Keys
                   PROVE keys.file \in Entry /\ keys.delay \in Trims
BY DEF Keys

\* No keys are keys.
LEMMA NoKeysAreKeys == NoKeys \in Keys
BY DEF NoKeys, Keys, Entry, Trims

\* A trim that is changed leaves keys.
LEMMA TrimmedKeys == ASSUME NEW keys \in Keys, NEW trim \in Delays
                     PROVE [keys EXCEPT !.delay = trim] \in Keys
BY DEF Keys, Trims

\* A selection is written as keys.
LEMMA SelectedKeys == ASSUME NEW entry \in Entry, NEW trim \in Trims
  PROVE [selected |-> TRUE, file |-> entry, delay |-> trim] \in Keys
BY DEF Keys

\* No hook is a hook like any other.
LEMMA NoHookIsHook == NoHook \in Hook
BY DEF NoHook, Hook, Entry, Trims, Content, Delay

\* A hook that begins remembers the stream as it is.
LEMMA HookBegun ==
  ASSUME NEW hook \in Hook, NEW was \in Entry, NEW d \in Delay, NEW isOpen \in BOOLEAN
  PROVE  [hook EXCEPT !.was = was, !.wasDelay = d, !.wasOpen = isOpen] \in Hook
BY DEF Hook

\* An upload is a hook.
LEMMA UploadHook ==
  ASSUME NEW t \in Titles, NEW e \in Entry, NEW c \in Contents, NEW p \in Content
  PROVE  [NoHook EXCEPT !.kind = "upload", !.title = t, !.entry = e, !.content = c,
                        !.previous = p] \in Hook
BY DEF NoHook, Hook, Entry, Trims, Content, Delay

\* A selection is a hook.
LEMMA SelectHook ==
  ASSUME NEW t \in Titles, NEW e \in Entry, NEW d \in Trims
  PROVE  [NoHook EXCEPT !.kind = "set", !.title = t, !.entry = e, !.trim = d] \in Hook
BY DEF NoHook, Hook, Entry, Trims, Content, Delay

\* A detachment is a hook.
LEMMA DetachHook ==
  ASSUME NEW d \in Trims PROVE [NoHook EXCEPT !.kind = "set", !.trim = d] \in Hook
BY DEF NoHook, Hook, Entry, Trims, Content, Delay

\* A deletion is a hook.
LEMMA DeleteHook ==
  ASSUME NEW t \in Titles PROVE [NoHook EXCEPT !.kind = "delete", !.title = t] \in Hook
BY DEF NoHook, Hook, Entry, Trims, Content, Delay

\* A trim is a hook.
LEMMA TrimHook ==
  ASSUME NEW d \in Delays PROVE [NoHook EXCEPT !.kind = "trim", !.trim = d] \in Hook
BY DEF NoHook, Hook, Entry, Trims, Content, Delay

\* A hook that has installed its file is a hook.
LEMMA HookInstalled ==
  ASSUME NEW hook \in Hook PROVE [hook EXCEPT !.installed = TRUE] \in Hook
BY DEF Hook

\* A hook that has switched the output is a hook.
LEMMA HookSwitched ==
  ASSUME NEW hook \in Hook PROVE [hook EXCEPT !.switched = TRUE] \in Hook
BY DEF Hook

\* A hook whose output has started is a hook.
LEMMA HookStarted ==
  ASSUME NEW hook \in Hook, NEW d \in BOOLEAN
  PROVE  [hook EXCEPT !.switched = TRUE, !.done = d, !.installed = FALSE] \in Hook
BY DEF Hook

\* A hook that has rolled back is a hook.
LEMMA HookRestored ==
  ASSUME NEW hook \in Hook, NEW p \in Content
  PROVE  [hook EXCEPT !.installed = FALSE, !.previous = p] \in Hook
BY DEF Hook

\* A hook that has dropped its copy is a hook.
LEMMA HookDiscarded ==
  ASSUME NEW hook \in Hook PROVE [hook EXCEPT !.previous = None] \in Hook
BY DEF Hook, Content

\* A title is found among the entries, or not.
LEMMA FindIsEntry == ASSUME NEW title \in Titles
                     PROVE Find(title) \in Entry
BY DEF Find, Entry, Entries

\* An entry holds a content or nothing.
LEMMA ContentOfType == ASSUME DiskTypes, NEW entry \in Entry
                       PROVE ContentOf(entry) \in Content
BY DEF ContentOf, DiskTypes, Entry, Content

\* Keys or the marker name an entry or nothing.
LEMMA NamedType == ASSUME DiskTypes, NEW keys \in Keys PROVE Named(keys) \in Entry
<1>1. Named(keys) = keys.file \/ Named(keys) = marker
  BY Zenon DEF Named
<1> QED
  BY <1>1, KeyFields, Zenon DEF DiskTypes

\* A boot attaches an entry or nothing.
LEMMA BootFileType == ASSUME DiskTypes PROVE BootFile \in Entry
<1>1. BootFile = None \/ BootFile = Named(saved)
  BY Zenon DEF BootFile
<1>2. Named(saved) \in Entry
  BY NamedType DEF DiskTypes
<1> QED
  BY <1>1, <1>2 DEF Entry

\* An entry has a title.
LEMMA TitleOfType == ASSUME NEW entry \in Entry
                     PROVE TitleOf(entry) \in Titles \union {None}
BY LibraryAssumption DEF TitleOf, Entry, Entries

\* A trim that is absent is zero.
LEMMA OrType == ASSUME NEW trim \in Trims PROVE Or(trim, 0) \in Delay
BY DEF Or, Trims, Delay

\* A selection is a file and a trim.
LEMMA SelectionType == ASSUME NEW entry \in Entry, NEW d \in Delay
                       PROVE Selection(entry, d) \in [file : Entry, delay : Delay]
BY DEF Selection, Delay

\* A rollback writes the copy that was taken, or nothing.
LEMMA RollbackTypes ==
  DiskTypes /\ op \in Hook /\ Rollback => files' \in [Entries -> Content]
<1> SUFFICES ASSUME DiskTypes, op \in Hook, Rollback PROVE files' \in [Entries -> Content]
  OBVIOUS
<1>1. files' = files \/ files' = [files EXCEPT ![op.entry] = op.previous]
  BY Zenon DEF Rollback
<1>2. files \in [Entries -> Content] /\ op.previous \in Content
  BY HookFields DEF DiskTypes
<1> QED
  BY <1>1, <1>2

\* There is a copy only where an upload has a target.
LEMMA PreviousIsCopy ==
  TypeOK /\ HookShape /\ op.previous # None =>
    <<op.entry, op.previous>> \in Entries \X Contents
<1> SUFFICES ASSUME TypeOK, HookShape, op.previous # None
             PROVE  <<op.entry, op.previous>> \in Entries \X Contents
  OBVIOUS
<1>1. op.previous \in Content
  BY HookFields, Zenon DEF TypeOK
<1>2. op.kind = "upload"
  BY Zenon DEF HookShape
<1>3. op.entry \in Entries
  BY <1>2, Zenon DEF HookShape
<1> QED
  BY <1>1, <1>3 DEF Content

\* What is on disk keeps its type.
LEMMA DiskTypesNext == TypeOK /\ HookShape /\ [Next]_vars => DiskTypes'
<1> SUFFICES ASSUME TypeOK /\ HookShape, [Next]_vars PROVE DiskTypes'
  OBVIOUS
<1> USE DEF TypeOK, DiskTypes, disk, stream, process, history
<1>1. CASE UNCHANGED vars
  BY <1>1 DEF vars
<1>2. CASE Boot \/ OutputFails \/ InstallFails \/ CheckPasses \/ CheckFails \/
            ConstructionFails
  BY <1>2 DEF Boot, OutputFails, InstallFails, GiveUp, CheckPasses, CheckFails,
     Finish, ConstructionFails
<1>3. CASE StartupFails \/ CommitFails \/ RestoreFails \/ Reopen \/ ReopenFails \/
            Apply
  BY <1>3 DEF StartupFails, CommitFails, RestoreFails, GiveUp, Reopen, Finish,
     ReopenFails, Apply
<1>4. CASE WriteFails
  BY <1>4 DEF WriteFails, Finish
<1>5. ASSUME NEW title \in Titles, NEW content \in Contents, Upload(title, content)
      PROVE  DiskTypes'
  BY <1>5 DEF Upload, Begin, Accept
<1>6. ASSUME NEW title \in Titles, NEW trim \in Delays \union {None}, Select(title, trim)
      PROVE  DiskTypes'
  BY <1>6 DEF Select, Begin, Accept, Find
<1>7. ASSUME NEW trim \in Delays \union {None}, Detach(trim) PROVE DiskTypes'
  BY <1>7 DEF Detach, Begin, Accept
<1>8. ASSUME NEW title \in Titles, DeleteAttached(title) PROVE DiskTypes'
  BY <1>8 DEF DeleteAttached, Begin, Accept, Find
<1>9. ASSUME NEW trim \in Delays, Trim(trim) PROVE DiskTypes'
  BY <1>9 DEF Trim, Accept
<1>10. CASE Crash
  <2>1. backups' = backups \union
         (IF op.previous = None THEN {} ELSE {<<op.entry, op.previous>>})
    BY <1>10, Zenon DEF Crash
  <2>2. UNCHANGED <<files, committed, marker, saved, loadable>>
    BY <1>10 DEF Crash
  <2>3. op.previous # None => <<op.entry, op.previous>> \in Entries \X Contents
    BY PreviousIsCopy
  <2> QED
    BY <2>1, <2>2, <2>3
<1>11. CASE SaveWhisper
  <2>1. saved' = config /\ UNCHANGED <<files, committed, marker, loadable, backups>>
    BY <1>11, Zenon DEF SaveWhisper
  <2>2. config \in Keys
    BY DEF StreamTypes
  <2> QED
    BY <2>1, <2>2, Zenon
<1>12. ASSUME NEW title \in Titles, DeleteOther(title) PROVE DiskTypes'
  <2>1. /\ files' = [files EXCEPT ![Find(title)] = None]
        /\ committed' = [committed EXCEPT ![Find(title)] = None]
    BY <1>12, Zenon DEF DeleteOther, Remove
  <2>2. UNCHANGED <<marker, saved, loadable, backups>>
    BY <1>12 DEF DeleteOther
  <2> QED
    BY <2>1, <2>2 DEF Content
<1>13. CASE Install
  <2>1. files' = [files EXCEPT ![op.entry] = op.content]
    BY <1>13, Zenon DEF Install
  <2>2. UNCHANGED <<committed, marker, saved, loadable, backups>>
    BY <1>13 DEF Install
  <2>3. op.content \in Content
    BY HookFields
  <2> QED
    BY <2>1, <2>2, <2>3
<1>14. CASE StartOutput
  <2>1. \/ committed' = committed
        \/ committed' = [committed EXCEPT ![op.entry] = op.content]
    BY <1>14, Zenon DEF StartOutput
  <2>2. UNCHANGED <<files, marker, saved, loadable, backups>>
    BY <1>14 DEF StartOutput
  <2>3. op.content \in Content
    BY HookFields
  <2> QED
    BY <2>1, <2>2, <2>3
<1>15. CASE CommitDelete
  <2>1. /\ files' = [files EXCEPT ![Find(op.title)] = None]
        /\ committed' = [committed EXCEPT ![Find(op.title)] = None]
    BY <1>15, Zenon DEF CommitDelete, Remove
  <2>2. UNCHANGED <<marker, saved, loadable, backups>>
    BY <1>15 DEF CommitDelete
  <2> QED
    BY <2>1, <2>2 DEF Content
<1>16. CASE Restore
  <2>1. Rollback /\ UNCHANGED <<committed, marker, saved, loadable, backups>>
    BY <1>16, Zenon DEF Restore
  <2> QED
    BY <2>1, RollbackTypes, Zenon
<1>17. CASE Discard
  <2>1. Rollback /\ UNCHANGED <<committed, marker, saved, loadable, backups>>
    BY <1>17, Zenon DEF Discard
  <2> QED
    BY <2>1, RollbackTypes, Zenon
<1>18. CASE Preserve
  <2>1. backups' = backups \union
         (IF op.previous = None THEN {} ELSE {<<op.entry, op.previous>>})
    BY <1>18, Zenon DEF Preserve
  <2>2. UNCHANGED <<files, committed, marker, saved, loadable>>
    BY <1>18 DEF Preserve
  <2>3. op.previous # None => <<op.entry, op.previous>> \in Entries \X Contents
    BY PreviousIsCopy
  <2> QED
    BY <2>1, <2>2, <2>3
<1>19. CASE Save
  <2>1. saved' = config /\ UNCHANGED <<files, committed, marker, loadable, backups>>
    BY <1>19, Zenon DEF Save
  <2>2. config \in Keys
    BY DEF StreamTypes
  <2> QED
    BY <2>1, <2>2, Zenon
<1>20. CASE Mark
  <2>1. marker' = op.entry /\ UNCHANGED <<files, committed, saved, loadable, backups>>
    BY <1>20, Zenon DEF Mark
  <2>2. op.entry \in Entry
    BY HookFields
  <2> QED
    BY <2>1, <2>2, Zenon
<1> HIDE DEF TypeOK, DiskTypes
<1> QED
  BY <1>1, <1>2, <1>3, <1>4, <1>5, <1>6, <1>7, <1>8, <1>9, <1>10, <1>11, <1>12,
     <1>13, <1>14, <1>15, <1>16, <1>17, <1>18, <1>19, <1>20
     DEF Next, Hooks, Switching, Writing

\* The stream and the keys in memory keep their types.
LEMMA StreamTypesNext == TypeOK /\ HookShape /\ [Next]_vars => StreamTypes'
<1> SUFFICES ASSUME TypeOK /\ HookShape, [Next]_vars PROVE StreamTypes'
  OBVIOUS
<1> USE DEF TypeOK, StreamTypes, disk, stream, process, history
<1>1. CASE UNCHANGED vars
  BY <1>1 DEF vars
<1>2. CASE OutputFails \/ SaveWhisper \/ Install \/ InstallFails \/ CheckFails \/
            ConstructionFails
  BY <1>2 DEF OutputFails, SaveWhisper, Install, InstallFails, GiveUp, CheckFails,
     Finish, ConstructionFails
<1>3. CASE CommitDelete \/ CommitFails \/ Discard \/ Preserve \/ Save \/ Mark
  BY <1>3 DEF CommitDelete, Remove, Find, CommitFails, Discard, Rollback, Finish,
     Preserve, Save, Mark
<1>4. CASE WriteFails
  BY <1>4 DEF WriteFails, Finish
<1>5. ASSUME NEW title \in Titles, NEW content \in Contents, Upload(title, content)
      PROVE  StreamTypes'
  BY <1>5 DEF Upload, Begin, Accept
<1>6. ASSUME NEW title \in Titles, NEW trim \in Delays \union {None}, Select(title, trim)
      PROVE  StreamTypes'
  BY <1>6 DEF Select, Begin, Accept, Find
<1>7. ASSUME NEW trim \in Delays \union {None}, Detach(trim) PROVE StreamTypes'
  BY <1>7 DEF Detach, Begin, Accept
<1>8. ASSUME NEW title \in Titles, DeleteAttached(title) PROVE StreamTypes'
  BY <1>8 DEF DeleteAttached, Begin, Accept, Find
<1>9. ASSUME NEW title \in Titles, DeleteOther(title) PROVE StreamTypes'
  BY <1>9 DEF DeleteOther, Accept, Remove, Find
<1>10. CASE Boot
  <2>1. /\ config' = (IF loadable THEN saved ELSE NoKeys)
        /\ attached' = BootFile /\ delay' = BootDelay /\ activeTitle' = TitleOf(BootFile)
        /\ playing' = ContentOf(BootFile)
    BY <1>10, Zenon DEF Boot
  <2>2. BootFile \in Entry
    BY BootFileType
  <2>3. BootDelay = 0 \/ BootDelay = Or(saved.delay, 0)
    BY Zenon DEF BootDelay
  <2>4. saved.delay \in Trims /\ saved \in Keys
    BY KeyFields DEF DiskTypes
  <2>5. BootDelay \in Delay
    BY <2>3, <2>4, OrType DEF Delay
  <2>6. ContentOf(BootFile) \in Content /\ TitleOf(BootFile) \in Titles \union {None}
    BY <2>2, ContentOfType, TitleOfType
  <2>7. config' \in Keys
    BY <2>1, <2>4, NoKeysAreKeys
  <2> QED
    BY <2>1, <2>2, <2>5, <2>6, <2>7, Zenon
<1>11. CASE Crash
  <2>1. /\ config' = NoKeys /\ attached' = None /\ delay' = 0 /\ activeTitle' = None
        /\ playing' = None
    BY <1>11, Zenon DEF Crash
  <2> QED
    BY <2>1, NoKeysAreKeys DEF Entry, Delay, Content
<1>12. ASSUME NEW trim \in Delays, Trim(trim) PROVE StreamTypes'
  <2>1. /\ delay' = trim /\ UNCHANGED <<attached, activeTitle, playing>>
        /\ config' = config \/ config' = [config EXCEPT !.delay = trim]
    BY <1>12, Zenon DEF Trim
  <2>2. config' \in Keys
    BY <2>1, TrimmedKeys
  <2>3. trim \in Delay
    BY DEF Delay
  <2> QED
    BY <2>1, <2>2, <2>3
<1>13. CASE CheckPasses
  <2>1. /\ attached' = op.entry /\ delay' = 0
        /\ UNCHANGED <<config, activeTitle, playing>>
    BY <1>13, Zenon DEF CheckPasses
  <2>2. op.entry \in Entry /\ 0 \in Delay
    BY HookFields DEF Delay
  <2> QED
    BY <2>1, <2>2
<1>14. CASE StartOutput
  <2>1. /\ playing' = ContentOf(attached)
        /\ UNCHANGED <<config, attached, delay, activeTitle>>
    BY <1>14, Zenon DEF StartOutput
  <2>2. ContentOf(attached) \in Content
    BY ContentOfType
  <2> QED
    BY <2>1, <2>2
<1>15. CASE StartupFails
  <2>1. /\ playing' = None \/ playing' = playing
        /\ UNCHANGED <<config, attached, delay, activeTitle>>
    BY <1>15, Zenon DEF StartupFails
  <2> QED
    BY <2>1 DEF Content
<1>16. CASE Restore
  <2>1. /\ attached' = op.was /\ delay' = op.wasDelay
        /\ UNCHANGED <<config, activeTitle, playing>>
    BY <1>16, Zenon DEF Restore
  <2>2. op.was \in Entry /\ op.wasDelay \in Delay
    BY HookFields
  <2> QED
    BY <2>1, <2>2
<1>17. CASE RestoreFails
  <2>1. /\ attached' = op.was /\ delay' = op.wasDelay
        /\ playing' = None \/ playing' = playing
        /\ UNCHANGED <<config, activeTitle>>
    BY <1>17, Zenon DEF RestoreFails
  <2>2. op.was \in Entry /\ op.wasDelay \in Delay
    BY HookFields
  <2> QED
    BY <2>1, <2>2 DEF Content
<1>18. CASE Reopen
  <2>1. /\ playing' = ContentOf(attached)
        /\ UNCHANGED <<config, attached, delay, activeTitle>>
    BY <1>18, Zenon DEF Reopen
  <2>2. ContentOf(attached) \in Content
    BY ContentOfType
  <2> QED
    BY <2>1, <2>2
<1>19. CASE ReopenFails
  <2>1. /\ playing' = None \/ playing' = playing
        /\ UNCHANGED <<config, attached, delay, activeTitle>>
    BY <1>19, Zenon DEF ReopenFails
  <2> QED
    BY <2>1 DEF Content
<1>20. CASE Apply
  <2>1. /\ activeTitle' = TitleOf(op.entry) /\ UNCHANGED <<attached, playing>>
        /\ delay' = Or(op.trim, IF op.entry = None THEN delay ELSE Or(config.delay, delay))
        /\ \/ config' = config
           \/ config' = [selected |-> TRUE, file |-> op.entry,
                         delay |-> Or(op.trim, config.delay)]
    BY <1>20, Zenon DEF Apply
  <2>2. op.entry \in Entry /\ op.trim \in Trims /\ config.delay \in Trims
    BY HookFields, KeyFields
  <2>3. delay' \in Delay
    BY <2>1, <2>2 DEF Or, Trims, Delay
  <2>4. Or(op.trim, config.delay) \in Trims
    BY <2>2 DEF Or, Trims
  <2>5. config' \in Keys
    BY <2>1, <2>2, <2>4, SelectedKeys
  <2>6. TitleOf(op.entry) \in Titles \union {None}
    BY <2>2, TitleOfType
  <2> QED
    BY <2>1, <2>3, <2>5, <2>6
<1> HIDE DEF TypeOK, StreamTypes
<1> QED
  BY <1>1, <1>2, <1>3, <1>4, <1>5, <1>6, <1>7, <1>8, <1>9, <1>10, <1>11, <1>12,
     <1>13, <1>14, <1>15, <1>16, <1>17, <1>18, <1>19, <1>20
     DEF Next, Hooks, Switching, Writing

\* The flags are flags.
LEMMA FlagTypesNext == FlagTypes /\ [Next]_vars => FlagTypes'
<1> SUFFICES ASSUME FlagTypes, [Next]_vars PROVE FlagTypes'
  OBVIOUS
<1> USE DEF FlagTypes, disk, stream, process, history
<1>1. CASE UNCHANGED vars
  BY <1>1 DEF vars
<1>2. CASE Boot \/ Crash \/ OutputFails \/ SaveWhisper \/ Install \/ InstallFails
  BY <1>2 DEF Boot, Crash, OutputFails, SaveWhisper, Install, InstallFails, GiveUp
<1>3. CASE CheckPasses \/ CheckFails \/ StartOutput \/ ConstructionFails \/
            StartupFails \/ CommitDelete
  BY <1>3 DEF CheckPasses, CheckFails, Finish, StartOutput, ConstructionFails,
     StartupFails, CommitDelete, Remove, Find
<1>4. CASE CommitFails \/ Restore \/ RestoreFails \/ Reopen \/ ReopenFails \/
            Discard
  BY <1>4 DEF CommitFails, Restore, Rollback, GiveUp, Finish, RestoreFails, Reopen,
     ReopenFails, Discard
<1>5. CASE Preserve \/ Apply \/ Save \/ Mark \/ WriteFails
  BY <1>5 DEF Preserve, Finish, Apply, Save, Mark, WriteFails
<1>6. ASSUME NEW title \in Titles, NEW content \in Contents, Upload(title, content)
      PROVE  FlagTypes'
  BY <1>6 DEF Upload, Begin, Accept
<1>7. ASSUME NEW title \in Titles, NEW trim \in Delays \union {None}, Select(title, trim)
      PROVE  FlagTypes'
  BY <1>7 DEF Select, Begin, Accept, Find
<1>8. ASSUME NEW trim \in Delays \union {None}, Detach(trim) PROVE FlagTypes'
  BY <1>8 DEF Detach, Begin, Accept
<1>9. ASSUME NEW title \in Titles, DeleteAttached(title) PROVE FlagTypes'
  BY <1>9 DEF DeleteAttached, Begin, Accept, Find
<1>10. ASSUME NEW title \in Titles, DeleteOther(title) PROVE FlagTypes'
  BY <1>10 DEF DeleteOther, Accept, Remove, Find
<1>11. ASSUME NEW trim \in Delays, Trim(trim) PROVE FlagTypes'
  BY <1>11 DEF Trim, Accept
<1> HIDE DEF FlagTypes
<1> QED
  BY <1>1, <1>2, <1>3, <1>4, <1>5, <1>6, <1>7, <1>8, <1>9, <1>10, <1>11
     DEF Next, Hooks, Switching, Writing

\* The hook and its step keep their types.
LEMMA HookTypesNext == TypeOK /\ [Next]_vars => (pc \in Steps /\ op \in Hook)'
<1> SUFFICES ASSUME TypeOK, [Next]_vars PROVE (pc \in Steps /\ op \in Hook)'
  OBVIOUS
<1> USE DEF TypeOK, disk, stream, process, history
<1>1. CASE UNCHANGED vars
  BY <1>1 DEF vars
<1>2. CASE Boot \/ OutputFails \/ SaveWhisper \/ CheckPasses \/ ConstructionFails \/
            CommitDelete
  BY <1>2 DEF Boot, OutputFails, SaveWhisper, CheckPasses, Steps, ConstructionFails,
     CommitDelete, Remove, Find
<1>3. CASE CommitFails \/ Apply
  BY <1>3 DEF CommitFails, Steps, Apply
<1>4. ASSUME NEW title \in Titles, DeleteOther(title)
      PROVE  (pc \in Steps /\ op \in Hook)'
  BY <1>4 DEF DeleteOther, Accept, Remove, Find
<1>5. CASE Crash
  <2>1. pc' = "idle" /\ op' = NoHook
    BY <1>5, Zenon DEF Crash
  <2> QED
    BY <2>1, NoHookIsHook DEF Steps
<1>6. ASSUME NEW title \in Titles, NEW content \in Contents, Upload(title, content)
      PROVE  (pc \in Steps /\ op \in Hook)'
  <2> DEFINE hook == [NoHook EXCEPT !.kind = "upload", !.title = title,
                       !.entry = <<title, "bucket">>, !.content = content,
                       !.previous = files[<<title, "bucket">>]]
  <2>1. /\ op' = [hook EXCEPT !.was = attached, !.wasDelay = delay, !.wasOpen = open]
        /\ pc' = "staged"
    BY <1>6, Zenon DEF Upload, Begin
  <2>2. <<title, "bucket">> \in Entry /\ files[<<title, "bucket">>] \in Content
    BY DEF Entry, Entries, DiskTypes
  <2>3. hook \in Hook
    BY <2>2, UploadHook DEF Trims
  <2> HIDE DEF hook
  <2>4. attached \in Entry /\ delay \in Delay /\ open \in BOOLEAN
    BY DEF StreamTypes, FlagTypes
  <2> QED
    BY <2>1, <2>3, <2>4, HookBegun DEF Steps
<1>7. ASSUME NEW title \in Titles, NEW trim \in Delays \union {None}, Select(title, trim)
      PROVE  (pc \in Steps /\ op \in Hook)'
  <2> DEFINE hook == [NoHook EXCEPT !.kind = "set", !.title = title, !.entry = Find(title),
                       !.trim = trim]
  <2>1. /\ op' = [hook EXCEPT !.was = attached, !.wasDelay = delay, !.wasOpen = open]
        /\ pc' = "check"
    BY <1>7, Zenon DEF Select, Begin
  <2>2. hook \in Hook
    BY FindIsEntry, SelectHook DEF Trims
  <2> HIDE DEF hook
  <2>3. attached \in Entry /\ delay \in Delay /\ open \in BOOLEAN
    BY DEF StreamTypes, FlagTypes
  <2> QED
    BY <2>1, <2>2, <2>3, HookBegun DEF Steps
<1>8. ASSUME NEW trim \in Delays \union {None}, Detach(trim)
      PROVE  (pc \in Steps /\ op \in Hook)'
  <2> DEFINE hook == [NoHook EXCEPT !.kind = "set", !.trim = trim]
  <2>1. /\ op' = [hook EXCEPT !.was = attached, !.wasDelay = delay, !.wasOpen = open]
        /\ pc' = "check"
    BY <1>8, Zenon DEF Detach, Begin
  <2>2. hook \in Hook
    BY DetachHook DEF Trims
  <2> HIDE DEF hook
  <2>3. attached \in Entry /\ delay \in Delay /\ open \in BOOLEAN
    BY DEF StreamTypes, FlagTypes
  <2> QED
    BY <2>1, <2>2, <2>3, HookBegun DEF Steps
<1>9. ASSUME NEW title \in Titles, DeleteAttached(title)
      PROVE  (pc \in Steps /\ op \in Hook)'
  <2> DEFINE hook == [NoHook EXCEPT !.kind = "delete", !.title = title]
  <2>1. /\ op' = [hook EXCEPT !.was = attached, !.wasDelay = delay, !.wasOpen = open]
        /\ pc' = "check"
    BY <1>9, Zenon DEF DeleteAttached, Begin
  <2>2. hook \in Hook
    BY DeleteHook DEF Trims
  <2> HIDE DEF hook
  <2>3. attached \in Entry /\ delay \in Delay /\ open \in BOOLEAN
    BY DEF StreamTypes, FlagTypes
  <2> QED
    BY <2>1, <2>2, <2>3, HookBegun DEF Steps
<1>10. ASSUME NEW trim \in Delays, Trim(trim) PROVE (pc \in Steps /\ op \in Hook)'
  <2>1. /\ op' = op \/ op' = [NoHook EXCEPT !.kind = "trim", !.trim = trim]
        /\ pc' = pc \/ pc' = "save"
    BY <1>10, Zenon DEF Trim
  <2> QED
    BY <2>1, TrimHook DEF Steps
<1>11. CASE Install
  <2>1. pc' = "check" /\ op' = [op EXCEPT !.installed = TRUE]
    BY <1>11, Zenon DEF Install
  <2> QED
    BY <2>1, HookInstalled DEF Steps
<1>12. CASE InstallFails
  <2>1. \/ pc' = "discard" /\ op' = op
        \/ pc' = "idle" /\ op' = NoHook
    BY <1>12, Zenon DEF InstallFails, GiveUp, Finish
  <2> QED
    BY <2>1, NoHookIsHook DEF Steps
<1>13. CASE CheckFails
  <2>1. \/ pc' = "reject" /\ op' = op
        \/ pc' = "idle" /\ op' = NoHook
    BY <1>13, Zenon DEF CheckFails, Finish
  <2> QED
    BY <2>1, NoHookIsHook DEF Steps
<1>14. CASE StartOutput
  <2> DEFINE decided == op.kind # "delete"
  <2>1. /\ op' = [op EXCEPT !.switched = TRUE, !.done = decided, !.installed = FALSE]
        /\ pc' \in {"discard", "commit", "apply"}
    BY <1>14, Zenon DEF StartOutput
  <2>2. decided \in BOOLEAN
    OBVIOUS
  <2> HIDE DEF decided
  <2> QED
    BY <2>1, <2>2, HookStarted DEF Steps
<1>15. CASE StartupFails
  <2>1. pc' = "restore" /\ op' = [op EXCEPT !.switched = TRUE]
    BY <1>15, Zenon DEF StartupFails
  <2> QED
    BY <2>1, HookSwitched DEF Steps
<1>16. CASE Restore
  <2> DEFINE copy == IF op.installed THEN None ELSE op.previous
             hook == [op EXCEPT !.installed = FALSE, !.previous = copy]
  <2>1. \/ pc' \in {"reopen", "discard"} /\ op' = hook
        \/ pc' = "idle" /\ op' = NoHook
    BY <1>16, Zenon DEF Restore, GiveUp, Finish
  <2>2. copy \in Content
    BY HookFields DEF Content
  <2> HIDE DEF copy
  <2> QED
    BY <2>1, <2>2, HookRestored, NoHookIsHook DEF Steps
<1>17. CASE RestoreFails
  <2>1. \/ pc' = "discard" /\ op' = op
        \/ pc' = "idle" /\ op' = NoHook
    BY <1>17, Zenon DEF RestoreFails, GiveUp, Finish
  <2> QED
    BY <2>1, NoHookIsHook DEF Steps
<1>18. CASE Reopen
  <2>1. \/ pc' = "discard" /\ op' = op
        \/ pc' = "idle" /\ op' = NoHook
    BY <1>18, Zenon DEF Reopen, GiveUp, Finish
  <2> QED
    BY <2>1, NoHookIsHook DEF Steps
<1>19. CASE ReopenFails
  <2>1. \/ pc' = "discard" /\ op' = op
        \/ pc' = "idle" /\ op' = NoHook
    BY <1>19, Zenon DEF ReopenFails, GiveUp, Finish
  <2> QED
    BY <2>1, NoHookIsHook DEF Steps
<1>20. CASE Discard
  <2>1. \/ pc' = "apply" /\ op' = [op EXCEPT !.previous = None]
        \/ pc' = "idle" /\ op' = NoHook
    BY <1>20, Zenon DEF Discard, Finish
  <2> QED
    BY <2>1, NoHookIsHook, HookDiscarded DEF Steps
<1>21. CASE Preserve
  <2>1. pc' = "idle" /\ op' = NoHook
    BY <1>21, Zenon DEF Preserve, Finish
  <2> QED
    BY <2>1, NoHookIsHook DEF Steps
<1>22. CASE Save
  <2>1. \/ pc' = "mark" /\ op' = op
        \/ pc' = "idle" /\ op' = NoHook
    BY <1>22, Zenon DEF Save, Finish
  <2> QED
    BY <2>1, NoHookIsHook DEF Steps
<1>23. CASE Mark
  <2>1. pc' = "idle" /\ op' = NoHook
    BY <1>23, Zenon DEF Mark, Finish
  <2> QED
    BY <2>1, NoHookIsHook DEF Steps
<1>24. CASE WriteFails
  <2>1. pc' = "idle" /\ op' = NoHook
    BY <1>24, Zenon DEF WriteFails, Finish
  <2> QED
    BY <2>1, NoHookIsHook DEF Steps
<1> HIDE DEF TypeOK
<1> QED
  BY <1>1, <1>2, <1>3, <1>4, <1>5, <1>6, <1>7, <1>8, <1>9, <1>10, <1>11, <1>12,
     <1>13, <1>14, <1>15, <1>16, <1>17, <1>18, <1>19, <1>20, <1>21, <1>22, <1>23,
     <1>24
     DEF Next, Hooks, Switching, Writing

\* A hook aims at selections.
LEMMA TargetType == TypeOK /\ HookShape => Target \subseteq [file : Entry, delay : Delay]
<1> SUFFICES ASSUME TypeOK, HookShape, NEW sel \in Target
             PROVE  sel \in [file : Entry, delay : Delay]
  OBVIOUS
<1>0. /\ op.entry \in Entry /\ op.trim \in Trims /\ config.delay \in Trims
      /\ attached \in Entry /\ Named(config) \in Entry
  BY HookFields, KeyFields, NamedType DEF TypeOK, StreamTypes
<1>1. CASE op.kind = "trim"
  <2>1. op.trim # None
    BY <1>1, Zenon DEF HookShape
  <2>2. op.trim \in Delay
    BY <1>0, <2>1 DEF Trims, Delay
  <2>3. sel = Selection(attached, op.trim) \/ sel = Selection(Named(config), op.trim)
    BY <1>1 DEF Target
  <2> QED
    BY <1>0, <2>2, <2>3, SelectionType
<1>2. CASE op.kind # "trim"
  <2>1. sel = Selection(op.entry, Or(op.trim, Or(config.delay, 0)))
    BY <1>2 DEF Target
  <2>2. Or(op.trim, Or(config.delay, 0)) \in Delay
    BY <1>0 DEF Or, Trims, Delay
  <2> QED
    BY <1>0, <2>1, <2>2, SelectionType
<1> QED
  BY <1>1, <1>2

\* The history keeps its types.
LEMMA ReplyTypesNext == TypeOK /\ HookShape /\ [Next]_vars => ReplyTypes'
<1> SUFFICES ASSUME TypeOK /\ HookShape, [Next]_vars PROVE ReplyTypes'
  OBVIOUS
<1> USE DEF TypeOK, ReplyTypes, disk, stream, process, history
<1>1. CASE UNCHANGED vars
  BY <1>1 DEF vars
<1>2. CASE OutputFails \/ SaveWhisper \/ Install \/ InstallFails \/ CheckPasses \/
            CheckFails
  BY <1>2 DEF OutputFails, SaveWhisper, Install, InstallFails, GiveUp, CheckPasses,
     CheckFails, Finish
<1>3. CASE StartOutput \/ ConstructionFails \/ StartupFails \/ CommitDelete \/
            CommitFails \/ Restore
  BY <1>3 DEF StartOutput, ConstructionFails, StartupFails, CommitDelete, Remove,
     Find, CommitFails, Restore, Rollback, GiveUp, Finish
<1>4. CASE RestoreFails \/ Reopen \/ ReopenFails \/ Discard \/ Preserve \/ Apply
  BY <1>4 DEF RestoreFails, GiveUp, Reopen, Finish, ReopenFails, Discard, Rollback,
     Preserve, Apply
<1>5. CASE Boot
  <2>1. /\ acked' = acked \union {Selection(BootFile, Or(saved.delay, 0))}
        /\ requests' = requests
    BY <1>5, Zenon DEF Boot
  <2>2. saved.delay \in Trims
    BY KeyFields DEF DiskTypes
  <2>3. BootFile \in Entry /\ Or(saved.delay, 0) \in Delay
    BY <2>2, BootFileType, OrType
  <2>4. Selection(BootFile, Or(saved.delay, 0)) \in [file : Entry, delay : Delay]
    BY <2>3, SelectionType
  <2> QED
    BY <2>1, <2>4
<1>6. CASE Crash
  <2>1. acked' = acked \union Written /\ requests' = requests
    BY <1>6, Zenon DEF Crash
  <2>2. Written = {} \/ Written = Target
    BY Zenon DEF Written
  <2> QED
    BY <2>1, <2>2, TargetType
<1>7. ASSUME NEW title \in Titles, NEW content \in Contents, Upload(title, content)
      PROVE  ReplyTypes'
  <2>1. requests < MaxRequests /\ requests' = requests + 1 /\ acked' = acked
    BY <1>7, Zenon DEF Upload, Accept, Begin, history
  <2> QED
    BY <2>1, LibraryAssumption
<1>8. ASSUME NEW title \in Titles, NEW trim \in Delays \union {None}, Select(title, trim)
      PROVE  ReplyTypes'
  <2>1. requests < MaxRequests /\ requests' = requests + 1 /\ acked' = acked
    BY <1>8, Zenon DEF Select, Accept, Begin, history
  <2> QED
    BY <2>1, LibraryAssumption
<1>9. ASSUME NEW trim \in Delays \union {None}, Detach(trim) PROVE ReplyTypes'
  <2>1. requests < MaxRequests /\ requests' = requests + 1 /\ acked' = acked
    BY <1>9, Zenon DEF Detach, Accept, Begin, history
  <2> QED
    BY <2>1, LibraryAssumption
<1>10. ASSUME NEW title \in Titles, DeleteAttached(title) PROVE ReplyTypes'
  <2>1. requests < MaxRequests /\ requests' = requests + 1 /\ acked' = acked
    BY <1>10, Zenon DEF DeleteAttached, Accept, Begin, history
  <2> QED
    BY <2>1, LibraryAssumption
<1>11. ASSUME NEW title \in Titles, DeleteOther(title) PROVE ReplyTypes'
  <2>1. requests < MaxRequests /\ requests' = requests + 1 /\ acked' = acked
    BY <1>11, Zenon DEF DeleteOther, Accept, Begin, history
  <2> QED
    BY <2>1, LibraryAssumption
<1>12. ASSUME NEW trim \in Delays, Trim(trim) PROVE ReplyTypes'
  <2>1. requests < MaxRequests /\ requests' = requests + 1 /\ acked' = acked
    BY <1>12, Zenon DEF Trim, Accept, Begin, history
  <2> QED
    BY <2>1, LibraryAssumption
<1>13. CASE Save
  <2>1. (acked' = acked \/ acked' = Target \/ acked' = acked \union Target)
        /\ requests' = requests
    BY <1>13, Zenon DEF Save
  <2> QED
    BY <2>1, TargetType
<1>14. CASE Mark
  <2>1. (acked' = acked \/ acked' = Target \/ acked' = acked \union Target)
        /\ requests' = requests
    BY <1>14, Zenon DEF Mark
  <2> QED
    BY <2>1, TargetType
<1>15. CASE WriteFails
  <2>1. (acked' = acked \/ acked' = Target \/ acked' = acked \union Target)
        /\ requests' = requests
    BY <1>15, Zenon DEF WriteFails
  <2> QED
    BY <2>1, TargetType
<1> HIDE DEF TypeOK, ReplyTypes
<1> QED
  BY <1>1, <1>2, <1>3, <1>4, <1>5, <1>6, <1>7, <1>8, <1>9, <1>10, <1>11, <1>12,
     <1>13, <1>14, <1>15
     DEF Next, Hooks, Switching, Writing
-----------------------------------------------------------------------------
(* What a step does to the hook. *)

\* Restore drops the copy that it has put back, and keeps everything else.
LEMMA RestoreEffect ==
  ASSUME op \in Hook, Restore
  PROVE  /\ pc \in {"reject", "restore"}
         /\ \/ pc' \in {"reopen", "discard"} /\ ~op'.installed
            \/ pc' = "idle" /\ op' = NoHook
         /\ pc' # "idle" =>
              /\ op'.kind = op.kind /\ op'.entry = op.entry /\ op'.content = op.content
              /\ op'.trim = op.trim /\ op'.was = op.was /\ op'.wasDelay = op.wasDelay
              /\ op'.done = op.done /\ op'.switched = op.switched
              /\ op'.previous = IF op.installed THEN None ELSE op.previous
         /\ pc' = "reopen" <=> op.switched /\ (open \/ op.wasOpen)
         /\ pc' = "discard" => op.kind = "upload"
         /\ pc' = "idle" => op.kind # "upload"
BY DEF Restore, GiveUp, Finish, Hook

\* Install only says that it has installed.
LEMMA InstallEffect ==
  ASSUME op \in Hook, Install
  PROVE  /\ op'.installed /\ op'.kind = op.kind /\ op'.entry = op.entry
         /\ op'.content = op.content /\ op'.trim = op.trim /\ op'.previous = op.previous
         /\ op'.done = op.done /\ op'.switched = op.switched
BY DEF Install, Hook

\* What a hook aims at when it writes is what is attached.
LEMMA TargetPromises ==
  ASSUME op \in Hook, HookShape, Replies, pc \in {"save", "mark"}
  PROVE  \E sel \in Target : /\ sel.file = attached
                             /\ (loadable /\ attached # None) => sel.delay = delay
<1>1. CASE op.kind = "trim"
  <2>1. Selection(attached, op.trim) \in Target
    BY <1>1 DEF Target
  <2>2. delay = op.trim
    BY <1>1, Zenon DEF Replies
  <2> QED
    BY <2>1, <2>2 DEF Selection
<1>2. CASE op.kind # "trim"
  <2>1. Selection(op.entry, Or(op.trim, Or(config.delay, 0))) \in Target
    BY <1>2 DEF Target
  <2>2. /\ attached = op.entry
        /\ loadable /\ op.entry # None => delay = Or(op.trim, Or(config.delay, 0))
    BY <1>2 DEF Replies, Decided
  <2> QED
    BY <2>1, <2>2 DEF Selection
<1> QED
  BY <1>1, <1>2

-----------------------------------------------------------------------------
(* The invariant, conjunct by conjunct. *)

\* A hook has in hand what its step needs.
LEMMA HookShapeNext == TypeOK /\ HookShape /\ [Next]_vars => HookShape'
<1> SUFFICES ASSUME TypeOK /\ HookShape, [Next]_vars PROVE HookShape'
  OBVIOUS
<1> USE DEF TypeOK, HookShape, Undecided, Hook, Steps, disk, stream, process,
     history
<1>1. CASE UNCHANGED vars
  BY <1>1 DEF vars
<1>2. CASE Boot \/ Crash \/ OutputFails \/ SaveWhisper
  BY <1>2 DEF Boot, Crash, NoHook, OutputFails, SaveWhisper
<1>3. CASE CheckPasses \/ ConstructionFails \/ CommitDelete \/ RestoreFails
  BY <1>3 DEF CheckPasses, ConstructionFails, CommitDelete, Remove, Find,
     RestoreFails, GiveUp, NoHook
<1>4. CASE Reopen \/ ReopenFails \/ Discard \/ Preserve
  BY <1>4 DEF Reopen, GiveUp, Finish, NoHook, ReopenFails, Discard, Rollback,
     Preserve
<1>5. CASE Apply \/ Save \/ Mark \/ WriteFails
  BY <1>5 DEF Apply, Save, Finish, NoHook, Mark, WriteFails
<1>6. CASE InstallFails
  BY <1>6 DEF InstallFails, GiveUp, NoHook
<1>7. CASE CheckFails
  BY <1>7 DEF CheckFails, Finish, NoHook
<1>8. CASE StartOutput
  BY <1>8 DEF StartOutput
<1>9. CASE StartupFails
  BY <1>9 DEF StartupFails
<1>10. CASE CommitFails
  BY <1>10 DEF CommitFails
<1>11. ASSUME NEW title \in Titles, NEW trim \in Delays \union {None}, Select(title, trim)
       PROVE  HookShape'
  BY <1>11 DEF Select, Begin, Accept, Find, NoHook
<1>12. ASSUME NEW trim \in Delays \union {None}, Detach(trim) PROVE HookShape'
  BY <1>12 DEF Detach, Begin, Accept, NoHook
<1>13. ASSUME NEW title \in Titles, DeleteAttached(title) PROVE HookShape'
  BY <1>13 DEF DeleteAttached, Begin, Accept, Find, NoHook
<1>14. ASSUME NEW title \in Titles, DeleteOther(title) PROVE HookShape'
  BY <1>14 DEF DeleteOther, Accept, Remove, Find
<1>15. ASSUME NEW title \in Titles, NEW content \in Contents, Upload(title, content)
       PROVE  HookShape'
  <2>1. /\ op' = [[NoHook EXCEPT !.kind = "upload", !.title = title,
                     !.entry = <<title, "bucket">>, !.content = content,
                     !.previous = files[<<title, "bucket">>]]
                   EXCEPT !.was = attached, !.wasDelay = delay, !.wasOpen = open]
        /\ pc' = "staged" /\ up /\ UNCHANGED <<up, config, files, failed, loadable>>
    BY <1>15 DEF Upload, Begin, Accept
  <2>2. /\ op'.kind = "upload" /\ op'.entry = <<title, "bucket">>
        /\ op'.content = content /\ op'.previous = files[<<title, "bucket">>]
        /\ ~op'.installed /\ ~op'.switched /\ ~op'.done
    BY <2>1 DEF NoHook
  <2>3. <<title, "bucket">> \in Entries
    BY DEF Entries
  <2> QED
    BY <2>1, <2>2, <2>3
<1>16. ASSUME NEW trim \in Delays, Trim(trim) PROVE HookShape'
  <2>1. CASE loadable
    <3>1. /\ config' = [config EXCEPT !.delay = trim]
          /\ op' = [NoHook EXCEPT !.kind = "trim", !.trim = trim]
          /\ pc' = "save" /\ up /\ UNCHANGED <<up, files, failed, loadable>>
      BY <1>16, <2>1 DEF Trim, Accept
    <3>2. /\ op'.kind = "trim" /\ op'.trim = trim /\ op'.previous = None
          /\ ~op'.installed /\ ~op'.switched /\ ~op'.done
      BY <3>1 DEF NoHook
    <3>3. config'.delay = trim /\ trim # None
      BY <3>1, LibraryAssumption DEF StreamTypes, Keys
    <3> QED
      BY <2>1, <3>1, <3>2, <3>3
  <2>2. CASE ~loadable
    BY <1>16, <2>2 DEF Trim, Accept
  <2> QED
    BY <2>1, <2>2
<1>17. CASE Install
  <2>1. /\ pc = "staged" /\ pc' = "check"
        /\ files' = [files EXCEPT ![op.entry] = op.content]
        /\ UNCHANGED <<up, config, failed, loadable>>
    BY <1>17 DEF Install
  <2>2. op.entry \in Entries /\ op.kind = "upload" /\ ~op.switched /\ ~op.done
    BY <2>1
  <2>3. files'[op.entry] = op.content
    BY <2>1, <2>2 DEF DiskTypes
  <2> QED
    BY <1>17, <2>1, <2>2, <2>3, InstallEffect
<1>18. CASE Restore
  <2>1. UNCHANGED <<up, config, failed, loadable>>
    BY <1>18 DEF Restore
  <2>2. CASE pc' = "idle"
    BY <1>18, <2>1, <2>2, RestoreEffect DEF NoHook
  <2>3. CASE pc' # "idle"
    BY <1>18, <2>1, <2>3, RestoreEffect
  <2> QED
    BY <2>2, <2>3
<1> HIDE DEF TypeOK, HookShape, Undecided, Hook, Steps
<1> QED
  BY <1>1, <1>2, <1>3, <1>4, <1>5, <1>6, <1>7, <1>8, <1>9, <1>10, <1>11, <1>12,
     <1>13, <1>14, <1>15, <1>16, <1>17, <1>18
     DEF Next, Hooks, Switching, Writing

\* No step loses the bytes of a file.
LEMMA BytesKeptNext == TypeOK /\ HookShape /\ BytesKept /\ [Next]_vars => BytesKept'
<1> SUFFICES ASSUME TypeOK /\ HookShape /\ BytesKept, [Next]_vars PROVE BytesKept'
  OBVIOUS
<1> USE DEF TypeOK, HookShape, Undecided, Hook, BytesKept, Under, DiskTypes, disk,
     stream, process, history
<1>1. CASE UNCHANGED vars
  BY <1>1 DEF vars
<1>2. CASE Boot \/ OutputFails \/ SaveWhisper \/ CheckPasses
  BY <1>2 DEF Boot, OutputFails, SaveWhisper, CheckPasses
<1>3. CASE ConstructionFails \/ CommitDelete \/ RestoreFails \/ Reopen
  BY <1>3 DEF ConstructionFails, CommitDelete, Remove, Find, RestoreFails, GiveUp,
     NoHook, Reopen, Finish
<1>4. CASE ReopenFails \/ Discard \/ Apply \/ Save
  BY <1>4 DEF ReopenFails, GiveUp, Finish, NoHook, Discard, Rollback, Apply, Save
<1>5. CASE Mark \/ WriteFails
  BY <1>5 DEF Mark, Finish, NoHook, WriteFails
<1>6. CASE Install
  BY <1>6 DEF Install
<1>7. CASE InstallFails
  BY <1>7 DEF InstallFails, GiveUp, NoHook
<1>8. CASE CheckFails
  BY <1>8 DEF CheckFails, Finish, NoHook
<1>9. CASE StartOutput
  BY <1>9 DEF StartOutput
<1>10. CASE StartupFails
  BY <1>10 DEF StartupFails
<1>11. CASE CommitFails
  BY <1>11 DEF CommitFails
<1>12. ASSUME NEW title \in Titles, NEW content \in Contents, Upload(title, content)
       PROVE  BytesKept'
  BY <1>12 DEF Upload, Begin, Accept, NoHook
<1>13. ASSUME NEW title \in Titles, NEW trim \in Delays \union {None}, Select(title, trim)
       PROVE  BytesKept'
  BY <1>13 DEF Select, Begin, Accept, Find, NoHook
<1>14. ASSUME NEW trim \in Delays \union {None}, Detach(trim) PROVE BytesKept'
  BY <1>14 DEF Detach, Begin, Accept, NoHook
<1>15. ASSUME NEW title \in Titles, DeleteAttached(title) PROVE BytesKept'
  BY <1>15 DEF DeleteAttached, Begin, Accept, Find, NoHook
<1>16. ASSUME NEW title \in Titles, DeleteOther(title) PROVE BytesKept'
  BY <1>16 DEF DeleteOther, Accept, Remove, Find
<1>17. ASSUME NEW trim \in Delays, Trim(trim) PROVE BytesKept'
  BY <1>17 DEF Trim, Accept, NoHook
<1>18. CASE Crash
  <2>1. /\ backups' = backups \union
             (IF op.previous = None THEN {} ELSE {<<op.entry, op.previous>>})
        /\ UNCHANGED <<files, committed>> /\ op' = NoHook
    BY <1>18 DEF Crash
  <2>2. ~op'.installed
    BY <2>1 DEF NoHook
  <2> SUFFICES ASSUME NEW entry \in Entries, committed[entry] # None
               PROVE  /\ files[entry] # None
                      /\ files[entry] = committed[entry]
                           \/ <<entry, committed[entry]>> \in backups'
    BY <2>1, <2>2, Zenon
  <2>3. /\ Under(entry) # None
        /\ Under(entry) = committed[entry] \/ <<entry, committed[entry]>> \in backups
    BY Zenon
  <2>4. CASE op.installed /\ entry = op.entry
    <3>1. files[entry] # None
      BY <2>4, LibraryAssumption
    <3> QED
      BY <2>1, <2>3, <2>4, <3>1
  <2>5. CASE ~(op.installed /\ entry = op.entry)
    BY <2>1, <2>3, <2>5
  <2> QED
    BY <2>4, <2>5
<1>19. CASE Restore
  <2>1. /\ UNCHANGED <<committed, backups>>
        /\ files' = (IF op.installed THEN [files EXCEPT ![op.entry] = op.previous]
                                     ELSE files)
    BY <1>19 DEF Restore, Rollback
  <2>2. ~op'.installed
    BY <1>19, RestoreEffect DEF NoHook
  <2>3. op.installed => op.entry \in Entries
    OBVIOUS
  <2> QED
    BY <2>1, <2>2, <2>3
<1>20. CASE Preserve
  <2>1. /\ backups' = backups \union
             (IF op.previous = None THEN {} ELSE {<<op.entry, op.previous>>})
        /\ UNCHANGED <<files, committed>> /\ op' = NoHook
    BY <1>20 DEF Preserve, Finish
  <2>2. ~op'.installed
    BY <2>1 DEF NoHook
  <2> SUFFICES ASSUME NEW entry \in Entries, committed[entry] # None
               PROVE  /\ files[entry] # None
                      /\ files[entry] = committed[entry]
                           \/ <<entry, committed[entry]>> \in backups'
    BY <2>1, <2>2, Zenon
  <2>3. /\ Under(entry) # None
        /\ Under(entry) = committed[entry] \/ <<entry, committed[entry]>> \in backups
    BY Zenon
  <2>4. CASE op.installed /\ entry = op.entry
    <3>1. files[entry] # None
      BY <2>4, LibraryAssumption
    <3> QED
      BY <2>1, <2>3, <2>4, <3>1
  <2>5. CASE ~(op.installed /\ entry = op.entry)
    BY <2>1, <2>3, <2>5
  <2> QED
    BY <2>4, <2>5
<1> HIDE DEF TypeOK, HookShape, Undecided, Hook, BytesKept, Under, DiskTypes
<1> QED
  BY <1>1, <1>2, <1>3, <1>4, <1>5, <1>6, <1>7, <1>8, <1>9, <1>10, <1>11, <1>12,
     <1>13, <1>14, <1>15, <1>16, <1>17, <1>18, <1>19, <1>20
     DEF Next, Hooks, Switching, Writing

\* What plays is what is attached, or was.
LEMMA OutputNext == TypeOK /\ HookShape /\ Replies /\ Output /\ [Next]_vars => Output'
<1> SUFFICES ASSUME TypeOK /\ HookShape /\ Replies /\ Output, [Next]_vars PROVE Output'
  OBVIOUS
<1> USE DEF TypeOK, HookShape, Replies, Undecided, Decided, Output, Under, UnderOf,
     ContentOf, TitleOf, DiskTypes, disk, stream, process, history
<1>1. CASE UNCHANGED vars
  BY <1>1 DEF vars
<1>2. CASE Boot \/ Crash \/ OutputFails \/ SaveWhisper
  BY <1>2 DEF Boot, Crash, NoHook, OutputFails, SaveWhisper
<1>3. CASE CheckPasses \/ ConstructionFails \/ CommitDelete \/ RestoreFails
  BY <1>3 DEF CheckPasses, ConstructionFails, CommitDelete, Remove, Find,
     RestoreFails, GiveUp, NoHook
<1>4. CASE Reopen \/ ReopenFails \/ Discard \/ Preserve
  BY <1>4 DEF Reopen, GiveUp, Finish, NoHook, ReopenFails, Discard, Rollback,
     Preserve
<1>5. CASE Apply \/ Save \/ Mark \/ WriteFails
  BY <1>5 DEF Apply, Save, Finish, NoHook, Mark, WriteFails
<1>6. CASE Install
  BY <1>6 DEF Install
<1>7. CASE InstallFails
  BY <1>7 DEF InstallFails, GiveUp, NoHook
<1>8. CASE CheckFails
  BY <1>8 DEF CheckFails, Finish, NoHook
<1>9. CASE StartOutput
  BY <1>9 DEF StartOutput
<1>10. CASE StartupFails
  BY <1>10 DEF StartupFails
<1>11. CASE CommitFails
  BY <1>11 DEF CommitFails
<1>12. ASSUME NEW title \in Titles, NEW content \in Contents, Upload(title, content)
       PROVE  Output'
  BY <1>12 DEF Upload, Begin, Accept, NoHook
<1>13. ASSUME NEW title \in Titles, NEW trim \in Delays \union {None}, Select(title, trim)
       PROVE  Output'
  BY <1>13 DEF Select, Begin, Accept, Find, NoHook
<1>14. ASSUME NEW trim \in Delays \union {None}, Detach(trim) PROVE Output'
  BY <1>14 DEF Detach, Begin, Accept, NoHook
<1>15. ASSUME NEW title \in Titles, DeleteAttached(title) PROVE Output'
  BY <1>15 DEF DeleteAttached, Begin, Accept, Find, NoHook
<1>16. ASSUME NEW title \in Titles, DeleteOther(title) PROVE Output'
  BY <1>16 DEF DeleteOther, Accept, Remove, Find
<1>17. ASSUME NEW trim \in Delays, Trim(trim) PROVE Output'
  BY <1>17 DEF Trim, Accept, NoHook
<1>18. CASE Restore
  <2>1. /\ UNCHANGED <<up, open, failed, playing>> /\ attached' = op.was
        /\ files' = (IF op.installed THEN [files EXCEPT ![op.entry] = op.previous]
                                     ELSE files)
    BY <1>18 DEF Restore, Rollback
  <2>2. op.was \in Entry
    BY HookFields
  <2>3. ContentOf(attached)' = UnderOf(op.was)
    BY <2>1, <2>2 DEF Entry
  <2> QED
    BY <1>18, <2>1, <2>3, RestoreEffect
<1> HIDE DEF TypeOK, HookShape, Replies, Undecided, Decided, Output, Under, UnderOf,
     ContentOf, TitleOf, DiskTypes
<1> QED
  BY <1>1, <1>2, <1>3, <1>4, <1>5, <1>6, <1>7, <1>8, <1>9, <1>10, <1>11, <1>12,
     <1>13, <1>14, <1>15, <1>16, <1>17, <1>18
     DEF Next, Hooks, Switching, Writing

\* What is attached is what a reply has promised, or the old file while a switch is
\* undecided.
LEMMA RepliesNext == TypeOK /\ HookShape /\ Replies /\ [Next]_vars => Replies'
<1> SUFFICES ASSUME TypeOK /\ HookShape /\ Replies, [Next]_vars PROVE Replies'
  OBVIOUS
<1> USE DEF TypeOK, HookShape, Undecided, Decided, Replies, Promised, disk, stream,
     process, history
<1>1. CASE UNCHANGED vars
  BY <1>1 DEF vars
<1>2. CASE Crash \/ OutputFails \/ SaveWhisper \/ CheckPasses
  BY <1>2 DEF Crash, NoHook, OutputFails, SaveWhisper, CheckPasses
<1>3. CASE ConstructionFails \/ CommitDelete \/ RestoreFails \/ Reopen
  BY <1>3 DEF ConstructionFails, CommitDelete, Remove, Find, RestoreFails, GiveUp,
     NoHook, Reopen, Finish
<1>4. CASE ReopenFails \/ Preserve
  BY <1>4 DEF ReopenFails, GiveUp, Finish, NoHook, Preserve
<1>5. CASE Install
  BY <1>5 DEF Install
<1>6. CASE InstallFails
  BY <1>6 DEF InstallFails, GiveUp, NoHook
<1>7. CASE CheckFails
  BY <1>7 DEF CheckFails, Finish, NoHook
<1>8. CASE StartupFails
  BY <1>8 DEF StartupFails
<1>9. CASE CommitFails
  BY <1>9 DEF CommitFails
<1>10. ASSUME NEW title \in Titles, NEW content \in Contents, Upload(title, content)
       PROVE  Replies'
  BY <1>10 DEF Upload, Begin, Accept, NoHook
<1>11. ASSUME NEW title \in Titles, NEW trim \in Delays \union {None}, Select(title, trim)
       PROVE  Replies'
  BY <1>11 DEF Select, Begin, Accept, Find, NoHook
<1>12. ASSUME NEW trim \in Delays \union {None}, Detach(trim) PROVE Replies'
  BY <1>12 DEF Detach, Begin, Accept, NoHook
<1>13. ASSUME NEW title \in Titles, DeleteAttached(title) PROVE Replies'
  BY <1>13 DEF DeleteAttached, Begin, Accept, Find, NoHook
<1>14. ASSUME NEW title \in Titles, DeleteOther(title) PROVE Replies'
  BY <1>14 DEF DeleteOther, Accept, Remove, Find
<1>15. ASSUME NEW trim \in Delays, Trim(trim) PROVE Replies'
  BY <1>15 DEF Trim, Accept, NoHook
<1>16. CASE Boot
  <2> DEFINE sel == Selection(BootFile, Or(saved.delay, 0))
  <2>1. /\ ~up /\ UNCHANGED <<pc, op, loadable>> /\ activeTitle' = TitleOf(BootFile)
        /\ attached' = BootFile /\ delay' = BootDelay /\ sel \in acked'
    BY <1>16 DEF Boot
  <2>2. sel.file = BootFile /\ (loadable /\ BootFile # None => sel.delay = BootDelay)
    BY DEF Selection, BootDelay
  <2> HIDE DEF sel
  <2>3. pc = "idle" /\ op.kind = "none" /\ ~op.done
    BY <2>1 DEF HookShape, NoHook
  <2>4. TitleOf(attached)' = activeTitle'
    BY <2>1 DEF TitleOf
  <2> QED
    BY <2>1, <2>2, <2>3, <2>4
<1>17. CASE StartOutput
  <2>1. /\ pc = "start" /\ pc' \in {"discard", "commit", "apply"}
        /\ UNCHANGED <<up, activeTitle, attached, delay, loadable, acked>>
        /\ pc' = "commit" => op.kind = "delete"
        /\ op' = [op EXCEPT !.switched = TRUE, !.done = op.kind # "delete",
                            !.installed = FALSE]
    BY <1>17 DEF StartOutput
  <2>2. /\ op'.was = op.was /\ op'.wasDelay = op.wasDelay /\ op'.entry = op.entry
        /\ op'.kind = op.kind /\ (op'.done <=> op.kind # "delete")
    BY <2>1 DEF Hook
  <2>3. pc' = "discard" => op.kind = "upload"
    BY <1>17 DEF StartOutput
  <2>4. attached = op.entry /\ delay = 0 /\ op.kind # "trim"
    BY <2>1 DEF HookShape
  <2> QED
    BY <2>1, <2>2, <2>3, <2>4
<1>18. CASE Restore
  <2>1. /\ UNCHANGED <<up, activeTitle, loadable, acked>> /\ attached' = op.was
        /\ delay' = op.wasDelay
    BY <1>18 DEF Restore
  <2>2. ~op.done /\ op.kind # "trim"
    BY <1>18 DEF Restore, HookShape
  <2>3. CASE pc' = "idle"
    BY <1>18, <2>1, <2>2, <2>3, RestoreEffect DEF NoHook
  <2>4. CASE pc' # "idle"
    BY <1>18, <2>1, <2>2, <2>4, RestoreEffect
  <2> QED
    BY <2>3, <2>4
<1>19. CASE Discard
  <2>1. /\ pc = "discard"
        /\ UNCHANGED <<up, activeTitle, attached, delay, loadable, acked>>
        /\ op.done => pc' = "apply" /\ op' = [op EXCEPT !.previous = None]
        /\ ~op.done => pc' = "idle" /\ op' = NoHook
    BY <1>19 DEF Discard, Finish
  <2>2. CASE op.done
    <3>1. op'.entry = op.entry /\ op'.kind = op.kind /\ pc' = "apply"
      BY <2>1, <2>2 DEF Hook
    <3>2. op.kind = "upload"
      BY <2>1 DEF HookShape
    <3> QED
      BY <2>1, <2>2, <3>1, <3>2
  <2>3. CASE ~op.done
    BY <2>1, <2>3 DEF NoHook
  <2> QED
    BY <2>2, <2>3
<1>20. CASE Apply
  <2>1. /\ pc = "apply" /\ pc' \in {"save", "mark"}
        /\ UNCHANGED <<up, attached, loadable, acked, op>> /\ activeTitle' = TitleOf(op.entry)
        /\ delay' = Or(op.trim, IF op.entry = None THEN delay ELSE Or(config.delay, delay))
        /\ loadable => config'.delay = Or(op.trim, config.delay)
    BY <1>20 DEF Apply
  <2>2. delay = 0 /\ op.kind # "trim" /\ attached = op.entry
    BY <2>1 DEF HookShape
  <2>3. loadable /\ op.entry # None => delay' = Or(op.trim, Or(config'.delay, 0))
    BY <2>1, <2>2 DEF Or
  <2>4. TitleOf(op.entry)' = TitleOf(op.entry)
    BY <2>1 DEF TitleOf
  <2>5. Or(op.trim, Or(config.delay, 0))' = Or(op.trim, Or(config'.delay, 0))
    BY <2>1 DEF Or
  <2> QED
    BY <2>1, <2>2, <2>3, <2>4, <2>5
<1>21. CASE Save
  <2>1. CASE op.kind = "trim"
    <3>1. /\ pc = "save" /\ pc' = "idle" /\ op' = NoHook
          /\ UNCHANGED <<up, attached, activeTitle, delay, loadable>> /\ acked' = Target
      BY <1>21, <2>1 DEF Save, Finish
    <3>2. Promised(attached, delay)'
      BY <3>1, TargetPromises
    <3>3. op'.kind = "none" /\ ~op'.done
      BY <3>1 DEF NoHook
    <3> QED
      BY <2>1, <3>1, <3>2, <3>3
  <2>2. CASE op.kind # "trim"
    <3>1. /\ pc = "save" /\ pc' = "mark"
          /\ UNCHANGED <<up, attached, activeTitle, delay, loadable, acked, op, config>>
      BY <1>21, <2>2 DEF Save
    <3> QED
      BY <2>2, <3>1
  <2> QED
    BY <2>1, <2>2
<1>22. CASE Mark
  <2>1. /\ pc = "mark" /\ pc' = "idle" /\ op' = NoHook
        /\ UNCHANGED <<up, attached, activeTitle, delay, loadable>>
        /\ acked' = Target
    BY <1>22 DEF Mark, Finish
  <2>2. Promised(attached, delay)'
    BY <2>1, TargetPromises
  <2>3. activeTitle' = TitleOf(attached')
    BY <2>1
  <2>4. op'.kind = "none" /\ ~op'.done
    BY <2>1 DEF NoHook
  <2> QED
    BY <2>1, <2>2, <2>3, <2>4
<1>23. CASE WriteFails
  <2>1. /\ pc \in {"save", "mark"} /\ pc' = "idle" /\ op' = NoHook
        /\ UNCHANGED <<up, attached, activeTitle, delay, loadable>>
        /\ acked' = acked \union Target
    BY <1>23 DEF WriteFails, Finish
  <2>2. Promised(attached, delay)'
    BY <2>1, TargetPromises
  <2>3. activeTitle' = TitleOf(attached')
    BY <2>1
  <2>4. op'.kind = "none" /\ ~op'.done
    BY <2>1 DEF NoHook
  <2> QED
    BY <2>1, <2>2, <2>3, <2>4
<1> HIDE DEF TypeOK, HookShape, Undecided, Decided, Replies, Promised
<1> QED
  BY <1>1, <1>2, <1>3, <1>4, <1>5, <1>6, <1>7, <1>8, <1>9, <1>10, <1>11, <1>12,
     <1>13, <1>14, <1>15, <1>16, <1>17, <1>18, <1>19, <1>20, <1>21, <1>22, <1>23
     DEF Next, Hooks, Switching, Writing

\* What config.ini and the process hold is what a reply has promised.
LEMMA DurableNext == TypeOK /\ HookShape /\ Durable /\ [Next]_vars => Durable'
<1> SUFFICES ASSUME TypeOK /\ HookShape /\ Durable, [Next]_vars PROVE Durable'
  OBVIOUS
<1> USE DEF TypeOK, HookShape, Decided, Durable, Stored, InMemory, Written, Target,
     Selection, Named, Or, disk, stream, process, history
<1>1. CASE UNCHANGED vars
  BY <1>1 DEF vars
<1>2. CASE Boot \/ Crash \/ OutputFails \/ SaveWhisper
  BY <1>2 DEF Boot, Crash, NoHook, OutputFails, SaveWhisper
<1>3. CASE CheckPasses \/ ConstructionFails \/ CommitDelete \/ Restore
  BY <1>3 DEF CheckPasses, ConstructionFails, CommitDelete, Remove, Find, Restore,
     Rollback, GiveUp, Finish, NoHook
<1>4. CASE RestoreFails \/ Reopen \/ ReopenFails \/ Discard
  BY <1>4 DEF RestoreFails, GiveUp, NoHook, Reopen, Finish, ReopenFails, Discard,
     Rollback
<1>5. CASE Preserve \/ Apply \/ Save \/ Mark
  BY <1>5 DEF Preserve, Finish, NoHook, Apply, Save, Mark
<1>6. CASE WriteFails
  BY <1>6 DEF WriteFails, Finish, NoHook
<1>7. CASE Install
  BY <1>7 DEF Install
<1>8. CASE InstallFails
  BY <1>8 DEF InstallFails, GiveUp, NoHook
<1>9. CASE CheckFails
  BY <1>9 DEF CheckFails, Finish, NoHook
<1>10. CASE StartOutput
  BY <1>10 DEF StartOutput
<1>11. CASE StartupFails
  BY <1>11 DEF StartupFails
<1>12. CASE CommitFails
  BY <1>12 DEF CommitFails
<1>13. ASSUME NEW title \in Titles, NEW content \in Contents, Upload(title, content)
       PROVE  Durable'
  BY <1>13 DEF Upload, Begin, Accept, NoHook
<1>14. ASSUME NEW title \in Titles, NEW trim \in Delays \union {None}, Select(title, trim)
       PROVE  Durable'
  BY <1>14 DEF Select, Begin, Accept, Find, NoHook
<1>15. ASSUME NEW trim \in Delays \union {None}, Detach(trim) PROVE Durable'
  BY <1>15 DEF Detach, Begin, Accept, NoHook
<1>16. ASSUME NEW title \in Titles, DeleteAttached(title) PROVE Durable'
  BY <1>16 DEF DeleteAttached, Begin, Accept, Find, NoHook
<1>17. ASSUME NEW title \in Titles, DeleteOther(title) PROVE Durable'
  BY <1>17 DEF DeleteOther, Accept, Remove, Find
<1>18. ASSUME NEW trim \in Delays, Trim(trim) PROVE Durable'
  <2> DEFINE changed == Selection(Named(config), trim)
  <2>1. CASE loadable
    <3>1. /\ config' = [config EXCEPT !.delay = trim]
          /\ op' = [NoHook EXCEPT !.kind = "trim", !.trim = trim]
          /\ pc' = "save" /\ UNCHANGED <<up, loadable, saved, marker, acked>> /\ up
      BY <1>18, <2>1 DEF Trim, Accept
    <3>2. op'.kind = "trim" /\ op'.trim = trim
      BY <3>1 DEF NoHook
    <3>3. /\ config'.delay = trim /\ config'.file = config.file
          /\ config'.selected = config.selected /\ trim # None
      BY <3>1, LibraryAssumption DEF StreamTypes, Keys
    <3>4. InMemory' \in Target'
      BY <3>1, <3>2, <3>3
    <3>5. Stored' = Stored /\ Stored \in acked
      BY <1>18, <3>1 DEF Trim, Accept
    <3> QED
      BY <3>1, <3>2, <3>4, <3>5
  <2>2. CASE ~loadable
    BY <1>18, <2>2 DEF Trim, Accept
  <2> QED
    BY <2>1, <2>2
<1> HIDE DEF TypeOK, HookShape, Decided, Durable, Stored, InMemory, Written, Target,
     Selection, Named, Or
<1> QED
  BY <1>1, <1>2, <1>3, <1>4, <1>5, <1>6, <1>7, <1>8, <1>9, <1>10, <1>11, <1>12,
     <1>13, <1>14, <1>15, <1>16, <1>17, <1>18
     DEF Next, Hooks, Switching, Writing

-----------------------------------------------------------------------------
(* The theorems. *)

\* Nothing is attached before the first boot, and the marker is all there is.
LEMMA InitIInv == Init => IInv
<1> SUFFICES ASSUME Init PROVE IInv
  OBVIOUS
<1>1. PICK legacy \in [Titles -> Playable \union {None}] :
        files = [entry \in Entries |->
                   IF entry[2] = "flat" THEN legacy[entry[1]] ELSE None]
  BY DEF Init
<1>2. \A entry \in Entries : files[entry] \in Content
  BY <1>1, LibraryAssumption DEF Entries, Content
<1>3. files \in [Entries -> Content] /\ committed = files
  BY <1>1, <1>2 DEF Init
<1>4. /\ marker \in Entry /\ saved = NoKeys /\ loadable \in BOOLEAN /\ backups = {}
      /\ up = FALSE /\ config = NoKeys /\ attached = None /\ delay = 0
      /\ activeTitle = None /\ failed = FALSE /\ open = FALSE /\ playing = None
      /\ pc = "idle" /\ op = NoHook /\ requests = 0 /\ acked = {Selection(marker, 0)}
  BY DEF Init, Entry
<1>5. NoKeys \in Keys /\ NoHook \in Hook
  BY NoKeysAreKeys, NoHookIsHook
<1>6. DiskTypes
  BY <1>3, <1>4, <1>5 DEF DiskTypes
<1>7. FlagTypes /\ pc \in Steps
  BY <1>4 DEF FlagTypes, Steps
<1>8. StreamTypes
  BY <1>4, <1>5, Zenon DEF StreamTypes, Entry, Delay, Content
<1>9. Selection(marker, 0) \in [file : Entry, delay : Delay]
  BY <1>4, SelectionType DEF Delay
<1>10. ReplyTypes
  BY <1>4, <1>9, LibraryAssumption DEF ReplyTypes
<1>11. TypeOK
  BY <1>4, <1>5, <1>6, <1>7, <1>8, <1>10, Zenon DEF TypeOK
<1>12. HookShape
  BY <1>4 DEF HookShape, NoHook, Undecided
<1>13. BytesKept
  BY <1>3, <1>4 DEF BytesKept, Under, NoHook
<1>14. Replies /\ Output
  BY <1>4 DEF Replies, Output, Undecided, Decided, NoHook
<1>15. Stored \in acked
  BY <1>4 DEF Stored, Selection, Named, Or, NoKeys
<1>16. Durable
  BY <1>4, <1>15 DEF Durable
<1> QED
  BY <1>11, <1>12, <1>13, <1>14, <1>16 DEF IInv

\* Every step of a hook, every crash and every boot preserves the invariant.
LEMMA NextIInv == IInv /\ [Next]_vars => IInv'
<1> SUFFICES ASSUME IInv, [Next]_vars PROVE IInv'
  OBVIOUS
<1> USE DEF IInv
<1>1. DiskTypes' /\ StreamTypes' /\ ReplyTypes'
  BY DiskTypesNext, StreamTypesNext, ReplyTypesNext
<1>2. FlagTypes' /\ (pc \in Steps /\ op \in Hook)'
  BY FlagTypesNext, HookTypesNext DEF TypeOK
<1>3. TypeOK'
  BY <1>1, <1>2 DEF TypeOK
<1>4. HookShape' /\ BytesKept'
  BY HookShapeNext, BytesKeptNext
<1>5. Replies' /\ Output' /\ Durable'
  BY RepliesNext, OutputNext, DurableNext
<1> QED
  BY <1>3, <1>4, <1>5

\* The invariant holds in every state (the hooks of main.cpp around
\* FileReplacement, Stream::SetSubtitleFile and Config::Save).
THEOREM Invariance == Spec => []IInv
<1>1. Init => IInv
  BY InitIInv
<1>2. IInv /\ [Next]_vars => IInv'
  BY NextIInv
<1> QED
  BY <1>1, <1>2, PTL DEF Spec

\* Every variable keeps its type.
THEOREM TypeCorrect == Spec => []TypeOK
<1>1. IInv => TypeOK
  BY DEF IInv
<1> QED
  BY <1>1, Invariance, PTL

\* The copy that a hook has staged is what the bytes below an upload are.
LEMMA UnderIsKept == IInv => BytesSurvive
<1> SUFFICES ASSUME IInv, NEW entry \in Entries, committed[entry] # None
             PROVE  \/ files[entry] = committed[entry]
                    \/ <<entry, committed[entry]>> \in
                         backups \union {<<op.entry, op.previous>>}
  BY Zenon DEF BytesSurvive
<1>1. Under(entry) = committed[entry] \/ <<entry, committed[entry]>> \in backups
  BY DEF IInv, BytesKept
<1>2. Under(entry) = files[entry] \/ (entry = op.entry /\ Under(entry) = op.previous)
  BY DEF Under
<1> QED
  BY <1>1, <1>2

\* No failure and no crash loses an acknowledged file: FileReplacement's rollback,
\* its staging directory that is preserved, and deletions that are committed last.
THEOREM BytesSound == Spec => []BytesSurvive
BY UnderIsKept, Invariance, PTL

\* A file that is committed is there, in its old or in its new form.
LEMMA CommittedIsThere ==
  ASSUME IInv, NEW entry \in Entries, committed[entry] # None PROVE files[entry] # None
<1>1. Under(entry) # None
  BY DEF IInv, BytesKept
<1>2. CASE op.installed /\ entry = op.entry
  <2>1. files[entry] = op.content /\ op.content \in Contents
    BY <1>2 DEF IInv, HookShape
  <2> QED
    BY <2>1, LibraryAssumption
<1>3. CASE ~(op.installed /\ entry = op.entry)
  BY <1>1, <1>3 DEF Under
<1> QED
  BY <1>2, <1>3

\* The next boot finds the stored selection, or its file has been deleted.
LEMMA StoredSurvives == IInv => SelectionSurvives
<1> SUFFICES ASSUME IInv PROVE SelectionSurvives
  OBVIOUS
<1>1. Stored \in acked \union Written
  BY DEF IInv, Durable
<1>2. Stored.file = Named(saved) /\ (loadable => Stored.delay = Or(saved.delay, 0))
  BY DEF Stored, Selection
<1>3. Named(saved) \in Entry
  BY NamedType DEF IInv, TypeOK, DiskTypes
<1>4. \/ BootFile = Named(saved)
      \/ BootFile = None /\ Named(saved) # None /\ files[Named(saved)] = None
  BY DEF BootFile, ContentOf
<1>5. BootFile = Stored.file \/ (BootFile = None /\ committed[Stored.file] = None)
  BY <1>2, <1>3, <1>4, CommittedIsThere DEF Entry
<1>6. loadable /\ BootFile # None => BootDelay = Stored.delay
  BY <1>2 DEF BootDelay
<1> QED
  BY <1>1, <1>5, <1>6 DEF SelectionSurvives

\* The next boot comes up with what the replies have promised (main's boot resume
\* against the order of config, Save and marker in the hooks).
THEOREM SelectionSound == Spec => []SelectionSurvives
BY StoredSurvives, Invariance, PTL

\* Between requests a healthy output plays what the replies have promised.
THEOREM LiveSound == Spec => []LiveStreamIsAcked
<1>1. IInv => LiveStreamIsAcked
  BY DEF IInv, Replies, Promised, Output, LiveStreamIsAcked
<1> QED
  BY <1>1, Invariance, PTL

\* A switch that ends without having been decided has put path and trim back.
LEMMA GiveUpRestores ==
  ASSUME IInv, Next, pc \in {"check", "reject", "restore", "reopen", "discard"},
         pc' = "idle", up'
  PROVE  attached' = op.was /\ delay' = op.wasDelay
<1> USE DEF disk, stream, process, history
<1>1. CASE CheckFails \/ Reopen \/ ReopenFails
  BY <1>1 DEF IInv, Replies, CheckFails, Reopen, ReopenFails
<1>2. CASE Restore \/ RestoreFails
  BY <1>2 DEF Restore, RestoreFails
<1>3. CASE Discard
  <2>1. pc = "discard" /\ ~op.done /\ UNCHANGED <<attached, delay>>
    BY <1>3 DEF Discard, Finish
  <2> QED
    BY <2>1 DEF IInv, Replies
<1>4. CASE Preserve
  <2>1. pc = "discard" /\ op.installed /\ UNCHANGED <<attached, delay>>
    BY <1>4 DEF Preserve
  <2> QED
    BY <2>1 DEF IInv, HookShape, Replies
<1>5. CASE ~(\/ CheckFails \/ Reopen \/ ReopenFails \/ Restore \/ RestoreFails
             \/ Discard \/ Preserve)
  BY <1>5
     DEF Next, Hooks, Switching, Writing, Boot, Crash, OutputFails, SaveWhisper, Upload,
         Select, Detach, DeleteAttached, DeleteOther, Trim, Begin, Accept, Install,
         InstallFails, CheckPasses, StartOutput, ConstructionFails, StartupFails,
         CommitDelete, CommitFails, Apply, Save, Mark, WriteFails
<1> QED
  BY <1>1, <1>2, <1>3, <1>4, <1>5

\* A switch that fails leaves path and trim as they were, and the old output on the old
\* file unless the output is reported failed (Stream::SetSubtitleFile's restore).
THEOREM FailureSound == Spec => FailedSwitchRestores
<1> DEFINE GivenUp == /\ pc \in {"check", "reject", "restore", "reopen", "discard"}
                      /\ pc' = "idle" /\ up'
           PutBack == /\ attached' = op.was /\ delay' = op.wasDelay
                      /\ failed' \/ (open' /\ playing' = ContentOf(attached)')
<1>1. IInv /\ [Next]_vars => [GivenUp => PutBack]_vars
  <2> SUFFICES ASSUME IInv, Next, GivenUp PROVE PutBack
    BY DEF vars
  <2>1. attached' = op.was /\ delay' = op.wasDelay
    BY GiveUpRestores
  <2>2. Output'
    BY NextIInv DEF IInv
  <2>3. failed' \/ (open' /\ playing' = ContentOf(attached)')
    BY <2>2 DEF Output
  <2> QED
    BY <2>1, <2>3
<1> QED
  BY <1>1, Invariance, PTL DEF Spec, FailedSwitchRestores
=============================================================================
