------------------------------- MODULE CueStyle --------------------------------
(***************************************************************************)
(* Font, colour and visibility of the cues: from a state patch             *)
(* (web/subtitle_routes.cpp, the hooks of main.cpp) through Stream to the  *)
(* renderer of the overlay, and through config.ini to the next boot.       *)
(*                                                                         *)
(* Two threads apply the style: main, and later the io thread, under       *)
(* mutex_; and a streaming thread of the output, which may not take it,    *)
(* when a renderer is plugged. What a switch does to files and position is *)
(* in Library and SubtitleClock; here it ends renderers and resets nothing.*)
(***************************************************************************)
EXTENDS Integers, SequencesExt

CONSTANTS
  Values,       \* key -> the values the web API accepts
  Bad,          \* a value out of range, malformed or empty
  None,
  MaxRequests, MaxKeys  \* bounds: hooks and boots that begin; keys that a patch changes

Fields   == {"family", "size", "color"}
FontDesc == {"family", "size"}      \* they make up one property of the renderer
Keys     == Fields \union {"visible"}
Threads  == {"web", "streaming"}

ASSUME StyleAssumption ==
  /\ DOMAIN Values = Keys /\ Values["visible"] = BOOLEAN
  /\ \A key \in Keys : {None, Bad} \intersect Values[key] = {}
  /\ None \notin [Fields -> (UNION {Values[key] : key \in Keys}) \union {None}]
  /\ {MaxRequests, MaxKeys} \subseteq Nat

VARIABLES
  saved, loadable,    \* the keys in config.ini, and whether Config::Load accepts it
  up, config,         \* Config::Values
  attached,           \* there is a subtitle_path_
  style, visible,     \* subtitle_style_, subtitles_visible_
  output,             \* the output pipeline: "none", "plain", or "cues" with an overlay
  shown,              \* the properties of the overlay's renderer, if it has one
  step, copy,         \* where each thread is in ApplySubtitleStyle, and its snapshot
  pc, op,             \* the hook
  requests, unsaved, overtaken    \* history

stream == <<attached, style, visible, output>>
render == <<shown, step, copy>>
vars   == <<saved, loadable, up, config, stream, render, pc, op, requests, unsaved, overtaken>>

Nothing(keys) == [key \in keys |-> None]
NoHook == [todo |-> <<>>, was |-> FALSE, rolledBack |-> FALSE, save |-> FALSE]

\* Config::Load drops what the web API would not accept, key by key.
Loaded == [key \in Keys |-> IF loadable /\ saved[key] \in Values[key] THEN saved[key] ELSE None]

Init ==
  /\ saved \in {Nothing(Keys), [key \in Keys |-> Bad]} /\ loadable \in BOOLEAN
  /\ up = FALSE /\ config = Nothing(Keys) /\ attached = FALSE
  /\ style = Nothing(Fields) /\ visible = TRUE /\ output = "none"
  /\ shown = None /\ step = [t \in Threads |-> "idle"]
  /\ copy = [t \in Threads |-> Nothing(Fields)]
  /\ pc = "idle" /\ op = NoHook
  /\ requests = 0 /\ unsaved = FALSE /\ overtaken = FALSE

Begin == requests < MaxRequests /\ requests' = requests + 1

-----------------------------------------------------------------------------
(* Hooks. A hook calls setters in an order, one for each key that it has.  *)

Setter(key, values, keep) ==
  IF values[key] = None THEN <<>>
  ELSE <<[key |-> key, value |-> values[key], keep |-> keep]>>

FontSetters(values, keep) ==
  Setter("family", values, keep) \o Setter("size", values, keep) \o Setter("color", values, keep)

\* ApplySubtitleStyle of main.cpp: the persisted style, not its visibility.
Restore(values) == FontSetters(values, FALSE)
Change(values)  == Setter("visible", values, TRUE) \o FontSetters(values, TRUE)

\* After a switch the persisted style comes first, so that the patch overrides it.
Todo_StyleLast(file, patch) ==
  Change(patch) \o (IF file = "attach" THEN Restore(config) ELSE <<>>)
Todo(file, patch) == (IF file = "attach" THEN Restore(config) ELSE <<>>) \o Change(patch)

\* HandleSubtitleState: one parameter that is not valid, and nothing is applied.
ParamValid(key, value) == value # Bad

\* A patch, or an upload: the same without further keys, and with a file.
PutState(file, patch) ==
  /\ up /\ pc = "idle" /\ Begin
  /\ \A key \in Keys : ParamValid(key, patch[key])
  /\ pc' = IF file = None THEN "run" ELSE "switch"
  /\ attached' = IF file = None THEN attached ELSE file = "attach"
  /\ op' = [todo |-> Todo(file, patch), was |-> attached, rolledBack |-> FALSE,
            save |-> loadable /\ (file # None \/ patch # Nothing(Keys))]
  /\ UNCHANGED <<saved, loadable, up, config, style, visible, output, render, unsaved,
                 overtaken>>

\* Config's setter, for what is to be kept.
Kept(call) ==
  IF call.keep /\ loadable THEN [config EXCEPT ![call.key] = call.value] ELSE config

\* Stream::SetSubtitlesVisible.
Visibility(call) == IF call.key = "visible" THEN call.value ELSE visible

\* Stream::SetSubtitleFont*; a size is checked again. The style is copied, changed and
\* stored.
Store ==
  LET call == Head(op.todo)
      sets == call.key \in Fields /\ (call.key = "size" => call.value # Bad)
  IN  /\ pc = "run" /\ step["web"] = "idle" /\ op.todo # <<>>
      /\ op' = [op EXCEPT !.todo = Tail(@)]
      /\ style' = IF sets THEN [style EXCEPT ![call.key] = call.value] ELSE style
      /\ visible' = Visibility(call) /\ config' = Kept(call)
      /\ step' = IF sets THEN [step EXCEPT !["web"] = "load"] ELSE step
      /\ overtaken' = (overtaken \/ (sets /\ step["streaming"] \in {"desc", "color"}))
      /\ UNCHANGED <<saved, loadable, up, attached, output, shown, copy, pc, requests, unsaved>>

Answer == pc' = "idle" /\ op' = NoHook

Applied ==
  /\ pc = "run" /\ step["web"] = "idle" /\ op.todo = <<>>
  /\ IF op.save THEN pc' = "save" /\ UNCHANGED op ELSE Answer
  /\ UNCHANGED <<saved, loadable, up, config, stream, render, requests, unsaved, overtaken>>

\* Config::Save writes what the document holds, the keys that Load dropped included.
Save ==
  /\ pc = "save" /\ Answer /\ unsaved' = FALSE
  /\ saved' = [key \in Keys |-> IF config[key] = None THEN saved[key] ELSE config[key]]
  /\ UNCHANGED <<loadable, up, config, stream, render, requests, overtaken>>

SaveFails ==
  /\ pc = "save" /\ Answer /\ unsaved' = TRUE
  /\ UNCHANGED <<saved, loadable, up, config, stream, render, requests, overtaken>>

-----------------------------------------------------------------------------
(* SetSubtitleFile, with mutex_ held. The state NULL waits for the threads *)
(* of the old output.                                                      *)

\* The file has no cue, or its pipeline cannot be built.
SwitchRefused ==
  /\ pc = "switch" /\ attached' = op.was /\ Answer
  /\ UNCHANGED <<saved, loadable, up, config, style, visible, output, render, requests,
                 unsaved, overtaken>>

SetNull ==
  /\ pc = "switch" /\ pc' = "stopping"
  /\ UNCHANGED <<saved, loadable, up, config, stream, render, op, requests, unsaved, overtaken>>

Output(cues) == IF cues THEN "cues" ELSE "plain"

\* StartOutputLocked: a renderer is plugged once the pipeline runs.
StartOutput ==
  /\ pc = "stopping" /\ step["streaming"] = "idle" /\ pc' = "starting"
  /\ output' = Output(attached) /\ shown' = None
  /\ UNCHANGED <<saved, loadable, up, config, attached, style, visible, step, copy, op,
                 requests, unsaved, overtaken>>

Started ==
  /\ pc = "starting"
  /\ IF op.rolledBack THEN Answer ELSE pc' = "run" /\ UNCHANGED op
  /\ UNCHANGED <<saved, loadable, up, config, stream, render, requests, unsaved, overtaken>>

\* WaitForPipelineStartup fails, or its two seconds are over, or the commit fails.
StartupFails ==
  /\ pc = "starting" /\ pc' = "aborting"
  /\ UNCHANGED <<saved, loadable, up, config, stream, render, op, requests, unsaved, overtaken>>

\* The old path comes back with an output of its own, or there is none left.
RollBack ==
  /\ pc = "aborting" /\ step["streaming"] = "idle"
  /\ shown' = None /\ attached' = op.was
  /\ \/ /\ ~op.rolledBack /\ pc' = "starting" /\ output' = Output(op.was)
        /\ op' = [op EXCEPT !.rolledBack = TRUE, !.todo = <<>>]
     \/ output' = "none" /\ Answer
  /\ UNCHANGED <<saved, loadable, up, config, style, visible, step, copy, requests,
                 unsaved, overtaken>>

-----------------------------------------------------------------------------
(* Stream::ApplySubtitleStyle, on both threads. *)

\* subtitleoverlay plugs a renderer, for the first time or anew: child-added.
AddRenderer_NoSignal ==
  /\ output = "cues" /\ pc \notin {"stopping", "aborting"} /\ step["streaming"] = "idle"
  /\ shown' = Nothing(Fields) /\ overtaken' = FALSE
  /\ UNCHANGED <<saved, loadable, up, config, stream, step, copy, pc, op, requests, unsaved>>
AddRenderer ==
  /\ output = "cues" /\ pc \notin {"stopping", "aborting"} /\ step["streaming"] = "idle"
  /\ shown' = Nothing(Fields) /\ step' = [step EXCEPT !["streaming"] = "load"]
  /\ overtaken' = FALSE
  /\ UNCHANGED <<saved, loadable, up, config, stream, copy, pc, op, requests, unsaved>>

\* The streaming thread waits for nothing.
LoadReady_Locks(t) ==
  t = "streaming" => pc \notin {"stopping", "starting", "aborting"} /\ step["web"] = "idle"
LoadReady(t) == TRUE

\* There may be no renderer, or no style yet.
LoadStyle(t) ==
  /\ step[t] = "load" /\ LoadReady(t)
  /\ IF shown = None \/ style = Nothing(Fields)
     THEN step' = [step EXCEPT ![t] = "idle"] /\ UNCHANGED copy
     ELSE step' = [step EXCEPT ![t] = "desc"] /\ copy' = [copy EXCEPT ![t] = style]
  /\ overtaken' = (overtaken /\ ~(t = "web" /\ step["streaming"] = "idle"))
  /\ UNCHANGED <<saved, loadable, up, config, stream, shown, pc, op, requests, unsaved>>

\* One font-desc of family and size, and the colour: what was never set is left alone.
Paint(t, fields) ==
  shown' = IF \A field \in fields : copy[t][field] = None THEN shown
           ELSE [field \in Fields |-> IF field \in fields THEN copy[t][field] ELSE shown[field]]

SetDesc(t) ==
  /\ step[t] = "desc" /\ step' = [step EXCEPT ![t] = "color"] /\ Paint(t, FontDesc)
  /\ UNCHANGED <<saved, loadable, up, config, stream, copy, pc, op, requests, unsaved, overtaken>>

SetColor(t) ==
  /\ step[t] = "color" /\ step' = [step EXCEPT ![t] = "idle"] /\ Paint(t, {"color"})
  /\ copy' = [copy EXCEPT ![t] = Nothing(Fields)]
  /\ UNCHANGED <<saved, loadable, up, config, stream, pc, op, requests, unsaved, overtaken>>

-----------------------------------------------------------------------------
(* The process. *)

\* main applies the style if there is a file (Library says which), and the visibility.
BootTodo(file) ==
  (IF file THEN Restore(Loaded) ELSE <<>>) \o Setter("visible", Loaded, FALSE)

Boot(file) ==
  /\ ~up /\ Begin /\ up' = TRUE
  /\ config' = Loaded /\ attached' = file /\ output' = Output(file)
  /\ pc' = "run" /\ op' = [NoHook EXCEPT !.todo = BootTodo(file)]
  /\ UNCHANGED <<saved, loadable, style, visible, render, unsaved, overtaken>>

ProcessEnds ==
  /\ up /\ up' = FALSE /\ config' = Nothing(Keys) /\ attached' = FALSE
  /\ style' = Nothing(Fields) /\ visible' = TRUE /\ output' = "none"
  /\ shown' = None /\ step' = [t \in Threads |-> "idle"]
  /\ copy' = [t \in Threads |-> Nothing(Fields)]
  /\ Answer /\ unsaved' = FALSE /\ overtaken' = FALSE
  /\ UNCHANGED <<saved, loadable, requests>>

Patches ==
  {patch \in [Keys -> (UNION {Values[key] : key \in Keys}) \union {None, Bad}] :
     /\ \A key \in Keys : patch[key] \in Values[key] \union {None, Bad}
     /\ Cardinality({key \in Keys : patch[key] # None}) <= MaxKeys}

Switching == SwitchRefused \/ SetNull \/ StartOutput \/ Started \/ StartupFails \/ RollBack
Styling(t) == LoadStyle(t) \/ SetDesc(t) \/ SetColor(t)
Hook == Store \/ Applied \/ Save \/ SaveFails \/ Switching \/ Styling("web")

Next ==
  \/ \E file \in {None, "attach", "detach"}, patch \in Patches : PutState(file, patch)
  \/ Hook \/ Styling("streaming") \/ AddRenderer
  \/ \E file \in BOOLEAN : Boot(file)
  \/ ProcessEnds

\* The threads run; nobody has to ask, boot, plug a renderer or end the process.
Spec == Init /\ [][Next]_vars /\ WF_vars(Hook) /\ WF_vars(Styling("streaming"))

-----------------------------------------------------------------------------
(* Properties. *)

\* Between hooks the cues are styled, and shown or not, as config.ini will have it at
\* the next boot, whatever was switched, rolled back, refused or cut off; a save that
\* failed is made up for by the next one (ApplySubtitleStyle after an attach, Config).
StyleIsKept ==
  (up /\ pc = "idle" /\ loadable) =>
    /\ attached => style = [field \in Fields |-> config[field]]
    /\ visible = IF config["visible"] = None THEN TRUE ELSE config["visible"]
    /\ unsaved \/ config = Loaded

\* Whichever thread comes first, the renderer shows the style that is reported, once
\* both are through, unless a setter ran between the streaming thread's reading of the
\* style and its use (child-added against SetSubtitleFont*).
StyleIsShown ==
  (shown # None /\ ~overtaken /\ \A t \in Threads : step[t] = "idle") => shown = style

\* Every hook ends, although it waits with mutex_ held for the threads of the output,
\* one of which may be styling a renderer (SetSubtitleFile, OnSubtitleChildAdded).
HookEnds == (pc # "idle") ~> (pc = "idle")
=============================================================================
