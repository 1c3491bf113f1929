---------------------------- MODULE CueStyleProofs -----------------------------
(***************************************************************************)
(* Proofs about CueStyle for any values, keys and numbers of hooks.  A     *)
(* hook is a list of setters that a switch, a failure or the end of the    *)
(* process may cut off: Pending says what it has yet to set.  Two threads  *)
(* style the renderer: Painted says what is right of it meanwhile.         *)
(***************************************************************************)
EXTENDS CueStyle, SequenceTheorems, TLAPS

Given  == (UNION {Values[key] : key \in Keys}) \union {None}
Styles == [Fields -> Given]
Calls  == [key : Keys, value : Given, keep : BOOLEAN]
Ops    == [todo : Seq(Calls), was : BOOLEAN, rolledBack : BOOLEAN, save : BOOLEAN]

Switches == {"switch", "stopping", "starting", "aborting"}

Types ==
  /\ config \in [Keys -> Given] /\ \A key \in Keys : config[key] \in Values[key] \union {None}
  /\ style \in Styles /\ (shown = None \/ shown \in Styles)
  /\ step \in [Threads -> {"idle", "load", "desc", "color"}] /\ copy \in [Threads -> Styles]
  /\ pc \in {"idle", "run", "save"} \union Switches /\ op \in Ops
  /\ attached \in BOOLEAN

\* A hook that is over has left nothing, and only one that runs styles a renderer.
Phases ==
  /\ pc = "idle" => op = NoHook
  /\ pc = "save" => op.todo = <<>>
  /\ step["web"] # "idle" => pc = "run"
  /\ ~up => /\ pc = "idle" /\ style = Nothing(Fields) /\ visible = TRUE
            /\ output = "none" /\ shown = None
            /\ step = [t \in Threads |-> "idle"] /\ copy = [t \in Threads |-> Nothing(Fields)]

Painting(t) == step[t] \in {"desc", "color"}

\* No value goes back to what was never set.
NeverUnset ==
  \A field \in Fields :
    /\ \A t \in Threads : copy[t][field] # None => style[field] # None
    /\ shown # None /\ shown[field] # None => style[field] # None

\* What is painted is the style; what is not yet right, a thread is going to paint.
Painted ==
  /\ \A t \in Threads : Painting(t) => shown \in Styles
  /\ Painting("web") => copy["web"] = style
  /\ Painting("streaming") => overtaken \/ copy["streaming"] = style
  /\ shown # None /\ ~overtaken =>
       /\ \/ \E t \in Threads : step[t] \in {"load", "desc"}
          \/ \A field \in FontDesc : shown[field] = style[field]
       /\ \/ \E t \in Threads : step[t] # "idle"
          \/ shown["color"] = style["color"]

Names(todo, key) == \E i \in DOMAIN todo : todo[i].key = key
Pending(key)     == Names(op.todo, key)

\* What the hook has yet to call: the persisted style first, then the patch.
Listed ==
  /\ \A i \in DOMAIN op.todo :
       /\ op.todo[i].value \in Values[op.todo[i].key]
       /\ ~op.todo[i].keep => op.todo[i].value = config[op.todo[i].key]
       /\ op.todo[i].keep /\ loadable => op.save
  /\ \A i, j \in DOMAIN op.todo : i < j /\ op.todo[i].keep => op.todo[j].keep

VisibleKept == visible = IF config["visible"] = None THEN TRUE ELSE config["visible"]
StyleKept   == \A field \in Fields : style[field] = config[field]

\* Stream, config and config.ini agree, or the hook has yet to make them agree.
Agreed ==
  up /\ loadable =>
    /\ \A field \in Fields : style[field] \in {None, config[field]}
    /\ attached => \A field \in Fields : style[field] = config[field] \/ Pending(field)
    /\ VisibleKept \/ Pending("visible")
    /\ unsaved \/ config = Loaded \/ op.save
    /\ \A key \in Keys : config[key] = None => saved[key] \notin Values[key]
    /\ pc \in Switches => /\ VisibleKept /\ (unsaved \/ config = Loaded)
                          /\ op.was => StyleKept
                          /\ op.rolledBack => attached = op.was

IInv == Types /\ Phases /\ NeverUnset /\ Painted /\ Listed /\ Agreed

-----------------------------------------------------------------------------
(* Lists of setters. *)

From(s, values) ==
  /\ s \in Seq(Calls)
  /\ \A i \in DOMAIN s : /\ s[i].key \in Keys /\ s[i].value = values[s[i].key]
                         /\ s[i].value \in Values[s[i].key]
AllKeep(s)  == \A i \in DOMAIN s : s[i].keep
NoneKeep(s) == \A i \in DOMAIN s : ~s[i].keep
Ordered(s)  == \A i, j \in DOMAIN s : i < j /\ s[i].keep => s[j].keep

\* A setter is called for the key if there is a value, with that value.
LEMMA SetterFrom ==
  ASSUME NEW key \in Keys, NEW values, values[key] \in Values[key] \union {None},
         NEW keep \in BOOLEAN
  PROVE  /\ From(Setter(key, values, keep), values)
         /\ keep => AllKeep(Setter(key, values, keep))
         /\ ~keep => NoneKeep(Setter(key, values, keep))
         /\ values[key] # None => Names(Setter(key, values, keep), key)
<1> DEFINE call == [key |-> key, value |-> values[key], keep |-> keep]
<1>1. values[key] \in Given
  <2>1. Values[key] \in {Values[k] : k \in Keys}
    OBVIOUS
  <2> QED
    BY <2>1 DEF Given
<1>2. call \in Calls /\ call.key = key /\ call.value = values[key] /\ call.keep = keep
  BY <1>1, Zenon DEF Calls
<1> HIDE DEF call
<1>3. CASE values[key] = None
  BY <1>3 DEF Setter, From, AllKeep, NoneKeep
<1>4. CASE values[key] # None
  <2>1. Setter(key, values, keep) = <<call>>
    BY <1>4 DEF Setter, call
  <2>2. /\ <<call>> \in Seq(Calls) /\ DOMAIN <<call>> = {1} /\ <<call>>[1] = call
    BY <1>2
  <2>3. From(<<call>>, values)
    BY <1>2, <1>4, <2>2 DEF From
  <2>4. (keep => AllKeep(<<call>>)) /\ (~keep => NoneKeep(<<call>>)) /\ Names(<<call>>, key)
    BY <1>2, <2>2, Zenon DEF AllKeep, NoneKeep, Names
  <2> QED
    BY <2>1, <2>3, <2>4
<1> QED
  BY <1>3, <1>4

\* What the elements of two sequences have, their concatenation has.
LEMMA Joined ==
  ASSUME NEW s \in Seq(Calls), NEW t \in Seq(Calls)
  PROVE  /\ s \o t \in Seq(Calls)
         /\ \A i \in DOMAIN (s \o t) :
              \/ i \in DOMAIN s /\ (s \o t)[i] = s[i]
              \/ i - Len(s) \in DOMAIN t /\ (s \o t)[i] = t[i - Len(s)] /\ i > Len(s)
         /\ \A i \in DOMAIN s : i \in DOMAIN (s \o t) /\ (s \o t)[i] = s[i]
         /\ \A i \in DOMAIN t : /\ i + Len(s) \in DOMAIN (s \o t)
                                /\ (s \o t)[i + Len(s)] = t[i]
OBVIOUS

\* Setters for the same values stay such when they are called one after the other.
LEMMA JoinedFrom ==
  ASSUME NEW values, NEW s, NEW t, From(s, values), From(t, values)
  PROVE  /\ From(s \o t, values)
         /\ AllKeep(s) /\ AllKeep(t) => AllKeep(s \o t)
         /\ NoneKeep(s) /\ NoneKeep(t) => NoneKeep(s \o t)
         /\ \A key : Names(s, key) \/ Names(t, key) => Names(s \o t, key)
<1>1. s \in Seq(Calls) /\ t \in Seq(Calls)
  BY DEF From
<1>2. /\ s \o t \in Seq(Calls)
      /\ \A i \in DOMAIN (s \o t) : \/ \E k \in DOMAIN s : (s \o t)[i] = s[k]
                                    \/ \E k \in DOMAIN t : (s \o t)[i] = t[k]
      /\ \A i \in DOMAIN s : \E k \in DOMAIN (s \o t) : (s \o t)[k] = s[i]
      /\ \A i \in DOMAIN t : \E k \in DOMAIN (s \o t) : (s \o t)[k] = t[i]
  <2>1. /\ s \o t \in Seq(Calls)
        /\ \A i \in DOMAIN (s \o t) :
             \/ i \in DOMAIN s /\ (s \o t)[i] = s[i]
             \/ i - Len(s) \in DOMAIN t /\ (s \o t)[i] = t[i - Len(s)]
        /\ \A i \in DOMAIN s : i \in DOMAIN (s \o t) /\ (s \o t)[i] = s[i]
        /\ \A i \in DOMAIN t : /\ i + Len(s) \in DOMAIN (s \o t)
                               /\ (s \o t)[i + Len(s)] = t[i]
    BY <1>1, Joined
  <2> QED
    BY <2>1, Zenon
<1> DEFINE u == s \o t
<1> HIDE DEF u
<1>3. From(u, values)
  BY <1>2 DEF From, u
<1>4. AllKeep(s) /\ AllKeep(t) => AllKeep(u)
  BY <1>2, Zenon DEF AllKeep, u
<1>5. NoneKeep(s) /\ NoneKeep(t) => NoneKeep(u)
  BY <1>2, Zenon DEF NoneKeep, u
<1>6. \A key : Names(s, key) \/ Names(t, key) => Names(u, key)
  BY <1>2, Zenon DEF Names, u
<1> QED
  BY <1>3, <1>4, <1>5, <1>6 DEF u

\* Each field with a value gets its setter.
LEMMA FontSettersFrom ==
  ASSUME NEW values, \A key \in Keys : values[key] \in Values[key] \union {None},
         NEW keep \in BOOLEAN
  PROVE  /\ From(FontSetters(values, keep), values)
         /\ keep => AllKeep(FontSetters(values, keep))
         /\ ~keep => NoneKeep(FontSetters(values, keep))
         /\ \A key \in Fields : values[key] # None => Names(FontSetters(values, keep), key)
<1> DEFINE f == Setter("family", values, keep)
           s == Setter("size", values, keep)
           c == Setter("color", values, keep)
<1>1. "family" \in Keys /\ "size" \in Keys /\ "color" \in Keys
  BY DEF Keys, Fields
<1>2. /\ From(f, values) /\ From(s, values) /\ From(c, values)
      /\ keep => AllKeep(f) /\ AllKeep(s) /\ AllKeep(c)
      /\ ~keep => NoneKeep(f) /\ NoneKeep(s) /\ NoneKeep(c)
      /\ values["family"] # None => Names(f, "family")
      /\ values["size"] # None => Names(s, "size")
      /\ values["color"] # None => Names(c, "color")
  BY <1>1, SetterFrom
<1>3. FontSetters(values, keep) = (f \o s) \o c
  BY DEF FontSetters
<1> HIDE DEF f, s, c
<1>4. /\ From(f \o s, values)
      /\ AllKeep(f) /\ AllKeep(s) => AllKeep(f \o s)
      /\ NoneKeep(f) /\ NoneKeep(s) => NoneKeep(f \o s)
      /\ \A key : Names(f, key) \/ Names(s, key) => Names(f \o s, key)
  BY <1>2, JoinedFrom
<1>5. /\ From((f \o s) \o c, values)
      /\ AllKeep(f \o s) /\ AllKeep(c) => AllKeep((f \o s) \o c)
      /\ NoneKeep(f \o s) /\ NoneKeep(c) => NoneKeep((f \o s) \o c)
      /\ \A key : Names(f \o s, key) \/ Names(c, key) => Names((f \o s) \o c, key)
  BY <1>2, <1>4, JoinedFrom
<1>6. \A key \in Fields : values[key] # None => Names((f \o s) \o c, key)
  BY <1>2, <1>4, <1>5, Zenon DEF Fields
<1> QED
  BY <1>2, <1>3, <1>4, <1>5, <1>6, Zenon

\* The persisted style is called for without being kept, field by field.
LEMMA RestoreFrom ==
  ASSUME NEW values, \A key \in Keys : values[key] \in Values[key] \union {None}
  PROVE  /\ From(Restore(values), values) /\ NoneKeep(Restore(values))
         /\ \A key \in Fields : values[key] # None => Names(Restore(values), key)
BY FontSettersFrom DEF Restore

\* A patch is called for and kept.
LEMMA ChangeFrom ==
  ASSUME NEW values, \A key \in Keys : values[key] \in Values[key] \union {None}
  PROVE  From(Change(values), values) /\ AllKeep(Change(values))
<1>1. "visible" \in Keys /\ TRUE \in BOOLEAN
  BY DEF Keys
<1>2. /\ From(Setter("visible", values, TRUE), values)
      /\ AllKeep(Setter("visible", values, TRUE))
  BY <1>1, SetterFrom
<1>3. From(FontSetters(values, TRUE), values) /\ AllKeep(FontSetters(values, TRUE))
  BY FontSettersFrom
<1> QED
  BY <1>2, <1>3, JoinedFrom DEF Change

-----------------------------------------------------------------------------
(* The hook's record. *)

\* Its fields have their types, and edits of it are such records.
LEMMA OpEdits == ASSUME NEW o \in Ops
  PROVE  /\ o.todo \in Seq(Calls)
         /\ \A s \in Seq(Calls) : /\ [o EXCEPT !.todo = s] \in Ops
                                  /\ [o EXCEPT !.todo = s].todo = s
                                  /\ [o EXCEPT !.todo = s].was = o.was
                                  /\ [o EXCEPT !.todo = s].save = o.save
         /\ [o EXCEPT !.rolledBack = TRUE, !.todo = <<>>] \in Ops
         /\ [o EXCEPT !.rolledBack = TRUE, !.todo = <<>>].todo = <<>>
         /\ [o EXCEPT !.rolledBack = TRUE, !.todo = <<>>].was = o.was
         /\ [o EXCEPT !.rolledBack = TRUE, !.todo = <<>>].save = o.save
<1>1. <<>> \in Seq(Calls)
  OBVIOUS
<1> QED
  BY <1>1, Zenon DEF Ops

\* A hook that has nothing to do is such a record.
LEMMA NoHookIs ==
  /\ NoHook \in Ops /\ NoHook.todo = <<>> /\ ~NoHook.was
  /\ ~NoHook.rolledBack /\ ~NoHook.save
  /\ \A s \in Seq(Calls) : /\ [NoHook EXCEPT !.todo = s] \in Ops
                           /\ [NoHook EXCEPT !.todo = s].todo = s
                           /\ ~[NoHook EXCEPT !.todo = s].was
<1>1. <<>> \in Seq(Calls)
  OBVIOUS
<1>2. NoHook = [todo |-> <<>>, was |-> FALSE, rolledBack |-> FALSE, save |-> FALSE]
  BY DEF NoHook
<1> QED
  BY <1>1, <1>2, Zenon DEF Ops

\* A style that sets nothing is a style, and None is not.
LEMMA NothingIs ==
  /\ Nothing(Fields) \in Styles /\ \A field \in Fields : Nothing(Fields)[field] = None
  /\ None \notin Styles
<1>1. None \in Given
  BY DEF Given
<1>2. None \notin Styles
  BY StyleAssumption DEF Styles, Given
<1> QED
  BY <1>1, <1>2 DEF Nothing, Styles

-----------------------------------------------------------------------------
(* Steps that leave the renderer, or the hook, alone. *)

\* A step that styles nothing keeps what is right of the renderer.
LEMMA RenderSame ==
  ASSUME NeverUnset, Painted, UNCHANGED <<style, shown, step, copy, overtaken>>
  PROVE  NeverUnset' /\ Painted'
BY Zenon DEF NeverUnset, Painted, Painting

\* A step of the renderer alone keeps what is left of the hook.
LEMMA HookSame ==
  ASSUME Listed, Agreed,
         UNCHANGED <<saved, loadable, up, config, attached, style, visible, pc, op, unsaved>>
  PROVE  Listed' /\ Agreed'
<1>1. Listed'
  BY Zenon DEF Listed
<1>2. Loaded' = Loaded
  BY Zenon DEF Loaded
<1>3. VisibleKept' <=> VisibleKept
  BY Zenon DEF VisibleKept
<1>4. StyleKept' <=> StyleKept
  BY Zenon DEF StyleKept
<1>5. \A key : Pending(key)' <=> Pending(key)
  BY Zenon DEF Pending, Names
<1> QED
  BY <1>1, <1>2, <1>3, <1>4, <1>5, Zenon DEF Agreed

-----------------------------------------------------------------------------
(* The renderer. *)

\* A new renderer has nothing yet, and a thread that is going to style it.
LEMMA AddRendererKeeps == ASSUME IInv, AddRenderer PROVE IInv'
<1>1. /\ step["streaming"] = "idle" /\ output = "cues"
      /\ shown' = Nothing(Fields) /\ step' = [step EXCEPT !["streaming"] = "load"]
      /\ overtaken' = FALSE
      /\ UNCHANGED <<saved, loadable, up, config, attached, style, visible, output, copy, pc,
                     op, unsaved>>
  BY Zenon DEF AddRenderer, stream
<1>2. step \in [Threads -> {"idle", "load", "desc", "color"}]
  BY DEF IInv, Types
<1>3. /\ step' \in [Threads -> {"idle", "load", "desc", "color"}]
      /\ step'["web"] = step["web"] /\ step'["streaming"] = "load" /\ "streaming" \in Threads
  BY <1>1, <1>2 DEF Threads
<1>4. Types'
  BY <1>1, <1>3, NothingIs, Zenon DEF IInv, Types
<1>5. Phases'
  <2>1. up
    BY <1>1 DEF IInv, Phases
  <2> QED
    BY <1>1, <1>3, <2>1, Zenon DEF IInv, Phases
<1>6. NeverUnset'
  BY <1>1, NothingIs, Zenon DEF IInv, NeverUnset
<1>7. Painted'
  <2>1. \A t \in Threads : t = "web" \/ t = "streaming"
    BY DEF Threads
  <2>2. ~Painting("streaming")'
    BY <1>3 DEF Painting
  <2>3. Painting("web")' => Painting("web")
    BY <1>3 DEF Painting
  <2>4. \E t \in Threads : step'[t] \in {"load", "desc"}
    BY <1>3
  <2>5. \E t \in Threads : step'[t] # "idle"
    BY <1>3
  <2>6. shown' \in Styles
    BY <1>1, NothingIs
  <2> QED
    BY <1>1, <2>2, <2>3, <2>4, <2>5, <2>6, Zenon DEF IInv, Painted
<1>8. Listed' /\ Agreed'
  BY <1>1, HookSame DEF IInv
<1> QED
  BY <1>4, <1>5, <1>6, <1>7, <1>8 DEF IInv

\* A thread that paints is not stopped by a switch, and its hook is running.
LEMMA StylingPhases ==
  ASSUME Phases, NEW t \in Threads, step[t] # "idle",
         NEW s, step \in [Threads -> {"idle", "load", "desc", "color"}],
         step' = [step EXCEPT ![t] = s],
         UNCHANGED <<up, pc, op, style, visible, output>>
  PROVE  Phases'
<1>1. t \in {"web", "streaming"}
  BY DEF Threads
<1>2. up
  <2>1. ~up => step[t] = "idle"
    BY <1>1 DEF Phases, Threads
  <2> QED
    BY <2>1
<1>3. step'["web"] # "idle" => step["web"] # "idle"
  BY <1>1 DEF Threads
<1> QED
  BY <1>2, <1>3, Zenon DEF Phases

\* Who reads the style now paints what is reported, unless there is nothing to paint.
LEMMA LoadKeeps == ASSUME IInv, NEW t \in Threads, LoadStyle(t) PROVE IInv'
<1>1. /\ step[t] = "load"
      /\ \/ /\ shown = None \/ style = Nothing(Fields)
            /\ step' = [step EXCEPT ![t] = "idle"] /\ UNCHANGED copy
         \/ /\ shown # None
            /\ step' = [step EXCEPT ![t] = "desc"] /\ copy' = [copy EXCEPT ![t] = style]
      /\ overtaken' = (overtaken /\ ~(t = "web" /\ step["streaming"] = "idle"))
      /\ UNCHANGED <<saved, loadable, up, config, attached, style, visible, output, shown, pc,
                     op, unsaved>>
  BY Zenon DEF LoadStyle, stream
<1>2. Types /\ Phases /\ NeverUnset /\ Painted /\ Listed /\ Agreed
  BY DEF IInv
<1>3. /\ step \in [Threads -> {"idle", "load", "desc", "color"}]
      /\ copy \in [Threads -> Styles] /\ style \in Styles /\ (shown = None \/ shown \in Styles)
  BY <1>2 DEF Types
<1>4. step' \in [Threads -> {"idle", "load", "desc", "color"}] /\ copy' \in [Threads -> Styles]
  BY <1>1, <1>3
<1>5. Types'
  BY <1>1, <1>2, <1>4, Zenon DEF Types
<1>6. Phases'
  <2>1. step[t] # "idle"
    BY <1>1
  <2> QED
    BY <1>1, <1>2, <1>3, <2>1, StylingPhases
<1>7. \A o \in Threads : copy'[o] = copy[o] \/ copy'[o] = style
  BY <1>1, <1>3
<1>8. NeverUnset'
  BY <1>1, <1>2, <1>7, Zenon DEF NeverUnset
<1>9. /\ \A o \in Threads : o # t => step'[o] = step[o] /\ copy'[o] = copy[o]
      /\ \/ step'[t] = "idle" /\ (shown = None \/ style = Nothing(Fields))
         \/ step'[t] = "desc" /\ copy'[t] = style /\ shown # None
  BY <1>1, <1>3
<1>10. Painted'
  <2>1. \A o \in Threads : Painting(o)' => shown' \in Styles
    BY <1>1, <1>2, <1>3, <1>9 DEF Painted, Painting
  <2>2. Painting("web")' => copy'["web"] = style
    BY <1>2, <1>9 DEF Painted, Painting, Threads
  <2>3. overtaken' => overtaken
    BY <1>1, Zenon
  <2>4. overtaken => overtaken' \/ (t = "web" /\ step["streaming"] = "idle")
    BY <1>1, Zenon
  <2>5. Painting("streaming")' => overtaken' \/ copy'["streaming"] = style
    BY <1>2, <1>9, <2>4 DEF Painted, Painting, Threads
  <2>6. ASSUME shown # None, ~overtaken'
        PROVE  /\ \/ \E o \in Threads : step'[o] \in {"load", "desc"}
                  \/ \A field \in FontDesc : shown[field] = style[field]
               /\ \/ \E o \in Threads : step'[o] # "idle"
                  \/ shown["color"] = style["color"]
    <3>1. CASE step'[t] = "desc"
      BY <3>1
    <3>2. CASE step'[t] = "idle" /\ style = Nothing(Fields)
      <4>1. \A field \in Fields : style[field] = None
        BY <3>2, NothingIs
      <4>2. \A field \in Fields : shown[field] = style[field]
        BY <1>2, <2>6, <4>1 DEF NeverUnset
      <4> QED
        BY <4>2 DEF Fields, FontDesc
    <3> QED
      BY <1>9, <2>6, <3>1, <3>2
  <2> QED
    BY <1>1, <2>1, <2>2, <2>5, <2>6 DEF Painted
<1>11. Listed' /\ Agreed'
  BY <1>1, <1>2, HookSame
<1> QED
  BY <1>5, <1>6, <1>8, <1>10, <1>11 DEF IInv

\* Painting sets the fields to the copy, or they were never set in it.
LEMMA PaintSets ==
  ASSUME Types, NeverUnset, NEW t \in Threads, NEW fields \in SUBSET Fields,
         Painting(t), shown \in Styles, Paint(t, fields)
  PROVE  /\ shown' \in Styles
         /\ \A field \in fields : shown'[field] = copy[t][field] \/ shown'[field] = shown[field]
         /\ \A field \in Fields \ fields : shown'[field] = shown[field]
         /\ copy[t] = style => \A field \in fields : shown'[field] = style[field]
<1>1. copy[t] \in Styles
  BY DEF Types
<1>2. CASE shown' = shown /\ \A field \in fields : copy[t][field] = None
  <2>1. shown # None
    BY NothingIs
  <2> QED
    BY <1>2, <2>1 DEF NeverUnset
<1>3. CASE shown' = [field \in Fields |-> IF field \in fields THEN copy[t][field]
                                          ELSE shown[field]]
  BY <1>1, <1>3 DEF Styles
<1> QED
  BY <1>2, <1>3 DEF Paint

\* One half is painted, and the other is to come.
LEMMA SetDescKeeps == ASSUME IInv, NEW t \in Threads, SetDesc(t) PROVE IInv'
<1>1. /\ step[t] = "desc" /\ step' = [step EXCEPT ![t] = "color"] /\ Paint(t, FontDesc)
      /\ UNCHANGED <<saved, loadable, up, config, attached, style, visible, output, copy, pc, op,
                     unsaved, overtaken>>
  BY Zenon DEF SetDesc, stream
<1>2. Types /\ Phases /\ NeverUnset /\ Painted /\ Listed /\ Agreed
  BY DEF IInv
<1>3. step \in [Threads -> {"idle", "load", "desc", "color"}]
  BY <1>2 DEF Types
<1>4. FontDesc \in SUBSET Fields /\ "color" \in Fields \ FontDesc
  BY DEF FontDesc, Fields
<1>5. Painting(t) /\ shown \in Styles /\ shown # None
  BY <1>1, <1>2, NothingIs DEF Painting, Painted
<1>6. /\ shown' \in Styles
      /\ \A field \in Fields : shown'[field] = copy[t][field] \/ shown'[field] = shown[field]
      /\ shown'["color"] = shown["color"]
      /\ copy[t] = style => \A field \in FontDesc : shown'[field] = style[field]
  BY <1>1, <1>2, <1>4, <1>5, PaintSets
<1>7. /\ step' \in [Threads -> {"idle", "load", "desc", "color"}] /\ step'[t] = "color"
      /\ \A o \in Threads : o # t => step'[o] = step[o]
  BY <1>1, <1>3
<1>8. Types'
  BY <1>1, <1>2, <1>6, <1>7, Zenon DEF Types
<1>9. Phases'
  <2>1. step[t] # "idle"
    BY <1>1
  <2> QED
    BY <1>1, <1>2, <1>3, <2>1, StylingPhases
<1>10. NeverUnset'
  <2>1. ASSUME NEW field \in Fields, shown'[field] # None PROVE style[field] # None
    BY <1>2, <1>5, <1>6, <2>1, Zenon DEF NeverUnset
  <2> QED
    BY <1>1, <1>2, <2>1, Zenon DEF NeverUnset
<1>11. Painted'
  <2>1. \A o \in Threads : Painting(o)' => Painting(o)
    BY <1>1, <1>7 DEF Painting
  <2>2. copy[t] = style => \A field \in FontDesc : shown'[field] = style[field]
    BY <1>6
  <2>3. ~overtaken => copy[t] = style
    BY <1>2, <1>5 DEF Painted, Threads
  <2>4. \E o \in Threads : step'[o] # "idle"
    BY <1>7
  <2>5. "web" \in Threads /\ "streaming" \in Threads
    BY DEF Threads
  <2>6. shown' # None /\ ~overtaken' =>
           \A field \in FontDesc : shown'[field] = style'[field]
    BY <1>1, <2>2, <2>3
  <2> QED
    BY <1>1, <1>2, <1>6, <2>1, <2>4, <2>5, <2>6, Zenon DEF Painted
<1>12. Listed' /\ Agreed'
  BY <1>1, <1>2, HookSame
<1> QED
  BY <1>8, <1>9, <1>10, <1>11, <1>12 DEF IInv

\* The other half; the copy has been used.
LEMMA SetColorKeeps == ASSUME IInv, NEW t \in Threads, SetColor(t) PROVE IInv'
<1>1. /\ step[t] = "color" /\ step' = [step EXCEPT ![t] = "idle"] /\ Paint(t, {"color"})
      /\ copy' = [copy EXCEPT ![t] = Nothing(Fields)]
      /\ UNCHANGED <<saved, loadable, up, config, attached, style, visible, output, pc, op,
                     unsaved, overtaken>>
  BY Zenon DEF SetColor, stream
<1>2. Types /\ Phases /\ NeverUnset /\ Painted /\ Listed /\ Agreed
  BY DEF IInv
<1>3. step \in [Threads -> {"idle", "load", "desc", "color"}] /\ copy \in [Threads -> Styles]
  BY <1>2 DEF Types
<1>4. {"color"} \in SUBSET Fields /\ FontDesc = Fields \ {"color"}
  BY DEF FontDesc, Fields
<1>5. Painting(t) /\ shown \in Styles /\ shown # None
  BY <1>1, <1>2, NothingIs DEF Painting, Painted
<1>6. /\ shown' \in Styles
      /\ \A field \in Fields : shown'[field] = copy[t][field] \/ shown'[field] = shown[field]
      /\ \A field \in FontDesc : shown'[field] = shown[field]
      /\ copy[t] = style => shown'["color"] = style["color"]
  BY <1>1, <1>2, <1>4, <1>5, PaintSets
<1>7. /\ step' \in [Threads -> {"idle", "load", "desc", "color"}] /\ step'[t] = "idle"
      /\ copy' \in [Threads -> Styles] /\ copy'[t] = Nothing(Fields)
      /\ \A o \in Threads : o # t => step'[o] = step[o] /\ copy'[o] = copy[o]
  BY <1>1, <1>3, NothingIs
<1>8. Types'
  BY <1>1, <1>2, <1>6, <1>7, Zenon DEF Types
<1>9. Phases'
  <2>1. step[t] # "idle"
    BY <1>1
  <2>2. ~up => step[t] = "idle"
    BY <1>2 DEF Phases
  <2>3. step'["web"] # "idle" => step["web"] # "idle"
    BY <1>1, <1>7 DEF Threads
  <2> QED
    BY <1>1, <1>2, <2>1, <2>2, <2>3, Zenon DEF Phases
<1>10. NeverUnset'
  <2>1. ASSUME NEW field \in Fields, shown'[field] # None PROVE style[field] # None
    BY <1>2, <1>5, <1>6, <2>1, Zenon DEF NeverUnset
  <2>2. ASSUME NEW field \in Fields, NEW o \in Threads, copy'[o][field] # None
        PROVE  style[field] # None
    BY <1>2, <1>7, <2>2, NothingIs, Zenon DEF NeverUnset
  <2> QED
    BY <1>1, <2>1, <2>2, Zenon DEF NeverUnset
<1>11. Painted'
  <2>1. \A o \in Threads : Painting(o)' => Painting(o) /\ copy'[o] = copy[o]
    BY <1>1, <1>7 DEF Painting
  <2>2. ~overtaken => copy[t] = style
    BY <1>2, <1>5 DEF Painted, Threads
  <2>3. "web" \in Threads /\ "streaming" \in Threads
    BY DEF Threads
  <2>4. \A o \in Threads : step[o] \in {"load", "desc"} => step'[o] \in {"load", "desc"}
    BY <1>1, <1>7
  <2>5. shown # None /\ ~overtaken =>
           \/ \E o \in Threads : step[o] \in {"load", "desc"}
           \/ \A field \in FontDesc : shown[field] = style[field]
    BY <1>2, Zenon DEF Painted
  <2>6. shown' # None /\ ~overtaken' =>
           /\ \/ \E o \in Threads : step'[o] \in {"load", "desc"}
              \/ \A field \in FontDesc : shown'[field] = style'[field]
           /\ shown'["color"] = style'["color"]
    BY <1>1, <1>5, <1>6, <2>2, <2>4, <2>5, Zenon
  <2> QED
    BY <1>1, <1>2, <1>6, <2>1, <2>3, <2>6, Zenon DEF Painted
<1>12. Listed' /\ Agreed'
  BY <1>1, <1>2, HookSame
<1> QED
  BY <1>8, <1>9, <1>10, <1>11, <1>12 DEF IInv

-----------------------------------------------------------------------------
(* Hooks. *)

\* What is restored comes before what is changed.
LEMMA RestoredFirst ==
  ASSUME NEW r \in Seq(Calls), NEW c \in Seq(Calls), NoneKeep(r), AllKeep(c)
  PROVE  Ordered(r \o c)
<1>1. /\ r \o c \in Seq(Calls)
      /\ \A i \in DOMAIN (r \o c) :
              \/ i \in DOMAIN r /\ (r \o c)[i] = r[i]
              \/ i - Len(r) \in DOMAIN c /\ (r \o c)[i] = c[i - Len(r)] /\ i > Len(r)
  BY Joined
<1>2. ASSUME NEW i \in DOMAIN (r \o c), NEW j \in DOMAIN (r \o c), i < j, (r \o c)[i].keep
      PROVE  j > Len(r)
  <2>1. i \notin DOMAIN r \/ (r \o c)[i] # r[i]
    BY <1>2 DEF NoneKeep
  <2>2. i > Len(r)
    BY <1>1, <2>1
  <2>3. i \in Nat /\ j \in Nat /\ Len(r) \in Nat
    BY <1>1
  <2> QED
    BY <1>2, <2>2, <2>3
<1>3. ASSUME NEW j \in DOMAIN (r \o c), j > Len(r) PROVE (r \o c)[j].keep
  <2>1. j \notin DOMAIN r
    BY <1>3
  <2>2. j - Len(r) \in DOMAIN c /\ (r \o c)[j] = c[j - Len(r)]
    BY <1>1, <2>1
  <2> QED
    BY <2>2 DEF AllKeep
<1> QED
  BY <1>2, <1>3, Zenon DEF Ordered

\* The calls of a hook: each has a value, none of the persisted fields is missing
\* after an attach, and what is to be kept is in the patch.
LEMMA TodoIs ==
  ASSUME \A key \in Keys : config[key] \in Values[key] \union {None}, NEW file, NEW patch,
         \A key \in Keys : patch[key] \in Values[key] \union {None}
  PROVE  /\ Todo(file, patch) \in Seq(Calls) /\ Ordered(Todo(file, patch))
         /\ \A i \in DOMAIN Todo(file, patch) :
              LET call == Todo(file, patch)[i]
              IN  /\ call.value \in Values[call.key]
                  /\ ~call.keep => call.value = config[call.key]
                  /\ call.keep => patch # Nothing(Keys)
         /\ file = "attach" =>
              \A key \in Fields : config[key] # None => Names(Todo(file, patch), key)
<1> DEFINE r == IF file = "attach" THEN Restore(config) ELSE <<>>
           c == Change(patch)
<1>1. /\ From(r, config) /\ NoneKeep(r)
      /\ file = "attach" => \A key \in Fields : config[key] # None => Names(r, key)
  <2>1. From(<<>>, config) /\ NoneKeep(<<>>)
    BY DEF From, NoneKeep
  <2> QED
    BY <2>1, RestoreFrom
<1>2. From(c, patch) /\ AllKeep(c)
  BY ChangeFrom
<1>3. Todo(file, patch) = r \o c
  BY DEF Todo
<1> HIDE DEF r, c
<1>4. r \in Seq(Calls) /\ c \in Seq(Calls)
  BY <1>1, <1>2 DEF From
<1>5. /\ r \o c \in Seq(Calls)
      /\ \A i \in DOMAIN (r \o c) :
              \/ i \in DOMAIN r /\ (r \o c)[i] = r[i]
              \/ i - Len(r) \in DOMAIN c /\ (r \o c)[i] = c[i - Len(r)]
      /\ \A i \in DOMAIN r : i \in DOMAIN (r \o c) /\ (r \o c)[i] = r[i]
  BY <1>4, Joined
<1>6. Ordered(r \o c)
  BY <1>1, <1>2, <1>4, RestoredFirst
<1>7. \A i \in DOMAIN c : patch # Nothing(Keys)
  <2>1. ASSUME NEW i \in DOMAIN c, patch = Nothing(Keys) PROVE FALSE
    <3>1. c[i].key \in Keys /\ c[i].value = patch[c[i].key] /\ c[i].value \in Values[c[i].key]
      BY <1>2 DEF From
    <3>2. patch[c[i].key] = None
      BY <2>1, <3>1 DEF Nothing
    <3> QED
      BY <3>1, <3>2, StyleAssumption
  <2> QED
    BY <2>1
<1>8. \A i \in DOMAIN r : /\ r[i].value \in Values[r[i].key] /\ ~r[i].keep
                          /\ r[i].value = config[r[i].key]
  BY <1>1, Zenon DEF From, NoneKeep
<1>9. \A i \in DOMAIN c : c[i].value \in Values[c[i].key] /\ c[i].keep
  BY <1>2, Zenon DEF From, AllKeep
<1>10. \A i \in DOMAIN (r \o c) :
          /\ (r \o c)[i].value \in Values[(r \o c)[i].key]
          /\ ~(r \o c)[i].keep => (r \o c)[i].value = config[(r \o c)[i].key]
          /\ (r \o c)[i].keep => patch # Nothing(Keys)
  BY <1>5, <1>7, <1>8, <1>9, Zenon
<1>11. \A key : Names(r, key) => Names(r \o c, key)
  BY <1>5, Zenon DEF Names
<1> QED
  BY <1>1, <1>3, <1>5, <1>6, <1>10, <1>11, Zenon

\* A request begins where stream, config and config.ini agree.
LEMMA PutStateKeeps ==
  ASSUME IInv, NEW file \in {None, "attach", "detach"}, NEW patch \in Patches,
         PutState(file, patch)
  PROVE  IInv'
<1> DEFINE todo == Todo(file, patch)
           save == loadable /\ (file # None \/ patch # Nothing(Keys))
<1>1. /\ up /\ pc = "idle" /\ \A key \in Keys : patch[key] # Bad
      /\ pc' = IF file = None THEN "run" ELSE "switch"
      /\ attached' = IF file = None THEN attached ELSE file = "attach"
      /\ op' = [todo |-> todo, was |-> attached, rolledBack |-> FALSE, save |-> save]
      /\ UNCHANGED <<saved, loadable, up, config, style, visible, output, shown, step, copy,
                     unsaved, overtaken>>
  BY Zenon DEF PutState, ParamValid, render
<1>2. Types /\ Phases /\ NeverUnset /\ Painted /\ Listed /\ Agreed
  BY DEF IInv
<1>3. op = NoHook /\ op.todo = <<>> /\ ~op.save
  BY <1>1, <1>2, NoHookIs DEF Phases
<1>4. \A key : ~Pending(key)
  BY <1>3 DEF Pending, Names
<1>5. \A key \in Keys : patch[key] \in Values[key] \union {None}
  BY <1>1 DEF Patches
<1>6. /\ todo \in Seq(Calls) /\ Ordered(todo)
      /\ \A i \in DOMAIN todo : /\ todo[i].value \in Values[todo[i].key]
                                /\ ~todo[i].keep => todo[i].value = config[todo[i].key]
                                /\ todo[i].keep => patch # Nothing(Keys)
      /\ file = "attach" => \A key \in Fields : config[key] # None => Names(todo, key)
  BY <1>2, <1>5, TodoIs, Zenon DEF Types
<1> HIDE DEF todo
<1>7. save \in BOOLEAN /\ attached \in BOOLEAN
  BY <1>2, Zenon DEF Types
<1>8. save <=> loadable /\ (file # None \/ patch # Nothing(Keys))
  OBVIOUS
<1> HIDE DEF save
<1>9. /\ op' \in Ops /\ op'.todo = todo /\ op'.was = attached /\ op'.save = save
      /\ ~op'.rolledBack
  BY <1>1, <1>6, <1>7, Zenon DEF Ops
<1>10. pc' \in {"run", "switch"} /\ pc' # "idle" /\ pc' # "save"
  BY <1>1
<1>11. Types'
  <2>1. attached' \in BOOLEAN
    BY <1>1, <1>7, Zenon
  <2>2. pc' \in {"idle", "run", "save"} \union Switches
    BY <1>10 DEF Switches
  <2> QED
    BY <1>1, <1>2, <1>9, <2>1, <2>2, Zenon DEF Types
<1>12. Phases'
  <2>1. step["web"] = "idle"
    BY <1>1, <1>2 DEF Phases
  <2> QED
    BY <1>1, <1>10, <2>1, Zenon DEF Phases
<1>13. NeverUnset' /\ Painted'
  BY <1>1, <1>2, RenderSame
<1>14. Listed'
  <2>1. \A i \in DOMAIN todo : todo[i].keep /\ loadable => save
    BY <1>6, <1>8, Zenon
  <2> QED
    BY <1>1, <1>6, <1>9, <2>1, Zenon DEF Listed, Ordered
<1>15. Agreed'
  <2>1. SUFFICES ASSUME loadable PROVE Agreed'
    BY <1>1, Zenon DEF Agreed
  <2>2. /\ \A field \in Fields : style[field] \in {None, config[field]}
        /\ attached => StyleKept /\ VisibleKept /\ (unsaved \/ config = Loaded)
        /\ VisibleKept /\ (unsaved \/ config = Loaded)
        /\ \A key \in Keys : config[key] = None => saved[key] \notin Values[key]
    BY <1>1, <1>2, <1>3, <1>4, <2>1, Zenon DEF Agreed, StyleKept
  <2>3. Loaded' = Loaded /\ (VisibleKept' <=> VisibleKept) /\ (StyleKept' <=> StyleKept)
    BY <1>1, Zenon DEF Loaded, VisibleKept, StyleKept
  <2>4. \A key : Names(todo, key) => Pending(key)'
    BY <1>9, Zenon DEF Pending
  <2>5. attached' => \A field \in Fields : style'[field] = config'[field] \/ Pending(field)'
    <3>1. CASE file = None
      BY <1>1, <2>2, <3>1, Zenon DEF StyleKept
    <3>2. CASE file = "attach"
      <4>1. \A field \in Fields : config[field] # None => Pending(field)'
        BY <1>6, <2>4, <3>2, Zenon
      <4> QED
        BY <1>1, <2>2, <4>1
    <3>3. CASE file # None /\ file # "attach"
      BY <1>1, <3>3, Zenon
    <3> QED
      BY <3>1, <3>2, <3>3
  <2>6. (op'.was => StyleKept') /\ ~op'.rolledBack
    BY <1>9, <2>2, <2>3, Zenon
  <2> QED
    BY <1>1, <2>2, <2>3, <2>5, <2>6, Zenon DEF Agreed
<1> QED
  BY <1>11, <1>12, <1>13, <1>14, <1>15 DEF IInv

\* A boot loads the keys that are valid, and calls for them.
LEMMA BootKeeps == ASSUME IInv, NEW file \in BOOLEAN, Boot(file) PROVE IInv'
<1> DEFINE r == IF file THEN Restore(Loaded) ELSE <<>>
           v == Setter("visible", Loaded, FALSE)
<1>1. /\ ~up /\ up' = TRUE /\ config' = Loaded /\ attached' = file /\ pc' = "run"
      /\ op' = [NoHook EXCEPT !.todo = BootTodo(file)]
      /\ UNCHANGED <<saved, loadable, style, visible, shown, step, copy, unsaved, overtaken>>
  BY Zenon DEF Boot, render
<1>2. Types /\ Phases /\ NeverUnset /\ Painted
  BY DEF IInv
<1>3. /\ Loaded \in [Keys -> Given] /\ "visible" \in Keys
      /\ \A key \in Keys : /\ Loaded[key] \in Values[key] \union {None}
                           /\ loadable /\ Loaded[key] = None => saved[key] \notin Values[key]
  <2>1. \A key \in Keys : /\ Loaded[key] \in Values[key] \union {None}
                          /\ Loaded[key] # None => Loaded[key] \in Values[key]
    BY DEF Loaded
  <2>2. ASSUME NEW key \in Keys PROVE Loaded[key] \in Given
    <3>1. Values[key] \in {Values[k] : k \in Keys}
      OBVIOUS
    <3> QED
      BY <2>1, <3>1 DEF Given
  <2>3. ASSUME NEW key \in Keys, loadable, Loaded[key] = None PROVE saved[key] \notin Values[key]
    <3>1. None \notin Values[key]
      BY StyleAssumption
    <3> QED
      BY <2>3, <3>1 DEF Loaded
  <2> QED
    BY <2>1, <2>2, <2>3 DEF Loaded, Keys
<1>4. /\ From(r, Loaded) /\ NoneKeep(r)
      /\ file => \A key \in Fields : Loaded[key] # None => Names(r, key)
  <2>1. From(<<>>, Loaded) /\ NoneKeep(<<>>)
    BY DEF From, NoneKeep
  <2> QED
    BY <1>3, <2>1, RestoreFrom
<1>5. From(v, Loaded) /\ NoneKeep(v) /\ (Loaded["visible"] # None => Names(v, "visible"))
  BY <1>3, SetterFrom
<1>6. BootTodo(file) = r \o v
  BY DEF BootTodo
<1> HIDE DEF r, v
<1>7. /\ From(r \o v, Loaded) /\ NoneKeep(r \o v)
      /\ \A key : Names(r, key) \/ Names(v, key) => Names(r \o v, key)
  BY <1>4, <1>5, JoinedFrom
<1> DEFINE todo == r \o v
<1> HIDE DEF todo
<1>8. /\ todo \in Seq(Calls)
      /\ \A i \in DOMAIN todo : /\ todo[i].value \in Values[todo[i].key] /\ ~todo[i].keep
                                /\ todo[i].value = Loaded[todo[i].key]
      /\ \A key : Names(r, key) \/ Names(v, key) => Names(todo, key)
  BY <1>7, Zenon DEF From, NoneKeep, todo
<1>9. op' \in Ops /\ op'.todo = todo /\ ~op'.was
  BY <1>1, <1>6, <1>8, NoHookIs, Zenon DEF todo
<1>10. Types'
  <2>1. attached' \in BOOLEAN
    BY <1>1, Zenon
  <2> QED
    BY <1>1, <1>2, <1>3, <1>9, <2>1, Zenon DEF Types
<1>11. Phases'
  BY <1>1, Zenon DEF Phases
<1>12. NeverUnset' /\ Painted'
  BY <1>1, <1>2, RenderSame
<1>13. Listed'
  BY <1>1, <1>8, <1>9, Zenon DEF Listed
<1>14. Agreed'
  <2>1. SUFFICES ASSUME loadable PROVE Agreed'
    BY <1>1, Zenon DEF Agreed
  <2>2. Loaded' = Loaded
    BY <1>1, Zenon DEF Loaded
  <2>3. \A key : Names(todo, key) => Pending(key)'
    BY <1>9, Zenon DEF Pending
  <2>4. \A field \in Fields : style'[field] = None
    BY <1>1, <1>2, NothingIs DEF Phases
  <2>5. attached' => \A field \in Fields : style'[field] = config'[field] \/ Pending(field)'
    BY <1>1, <1>4, <1>8, <2>3, <2>4, Zenon
  <2>6. VisibleKept' \/ Pending("visible")'
    <3>1. visible' = TRUE
      BY <1>1, <1>2, Zenon DEF Phases
    <3> QED
      BY <1>1, <1>5, <1>8, <2>3, <3>1, Zenon DEF VisibleKept
  <2>7. pc' \notin Switches
    BY <1>1 DEF Switches
  <2> QED
    BY <1>1, <1>3, <2>2, <2>4, <2>5, <2>6, <2>7, Zenon DEF Agreed
<1> QED
  BY <1>10, <1>11, <1>12, <1>13, <1>14 DEF IInv

\* The head of the list and what is behind it.
LEMMA HeadAndTail == ASSUME NEW s \in Seq(Calls), s # <<>>
  PROVE  /\ Tail(s) \in Seq(Calls) /\ 1 \in DOMAIN s /\ Head(s) = s[1] /\ Head(s) \in Calls
         /\ \A i \in DOMAIN Tail(s) : /\ i + 1 \in DOMAIN s /\ Tail(s)[i] = s[i + 1]
                                      /\ 1 < i + 1
         /\ \A i \in DOMAIN s : i # 1 => i - 1 \in DOMAIN Tail(s) /\ Tail(s)[i - 1] = s[i]
         /\ \A i, j \in DOMAIN Tail(s) : i < j => i + 1 < j + 1
<1>1. Len(s) \in Nat /\ Len(s) > 0 /\ DOMAIN s = 1 .. Len(s)
  OBVIOUS
<1>2. Tail(s) \in Seq(Calls) /\ Len(Tail(s)) = Len(s) - 1
  BY <1>1
<1> QED
  BY <1>1, <1>2

\* Every field but the one that is set keeps its call; the one that is set agrees.
LEMMA StoreKeeps == ASSUME IInv, Store PROVE IInv'
<1>1. PICK call :
        /\ call = Head(op.todo) /\ pc = "run" /\ step["web"] = "idle" /\ op.todo # <<>>
        /\ op' = [op EXCEPT !.todo = Tail(op.todo)]
        /\ LET sets == call.key \in Fields /\ (call.key = "size" => call.value # Bad)
           IN  /\ style' = IF sets THEN [style EXCEPT ![call.key] = call.value] ELSE style
               /\ step' = IF sets THEN [step EXCEPT !["web"] = "load"] ELSE step
               /\ overtaken' = (overtaken \/ (sets /\ step["streaming"] \in {"desc", "color"}))
        /\ visible' = Visibility(call) /\ config' = Kept(call)
        /\ UNCHANGED <<saved, loadable, up, attached, output, shown, copy, pc, unsaved>>
  BY DEF Store
<1>2. Types /\ Phases /\ NeverUnset /\ Painted /\ Listed /\ Agreed
  BY DEF IInv
<1> DEFINE old == op.todo
           rest == Tail(op.todo)
<1>3. op \in Ops /\ old \in Seq(Calls) /\ old # <<>>
  BY <1>1, <1>2, OpEdits DEF Types
<1>4. /\ rest \in Seq(Calls) /\ 1 \in DOMAIN old /\ call = old[1] /\ call \in Calls
      /\ \A i \in DOMAIN rest : i + 1 \in DOMAIN old /\ rest[i] = old[i + 1] /\ 1 < i + 1
      /\ \A i \in DOMAIN old : i # 1 => i - 1 \in DOMAIN rest /\ rest[i - 1] = old[i]
      /\ \A i, j \in DOMAIN rest : i < j => i + 1 < j + 1
  BY <1>1, <1>3, HeadAndTail
<1>5. op' \in Ops /\ op'.todo = rest /\ op'.was = op.was /\ op'.save = op.save
  BY <1>1, <1>3, <1>4, OpEdits
<1>6. /\ \A i \in DOMAIN old : /\ old[i].value \in Values[old[i].key]
                               /\ ~old[i].keep => old[i].value = config[old[i].key]
                               /\ old[i].keep /\ loadable => op.save
      /\ \A i, j \in DOMAIN old : i < j /\ old[i].keep => old[j].keep
  BY <1>2, Zenon DEF Listed
<1> HIDE DEF old, rest
<1>7. /\ call.key \in Keys /\ call.value \in Given
  BY <1>4 DEF Calls
<1>8. /\ call.value \in Values[call.key] /\ call.value # None /\ call.value # Bad
      /\ ~call.keep => call.value = config[call.key]
      /\ call.keep /\ loadable => op.save
      /\ call.keep => \A i \in DOMAIN rest : rest[i].keep
  <2>1. /\ call.value \in Values[call.key]
        /\ ~call.keep => call.value = config[call.key]
        /\ call.keep /\ loadable => op.save
    BY <1>4, <1>6, Zenon
  <2>2. call.keep => \A i \in DOMAIN rest : rest[i].keep
    BY <1>4, <1>6, Zenon
  <2> QED
    BY <1>7, <2>1, <2>2, StyleAssumption
<1>9. /\ call.key \in Fields => /\ style' = [style EXCEPT ![call.key] = call.value]
                                /\ step' = [step EXCEPT !["web"] = "load"]
                                /\ step["streaming"] \in {"desc", "color"} => overtaken'
      /\ call.key \notin Fields => style' = style /\ step' = step
      /\ overtaken => overtaken'
  BY <1>1, <1>8, Zenon
<1>10. /\ config \in [Keys -> Given] /\ style \in [Fields -> Given]
       /\ step \in [Threads -> {"idle", "load", "desc", "color"}]
       /\ \A key \in Keys : config[key] \in Values[key] \union {None}
  BY <1>2 DEF Types, Styles
<1>11. /\ config' \in [Keys -> Given]
       /\ \A key \in Keys : key # call.key => config'[key] = config[key]
       /\ call.keep /\ loadable => config'[call.key] = call.value
       /\ ~(call.keep /\ loadable) => config' = config
  BY <1>1, <1>7, <1>10 DEF Kept
<1>12. /\ style' \in [Fields -> Given]
       /\ \A field \in Fields : field # call.key => style'[field] = style[field]
       /\ call.key \in Fields => style'[call.key] = call.value
  BY <1>7, <1>9, <1>10
<1>13. loadable => config'[call.key] = call.value
  BY <1>8, <1>11, Zenon
<1>14. /\ step' \in [Threads -> {"idle", "load", "desc", "color"}]
       /\ step'["streaming"] = step["streaming"]
       /\ step'["web"] \in {"idle", "load"}
       /\ call.key \in Fields => step'["web"] = "load"
  BY <1>1, <1>9, <1>10 DEF Threads
<1>15. Types'
  <2>1. \A key \in Keys : config'[key] \in Values[key] \union {None}
    BY <1>8, <1>10, <1>11
  <2>2. style' \in Styles
    BY <1>12 DEF Styles
  <2> QED
    BY <1>1, <1>2, <1>5, <1>11, <1>14, <2>1, <2>2, Zenon DEF Types
<1>16. up
  BY <1>1, <1>2 DEF Phases
<1>17. Phases'
  BY <1>1, <1>16 DEF Phases
<1>18. NeverUnset'
  <2>1. \A field \in Fields : style[field] # None => style'[field] # None
    BY <1>8, <1>12
  <2> QED
    BY <1>1, <1>2, <2>1, Zenon DEF NeverUnset
<1>19. Painted'
  <2>1. ~Painting("web")' /\ ~Painting("web")
    BY <1>1, <1>14 DEF Painting
  <2>2. Painting("streaming")' <=> Painting("streaming")
    BY <1>14 DEF Painting
  <2>3. \A t \in Threads : Painting(t)' => Painting(t)
    BY <2>1, <2>2 DEF Threads
  <2>4. CASE call.key \in Fields
    <3>1. "web" \in Threads /\ step'["web"] \in {"load", "desc"} /\ step'["web"] # "idle"
      BY <1>14, <2>4 DEF Threads
    <3>2. Painting("streaming")' => overtaken'
      BY <1>9, <2>2, <2>4 DEF Painting
    <3> QED
      BY <1>1, <1>2, <2>1, <2>3, <3>1, <3>2, Zenon DEF Painted
  <2>5. CASE call.key \notin Fields
    <3>1. style' = style /\ step' = step
      BY <1>9, <2>5
    <3>2. overtaken' => overtaken
      BY <1>1, <2>5, Zenon
    <3> QED
      BY <1>1, <1>2, <1>9, <2>1, <2>2, <2>3, <3>1, <3>2, Zenon DEF Painted
  <2> QED
    BY <2>4, <2>5
<1>20. Listed'
  <2>1. ASSUME NEW i \in DOMAIN rest
        PROVE  /\ rest[i].value \in Values[rest[i].key]
               /\ rest[i].keep /\ loadable => op.save
               /\ ~rest[i].keep => rest[i].value = config[rest[i].key]
    <3>1. PICK k \in DOMAIN old : rest[i] = old[k]
      BY <1>4
    <3> QED
      BY <1>6, <3>1
  <2>2. ASSUME NEW i \in DOMAIN rest, ~rest[i].keep PROVE config' = config
    BY <1>8, <1>11, <2>2, Zenon
  <2>3. \A i, j \in DOMAIN rest : i < j /\ rest[i].keep => rest[j].keep
    BY <1>4, <1>6, Zenon
  <2> QED
    BY <1>1, <1>5, <2>1, <2>2, <2>3, Zenon DEF Listed
<1>21. Agreed'
  <2>1. SUFFICES ASSUME loadable PROVE Agreed'
    BY <1>1, Zenon DEF Agreed
  <2>2. /\ \A field \in Fields : style[field] \in {None, config[field]}
        /\ attached => \A field \in Fields : style[field] = config[field] \/ Pending(field)
        /\ VisibleKept \/ Pending("visible")
        /\ unsaved \/ config = Loaded \/ op.save
        /\ \A key \in Keys : config[key] = None => saved[key] \notin Values[key]
    BY <1>2, <1>16, <2>1, Zenon DEF Agreed
  <2>3. Loaded' = Loaded
    BY <1>1, Zenon DEF Loaded
  <2>4. \A key : key # call.key /\ Pending(key) => Pending(key)'
    <3>1. \A key : Pending(key)' <=> \E i \in DOMAIN rest : rest[i].key = key
      BY <1>5, Zenon DEF Pending, Names
    <3>2. \A key : Pending(key) <=> \E i \in DOMAIN old : old[i].key = key
      BY Zenon DEF Pending, Names, old
    <3> QED
      BY <1>4, <3>1, <3>2, Zenon
  <2>5. \A field \in Fields : style'[field] \in {None, config'[field]}
    BY <1>11, <1>12, <1>13, <2>1, <2>2 DEF Keys
  <2>6. attached' => \A field \in Fields : style'[field] = config'[field] \/ Pending(field)'
    BY <1>1, <1>11, <1>12, <1>13, <2>1, <2>2, <2>4 DEF Keys
  <2>7. VisibleKept' \/ Pending("visible")'
    <3>1. CASE call.key = "visible"
      <4>1. visible' = call.value /\ config'["visible"] = call.value
        BY <1>1, <1>13, <2>1, <3>1, Zenon DEF Visibility
      <4> QED
        BY <1>8, <4>1, Zenon DEF VisibleKept
    <3>2. CASE call.key # "visible"
      <4>1. visible' = visible /\ config'["visible"] = config["visible"]
        BY <1>1, <1>11, <3>2 DEF Visibility, Keys
      <4> QED
        BY <2>2, <2>4, <3>2, <4>1, Zenon DEF VisibleKept
    <3> QED
      BY <3>1, <3>2
  <2>8. unsaved' \/ config' = Loaded' \/ op'.save
    BY <1>1, <1>5, <1>8, <1>11, <2>1, <2>2, <2>3, Zenon
  <2>9. \A key \in Keys : config'[key] = None => saved'[key] \notin Values[key]
    BY <1>1, <1>8, <1>11, <1>13, <2>1, <2>2
  <2>10. pc' \notin Switches
    BY <1>1 DEF Switches
  <2> QED
    BY <2>5, <2>6, <2>7, <2>8, <2>9, <2>10, Zenon DEF Agreed
<1> QED
  BY <1>15, <1>17, <1>18, <1>19, <1>20, <1>21 DEF IInv

\* Nothing is left to call of an empty list.
LEMMA NothingLeft == ASSUME op'.todo = <<>>
  PROVE  Listed' /\ \A key : ~Pending(key)'
<1>1. DOMAIN <<>> = {}
  OBVIOUS
<1> QED
  BY <1>1, Zenon DEF Listed, Pending, Names

\* A hook that has called its setters saves what it kept, or answers.
LEMMA AppliedKeeps == ASSUME IInv, Applied PROVE IInv'
<1>1. /\ pc = "run" /\ step["web"] = "idle" /\ op.todo = <<>>
      /\ \/ op.save /\ pc' = "save" /\ op' = op
         \/ ~op.save /\ pc' = "idle" /\ op' = NoHook
      /\ UNCHANGED <<saved, loadable, up, config, attached, style, visible, output, shown, step,
                     copy, unsaved, overtaken>>
  BY Zenon DEF Applied, Answer, stream, render
<1>2. Types /\ Phases /\ NeverUnset /\ Painted /\ Listed /\ Agreed
  BY DEF IInv
<1>3. op' \in Ops /\ op'.todo = <<>> /\ \A key : ~Pending(key)
  <2>1. DOMAIN <<>> = {}
    OBVIOUS
  <2> QED
    BY <1>1, <1>2, <2>1, NoHookIs, Zenon DEF Types, Pending, Names
<1>4. Types'
  BY <1>1, <1>2, <1>3, Zenon DEF Types
<1>5. up
  BY <1>1, <1>2 DEF Phases
<1>6. Phases'
  <2>1. pc' = "idle" => op' = NoHook
    BY <1>1
  <2> QED
    BY <1>1, <1>3, <1>5, <2>1, Zenon DEF Phases
<1>7. NeverUnset' /\ Painted'
  BY <1>1, <1>2, RenderSame
<1>8. Listed'
  BY <1>3, NothingLeft
<1>9. Agreed'
  <2>1. Loaded' = Loaded /\ (VisibleKept' <=> VisibleKept)
    BY <1>1, Zenon DEF Loaded, VisibleKept
  <2>2. pc' \notin Switches
    BY <1>1 DEF Switches
  <2>3. op'.save \/ ~op.save
    BY <1>1
  <2> QED
    BY <1>1, <1>2, <1>3, <1>5, <2>1, <2>2, <2>3, Zenon DEF Agreed
<1> QED
  BY <1>4, <1>6, <1>7, <1>8, <1>9 DEF IInv

\* What is written is what is loaded next time, or the failure is on record.
LEMMA SavesKeep == ASSUME IInv, Save \/ SaveFails PROVE IInv'
<1>1. /\ pc = "save" /\ pc' = "idle" /\ op' = NoHook
      /\ \/ /\ unsaved' = FALSE
            /\ saved' = [key \in Keys |-> IF config[key] = None THEN saved[key] ELSE config[key]]
         \/ unsaved' = TRUE /\ saved' = saved
      /\ UNCHANGED <<loadable, up, config, attached, style, visible, output, shown, step, copy,
                     overtaken>>
  BY Zenon DEF Save, SaveFails, Answer, stream, render
<1>2. Types /\ Phases /\ NeverUnset /\ Painted /\ Agreed
  BY DEF IInv
<1>3. op' \in Ops /\ op'.todo = <<>> /\ \A key : ~Pending(key)
  <2>1. op.todo = <<>> /\ DOMAIN <<>> = {}
    BY <1>1, <1>2 DEF Phases
  <2> QED
    BY <1>1, <2>1, NoHookIs, Zenon DEF Pending, Names
<1>4. Types'
  BY <1>1, <1>2, <1>3, Zenon DEF Types
<1>5. up /\ step["web"] = "idle"
  BY <1>1, <1>2 DEF Phases
<1>6. Phases'
  BY <1>1, <1>5, Zenon DEF Phases
<1>7. NeverUnset' /\ Painted'
  BY <1>1, <1>2, RenderSame
<1>8. Listed'
  BY <1>3, NothingLeft
<1>9. Agreed'
  <2>1. SUFFICES ASSUME loadable PROVE Agreed'
    BY <1>1, Zenon DEF Agreed
  <2>2. /\ \A field \in Fields : style[field] \in {None, config[field]}
        /\ attached => \A field \in Fields : style[field] = config[field]
        /\ VisibleKept
        /\ \A key \in Keys : config[key] = None => saved[key] \notin Values[key]
    BY <1>2, <1>3, <1>5, <2>1, Zenon DEF Agreed
  <2>3. VisibleKept' <=> VisibleKept
    BY <1>1, Zenon DEF VisibleKept
  <2>4. \A key \in Keys : config[key] = None => saved'[key] \notin Values[key]
    BY <1>1, <2>2
  <2>5. unsaved' \/ config' = Loaded'
    <3>1. SUFFICES ASSUME saved' = [key \in Keys |-> IF config[key] = None THEN saved[key]
                                                    ELSE config[key]]
                   PROVE  config = Loaded'
      BY <1>1
    <3>2. config \in [Keys -> Given] /\ \A key \in Keys : config[key] \in Values[key] \union {None}
      BY <1>2 DEF Types
    <3>3. \A key \in Keys : config[key] = Loaded'[key]
      BY <1>1, <2>1, <2>2, <3>1, <3>2 DEF Loaded
    <3> QED
      BY <3>2, <3>3 DEF Loaded
  <2>6. pc' \notin Switches
    BY <1>1 DEF Switches
  <2> QED
    BY <1>1, <2>2, <2>3, <2>4, <2>5, <2>6, Zenon DEF Agreed
<1> QED
  BY <1>4, <1>6, <1>7, <1>8, <1>9 DEF IInv

-----------------------------------------------------------------------------
(* Switches. *)

\* A switch that changes no more than where it is, and perhaps forgets its calls.
LEMMA SwitchKeeps ==
  ASSUME IInv, pc \in Switches,
         UNCHANGED <<saved, loadable, up, config, style, visible, step, copy, unsaved,
                     overtaken>>,
         shown' = shown \/ (shown' = None /\ step["streaming"] = "idle"),
         \/ /\ attached' = attached /\ op' = op /\ pc' \in Switches \union {"run"}
         \/ /\ attached' = op.was
            /\ pc' = "starting" /\ op' = [op EXCEPT !.rolledBack = TRUE, !.todo = <<>>]
         \/ attached' = op.was /\ pc' = "idle" /\ op' = NoHook
         \/ op.rolledBack /\ attached' = attached /\ pc' = "idle" /\ op' = NoHook
  PROVE  IInv'
<1>1. Types /\ Phases /\ NeverUnset /\ Painted /\ Listed /\ Agreed
  BY DEF IInv
<1>2. pc \notin {"idle", "run", "save"} /\ step["web"] = "idle" /\ up
  BY <1>1 DEF Switches, Phases
<1>3. op \in Ops /\ attached \in BOOLEAN
  BY <1>1 DEF Types
<1>4. op.was \in BOOLEAN
  BY <1>3, Zenon DEF Ops
<1>5. op' \in Ops
  BY <1>3, OpEdits, NoHookIs, Zenon
<1>6. Types'
  <2>1. attached' \in BOOLEAN
    BY <1>3, <1>4, Zenon
  <2>2. pc' \in {"idle", "run", "save"} \union Switches
    BY DEF Switches
  <2> QED
    BY <1>1, <1>5, <2>1, <2>2, Zenon DEF Types
<1>7. Phases'
  <2>1. pc' = "idle" => op' = NoHook
    BY DEF Switches
  <2>2. pc' # "save"
    BY DEF Switches
  <2> QED
    BY <1>2, <2>1, <2>2, Zenon DEF Phases
<1>8. NeverUnset'
  BY <1>1, Zenon DEF NeverUnset
<1>9. Painted'
  <2>1. CASE shown' = shown
    BY <1>1, <2>1, RenderSame
  <2>2. CASE shown' = None /\ step["streaming"] = "idle"
    <3>1. \A t \in Threads : ~Painting(t)'
      BY <1>2, <2>2 DEF Painting, Threads
    <3>2. "web" \in Threads /\ "streaming" \in Threads
      BY DEF Threads
    <3> QED
      BY <2>2, <3>1, <3>2, Zenon DEF Painted
  <2> QED
    BY <2>1, <2>2
<1>10. Listed'
  <2>1. CASE op' = op
    BY <1>1, <2>1, Zenon DEF Listed
  <2>2. CASE op'.todo = <<>>
    BY <2>2, NothingLeft
  <2> QED
    BY <1>3, <2>1, <2>2, OpEdits, NoHookIs
<1>11. Agreed'
  <2>1. SUFFICES ASSUME loadable PROVE Agreed'
    BY Zenon DEF Agreed
  <2>2. /\ \A field \in Fields : style[field] \in {None, config[field]}
        /\ attached => \A field \in Fields : style[field] = config[field] \/ Pending(field)
        /\ \A key \in Keys : config[key] = None => saved[key] \notin Values[key]
        /\ VisibleKept /\ (unsaved \/ config = Loaded) /\ (op.was => StyleKept)
        /\ op.rolledBack => attached = op.was
    BY <1>1, <1>2, <2>1, Zenon DEF Agreed
  <2>3. Loaded' = Loaded /\ (VisibleKept' <=> VisibleKept) /\ (StyleKept' <=> StyleKept)
    BY Zenon DEF Loaded, VisibleKept, StyleKept
  <2>4. (op'.was => StyleKept) /\ (op'.rolledBack => attached' = op'.was)
    BY <1>3, <2>2, OpEdits, NoHookIs, Zenon
  <2>5. attached' => \A field \in Fields : style'[field] = config'[field] \/ Pending(field)'
    <3>1. CASE attached' = attached /\ op' = op
      BY <2>2, <3>1, Zenon DEF Pending, Names
    <3>2. CASE attached' => StyleKept
      BY <3>2, Zenon DEF StyleKept
    <3> QED
      BY <2>2, <3>1, <3>2, Zenon
  <2> QED
    BY <2>2, <2>3, <2>4, <2>5, Zenon DEF Agreed
<1> QED
  BY <1>6, <1>7, <1>8, <1>9, <1>10, <1>11 DEF IInv

\* Every step of a switch is one of these.
LEMMA SwitchingKeeps == ASSUME IInv, Switching PROVE IInv'
<1>1. pc \in Switches
  BY DEF Switching, SwitchRefused, SetNull, StartOutput, Started, StartupFails, RollBack, Switches
<1>2. UNCHANGED <<saved, loadable, up, config, style, visible, step, copy, unsaved, overtaken>>
  BY Zenon DEF Switching, SwitchRefused, SetNull, StartOutput, Started, StartupFails, RollBack,
     stream, render
<1>3. shown' = shown \/ (shown' = None /\ step["streaming"] = "idle")
  BY Zenon DEF Switching, SwitchRefused, SetNull, StartOutput, Started, StartupFails, RollBack,
     render
<1>4. \/ /\ attached' = attached /\ op' = op /\ pc' \in {"stopping", "starting", "aborting", "run"}
      \/ /\ attached' = op.was
         /\ pc' = "starting" /\ op' = [op EXCEPT !.rolledBack = TRUE, !.todo = <<>>]
      \/ attached' = op.was /\ pc' = "idle" /\ op' = NoHook
      \/ op.rolledBack /\ attached' = attached /\ pc' = "idle" /\ op' = NoHook
  BY Zenon DEF Switching, SwitchRefused, SetNull, StartOutput, Started, StartupFails, RollBack,
     Answer, stream
<1> QED
  BY <1>1, <1>2, <1>3, <1>4, SwitchKeeps DEF Switches

\* A process that ends takes the style, the renderer and the hook with it.
LEMMA EndKeeps == ASSUME IInv, ProcessEnds PROVE IInv'
<1>1. /\ up' = FALSE /\ config' = Nothing(Keys) /\ attached' = FALSE
      /\ style' = Nothing(Fields) /\ visible' = TRUE /\ output' = "none" /\ shown' = None
      /\ step' = [t \in Threads |-> "idle"] /\ copy' = [t \in Threads |-> Nothing(Fields)]
      /\ pc' = "idle" /\ op' = NoHook
  BY Zenon DEF ProcessEnds, Answer
<1>2. Types'
  <2>1. /\ Nothing(Keys) \in [Keys -> Given]
        /\ \A key \in Keys : Nothing(Keys)[key] \in Values[key] \union {None}
    BY DEF Nothing, Given
  <2>2. /\ [t \in Threads |-> "idle"] \in [Threads -> {"idle", "load", "desc", "color"}]
        /\ [t \in Threads |-> Nothing(Fields)] \in [Threads -> Styles]
    BY NothingIs
  <2>3. FALSE \in BOOLEAN
    OBVIOUS
  <2> QED
    BY <1>1, <2>1, <2>2, <2>3, NothingIs, NoHookIs, Zenon DEF Types
<1>3. Phases'
  BY <1>1 DEF Phases, Threads
<1>4. NeverUnset'
  BY <1>1, NothingIs DEF NeverUnset
<1>5. Painted'
  <2>1. \A t \in Threads : ~Painting(t)'
    BY <1>1 DEF Painting
  <2>2. "web" \in Threads /\ "streaming" \in Threads
    BY DEF Threads
  <2> QED
    BY <1>1, <2>1, <2>2, Zenon DEF Painted
<1>6. Listed'
  BY <1>1, NoHookIs, NothingLeft
<1>7. Agreed'
  BY <1>1, Zenon DEF Agreed
<1> QED
  BY <1>2, <1>3, <1>4, <1>5, <1>6, <1>7 DEF IInv

-----------------------------------------------------------------------------
(* The invariant. *)

\* At first there is no process, and so nothing to agree on.
LEMMA InitIInv == Init => IInv
<1> SUFFICES ASSUME Init PROVE IInv
  OBVIOUS
<1>1. /\ up = FALSE /\ config = Nothing(Keys) /\ attached = FALSE
      /\ style = Nothing(Fields) /\ visible = TRUE /\ output = "none" /\ shown = None
      /\ step = [t \in Threads |-> "idle"] /\ copy = [t \in Threads |-> Nothing(Fields)]
      /\ pc = "idle" /\ op = NoHook
  BY Zenon DEF Init
<1>2. Types
  <2>1. /\ Nothing(Keys) \in [Keys -> Given]
        /\ \A key \in Keys : Nothing(Keys)[key] \in Values[key] \union {None}
    BY DEF Nothing, Given
  <2>2. /\ [t \in Threads |-> "idle"] \in [Threads -> {"idle", "load", "desc", "color"}]
        /\ [t \in Threads |-> Nothing(Fields)] \in [Threads -> Styles]
    BY NothingIs
  <2>3. FALSE \in BOOLEAN
    OBVIOUS
  <2> QED
    BY <1>1, <2>1, <2>2, <2>3, NothingIs, NoHookIs, Zenon DEF Types
<1>3. Phases
  BY <1>1 DEF Phases, Threads
<1>4. NeverUnset
  BY <1>1, NothingIs DEF NeverUnset
<1>5. Painted
  <2>1. \A t \in Threads : ~Painting(t)
    BY <1>1 DEF Painting
  <2>2. "web" \in Threads /\ "streaming" \in Threads
    BY DEF Threads
  <2> QED
    BY <1>1, <2>1, <2>2, Zenon DEF Painted
<1>6. Listed
  <2>1. DOMAIN <<>> = {} /\ op.todo = <<>>
    BY <1>1, NoHookIs
  <2> QED
    BY <2>1, Zenon DEF Listed
<1>7. Agreed
  BY <1>1, Zenon DEF Agreed
<1> QED
  BY <1>2, <1>3, <1>4, <1>5, <1>6, <1>7 DEF IInv

\* A step that changes nothing keeps all of it.
LEMMA StutterIInv == ASSUME IInv, UNCHANGED vars PROVE IInv'
<1>1. UNCHANGED <<saved, loadable, up, config, attached, style, visible, output, shown, step,
                  copy, pc, op, unsaved, overtaken>>
  BY Zenon DEF vars, stream, render
<1>2. Types' /\ Phases'
  BY <1>1, Zenon DEF IInv, Types, Phases
<1>3. NeverUnset' /\ Painted'
  BY <1>1, RenderSame DEF IInv
<1>4. Listed' /\ Agreed'
  BY <1>1, HookSame DEF IInv
<1> QED
  BY <1>2, <1>3, <1>4 DEF IInv

\* Every step keeps all of it.
LEMMA NextIInv == IInv /\ [Next]_vars => IInv'
<1> SUFFICES ASSUME IInv, [Next]_vars PROVE IInv'
  OBVIOUS
<1>1. ASSUME NEW file \in {None, "attach", "detach"}, NEW patch \in Patches,
             PutState(file, patch)
      PROVE  IInv'
  BY <1>1, PutStateKeeps
<1>2. ASSUME Store \/ Applied \/ Save \/ SaveFails PROVE IInv'
  BY <1>2, StoreKeeps, AppliedKeeps, SavesKeep
<1>3. ASSUME Switching PROVE IInv'
  BY <1>3, SwitchingKeeps
<1>4. ASSUME NEW t \in Threads, Styling(t) PROVE IInv'
  BY <1>4, LoadKeeps, SetDescKeeps, SetColorKeeps DEF Styling
<1>5. ASSUME AddRenderer PROVE IInv'
  BY <1>5, AddRendererKeeps
<1>6. ASSUME NEW file \in BOOLEAN, Boot(file) PROVE IInv'
  BY <1>6, BootKeeps
<1>7. ASSUME ProcessEnds PROVE IInv'
  BY <1>7, EndKeeps
<1>8. CASE UNCHANGED vars
  BY <1>8, StutterIInv
<1>9. "web" \in Threads /\ "streaming" \in Threads
  BY DEF Threads
<1> QED
  BY <1>1, <1>2, <1>3, <1>4, <1>5, <1>6, <1>7, <1>8, <1>9, Zenon DEF Next, Hook

\* In every state the stream, config and config.ini agree on the style, or the hook
\* has yet to call what makes them; and the renderer shows it, or a thread has yet to.
THEOREM Invariance == Spec => []IInv
BY InitIInv, NextIInv, PTL DEF Spec

\* Between hooks the cues are styled, and shown, as the next boot will find it
\* (ApplySubtitleStyle after an attach, SetSubtitleFile, Config).
THEOREM KeptSound == Spec => []StyleIsKept
<1>1. IInv => StyleIsKept
  <2> SUFFICES ASSUME IInv, up, pc = "idle", loadable PROVE StyleIsKept!2
    BY DEF StyleIsKept
  <2>1. op.todo = <<>> /\ ~op.save
    BY NoHookIs DEF IInv, Phases
  <2>2. \A key : ~Pending(key)
    <3>1. DOMAIN <<>> = {}
      OBVIOUS
    <3> QED
      BY <2>1, <3>1, Zenon DEF Pending, Names
  <2>3. /\ attached => \A field \in Fields : style[field] = config[field]
        /\ VisibleKept /\ (unsaved \/ config = Loaded)
    BY <2>1, <2>2, Zenon DEF IInv, Agreed
  <2>4. style = [field \in Fields |-> style[field]]
    BY DEF IInv, Types, Styles
  <2>5. attached => style = [field \in Fields |-> config[field]]
    BY <2>3, <2>4
  <2> QED
    BY <2>3, <2>5, Zenon DEF VisibleKept
<1> QED
  BY <1>1, Invariance, PTL

\* The renderer shows the style that is reported, once both threads are through
\* (OnSubtitleChildAdded, SetSubtitleFont*, ApplySubtitleStyle).
THEOREM ShownSound == Spec => []StyleIsShown
<1>1. IInv => StyleIsShown
  <2> SUFFICES ASSUME IInv, shown # None, ~overtaken, \A t \in Threads : step[t] = "idle"
               PROVE  shown = style
    BY DEF StyleIsShown
  <2>1. /\ \A field \in FontDesc : shown[field] = style[field]
        /\ shown["color"] = style["color"]
    BY DEF IInv, Painted
  <2>2. shown \in Styles /\ style \in Styles
    BY DEF IInv, Types
  <2> QED
    BY <2>1, <2>2 DEF Styles, Fields, FontDesc
<1> QED
  BY <1>1, Invariance, PTL
===============================================================================
