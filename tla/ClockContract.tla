---------------------------- MODULE ClockContract ----------------------------
(***************************************************************************)
(* The SRT clock as its user sees it (docs/rest-api.md, subtitle-state):   *)
(* one position, which runs with the picture or is held, and a trim. There *)
(* are no anchors, pad offsets, parsers or pipelines here, and a switch    *)
(* happens or does not. SubtitleClock implements it.                       *)
(***************************************************************************)
EXTENDS Integers

CONSTANTS
  Positions,    \* where users send it, in nanoseconds
  Thetas,       \* offsets a sync session matches
  Millisecond

VARIABLES
  now,       \* running time
  attached,  \* an SRT is on screen
  paused,    \* its position is held
  clock,     \* the position while it is held, else the time of position 0
  trim       \* the live delay

vars == <<now, attached, paused, clock, trim>>

Position == IF paused THEN clock ELSE now - clock

Init ==
  /\ now = 0 /\ attached \in BOOLEAN
  /\ paused = FALSE /\ clock = 0 /\ trim = 0

Tick == now' = now + 1 /\ UNCHANGED <<attached, paused, clock, trim>>

\* A user moves the position, held or not.
Seek ==
  /\ attached /\ UNCHANGED <<now, attached, paused, trim>>
  /\ Position' \in Positions

\* A sync session moves it to where it matched, to the millisecond.
Lock ==
  /\ attached /\ UNCHANGED <<now, attached, paused, trim>>
  /\ \E theta \in Thetas :
       Position' \in (now + theta - Millisecond + 1)..(now + theta + Millisecond - 1)

\* A trim delays running cues by its change, and leaves a held position alone.
Trim ==
  /\ trim' \in Int
  /\ clock' = IF paused THEN clock ELSE clock + (trim' - trim)
  /\ UNCHANGED <<now, attached, paused>>

\* Neither pausing nor resuming moves the position.
Toggle ==
  /\ attached /\ paused' = ~paused
  /\ Position' = Position
  /\ UNCHANGED <<now, attached, trim>>

\* A new SRT starts untrimmed and running, when its output starts.
Attach ==
  /\ attached' = TRUE /\ paused' = FALSE /\ trim' = 0
  /\ clock' \in Int /\ clock' <= now
  /\ UNCHANGED now

Detach ==
  /\ attached' = FALSE /\ trim' = 0
  /\ clock' \in Int /\ (paused => UNCHANGED clock)
  /\ UNCHANGED <<now, paused>>

\* The output is lost, and the process about to end.
Lose ==
  /\ attached' = FALSE
  /\ paused' \in BOOLEAN /\ clock' \in Int
  /\ UNCHANGED <<now, trim>>

\* The rollback of a later switch may bring it back.
Reopen == attached' = TRUE /\ UNCHANGED <<now, paused, clock, trim>>

Next ==
  \/ Tick \/ Seek \/ Lock \/ Trim \/ Toggle
  \/ Attach \/ Detach \/ Lose \/ Reopen

Spec == Init /\ [][Next]_vars
=============================================================================
