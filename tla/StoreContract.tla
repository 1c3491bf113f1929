----------------------------- MODULE StoreContract -----------------------------
(***************************************************************************)
(* What the uploads promise (docs/rest-api.md, "PUT /api/whisper/models"   *)
(* and "PUT /api/subtitles"): a body takes its place whole or not at all,  *)
(* in one step, and stays until it is replaced or removed.                 *)
(***************************************************************************)
CONSTANTS Places, Bodies, None,
          Accepted(_, _)    \* a body is neither empty nor over the cap of the place

VARIABLE holds              \* place -> body

Init == holds \in [Places -> Bodies \union {None}]

\* A body takes the place, or what was there is removed.
Change(place) ==
  /\ \A other \in Places \ {place} : holds'[other] = holds[other]
  /\ holds'[place] # None => Accepted(place, holds'[place])

Next == holds' \in [Places -> Bodies \union {None}] /\ \E place \in Places : Change(place)

Spec == Init /\ [][Next]_holds
===============================================================================
