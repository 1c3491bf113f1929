------------------------------- MODULE SyncFeed -------------------------------
(***************************************************************************)
(* When a session that is fed asks the matcher (sync/sync_session.cpp).    *)
(* SubtitleSync, which leaves open what the matcher says, and SyncMatcher, *)
(* which leaves open when it is fed, meet here.                            *)
(***************************************************************************)
EXTENDS Integers

CONSTANT kMinWindows        \* windows before the matcher is consulted

ASSUME FeedAssumption == kMinWindows \in Nat \ {0}

\* After so many windows the matcher has a say.
MayConsult(fedWindows) == fedWindows >= kMinWindows
=============================================================================
