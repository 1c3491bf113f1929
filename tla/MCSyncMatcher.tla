---------------------------- MODULE MCSyncMatcher -----------------------------
(* Every script of Length words over two letters, one with a chorus of six   *)
(* different words that is sung twice, and one of eight different words, whose *)
(* file may be damaged; two words to a cue.                                  *)
EXTENDS SyncMatcher, TLC

CONSTANTS Letters, Length

MCPlaced(words) == [i \in DOMAIN words |-> [word |-> words[i], place |-> i]]
MCBlocks(words) ==
  LET n == Len(words)
  IN  [c \in 1 .. (n + 1) \div 2 |->
         <<Line("number"), Timing(3 * c, 3 * c + 1),
           Text(SubSeq(MCPlaced(words), 2 * c - 1, IF 2 * c > n THEN n ELSE 2 * c)),
           Line("empty")>>]

MCNumber == [word |-> "number", place |-> 0]
MCChorus == <<"a", "b", "c", "d", "e", "f">>
MCFragile == {MCBlocks(MCChorus \o <<"g", "h">>)}
MCScripts == MCFragile \union
  {MCBlocks(words) : words \in [1 .. Length -> Letters] \union {MCChorus \o MCChorus}}

\* A window is on time, or early, or late.
MCLateness == {-5, 0, 3}
=============================================================================
