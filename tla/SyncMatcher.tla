----------------------------- MODULE SyncMatcher ------------------------------
(***************************************************************************)
(* How a sync session finds the offset between the captured sound and the  *)
(* subtitles (sync/sync_matcher.cpp), window by window as SyncSession      *)
(* feeds it (sync/sync_session.cpp). Each window of transcribed words      *)
(* votes for an offset by the word trigrams it shares with the subtitles;  *)
(* enough votes that agree are a lock. The subtitles are parsed when the   *)
(* session starts (SrtCues) from a file that may be damaged.               *)
(*                                                                         *)
(* Words are what normalization leaves of a text; here a word also has its *)
(* place in the script, which no guard reads. Weights and times are whole  *)
(* numbers: the code's 1/n is Unit \div n, and nothing is lost to rounding.*)
(* The true offset is 0; no guard knows it.                                *)
(***************************************************************************)
EXTENDS SrtCues, SyncFeed

CONSTANTS
  Scripts,         \* what is spoken: sequences of blocks of lines
  Fragile,         \* those of which the file may be damaged
  MaxDamage,       \* bound: lines that are
  Noise,           \* a word no script contains
  Unit,            \* a multiple of every number of occurrences of a trigram
  kMinScore, kMargin, kMinVotes, kMaxSpread,
  Lateness,        \* by how much the timestamp of a window may be off
  Tolerance,       \* an offset that near the true one is no stray
  MaxWindows       \* bound: windows fed

ASSUME MatcherAssumption ==
  /\ {Unit, kMinScore, kMargin, kMinVotes} \subseteq Nat \ {0}
  /\ {kMaxSpread, Tolerance, MaxWindows, MaxDamage} \subseteq Nat
  /\ Lateness \subseteq Int

VARIABLES
  script,    \* what is spoken
  file,      \* the file on disk, block by block, until a session has read it
  damaged,   \* its damaged blocks
  ballots,   \* what windows can vote for in the cues of the session
  fed,       \* the number of windows
  votes,     \* the offsets they voted for, sorted
  theta      \* the session's result: an offset, or NoLock

matcherVars == <<script, file, damaged, ballots, fed, votes, theta>>

NoLock == [locked |-> FALSE]
Locked(at) == [locked |-> TRUE, at |-> at]

-----------------------------------------------------------------------------
(* The words of a file, each with its time. *)

\* A cue's first word is at its start and its last one at its end.
WordTime(cue, i) ==
  LET n == Len(cue.words)
  IN  IF n = 1 THEN cue.start ELSE cue.start + ((i - 1) * (cue.end - cue.start)) \div (n - 1)

FlattenCues(cues) ==
  FlattenSeq([c \in DOMAIN cues |->
    [i \in DOMAIN cues[c].words |->
       [word |-> cues[c].words[i], time |-> WordTime(cues[c], i)]]])

\* SrtIndex::stream.
Stream(blocks) == FlattenCues(ParseSrtCues(FlattenSeq(blocks)))

-----------------------------------------------------------------------------
(* A window's vote (VoteWindow). *)

Trigram(words, i) == SubSeq(words, i, i + 2)
Starts(words) == 1 .. Len(words) - 2
Words(s) == [i \in DOMAIN s |-> s[i].word.word]

\* Each trigram of the window at each of its occurrences in the file.
Hits(heard, words) ==
  {hit \in Starts(heard) \X Starts(words) : Trigram(heard, hit[1]) = Trigram(words, hit[2])}

Offset(hit) == hit[2] - hit[1]

\* A rare phrase counts for more than a stock phrase.
Weight(hit, hits) == Unit \div Cardinality({h \in hits : h[1] = hit[1]})

\* One inserted or omitted word shifts the rest by one: neighbours count together.
Region(at, hits) == {hit \in hits : Offset(hit) \in at - 1 .. at + 1}
Score(at, hits) == MapThenSumSet(LAMBDA hit : Weight(hit, hits), Region(at, hits))

Winner(hits) ==
  LET offsets == {Offset(hit) : hit \in hits}
      best    == Max({Score(at, hits) : at \in offsets})
  IN  Min({at \in offsets : Score(at, hits) = best})

\* The best region that shares no bucket with the winner.
RunnerUp(winner, hits) ==
  Max({0} \union {Score(at, hits) :
         at \in {Offset(hit) : hit \in hits} \ (winner - 2 .. winner + 2)})

\* The window's last matched word, and the words of the file it may be.
LastMatched(winner, hits) == Max({hit[1] : hit \in Region(winner, hits)}) + 2
Endpoints_First(winner, hits) ==
  {Min({hit[2] + 2 : hit \in {h \in Region(winner, hits) : h[1] + 2 = LastMatched(winner, hits)}})}
Endpoints(winner, hits) ==
  {hit[2] + 2 : hit \in {h \in Region(winner, hits) : h[1] + 2 = LastMatched(winner, hits)}}

IsClear(winner, hits) ==
  /\ Score(winner, hits) >= kMinScore * Unit
  /\ Score(winner, hits) >= kMargin * RunnerUp(winner, hits)

\* The matched word of the window and the one of the file, or nothing.
Match(heard, words) ==
  LET hits   == Hits(heard, words)
      winner == Winner(hits)
      ends   == Endpoints(winner, hits)
  IN  IF hits = {} \/ ~IsClear(winner, hits) \/ Cardinality(ends) # 1 THEN {}
      ELSE {[heard |-> LastMatched(winner, hits), read |-> e] : e \in ends}

-----------------------------------------------------------------------------
(* What is heard: a stretch of the file, and in it at most one word that is *)
(* misrecognized or was never said. A window is given by the places its     *)
(* words come from, 0 for the wrong one.                                    *)

Stretches(s) == {[j \in 1 .. span[2] - span[1] + 1 |-> span[1] + j - 1] :
                   span \in {p \in (DOMAIN s) \X (DOMAIN s) : p[1] <= p[2]}}

Misheard(places) ==
  {places, Append(places, 0)}
    \union {ReplaceAt(places, k, 0) : k \in DOMAIN places}
    \union {InsertAt(places, k, 0) : k \in DOMAIN places}

Heard(places, s) == [j \in DOMAIN places |-> IF places[j] = 0 THEN Noise ELSE s[places[j]].word.word]

\* What a window over the stretch votes for in the subtitles, if it votes. Its
\* timestamp is the moment the stretch ends, so that words without a match at its
\* end make it early.
VotesFor(stretch, said, read) ==
  UNION {{[offset |-> read[m.read].time - said[Last(stretch)].time,
           right  |-> places[m.heard] = read[m.read].word.place] :
            m \in Match(Heard(places, said), Words(read))} :
         places \in Misheard(stretch)}

\* VoteWindow has no state: what can be voted for with these subtitles. An offset is a
\* whole number, of nanoseconds in the code.
Ballot == [offset : Int, right : BOOLEAN]
Ballots(said, read) ==
  Ballot \intersect UNION {VotesFor(stretch, said, read) : stretch \in Stretches(said)}

-----------------------------------------------------------------------------
(* The cluster of votes (MatchTranscript). *)

\* One more vote in its place.
Sorted(vs, v) == InsertAt(vs, Cardinality({i \in DOMAIN vs : vs[i] <= v}) + 1, v)

\* The longest run of votes that agree with its first one; the first of several.
RunLength_Neighbours(vs, b) ==
  Cardinality({e \in b .. Len(vs) : \A i \in b + 1 .. e : vs[i] - vs[i - 1] <= kMaxSpread})
Run(vs, b) == {e \in b .. Len(vs) : vs[e] - vs[b] <= kMaxSpread}
RunLength(vs, b) == Cardinality(Run(vs, b))
LongestRun(vs) ==
  LET size == Max({RunLength(vs, b) : b \in DOMAIN vs})
  IN  Min({b \in DOMAIN vs : RunLength(vs, b) = size})

\* The median of the run.
MatchTranscript_Median(vs) ==
  IF Len(vs) < kMinVotes THEN NoLock ELSE Locked(vs[Len(vs) \div 2 + 1])
MatchTranscript(vs) ==
  IF Len(vs) < kMinVotes \/ RunLength(vs, LongestRun(vs)) < kMinVotes THEN NoLock
  ELSE Locked(vs[LongestRun(vs) + RunLength(vs, LongestRun(vs)) \div 2])

-----------------------------------------------------------------------------
(* The session. *)

Session == <<ballots, fed, votes, theta>>

MatcherInit ==
  /\ script \in Scripts /\ file = script /\ damaged = {}
  /\ ballots = {} /\ fed = 0 /\ votes = <<>> /\ theta = NoLock

OnDisk == file # <<>>

\* A line of the file is lost, doubled or garbled, or another one comes before it.
Damage(b, i) ==
  /\ OnDisk /\ script \in Fragile /\ b \notin damaged /\ Cardinality(damaged) < MaxDamage
  /\ \E block \in {RemoveAt(file[b], i), InsertAt(file[b], i, file[b][i])}
         \union {ReplaceAt(file[b], i, line) : line \in Damages}
         \union {InsertAt(file[b], i, line) : line \in Damages} :
       file' = [file EXCEPT ![b] = block]
  /\ damaged' = damaged \union {b}
  /\ UNCHANGED <<script, Session>>

\* StartSubtitleSync refuses a file without cues.
ReadCues ==
  /\ OnDisk /\ ParseSrtCues(FlattenSeq(file)) # <<>>
  /\ ballots' = Ballots(Stream(script), Stream(file))
  /\ script' = <<>> /\ file' = <<>> /\ damaged' = {}
  /\ UNCHANGED <<fed, votes, theta>>

\* Feed consults the matcher, with all windows so far, once there are a few.
Consult ==
  theta' = IF MayConsult(fed') THEN MatchTranscript(votes') ELSE NoLock

StillListening == ~OnDisk /\ ~theta.locked /\ fed < MaxWindows

\* A window that votes. Its timestamp may be off.
FeedVote(vote, late) ==
  /\ StillListening /\ fed' = fed + 1
  /\ votes' = Sorted(votes, vote.offset - late)
  /\ Consult /\ UNCHANGED <<script, file, damaged, ballots>>

\* A window that does not vote: noise, a stock phrase, too few words.
FeedInert ==
  /\ StillListening /\ fed' = fed + 1 /\ UNCHANGED votes
  /\ Consult /\ UNCHANGED <<script, file, damaged, ballots>>

MatcherNext ==
  \/ \E b \in DOMAIN file : \E i \in DOMAIN file[b] : Damage(b, i)
  \/ ReadCues
  \/ FeedInert \/ \E vote \in ballots, late \in Lateness : FeedVote(vote, late)

MatcherSpec == MatcherInit /\ [][MatcherNext]_matcherVars

-----------------------------------------------------------------------------
(* Properties. *)

\* Damage is local: every cue whose block is whole, and comes after a whole one or
\* first, is read as it was written, in its place, whatever is wrong elsewhere in the
\* file, its separators included (ParseSrtCues).
DamageIsLocal ==
  LET sound    == {b \in DOMAIN file : {b - 1, b} \intersect damaged = {}}
      Cue(b)   == ParseSrtCues(script[b])
      expected == FlattenSeq([b \in DOMAIN file |-> IF b \in sound THEN Cue(b) ELSE <<>>])
  IN  SelectSeq(ParseSrtCues(FlattenSeq(file)), LAMBDA cue : cue \in ToSet(expected)) = expected

\* Never vote wrong: whatever a window over a stretch of what is spoken votes for,
\* the word of the file it is timed by is the very word that was heard, however often
\* phrases repeat, wherever a wrong word is, and whatever the file has lost (VoteWindow).
VotesAreRight == \A vote \in ballots : vote.right

Agree(group) == \A i, j \in group : votes[i] - votes[j] <= kMaxSpread
Agreements == {group \in SUBSET DOMAIN votes : Agree(group) /\ Cardinality(group) >= kMinVotes}

\* The scan over sorted votes decides as a search among all groups of votes would: it
\* locks if and only if enough of the votes so far agree, and on a vote of a largest
\* group that agrees (MatchTranscript).
LocksOnLargestAgreement ==
  /\ theta.locked <=> MayConsult(fed) /\ Agreements # {}
  /\ theta.locked => \E group \in Agreements :
       /\ \A other \in Agreements : Cardinality(other) <= Cardinality(group)
       /\ \E i \in group : votes[i] = theta.at

IsStray(offset) == offset \notin -Tolerance .. Tolerance
Strays == {i \in DOMAIN votes : IsStray(votes[i])}

\* Never lock wrong: as long as fewer windows than make a lock are timed wrong, the lock
\* is as good as the other ones, give or take the spread (MatchTranscript).
FewStraysNoHarm ==
  theta.locked /\ Cardinality(Strays) < kMinVotes =>
    theta.at \in -(Tolerance + kMaxSpread) .. Tolerance + kMaxSpread
=============================================================================
