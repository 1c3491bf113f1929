--------------------------- MODULE ModelStoreProofs ---------------------------
(***************************************************************************)
(* Proofs about ModelStore for any models, bodies, caps and numbers of     *)
(* uploads.  Uploads overlap, and each may fail, overflow or be cut off at *)
(* any chunk: IInv says who owns which staged file and what is in it, and  *)
(* how the selection in the stream, in config and in config.ini agree.     *)
(***************************************************************************)
EXTENDS ModelStore, FiniteSetTheorems, SequenceTheorems, TLAPS

\* One slot per message, one number per staged file.
Slots ==
  /\ IsFiniteSet(uploads) /\ inFlight = Cardinality(uploads)
  /\ counter <= begun
  /\ \A u \in uploads : u.pc = "early" => counter < begun
  /\ ~up => uploads = {} /\ io = None

\* No two messages share a file, and one at most is in the hands of a callback.
Distinct ==
  \A u, v \in uploads :
    \/ u.path = v.path
    \/ u.pc \in {"early", "closed"} /\ v.pc \in {"early", "closed"}
    => u = v
Owned(u) ==
  /\ u.pc = "early" <=> u.path = None
  /\ u.pc # "early" => u.path[2] < counter
  /\ u.pc \in {"early", "closed"} => io = "upload"
  /\ u.pc # "answered" => u.place \in Places /\ u.body \in Bodies
  /\ u.pc = "early" => u.got = 0 /\ u.bytes = 0 /\ ~u.overflow /\ ~u.failed
  /\ u.consumed => u.pc = "answered" /\ parts[u.path] = None

\* What a message has written is the body as far as it has come.
Prefix(body, n) == [i \in 1 .. n |-> <<body, i>>]
Whole(u) ==
  u.pc \in {"receiving", "closed"} =>
    /\ parts[u.path] # None /\ u.got <= Length[u.body]
    /\ ~Discarding(u) => /\ u.bytes = u.got /\ u.bytes <= Limit[u.place]
                         /\ parts[u.path] = Prefix(u.body, u.got)
    /\ u.pc = "closed" => Acceptable(u) /\ u.got = Length[u.body]

Messages == Distinct /\ \A u \in uploads : Owned(u) /\ Whole(u)
NoStrays == \A path \in Paths : parts[path] # None => path \in leftovers \union Held

\* What is stored is a body that had chunks.
StoredWhole ==
  \A place \in Places :
    stored[place] # None => \E body \in Bodies : /\ Length[body] > 0
                                                 /\ stored[place] = Chunks(body)

\* config follows the stream, and config.ini follows config between requests.
Selected ==
  up /\ loadable =>
    /\ excused \/ model = config.model
    /\ io = "select" => model = config.model
    /\ io \in {None, "upload"} => excused \/ config.model = saved.model

IInv == TypeOK /\ Slots /\ Messages /\ NoStrays /\ StoredWhole /\ SelectionIsStored /\ Selected

-----------------------------------------------------------------------------
(* Bodies and files. *)

\* The first chunks of a body are a file, of their number.
LEMMA PrefixIsFile == ASSUME NEW b \in Bodies, NEW n \in Nat
  PROVE  /\ Prefix(b, n) \in Seq(Bodies \X Nat) /\ Len(Prefix(b, n)) = n
         /\ Prefix(b, n) # None
<1>1. Prefix(b, n) \in [1 .. n -> Bodies \X Nat]
  BY DEF Prefix
<1>2. Prefix(b, n) \in Seq(Bodies \X Nat)
  BY <1>1
<1> QED
  BY <1>1, <1>2, StoreAssumption

\* The next chunk makes the prefix longer by one.
LEMMA PrefixGrows == ASSUME NEW b \in Bodies, NEW n \in Nat
  PROVE  Append(Prefix(b, n), <<b, n + 1>>) = Prefix(b, n + 1)
BY PrefixIsFile, AppendProperties DEF Prefix

\* A whole file is read back as its body.
LEMMA BodyOfChunks == ASSUME NEW b \in Bodies, Length[b] > 0
  PROVE  /\ Chunks(b) \in Seq(Bodies \X Nat) /\ Chunks(b) # None
         /\ BodyOf(Chunks(b)) = b
<1>1. Length[b] \in Nat
  BY StoreAssumption
<1>2. Chunks(b) = Prefix(b, Length[b])
  BY DEF Chunks, Prefix
<1>3. Chunks(b) \in Seq(Bodies \X Nat) /\ Chunks(b) # None /\ Chunks(b) # <<>>
  BY <1>1, <1>2, PrefixIsFile
<1>4. Chunks(b)[1] = <<b, 1>>
  BY <1>1 DEF Chunks
<1>5. Chunks(b)[1][1] = b
  BY <1>4
<1> QED
  BY <1>3, <1>5 DEF BodyOf

\* The fields of a message have their types.
LEMMA UploadFields == ASSUME NEW u \in Upload
  PROVE  /\ u.pc \in {"early", "receiving", "closed", "answered"}
         /\ u.place \in Places \union {None} /\ u.body \in Bodies \union {None}
         /\ u.path \in Paths \union {None} /\ u.got \in Nat /\ u.bytes \in Nat
BY DEF Upload

\* A path is in some directory, and none of them is None.
LEMMA PathFields == ASSUME NEW path \in Paths
  PROVE  path # None /\ path[2] \in 0 .. MaxUploads
BY StoreAssumption DEF Paths

\* A staged file's name is one of the paths, and carries the counter.
LEMMA StagePathIsPath ==
  ASSUME NEW place \in Places, counter \in 0 .. MaxUploads
  PROVE  StagePath(place) \in Paths /\ StagePath(place)[2] = counter
BY DEF StagePath, Directory, Paths

-----------------------------------------------------------------------------
(* What a step makes of the messages. *)

\* A message that changes and keeps its file is still one of as many.
LEMMA BecomesSame ==
  ASSUME Slots, Distinct, NEW u \in uploads, NEW next, next.path = u.path,
         Becomes(u, next), next.pc \in {"early", "closed"} => io = None,
         \A v \in uploads : v.pc \in {"early", "closed"} => io = "upload"
  PROVE  /\ IsFiniteSet(uploads') /\ Cardinality(uploads') = Cardinality(uploads)
         /\ Distinct' /\ Held' = Held
         /\ \A v \in uploads' :
              v = next \/ (v \in uploads /\ v # u /\ v.path # u.path)
<1> DEFINE others == uploads \ {u}
<1>1. uploads' = others \union {next}
  BY DEF Becomes
<1>2. IsFiniteSet(uploads)
  BY DEF Slots
<1>3. IsFiniteSet(others) /\ Cardinality(others) = Cardinality(uploads) - 1
  BY <1>2, FS_RemoveElement
<1>4. Cardinality(uploads) \in Nat
  BY <1>2, FS_CardinalityType
<1>5. \A v \in others : v \in uploads /\ v # u /\ v.path # u.path
  BY DEF Distinct
<1>6. next \notin others
  BY <1>5
<1>7. \A v \in uploads' : v = next \/ (v \in uploads /\ v # u /\ v.path # u.path)
  BY <1>1, <1>5
<1>8. Held' = Held
  BY <1>1 DEF Held
<1> HIDE DEF others
<1>9. IsFiniteSet(uploads') /\ Cardinality(uploads') = Cardinality(uploads)
  <2>1. /\ IsFiniteSet(others \union {next})
        /\ Cardinality(others \union {next}) = Cardinality(others) + 1
    BY <1>3, <1>6, FS_AddElement
  <2> QED
    BY <1>1, <1>3, <1>4, <2>1
<1>10. Distinct'
  <2>1. next.pc \in {"early", "closed"} =>
          \A v \in uploads : v.pc \notin {"early", "closed"}
    BY StoreAssumption
  <2> QED
    BY <1>7, <2>1 DEF Distinct
<1> QED
  BY <1>7, <1>8, <1>9, <1>10

\* A message that takes the next number shares it with nobody.
LEMMA BecomesStaged ==
  ASSUME TypeOK, Slots, Messages, NEW u \in uploads, u.pc = "early", NEW next,
         next.path = StagePath(u.place), next.pc = "receiving", Becomes(u, next)
  PROVE  /\ IsFiniteSet(uploads') /\ Cardinality(uploads') = Cardinality(uploads)
         /\ Distinct' /\ Held' = Held \union {next.path}
         /\ next.path \in Paths /\ next.path[2] = counter /\ next.path \notin Held
         /\ \A v \in uploads' :
              \/ v = next
              \/ /\ v \in uploads /\ v.path # next.path /\ v.path \in Held
                 /\ v.pc \notin {"early", "closed"}
<1> DEFINE others == uploads \ {u}
<1>1. uploads' = others \union {next}
  BY DEF Becomes
<1>2. IsFiniteSet(uploads) /\ Cardinality(uploads) \in Nat
  BY FS_CardinalityType DEF Slots
<1>3. IsFiniteSet(others) /\ Cardinality(others) = Cardinality(uploads) - 1
  BY <1>2, FS_RemoveElement
<1>4. counter \in 0 .. MaxUploads /\ u.place \in Places
  BY DEF TypeOK, WebTypes, Messages, Owned
<1>5. next.path \in Paths /\ next.path[2] = counter /\ counter \in Nat
  BY <1>4, StagePathIsPath
<1>6. ASSUME NEW v \in others
      PROVE  /\ v \in uploads /\ v.path # next.path /\ v.path \in Held
             /\ v.pc \notin {"early", "closed"}
  <2>1. v \in uploads /\ v # u /\ v.pc \notin {"early", "closed"}
    BY DEF Messages, Distinct
  <2>2. v.path # None /\ v.path[2] < counter
    BY <2>1, Zenon DEF Messages, Owned
  <2>3. v \in Upload
    BY <2>1 DEF TypeOK, WebTypes
  <2>4. v.path \in Paths
    BY <2>2, <2>3, UploadFields
  <2>5. v.path[2] \in Nat
    BY <2>4, PathFields, StoreAssumption
  <2>6. v.path # next.path
    BY <1>5, <2>2, <2>5
  <2> QED
    BY <2>1, <2>2, <2>6 DEF Held
<1>7. next \notin others
  BY <1>6
<1>8. u.path = None
  BY Zenon DEF Messages, Owned
<1>9. Held' = Held \union {next.path}
  <2>1. next.path # None
    BY <1>5, PathFields
  <2> QED
    BY <1>1, <1>8, <2>1 DEF Held
<1>10. next.path \notin Held
  <2>1. SUFFICES ASSUME NEW v \in uploads, v.path = next.path PROVE FALSE
    BY DEF Held
  <2>2. next.path # None
    BY <1>5, PathFields
  <2>3. v # u
    BY <1>8, <2>1, <2>2
  <2> QED
    BY <1>6, <2>1, <2>3
<1>11. \A v \in uploads' :
              \/ v = next
              \/ /\ v \in uploads /\ v.path # next.path /\ v.path \in Held
                 /\ v.pc \notin {"early", "closed"}
  BY <1>1, <1>6
<1> HIDE DEF others
<1>12. IsFiniteSet(uploads') /\ Cardinality(uploads') = Cardinality(uploads)
  <2>1. /\ IsFiniteSet(others \union {next})
        /\ Cardinality(others \union {next}) = Cardinality(others) + 1
    BY <1>3, <1>7, FS_AddElement
  <2> QED
    BY <1>1, <1>2, <1>3, <2>1
<1>13. Distinct'
  BY <1>11 DEF Messages, Distinct
<1> QED
  BY <1>5, <1>9, <1>10, <1>11, <1>12, <1>13

\* A message that ends gives up its file and its slot.
LEMMA MessageGone ==
  ASSUME Slots, Distinct, NEW u \in uploads, uploads' = uploads \ {u}
  PROVE  /\ IsFiniteSet(uploads') /\ Cardinality(uploads') = Cardinality(uploads) - 1
         /\ Cardinality(uploads') \in Nat
         /\ Distinct' /\ Held' = Held \ {u.path}
         /\ \A v \in uploads' : v \in uploads /\ v # u /\ v.path # u.path
<1>1. IsFiniteSet(uploads)
  BY DEF Slots
<1>2. /\ IsFiniteSet(uploads') /\ Cardinality(uploads') = Cardinality(uploads) - 1
      /\ Cardinality(uploads') \in Nat
  BY <1>1, FS_RemoveElement, FS_CardinalityType
<1>3. \A v \in uploads' : v \in uploads /\ v # u /\ v.path # u.path
  BY DEF Distinct
<1>4. Distinct'
  BY <1>3 DEF Distinct
<1>5. Held' = Held \ {u.path}
  BY <1>3 DEF Held
<1> QED
  BY <1>2, <1>3, <1>4, <1>5

\* A message that begins has no file yet.
LEMMA MessageBegins ==
  ASSUME Slots, Distinct, NEW u, u.path = None, io = None,
         \A v \in uploads : /\ v.pc \in {"early", "closed"} => io = "upload"
                            /\ v.pc = "early" <=> v.path = None,
         uploads' = uploads \union {u}
  PROVE  /\ IsFiniteSet(uploads') /\ Cardinality(uploads') = Cardinality(uploads) + 1
         /\ Cardinality(uploads) \in Nat /\ Distinct' /\ Held' = Held
<1>1. IsFiniteSet(uploads)
  BY DEF Slots
<1>2. io # "upload"
  BY StoreAssumption
<1>3. \A v \in uploads : v.path # None /\ v.pc \notin {"early", "closed"}
  BY <1>2
<1>4. u \notin uploads
  BY <1>3
<1>5. /\ IsFiniteSet(uploads') /\ Cardinality(uploads') = Cardinality(uploads) + 1
      /\ Cardinality(uploads) \in Nat
  BY <1>1, <1>4, FS_AddElement, FS_CardinalityType
<1>6. Distinct'
  BY <1>3 DEF Distinct
<1>7. Held' = Held
  BY DEF Held
<1> QED
  BY <1>5, <1>6, <1>7

-----------------------------------------------------------------------------
(* Messages, slots and staged files. *)

WebInv ==
  /\ WebTypes /\ parts \in [Paths -> File] /\ begun \in 0 .. MaxUploads
  /\ leftovers \subseteq Paths /\ up \in BOOLEAN
  /\ Slots /\ Messages /\ NoStrays

\* A message that a step leaves alone, with its file, is as it was.
LEMMA OtherMessage ==
  ASSUME NEW v \in uploads, WebInv,
         v.path \in Paths => parts'[v.path] = parts[v.path],
         v.pc \in {"early", "closed"} => io' = "upload",
         counter' = counter \/ counter' = counter + 1
  PROVE  Owned(v)' /\ Whole(v)'
<1>1. Owned(v) /\ Whole(v)
  BY DEF WebInv, Messages
<1>2. v.pc # "early" => parts'[v.path] = parts[v.path]
  BY <1>1, UploadFields DEF Owned, WebInv, WebTypes
<1>3. Whole(v)'
  BY <1>1, <1>2 DEF Whole, Acceptable, Discarding
<1>4. v.pc # "early" => v.path[2] < counter'
  <2>1. SUFFICES ASSUME v.pc # "early" PROVE v.path[2] < counter'
    OBVIOUS
  <2>2. v.path # None /\ v.path[2] < counter
    BY <1>1, <2>1 DEF Owned
  <2>3. v.path \in Paths /\ counter \in Nat
    BY <2>2, UploadFields, StoreAssumption DEF WebInv, WebTypes
  <2>4. v.path[2] \in Nat
    BY <2>3, PathFields, StoreAssumption
  <2> QED
    BY <2>2, <2>3, <2>4
<1>5. v.consumed => v.pc = "answered" /\ parts'[v.path] = None
  BY <1>1, <1>2, Zenon DEF Owned
<1>6. Owned(v)'
  BY <1>1, <1>4, <1>5, Zenon DEF Owned
<1> QED
  BY <1>3, <1>6

\* Hooks, the main thread and what the process selects do not touch the uploads.
LEMMA QuietKeeps ==
  ASSUME WebInv, UNCHANGED <<uploads, inFlight, counter, parts, begun, leftovers, up>>,
         io' = io \/ (io # "upload" /\ io' \in {None, "save", "select"} /\ up)
  PROVE  WebInv'
<1>1. WebTypes' /\ (parts \in [Paths -> File] /\ begun \in 0 .. MaxUploads)'
      /\ (leftovers \subseteq Paths /\ up \in BOOLEAN)'
  BY DEF WebInv, WebTypes
<1>2. Slots' /\ NoStrays'
  BY DEF WebInv, Slots, NoStrays, Held
<1>3. Messages'
  <2>1. Distinct'
    BY DEF WebInv, Messages, Distinct
  <2>2. ASSUME NEW v \in uploads PROVE Owned(v)' /\ Whole(v)'
    <3>1. Owned(v)
      BY DEF WebInv, Messages
    <3>2. v.pc \in {"early", "closed"} => io' = "upload"
      BY <3>1 DEF Owned
    <3> QED
      BY <3>2, OtherMessage
  <2> QED
    BY <2>1, <2>2 DEF Messages
<1> QED
  BY <1>1, <1>2, <1>3 DEF WebInv

\* A message that begins takes a slot that was free.
LEMMA BeginUploadKeeps ==
  ASSUME WebInv, NEW place \in Places, NEW body \in Bodies, BeginUpload(place, body)
  PROVE  WebInv'
<1> DEFINE u == [NoUpload EXCEPT !.pc = "early", !.place = place, !.body = body]
<1>1. /\ up /\ io = None /\ inFlight < kMaxConcurrentUploads /\ begun < MaxUploads
      /\ begun' = begun + 1 /\ inFlight' = inFlight + 1 /\ io' = "upload"
      /\ uploads' = uploads \union {u}
      /\ UNCHANGED <<parts, counter, leftovers, up>>
  BY Zenon DEF BeginUpload, Free, SlotFree, disk, process
<1>2. /\ u.pc = "early" /\ u.place = place /\ u.body = body /\ u.path = None
      /\ u.got = 0 /\ u.bytes = 0 /\ ~u.overflow /\ ~u.failed /\ ~u.consumed
      /\ u \in Upload
  BY DEF NoUpload, Upload
<1> HIDE DEF u
<1>3. Slots /\ Distinct /\ \A v \in uploads : Owned(v)
  BY DEF WebInv, Messages
<1>4. \A v \in uploads : /\ v.pc \in {"early", "closed"} => io = "upload"
                         /\ v.pc = "early" <=> v.path = None
  BY <1>3, Zenon DEF Owned
<1>5. /\ IsFiniteSet(uploads') /\ Cardinality(uploads') = Cardinality(uploads) + 1
      /\ Cardinality(uploads) \in Nat /\ Distinct' /\ Held' = Held
  BY <1>1, <1>2, <1>3, <1>4, MessageBegins
<1>6. ASSUME NEW v \in uploads' PROVE Owned(v)' /\ Whole(v)'
  <2>1. CASE v = u
    BY <1>1, <1>2, <2>1 DEF Owned, Whole
  <2>2. CASE v \in uploads
    BY <1>1, <2>2, OtherMessage
  <2> QED
    BY <1>1, <2>1, <2>2
<1>7. Messages'
  BY <1>5, <1>6 DEF Messages
<1>8. Slots'
  <2>1. counter <= begun /\ counter \in Nat /\ begun \in Nat
    BY StoreAssumption DEF WebInv, WebTypes, Slots
  <2>2. inFlight = Cardinality(uploads)
    BY DEF WebInv, Slots
  <2> QED
    BY <1>1, <1>5, <2>1, <2>2 DEF Slots
<1>9. NoStrays'
  BY <1>1, <1>5 DEF WebInv, NoStrays
<1>10. /\ uploads' \subseteq Upload /\ inFlight' \in 0 .. kMaxConcurrentUploads
       /\ begun' \in 0 .. MaxUploads
  BY <1>1, <1>2, StoreAssumption DEF WebInv, WebTypes
<1> QED
  BY <1>1, <1>7, <1>8, <1>9, <1>10 DEF WebInv, WebTypes

\* The message and its new file are the only ones under the number it takes.
LEMMA StageKeeps == ASSUME WebInv, TypeOK, NEW u \in uploads, Stage(u) PROVE WebInv'
<1>1. PICK path, next :
        /\ path = StagePath(u.place) /\ next = [u EXCEPT !.pc = "receiving", !.path = path]
        /\ io = "upload" /\ u.pc = "early" /\ io' = None /\ Becomes(u, next)
        /\ parts' = [parts EXCEPT ![path] = <<>>] /\ counter' = counter + 1
        /\ leftovers' = leftovers \ {path} /\ UNCHANGED <<inFlight, begun, up>>
  BY Zenon DEF Stage, process
<1>2. Slots /\ Messages /\ u \in Upload /\ Owned(u)
  BY DEF WebInv, WebTypes, Messages
<1>3. /\ next.pc = "receiving" /\ next.place = u.place /\ next.body = u.body
      /\ next.path = path /\ next.got = u.got /\ next.bytes = u.bytes
      /\ next.overflow = u.overflow /\ next.failed = u.failed
      /\ next.consumed = u.consumed
  BY <1>1, <1>2 DEF Upload
<1>4. ASSUME path \in Paths PROVE next \in Upload
  BY <1>1, <1>2, <1>4 DEF Upload
<1>5. /\ IsFiniteSet(uploads') /\ Cardinality(uploads') = Cardinality(uploads)
      /\ Distinct' /\ Held' = Held \union {path}
      /\ path \in Paths /\ path[2] = counter /\ path \notin Held
      /\ \A v \in uploads' :
           \/ v = next
           \/ /\ v \in uploads /\ v.path # path /\ v.path \in Held
              /\ v.pc \notin {"early", "closed"}
  <2>1. /\ next.path = StagePath(u.place) /\ next.pc = "receiving" /\ u.pc = "early"
        /\ Becomes(u, next) /\ Slots /\ Messages /\ next.path = path
    BY <1>1, <1>2, <1>3, Zenon
  <2> QED
    BY <2>1, BecomesStaged
<1>6. counter \in Nat /\ begun \in Nat /\ counter < begun /\ begun <= MaxUploads
  BY <1>1, <1>2, StoreAssumption DEF WebInv, WebTypes, Slots
<1>7. /\ u.place \in Places /\ u.body \in Bodies /\ u.got = 0 /\ u.bytes = 0
      /\ ~u.overflow /\ ~u.failed /\ ~u.consumed
  BY <1>1, <1>2 DEF Owned
<1>8. parts'[path] = <<>>
  BY <1>1, <1>5 DEF WebInv
<1>9. Owned(next)'
  <2>1. path # None
    BY <1>5, PathFields
  <2> QED
    BY <1>1, <1>3, <1>5, <1>6, <1>7, <2>1 DEF Owned
<1>10. Whole(next)'
  <2>1. Length[u.body] \in Nat /\ Limit[u.place] \in Nat
    BY <1>7, StoreAssumption
  <2>2. Prefix(u.body, 0) = <<>> /\ <<>> # None
    BY <1>7, PrefixIsFile
  <2> QED
    BY <1>3, <1>7, <1>8, <2>1, <2>2 DEF Whole, Discarding
<1>11. ASSUME NEW v \in uploads, v.path # path, v.path \in Held,
              v.pc \notin {"early", "closed"}
       PROVE  Owned(v)' /\ Whole(v)'
  <2>1. parts'[v.path] = parts[v.path]
    BY <1>1, <1>11
  <2> QED
    BY <1>1, <1>11, <2>1, OtherMessage
<1>12. Messages'
  BY <1>5, <1>9, <1>10, <1>11 DEF Messages
<1>13. Slots'
  <2>1. \A v \in uploads' : v.pc # "early"
    BY <1>3, <1>5
  <2>2. up
    BY <1>2 DEF Slots
  <2> QED
    BY <1>1, <1>2, <1>5, <1>6, <2>1, <2>2 DEF Slots
<1>14. NoStrays'
  <2>1. SUFFICES ASSUME NEW p \in Paths, parts'[p] # None
                 PROVE  p \in leftovers' \union Held'
    BY DEF NoStrays
  <2>2. CASE p = path
    BY <1>5, <2>2
  <2>3. CASE p # path
    BY <1>1, <1>5, <2>1, <2>3 DEF WebInv, NoStrays
  <2> QED
    BY <2>2, <2>3
<1>15. uploads' \subseteq Upload /\ counter' \in 0 .. MaxUploads
  BY <1>1, <1>4, <1>5, <1>6, StoreAssumption DEF WebInv, WebTypes
<1>16. parts' \in [Paths -> File]
  BY <1>1, <1>5 DEF WebInv, File
<1> QED
  BY <1>1, <1>12, <1>13, <1>14, <1>15, <1>16 DEF WebInv, WebTypes

\* A step that ends one message keeps every other one.
LEMMA GoneKeeps ==
  ASSUME WebInv, NEW u \in uploads, uploads' = uploads \ {u}, inFlight' = inFlight - 1,
         io = io' \/ (u.pc = "early" /\ io' = None),
         counter' = counter \/ (counter' = counter + 1 /\ u.pc = "early"),
         parts' = parts \/ (u.path # None /\ parts' = [parts EXCEPT ![u.path] = None]),
         leftovers' = leftovers \/ (u.path # None /\ leftovers' = leftovers \union {u.path}),
         \/ u.path = None \/ parts[u.path] = None
         \/ parts'[u.path] = None \/ u.path \in leftovers',
         UNCHANGED <<begun, up>>
  PROVE  WebInv'
<1>1. Slots /\ Distinct /\ Owned(u) /\ u \in Upload
  BY DEF WebInv, WebTypes, Messages
<1>2. /\ IsFiniteSet(uploads') /\ Cardinality(uploads') = Cardinality(uploads) - 1
      /\ Cardinality(uploads') \in Nat
      /\ Distinct' /\ Held' = Held \ {u.path}
      /\ \A v \in uploads' : v \in uploads /\ v # u /\ v.path # u.path
  BY <1>1, MessageGone
<1>3. u.path # None => u.path \in Paths
  BY <1>1, UploadFields
<1>4. ASSUME NEW v \in uploads' PROVE Owned(v)' /\ Whole(v)'
  <2>1. v \in uploads /\ v # u /\ v.path # u.path
    BY <1>2
  <2>2. v.path \in Paths => parts'[v.path] = parts[v.path]
    BY <2>1 DEF WebInv
  <2>3. v.pc \in {"early", "closed"} => io' = "upload"
    <3>1. Owned(v)
      BY <2>1 DEF WebInv, Messages
    <3>2. v.pc \in {"early", "closed"} => u.pc # "early"
      BY <1>1, <2>1 DEF Distinct
    <3> QED
      BY <3>1, <3>2 DEF Owned
  <2>4. counter' = counter \/ counter' = counter + 1
    OBVIOUS
  <2> QED
    BY <2>1, <2>2, <2>3, <2>4, OtherMessage
<1>5. Messages'
  BY <1>2, <1>4 DEF Messages
<1>6. counter \in Nat /\ begun \in Nat /\ counter <= begun /\ inFlight = Cardinality(uploads)
      /\ (u.pc = "early" => counter < begun)
  BY <1>1, StoreAssumption DEF WebInv, WebTypes, Slots
<1>7. Slots'
  <2>1. counter' <= begun'
    BY <1>6
  <2>2. ASSUME NEW v \in uploads', v.pc = "early" PROVE counter' < begun'
    <3>1. v \in uploads /\ v # u
      BY <1>2
    <3>2. u.pc # "early"
      BY <1>1, <2>2, <3>1 DEF Distinct
    <3>3. counter < begun
      BY <2>2, <3>1 DEF WebInv, Slots
    <3> QED
      BY <3>2, <3>3
  <2>3. up
    BY <1>1 DEF Slots
  <2>4. inFlight' = Cardinality(uploads')
    BY <1>2, <1>6
  <2> QED
    BY <1>2, <2>1, <2>2, <2>3, <2>4 DEF Slots
<1>8. NoStrays'
  <2>1. SUFFICES ASSUME NEW p \in Paths, parts'[p] # None
                 PROVE  p \in leftovers' \union Held'
    BY DEF NoStrays
  <2>2. p # None
    BY PathFields
  <2>3. CASE p = u.path
    <3>1. p \notin leftovers' => parts[p] = None
      BY <2>1, <2>2, <2>3
    <3>2. parts' = parts => p \in leftovers'
      BY <2>1, <3>1
    <3>3. parts' = [parts EXCEPT ![u.path] = None] => parts'[p] = None
      BY <2>3 DEF WebInv
    <3> QED
      BY <2>1, <3>2, <3>3
  <2>4. CASE p # u.path
    <3>1. parts[p] # None
      BY <2>1, <2>4 DEF WebInv
    <3>2. p \in leftovers \union Held
      BY <3>1 DEF WebInv, NoStrays
    <3> QED
      BY <1>2, <2>4, <3>2
  <2> QED
    BY <2>3, <2>4
<1>9. inFlight' \in 0 .. kMaxConcurrentUploads
  BY <1>2, <1>6, StoreAssumption DEF WebInv, WebTypes
<1>10. counter' \in 0 .. MaxUploads
  BY <1>6, StoreAssumption DEF WebInv, WebTypes
<1>11. parts' \in [Paths -> File] /\ leftovers' \subseteq Paths
  BY <1>3 DEF WebInv, File
<1>12. uploads' \subseteq Upload /\ io' \in {None, "upload", "save", "select"}
       /\ begun' \in 0 .. MaxUploads /\ up' \in BOOLEAN
  BY DEF WebInv, WebTypes
<1> QED
  BY <1>5, <1>7, <1>8, <1>9, <1>10, <1>11, <1>12 DEF WebInv, WebTypes

\* A message whose file cannot be made ends, and takes its slot with it.
LEMMA StageFailsKeeps == ASSUME WebInv, NEW u \in uploads, StageFails(u) PROVE WebInv'
<1>1. /\ u.pc = "early" /\ io' = None /\ uploads' = uploads \ {u} /\ inFlight' = inFlight - 1
      /\ counter' \in {counter, counter + 1} /\ UNCHANGED <<parts, leftovers, begun, up>>
  BY Zenon DEF StageFails, disk, process, history
<1>2. u.path = None
  BY <1>1 DEF WebInv, Messages, Owned
<1> QED
  BY <1>1, <1>2, GoneKeeps

\* The end of a message removes its file, or leaves it with a note.
LEMMA MessageEndsKeeps == ASSUME WebInv, NEW u \in uploads, MessageEnds(u) PROVE WebInv'
<1>1. /\ u.pc \in {"receiving", "answered"} /\ uploads' = uploads \ {u}
      /\ inFlight' = inFlight - 1 /\ UNCHANGED <<counter, io, begun, up>>
      /\ \/ u.consumed /\ UNCHANGED <<parts, leftovers>>
         \/ parts' = [parts EXCEPT ![u.path] = None] /\ UNCHANGED leftovers
         \/ leftovers' = leftovers \union {u.path} /\ UNCHANGED parts
  BY Zenon DEF MessageEnds, process
<1>2. u.path # None /\ (u.consumed => parts[u.path] = None) /\ u \in Upload
  BY <1>1 DEF WebInv, WebTypes, Messages, Owned
<1>3. u.path \in Paths
  BY <1>2, UploadFields
<1>4. parts' = [parts EXCEPT ![u.path] = None] => parts'[u.path] = None
  BY <1>3 DEF WebInv
<1> QED
  BY <1>1, <1>2, <1>3, <1>4, GoneKeeps

\* A message that changes, and at most its own file with it, keeps every other one.
LEMMA SameKeeps ==
  ASSUME WebInv, NEW u \in uploads, NEW next \in Upload, Becomes(u, next),
         next.path = u.path, u.pc # "early", next.pc # "early",
         next.pc = "closed" => io = None /\ io' = "upload",
         io = io' \/ (u.pc = "closed" /\ io' = None) \/ (io = None /\ io' = "upload"),
         parts' \in [Paths -> File], \A p \in Paths : p # u.path => parts'[p] = parts[p],
         Owned(next)', Whole(next)',
         UNCHANGED <<inFlight, counter, begun, leftovers, up>>
  PROVE  WebInv'
<1>1. Slots /\ Distinct /\ Owned(u) /\ u \in Upload
  BY DEF WebInv, WebTypes, Messages
<1>2. \A v \in uploads : v.pc \in {"early", "closed"} => io = "upload"
  BY Zenon DEF WebInv, Messages, Owned
<1>3. next.pc \in {"early", "closed"} => io = None
  OBVIOUS
<1>4. /\ IsFiniteSet(uploads') /\ Cardinality(uploads') = Cardinality(uploads)
      /\ Distinct' /\ Held' = Held
      /\ \A v \in uploads' :
           v = next \/ (v \in uploads /\ v # u /\ v.path # u.path)
  BY <1>1, <1>2, <1>3, BecomesSame
<1>5. u.path \in Held /\ u.path # None
  BY <1>1 DEF Owned, Held
<1>6. ASSUME NEW v \in uploads, v # u, v.path # u.path PROVE Owned(v)' /\ Whole(v)'
  <2>1. v.pc \in {"early", "closed"} => io' = "upload"
    <3>1. u.pc = "closed" => v.pc \notin {"early", "closed"}
      BY <1>1, <1>6 DEF Distinct
    <3> QED
      BY <1>2, <3>1
  <2>2. v.path \in Paths => parts'[v.path] = parts[v.path]
    BY <1>6
  <2> QED
    BY <2>1, <2>2, OtherMessage
<1>7. Messages'
  BY <1>4, <1>6 DEF Messages
<1>8. Slots'
  <2>1. \A v \in uploads' : v.pc = "early" => v \in uploads
    BY <1>4
  <2>2. up
    BY <1>1 DEF Slots
  <2> QED
    BY <1>1, <1>4, <2>1, <2>2 DEF Slots
<1>9. NoStrays'
  <2>1. SUFFICES ASSUME NEW p \in Paths, parts'[p] # None
                 PROVE  p \in leftovers' \union Held'
    BY DEF NoStrays
  <2>2. CASE p = u.path
    BY <1>4, <1>5, <2>2
  <2>3. CASE p # u.path
    BY <1>4, <2>1, <2>3 DEF WebInv, NoStrays
  <2> QED
    BY <2>2, <2>3
<1>10. uploads' \subseteq Upload /\ io' \in {None, "upload", "save", "select"}
  BY <1>4 DEF WebInv, WebTypes
<1> QED
  BY <1>7, <1>8, <1>9, <1>10 DEF WebInv, WebTypes


\* An answered message owns its file still, and says nothing of what is in it.
LEMMA AnswerKeeps ==
  ASSUME WebInv, NEW u \in uploads, u.pc \in {"receiving", "closed"},
         NEW consumed \in BOOLEAN, Answer(u, consumed), consumed => parts'[u.path] = None,
         io = io' \/ (u.pc = "closed" /\ io' = None),
         parts' \in [Paths -> File], \A p \in Paths : p # u.path => parts'[p] = parts[p],
         UNCHANGED <<inFlight, counter, begun, leftovers, up>>
  PROVE  WebInv'
<1>1. PICK next : /\ next = [NoUpload EXCEPT !.pc = "answered", !.path = u.path,
                                             !.consumed = consumed]
                  /\ Becomes(u, next)
  BY Zenon DEF Answer
<1>2. u \in Upload /\ Owned(u)
  BY DEF WebInv, WebTypes, Messages
<1>3. /\ next.pc = "answered" /\ next.path = u.path /\ next.consumed = consumed
      /\ next \in Upload
  <2>1. u.path \in Paths \union {None}
    BY <1>2, UploadFields
  <2> QED
    BY <1>1, <2>1 DEF NoUpload, Upload
<1>4. u.path # None /\ u.path[2] < counter
  BY <1>2 DEF Owned
<1>5. Owned(next)'
  BY <1>3, <1>4 DEF Owned
<1>6. Whole(next)'
  BY <1>3 DEF Whole
<1>7. u.pc # "early" /\ next.pc # "early" /\ next.pc # "closed"
  BY <1>3
<1> QED
  BY <1>1, <1>3, <1>5, <1>6, <1>7, SameKeeps

\* A chunk is written behind the ones before it, or nothing is written any more.
LEMMA GotChunkKeeps == ASSUME WebInv, NEW u \in uploads, GotChunk(u) PROVE WebInv'
<1>1. /\ io = None /\ u.pc = "receiving" /\ u.got < Length[u.body]
      /\ UNCHANGED <<inFlight, counter, io, begun, leftovers, up>>
  BY Zenon DEF GotChunk, Free, process, history
<1>2. PICK next :
        \/ /\ Discarding(u) /\ UNCHANGED parts /\ next = [u EXCEPT !.got = @ + 1]
           /\ Becomes(u, next)
        \/ /\ ~Discarding(u) /\ ~Fits(u) /\ UNCHANGED parts
           /\ next = [u EXCEPT !.got = @ + 1, !.overflow = TRUE] /\ Becomes(u, next)
        \/ /\ ~Discarding(u) /\ Fits(u)
           /\ next = [u EXCEPT !.got = @ + 1, !.bytes = @ + 1] /\ Becomes(u, next)
           /\ parts' = [parts EXCEPT ![u.path] =
                          Append(Or(parts[u.path], <<>>), <<u.body, u.got + 1>>)]
        \/ /\ ~Discarding(u) /\ Fits(u) /\ UNCHANGED parts
           /\ next = [u EXCEPT !.got = @ + 1, !.failed = TRUE] /\ Becomes(u, next)
  BY DEF GotChunk
<1>3. u \in Upload /\ Owned(u) /\ Whole(u)
  BY DEF WebInv, WebTypes, Messages
<1>4. /\ u.place \in Places /\ u.body \in Bodies /\ u.path # None /\ u.path[2] < counter
      /\ ~u.consumed /\ parts[u.path] # None
  BY <1>1, <1>3 DEF Owned, Whole
<1>5. u.path \in Paths /\ u.got \in Nat /\ u.bytes \in Nat
  BY <1>3, <1>4, UploadFields
<1>6. Length[u.body] \in Nat /\ Limit[u.place] \in Nat
  BY <1>4, StoreAssumption
<1>7. /\ next.pc = "receiving" /\ next.place = u.place /\ next.body = u.body
      /\ next.path = u.path /\ next.got = u.got + 1 /\ next.consumed = u.consumed
  BY <1>1, <1>2, <1>3 DEF Upload
<1>8. next \in Upload
  <2>1. u.got + 1 \in Nat /\ u.bytes + 1 \in Nat
    BY <1>5
  <2>2. /\ [u EXCEPT !.got = u.got + 1] \in Upload
        /\ [u EXCEPT !.got = u.got + 1, !.overflow = TRUE] \in Upload
        /\ [u EXCEPT !.got = u.got + 1, !.bytes = u.bytes + 1] \in Upload
        /\ [u EXCEPT !.got = u.got + 1, !.failed = TRUE] \in Upload
    BY <1>3, <2>1, Zenon DEF Upload
  <2> QED
    BY <1>2, <2>2, Zenon
<1>9. Becomes(u, next)
  BY <1>2, Zenon
<1>10. ~Discarding(u) => parts[u.path] = Prefix(u.body, u.got) /\ u.bytes = u.got
  BY <1>1, <1>3 DEF Whole
<1>11. \/ Discarding(next) /\ UNCHANGED parts
       \/ /\ ~Discarding(u) /\ Fits(u) /\ next.bytes = u.bytes + 1
          /\ parts' = [parts EXCEPT ![u.path] = Prefix(u.body, u.got + 1)]
  <2>1. ~Discarding(u) => Or(parts[u.path], <<>>) = Prefix(u.body, u.got)
    BY <1>4, <1>10 DEF Or
  <2>2. Append(Prefix(u.body, u.got), <<u.body, u.got + 1>>) = Prefix(u.body, u.got + 1)
    BY <1>4, <1>5, PrefixGrows
  <2>3. CASE Discarding(u) /\ UNCHANGED parts /\ next = [u EXCEPT !.got = @ + 1]
    BY <1>3, <2>3 DEF Discarding, Upload
  <2>4. CASE /\ ~Discarding(u) /\ UNCHANGED parts
             /\ next = [u EXCEPT !.got = @ + 1, !.overflow = TRUE]
    BY <1>3, <2>4 DEF Discarding, Upload
  <2>5. CASE /\ ~Discarding(u) /\ UNCHANGED parts
             /\ next = [u EXCEPT !.got = @ + 1, !.failed = TRUE]
    BY <1>3, <2>5 DEF Discarding, Upload
  <2>6. CASE /\ ~Discarding(u) /\ Fits(u)
             /\ next = [u EXCEPT !.got = @ + 1, !.bytes = @ + 1]
             /\ parts' = [parts EXCEPT ![u.path] =
                            Append(Or(parts[u.path], <<>>), <<u.body, u.got + 1>>)]
    <3>1. next.bytes = u.bytes + 1
      BY <1>3, <2>6 DEF Upload
    <3> QED
      BY <2>1, <2>2, <2>6, <3>1
  <2> QED
    BY <1>2, <2>3, <2>4, <2>5, <2>6
<1>12. Prefix(u.body, u.got + 1) \in File /\ Prefix(u.body, u.got + 1) # None
  <2>1. u.got + 1 \in Nat
    BY <1>5
  <2> QED
    BY <1>4, <2>1, PrefixIsFile DEF File
<1>13. /\ parts' \in [Paths -> File] /\ \A p \in Paths : p # u.path => parts'[p] = parts[p]
       /\ parts'[u.path] # None
  BY <1>4, <1>5, <1>11, <1>12 DEF WebInv
<1>14. Owned(next)'
  BY <1>1, <1>4, <1>7 DEF Owned
<1>15. Whole(next)'
  <2>1. /\ parts'[next.path] # None /\ next.got <= Length[next.body]
        /\ next.pc # "closed"
    BY <1>1, <1>5, <1>6, <1>7, <1>13
  <2>2. ~Discarding(next) => /\ next.bytes = next.got /\ next.bytes <= Limit[next.place]
                             /\ parts'[next.path] = Prefix(next.body, next.got)
    BY <1>5, <1>6, <1>7, <1>10, <1>11 DEF Fits, WebInv
  <2> QED
    BY <2>1, <2>2 DEF Whole, Discarding
<1>16. u.pc # "early" /\ next.pc # "early" /\ next.pc # "closed"
  BY <1>1, <1>7
<1> QED
  BY <1>1, <1>7, <1>8, <1>9, <1>13, <1>14, <1>15, <1>16, SameKeeps

\* What is accepted goes to the callback that installs it.
LEMMA CompleteKeeps == ASSUME WebInv, NEW u \in uploads, Complete(u) PROVE WebInv'
<1>1. /\ io = None /\ u.pc = "receiving" /\ u.got = Length[u.body]
      /\ UNCHANGED <<parts, inFlight, counter, begun, leftovers, up>>
      /\ \/ Acceptable(u) /\ io' = "upload" /\ Becomes(u, [u EXCEPT !.pc = "closed"])
         \/ io' = io /\ Answer(u, FALSE)
  BY Zenon DEF Complete, Received, Free, disk, process, history
<1>2. parts \in [Paths -> File]
  BY DEF WebInv
<1>3. CASE io' = io /\ Answer(u, FALSE)
  BY <1>1, <1>2, <1>3, AnswerKeeps
<1>4. CASE Acceptable(u) /\ io' = "upload" /\ Becomes(u, [u EXCEPT !.pc = "closed"])
  <2>1. PICK next : next = [u EXCEPT !.pc = "closed"] /\ Becomes(u, next)
    BY <1>4, Zenon
  <2>2. u \in Upload /\ Owned(u) /\ Whole(u)
    BY DEF WebInv, WebTypes, Messages
  <2>3. /\ next.pc = "closed" /\ next.place = u.place /\ next.body = u.body
        /\ next.path = u.path /\ next.got = u.got /\ next.bytes = u.bytes
        /\ next.overflow = u.overflow /\ next.failed = u.failed
        /\ next.consumed = u.consumed /\ next \in Upload
    BY <2>1, <2>2 DEF Upload
  <2>4. /\ u.place \in Places /\ u.body \in Bodies /\ u.path # None /\ u.path[2] < counter
        /\ ~u.consumed
    BY <1>1, <2>2 DEF Owned
  <2>5. Owned(next)'
    BY <1>1, <1>4, <2>3, <2>4 DEF Owned
  <2>6. Whole(next)'
    BY <1>1, <1>4, <2>2, <2>3 DEF Whole, Discarding, Acceptable
  <2> QED
    BY <1>1, <1>2, <1>4, <2>1, <2>3, <2>5, <2>6, SameKeeps
<1> QED
  BY <1>1, <1>3, <1>4

\* A flush that fails cuts the last chunk off the file, and the answer refuses it.
LEMMA CloseFailsKeeps == ASSUME WebInv, NEW u \in uploads, CloseFails(u) PROVE WebInv'
<1>1. /\ io = None /\ u.pc = "receiving" /\ u.got = Length[u.body] /\ Acceptable(u)
      /\ parts' = [parts EXCEPT ![u.path] = Front(Or(parts[u.path], <<>>))]
      /\ Answer(u, FALSE) /\ UNCHANGED <<inFlight, counter, io, begun, leftovers, up>>
  BY DEF CloseFails, Received, Free, process, history
<1>2. u \in Upload /\ Owned(u) /\ Whole(u)
  BY DEF WebInv, WebTypes, Messages
<1>3. u.body \in Bodies /\ u.path # None /\ u.got \in Nat /\ u.path \in Paths
  BY <1>1, <1>2, UploadFields DEF Owned
<1>4. /\ Or(parts[u.path], <<>>) = Prefix(u.body, u.got) /\ u.got > 0
  BY <1>1, <1>2 DEF Whole, Acceptable, Discarding, Or
<1>5. Front(Prefix(u.body, u.got)) \in File
  <2>1. Prefix(u.body, u.got) \in Seq(Bodies \X Nat) /\ Len(Prefix(u.body, u.got)) = u.got
    BY <1>3, PrefixIsFile
  <2> DEFINE s == Prefix(u.body, u.got)
  <2>2. SubSeq(s, 1, Len(s) - 1) \in Seq(Bodies \X Nat)
    <3> HIDE DEF s
    <3>1. s \in Seq(Bodies \X Nat) /\ Len(s) \in Nat /\ Len(s) > 0
      BY <1>3, <1>4, <2>1 DEF s
    <3>2. \A i \in 1 .. Len(s) - 1 : s[i] \in Bodies \X Nat
      BY <3>1
    <3> QED
      BY <3>1, <3>2
  <2> QED
    BY <2>2 DEF Front, File
<1>6. /\ parts' \in [Paths -> File] /\ \A p \in Paths : p # u.path => parts'[p] = parts[p]
  BY <1>1, <1>3, <1>4, <1>5 DEF WebInv
<1> QED
  BY <1>1, <1>6, AnswerKeeps

\* The model's file is renamed away.
LEMMA InstallKeeps == ASSUME WebInv, NEW u \in uploads, Install(u) PROVE WebInv'
<1>1. /\ u.pc = "closed" /\ io' = None /\ Answer(u, TRUE)
      /\ parts' = [parts EXCEPT ![u.path] = None]
      /\ UNCHANGED <<inFlight, counter, begun, leftovers, up>>
  BY Zenon DEF Install, process, history
<1>2. u \in Upload /\ u.path # None
  BY <1>1 DEF WebInv, WebTypes, Messages, Owned
<1>3. u.path \in Paths
  BY <1>2, UploadFields
<1>4. /\ parts' \in [Paths -> File] /\ \A p \in Paths : p # u.path => parts'[p] = parts[p]
      /\ parts'[u.path] = None
  BY <1>1, <1>3 DEF WebInv, File
<1> QED
  BY <1>1, <1>4, AnswerKeeps

\* A rename that fails leaves the file to the message.
LEMMA InstallFailsKeeps == ASSUME WebInv, NEW u \in uploads, InstallFails(u) PROVE WebInv'
<1>1. /\ u.pc = "closed" /\ io' = None /\ Answer(u, FALSE)
      /\ UNCHANGED <<parts, inFlight, counter, begun, leftovers, up>>
  BY Zenon DEF InstallFails, disk, process, history
<1>2. parts \in [Paths -> File]
  BY DEF WebInv
<1> QED
  BY <1>1, <1>2, AnswerKeeps

\* Whatever is read back, and whether the hook takes it, the file stays the message's.
LEMMA HandOverKeeps == ASSUME WebInv, NEW u \in uploads, HandOver(u) PROVE WebInv'
<1>1. /\ u.pc = "closed" /\ io' = None /\ Answer(u, FALSE)
      /\ UNCHANGED <<parts, inFlight, counter, begun, leftovers, up>>
  BY Zenon DEF HandOver, process, history
<1>2. parts \in [Paths -> File]
  BY DEF WebInv
<1> QED
  BY <1>1, <1>2, AnswerKeeps

\* What the messages held is removed by a stop, and left by a crash.
LEMMA ProcessEndsKeeps == ASSUME WebInv, ProcessEnds PROVE WebInv'
<1>1. /\ up' = FALSE /\ uploads' = {} /\ inFlight' = 0 /\ counter' = 0 /\ io' = None
      /\ UNCHANGED begun
      /\ \/ /\ parts' = [path \in Paths |-> IF path \in Held THEN None ELSE parts[path]]
            /\ UNCHANGED leftovers
         \/ /\ UNCHANGED parts
            /\ leftovers' = leftovers \union {path \in Held : parts[path] # None}
  BY Zenon DEF ProcessEnds
<1>2. Held \subseteq Paths
  <2>1. ASSUME NEW v \in uploads, v.path # None PROVE v.path \in Paths
    BY <2>1, UploadFields DEF WebInv, WebTypes
  <2> QED
    BY <2>1 DEF Held
<1>3. Slots'
  <2>1. IsFiniteSet({}) /\ Cardinality({}) = 0
    BY FS_EmptySet
  <2>2. begun' \in Nat
    BY <1>1 DEF WebInv
  <2> QED
    BY <1>1, <2>1, <2>2 DEF Slots
<1>4. Messages'
  BY <1>1 DEF Messages, Distinct
<1>5. parts' \in [Paths -> File]
  BY <1>1 DEF WebInv, File
<1>6. leftovers' \subseteq Paths
  BY <1>1, <1>2 DEF WebInv
<1>7. NoStrays'
  <2>1. SUFFICES ASSUME NEW p \in Paths, parts'[p] # None PROVE p \in leftovers'
    BY DEF NoStrays
  <2>2. p \notin Held => p \in leftovers
    <3>1. parts[p] # None
      BY <1>1, <2>1
    <3> QED
      BY <3>1 DEF WebInv, NoStrays
  <2>3. CASE parts' = [path \in Paths |-> IF path \in Held THEN None ELSE parts[path]]
             /\ UNCHANGED leftovers
    BY <2>1, <2>2, <2>3
  <2>4. CASE /\ UNCHANGED parts
             /\ leftovers' = leftovers \union {path \in Held : parts[path] # None}
    BY <2>1, <2>2, <2>4
  <2> QED
    BY <1>1, <2>3, <2>4
<1>8. WebTypes' /\ begun' \in 0 .. MaxUploads /\ up' \in BOOLEAN
  <2>1. 0 \in 0 .. kMaxConcurrentUploads /\ 0 \in 0 .. MaxUploads
    BY StoreAssumption
  <2> QED
    BY <1>1, <2>1, Zenon DEF WebInv, WebTypes
<1> QED
  BY <1>3, <1>4, <1>5, <1>6, <1>7, <1>8 DEF WebInv

\* A process that starts has no message yet.
LEMMA BootKeeps == ASSUME WebInv, Boot PROVE WebInv'
<1>1. ~up /\ up' = TRUE
      /\ UNCHANGED <<uploads, inFlight, counter, io, parts, begun, leftovers>>
  BY Zenon DEF Boot, Begin, disk, web
<1>2. uploads = {} /\ io = None
  BY <1>1 DEF WebInv, Slots
<1>3. Slots'
  BY <1>1, <1>2 DEF WebInv, Slots
<1>4. Messages' /\ NoStrays'
  BY <1>1, <1>2 DEF WebInv, Messages, Distinct, NoStrays, Held
<1> QED
  BY <1>1, <1>3, <1>4 DEF WebInv, WebTypes

-----------------------------------------------------------------------------
(* What is stored, selected and saved. *)

StoreInv ==
  /\ stored \in [Places -> File] /\ saved \in Keys /\ loadable \in BOOLEAN
  /\ FlagTypes /\ StreamTypes /\ requests \in 0 .. MaxRequests /\ excused \in BOOLEAN
  /\ StoredWhole /\ SelectionIsStored /\ Selected

\* IInv is the part about messages and the part about models.
LEMMA Parts == IInv <=> WebInv /\ StoreInv
BY Zenon DEF IInv, TypeOK, DiskTypes, HistoryTypes, FlagTypes, WebInv, StoreInv

\* The fields of the keys have their types.
LEMMA KeysFields == ASSUME NEW keys \in Keys
  PROVE  keys.model \in Models \union {None} /\ keys.enabled \in BOOLEAN \union {None}
BY DEF Keys

\* Keys made of such fields are keys.
LEMMA KeysAre ==
  ASSUME NEW m \in Models \union {None}, NEW e \in BOOLEAN \union {None}
  PROVE  /\ [model |-> m, enabled |-> e] \in Keys
         /\ [model |-> m, enabled |-> e].model = m
BY DEF Keys

\* No keys are keys.
LEMMA NoKeysAre == NoKeys \in Keys
BY DEF Keys, NoKeys

\* Keys without their model are keys still.
LEMMA KeysLose == ASSUME NEW keys \in Keys
  PROVE  /\ [keys EXCEPT !.model = None] \in Keys
         /\ [keys EXCEPT !.model = None].model = None
BY DEF Keys

\* A step of the uploads that installs nothing leaves the models as they are.
LEMMA UploadsKeepModels ==
  ASSUME StoreInv, UNCHANGED <<stored, saved, loadable, process, excused>>,
         io \in {None, "upload"}, io' \in {None, "upload"},
         requests' \in 0 .. MaxRequests
  PROVE  StoreInv'
<1>1. UNCHANGED <<stored, saved, loadable, up, audio, config, model, continuous, session,
                  enabled, excused>>
  BY Zenon DEF process, stream
<1>2. FlagTypes' /\ StreamTypes'
  BY <1>1, Zenon DEF StoreInv, FlagTypes, StreamTypes
<1>3. StoredWhole' /\ SelectionIsStored'
  BY <1>1, Zenon DEF StoreInv, StoredWhole, SelectionIsStored, Stored
<1>4. Selected'
  BY <1>1, StoreAssumption DEF StoreInv, Selected
<1> QED
  BY <1>1, <1>2, <1>3, <1>4, Zenon DEF StoreInv

\* A message puts its staged file in its place: a rename, or contents that the hook
\* takes.
Installs(u) ==
  /\ Install(u) \/ HandOver(u)
  /\ stored' = [stored EXCEPT ![u.place] = parts[u.path]]

\* A rename does so.
LEMMA InstallInstalls == ASSUME NEW u, Install(u) PROVE Installs(u)
BY Zenon DEF Install, Installs

\* A hand-over does, or changes nothing: an empty read-back is not taken.
LEMMA HandOverInstalls ==
  ASSUME NEW u, HandOver(u) PROVE Installs(u) \/ UNCHANGED stored
<1>1. u.place = Library
  BY Zenon DEF HandOver
<1>2. PICK contents \in ReadBack(u) :
        \/ MayHaveCues(contents) /\ stored' = [stored EXCEPT ![Library] = contents]
        \/ UNCHANGED stored
  BY Zenon DEF HandOver
<1>3. MayHaveCues(contents) => contents = parts[u.path]
  BY <1>2 DEF MayHaveCues, ReadBack
<1> QED
  BY <1>1, <1>2, <1>3, Zenon DEF Installs

\* What is installed is the body, whole, in the place it is for.
LEMMA InstallsBody ==
  ASSUME WebInv, NEW u \in uploads, Installs(u)
  PROVE  /\ u.place \in Places /\ u.body \in Bodies
         /\ Length[u.body] \in 1 .. Limit[u.place]
         /\ stored' = [stored EXCEPT ![u.place] = Chunks(u.body)]
<1>1. u.pc = "closed" /\ stored' = [stored EXCEPT ![u.place] = parts[u.path]]
  BY Zenon DEF Installs, Install, HandOver
<1>2. u \in Upload /\ Owned(u) /\ Whole(u)
  BY DEF WebInv, WebTypes, Messages
<1>3. u.place \in Places /\ u.body \in Bodies
  BY <1>1, <1>2 DEF Owned
<1>4. /\ parts[u.path] = Prefix(u.body, u.got) /\ u.got = Length[u.body] /\ u.bytes = u.got
      /\ u.bytes <= Limit[u.place] /\ u.bytes > 0
  BY <1>1, <1>2 DEF Whole, Acceptable, Discarding
<1>5. Prefix(u.body, u.got) = Chunks(u.body)
  BY <1>4 DEF Prefix, Chunks
<1>6. Length[u.body] \in Nat /\ Limit[u.place] \in Nat
  BY <1>3, StoreAssumption
<1> QED
  BY <1>1, <1>3, <1>4, <1>5, <1>6

\* What is installed keeps the store whole, and the selection stored.
LEMMA InstallKeepsModels ==
  ASSUME WebInv, StoreInv, NEW u \in uploads, Installs(u)
  PROVE  StoreInv'
<1>1. /\ UNCHANGED <<saved, loadable, up, audio, config, model, continuous, session, enabled,
                     excused, requests>>
      /\ io = "upload" /\ io' = None
  BY Zenon DEF Installs, Install, HandOver, process, stream, history
<1>2. /\ u.place \in Places /\ u.body \in Bodies /\ Length[u.body] > 0
      /\ stored' = [stored EXCEPT ![u.place] = Chunks(u.body)]
  <2>1. /\ u.place \in Places /\ u.body \in Bodies
        /\ Length[u.body] \in 1 .. Limit[u.place]
        /\ stored' = [stored EXCEPT ![u.place] = Chunks(u.body)]
    BY InstallsBody
  <2>2. Limit[u.place] \in Nat
    BY <2>1, StoreAssumption
  <2> QED
    BY <2>1, <2>2
<1>3. Chunks(u.body) \in File /\ Chunks(u.body) # None
  BY <1>2, BodyOfChunks DEF File
<1>4. /\ stored' \in [Places -> File] /\ stored'[u.place] = Chunks(u.body)
      /\ \A place \in Places : place # u.place => stored'[place] = stored[place]
  BY <1>2, <1>3 DEF StoreInv
<1>5. StoredWhole'
  BY <1>2, <1>4 DEF StoreInv, StoredWhole
<1>6. SelectionIsStored'
  BY <1>1, <1>3, <1>4 DEF StoreInv, StreamTypes, SelectionIsStored, Stored, Places
<1>7. FlagTypes' /\ StreamTypes'
  BY <1>1, Zenon DEF StoreInv, FlagTypes, StreamTypes
<1>8. Selected'
  BY <1>1, StoreAssumption DEF StoreInv, Selected
<1> QED
  BY <1>1, <1>4, <1>5, <1>6, <1>7, <1>8, Zenon DEF StoreInv

\* A model that is named is stored, and goes to config with the next save.
LEMMA PutStateKeepsModels ==
  ASSUME StoreInv, NEW on \in BOOLEAN \union {None}, NEW name \in Models \union {None},
         PutState(on, name)
  PROVE  StoreInv'
<1> DEFINE keys == [model |-> Or(name, config.model), enabled |-> Or(on, config.enabled)]
<1>1. /\ io = None /\ requests < MaxRequests /\ requests' = requests + 1 /\ Available(name)
      /\ model' = Path(name)
      /\ Keep(keys, IF name = None THEN "save" ELSE "select")
      /\ UNCHANGED <<stored, saved, loadable, up, audio, excused>>
  BY Zenon DEF PutState, Free, Begin, SetWhisperState, disk
<1>2. continuous' = Or(on, continuous) /\ enabled' = (continuous' \/ session')
      /\ session' = (session /\ Path(name) = model /\ on # FALSE)
  BY Zenon DEF PutState, SetWhisperState
<1>3. config \in Keys /\ model \in Models \union {None, Outside}
  BY DEF StoreInv, StreamTypes
<1>4. /\ Or(name, config.model) \in Models \union {None}
      /\ Or(on, config.enabled) \in BOOLEAN \union {None}
  BY <1>3, KeysFields, Zenon DEF Or
<1>5. keys \in Keys /\ keys.model = Or(name, config.model)
  BY <1>4, KeysAre
<1> HIDE DEF keys
<1>6. FlagTypes'
  <2>1. continuous' \in BOOLEAN
    BY <1>2, Zenon DEF StoreInv, FlagTypes, Or
  <2>2. session' \in BOOLEAN /\ enabled' \in BOOLEAN
    BY <1>2, Zenon
  <2> QED
    BY <1>1, <2>1, <2>2, Zenon DEF StoreInv, FlagTypes
<1>7. StreamTypes'
  <2>1. config' \in Keys
    BY <1>1, <1>3, <1>5, Zenon DEF Keep
  <2>2. model' \in Models \union {None, Outside}
    BY <1>1, <1>3 DEF Path, Or
  <2> QED
    BY <2>1, <2>2 DEF StreamTypes
<1>8. SelectionIsStored'
  BY <1>1 DEF StoreInv, SelectionIsStored, Available, Stored, Path, Or
<1>9. Selected'
  <2>1. SUFFICES ASSUME up', loadable'
                 PROVE  /\ excused' \/ model' = config'.model
                        /\ io' = "select" => model' = config'.model
                        /\ io' \notin {None, "upload"}
    BY DEF Selected
  <2>2. loadable /\ up
    BY <1>1, <2>1
  <2>3. config' = keys /\ io' = IF name = None THEN "save" ELSE "select"
    BY <1>1, <2>2 DEF Keep
  <2>4. config'.model = Or(name, config.model)
    BY <1>5, <2>3
  <2>5. io' \notin {None, "upload"}
    BY <2>3, StoreAssumption
  <2>6. name # None => model' = config'.model
    BY <1>1, <2>4 DEF Path, Or
  <2>7. name = None => excused' \/ model' = config'.model
    BY <1>1, <2>2, <2>4 DEF Path, Or, StoreInv, Selected
  <2> QED
    BY <2>3, <2>5, <2>6, <2>7
<1>10. StoredWhole' /\ requests' \in 0 .. MaxRequests
  BY <1>1, StoreAssumption DEF StoreInv, StoredWhole
<1>11. stored' \in [Places -> File] /\ saved' \in Keys /\ loadable' \in BOOLEAN
       /\ excused' \in BOOLEAN
  BY <1>1 DEF StoreInv
<1> QED
  BY <1>6, <1>7, <1>8, <1>9, <1>10, <1>11, Zenon DEF StoreInv

\* A session runs a model that is stored, or the one that was selected.
LEMMA StartSyncKeepsModels ==
  ASSUME StoreInv, NEW name \in Models \union {None}, StartSubtitleSync(name)
  PROVE  StoreInv'
<1>1. /\ io = None /\ io' = None /\ requests < MaxRequests /\ requests' = requests + 1
      /\ Available(name) /\ (model' = model \/ model' = Path(name))
      /\ UNCHANGED <<stored, saved, loadable, up, audio, config, continuous>>
  BY Zenon DEF StartSubtitleSync, Free, Begin, disk, web
<1>2. session' = TRUE /\ enabled' = TRUE
  BY Zenon DEF StartSubtitleSync
<1>3. /\ excused' \in BOOLEAN /\ (excused => excused')
      /\ excused' \/ model' = model
  <2>1. \/ excused' = excused /\ model' = model
        \/ excused' = (excused \/ Path(name) # model) /\ model' = Path(name)
    BY Zenon DEF StartSubtitleSync
  <2> QED
    BY <2>1, Zenon DEF StoreInv
<1>4. FlagTypes'
  BY <1>1, <1>2, Zenon DEF StoreInv, FlagTypes
<1>5. StreamTypes'
  BY <1>1 DEF StoreInv, StreamTypes, Path, Or
<1>6. SelectionIsStored'
  BY <1>1 DEF StoreInv, SelectionIsStored, Available, Stored, Path, Or
<1>7. Selected'
  <2>1. up /\ loadable =>
          /\ excused \/ model = config.model
          /\ excused \/ config.model = saved.model
    BY <1>1 DEF StoreInv, Selected
  <2>2. io' # "select"
    BY <1>1, StoreAssumption
  <2> QED
    BY <1>1, <1>3, <2>1, <2>2, Zenon DEF Selected
<1>8. StoredWhole' /\ requests' \in 0 .. MaxRequests
  BY <1>1, StoreAssumption DEF StoreInv, StoredWhole
<1>9. stored' \in [Places -> File] /\ saved' \in Keys /\ loadable' \in BOOLEAN
  BY <1>1 DEF StoreInv
<1> QED
  BY <1>3, <1>4, <1>5, <1>6, <1>7, <1>8, <1>9, Zenon DEF StoreInv

\* The model that is selected is not removed under the selection.
LEMMA RemoveKeepsModels ==
  ASSUME StoreInv, NEW name \in Models, RemoveModel(name)
  PROVE  StoreInv'
<1>1. /\ io = None /\ requests < MaxRequests /\ requests' = requests + 1 /\ ~InUse(name)
      /\ stored' = [stored EXCEPT ![name] = None]
      /\ UNCHANGED <<saved, loadable, up, audio, continuous, session, enabled, excused>>
  BY Zenon DEF RemoveModel, Free, Begin
<1>2. \/ /\ model = name /\ model' = None
         /\ Keep([config EXCEPT !.model = None], "select")
      \/ model # name /\ UNCHANGED <<model, config, io>>
  BY <1>1, Zenon DEF RemoveModel, Deselect, InUse
<1>3. config \in Keys /\ model \in Models \union {None, Outside} /\ stored \in [Places -> File]
  BY DEF StoreInv, StreamTypes
<1>4. /\ name \in Places /\ stored' \in [Places -> File] /\ stored'[name] = None
      /\ \A place \in Places : place # name => stored'[place] = stored[place]
  BY <1>1, <1>3 DEF Places, File
<1>5. StoredWhole'
  BY <1>4 DEF StoreInv, StoredWhole
<1>6. SelectionIsStored'
  BY <1>2, <1>3, <1>4 DEF StoreInv, SelectionIsStored, Stored, Places
<1>7. FlagTypes'
  BY <1>1, Zenon DEF StoreInv, FlagTypes
<1>8. StreamTypes'
  BY <1>2, <1>3, KeysLose, Zenon DEF StreamTypes, Keep
<1>9. Selected'
  <2>1. CASE model # name /\ UNCHANGED <<model, config, io>>
    BY <1>1, <2>1, Zenon DEF StoreInv, Selected
  <2>2. CASE model' = None /\ Keep([config EXCEPT !.model = None], "select")
    <3>1. SUFFICES ASSUME loadable
                   PROVE  model' = config'.model /\ io' \notin {None, "upload"}
      BY <1>1 DEF Selected
    <3>2. config' = [config EXCEPT !.model = None] /\ io' = "select"
      BY <2>2, <3>1 DEF Keep
    <3> QED
      BY <1>3, <2>2, <3>2, KeysLose, StoreAssumption
  <2> QED
    BY <1>2, <2>1, <2>2
<1>10. requests' \in 0 .. MaxRequests
  BY <1>1, StoreAssumption DEF StoreInv
<1> QED
  BY <1>1, <1>4, <1>5, <1>6, <1>7, <1>8, <1>9, <1>10, Zenon DEF StoreInv

\* A save brings config.ini up to config, or is excused.
LEMMA SavesKeepModels ==
  ASSUME StoreInv, Save \/ SaveFails \/ SaveOther
  PROVE  StoreInv'
<1>1. /\ UNCHANGED <<stored, loadable, up, audio, config, model, continuous, session, enabled,
                     requests>>
      /\ saved' = saved \/ saved' = config
  BY Zenon DEF Save, SaveFails, SaveOther, disk, web, process, stream, history
<1>2. stored' \in [Places -> File] /\ saved' \in Keys /\ loadable' \in BOOLEAN
      /\ requests' \in 0 .. MaxRequests /\ FlagTypes' /\ StreamTypes'
  BY <1>1, Zenon DEF StoreInv, FlagTypes, StreamTypes
<1>3. StoredWhole' /\ SelectionIsStored'
  BY <1>1, Zenon DEF StoreInv, StoredWhole, SelectionIsStored, Stored
<1>4. excused' \in BOOLEAN /\ Selected'
  <2>1. CASE Save
    <3>1. io' = None /\ saved' = config /\ excused' = (excused /\ io # "select")
      BY <2>1, Zenon DEF Save
    <3>2. io' # "select"
      BY <3>1, StoreAssumption
    <3>3. excused' \in BOOLEAN
      BY <3>1, Zenon
    <3>4. up /\ loadable => excused' \/ model = config.model
      BY <3>1, Zenon DEF StoreInv, Selected
    <3> QED
      BY <1>1, <3>1, <3>2, <3>3, <3>4, Zenon DEF Selected
  <2>2. CASE SaveFails
    <3>1. io' = None /\ excused' = TRUE
      BY <2>2, Zenon DEF SaveFails
    <3>2. io' # "select"
      BY <3>1, StoreAssumption
    <3> QED
      BY <3>1, <3>2, Zenon DEF Selected
  <2>3. CASE SaveOther
    <3>1. io' = io /\ excused' = excused /\ saved' = config
      BY <2>3, Zenon DEF SaveOther, web, history
    <3> QED
      BY <1>1, <3>1, Zenon DEF StoreInv, Selected
  <2> QED
    BY <2>1, <2>2, <2>3
<1> QED
  BY <1>2, <1>3, <1>4, Zenon DEF StoreInv

\* The main thread only lets the tap go.
LEMMA ReleasesKeepModels ==
  ASSUME StoreInv, EndSession \/ ReleaseUnusedWhisper
  PROVE  StoreInv'
<1>1. /\ UNCHANGED <<stored, saved, loadable, io, up, audio, config, model, continuous,
                     requests, excused>>
      /\ session' \in {session, FALSE} /\ enabled' \in {enabled, FALSE}
  BY Zenon DEF EndSession, ReleaseUnusedWhisper, disk, web, history
<1>2. FlagTypes' /\ StreamTypes'
  BY <1>1, Zenon DEF StoreInv, FlagTypes, StreamTypes
<1>3. StoredWhole' /\ SelectionIsStored' /\ Selected'
  BY <1>1, Zenon DEF StoreInv, StoredWhole, SelectionIsStored, Stored, Selected
<1> QED
  BY <1>1, <1>2, <1>3, Zenon DEF StoreInv

\* A boot selects what config.ini names, or is excused.
LEMMA BootKeepsModels ==
  ASSUME WebInv, StoreInv, Boot
  PROVE  StoreInv'
<1>1. /\ ~up /\ up' = TRUE /\ session' = FALSE /\ requests' = requests + 1
      /\ requests < MaxRequests /\ config' = IF loadable THEN saved ELSE NoKeys
      /\ UNCHANGED <<stored, saved, loadable, io>>
  BY Zenon DEF Boot, Begin, disk, web
<1>2. BootFlag \/ (audio' \in BOOLEAN /\ (BootRestore \/ BootNone))
  BY Zenon DEF Boot
<1>3. io' = None /\ io' # "select"
  <2>1. io = None
    BY <1>1 DEF WebInv, Slots
  <2> QED
    BY <1>1, <2>1, StoreAssumption
<1>4. saved \in Keys /\ saved.model \in Models \union {None}
  BY KeysFields DEF StoreInv
<1>5. config' \in Keys /\ (loadable => config' = saved)
  BY <1>1, <1>4, NoKeysAre
<1>6. /\ audio' \in BOOLEAN /\ continuous' \in BOOLEAN /\ enabled' \in BOOLEAN
      /\ excused' \in BOOLEAN
  BY <1>2, Zenon DEF BootFlag, BootRestore, BootNone
<1>7. /\ model' \in Models \union {None, Outside}
      /\ model' \in {None, Outside} \/ (model' = saved.model /\ Stored(saved.model))
      /\ loadable => excused' \/ model' = saved.model
  <2>1. CASE BootFlag
    BY <2>1, Zenon DEF BootFlag
  <2>2. CASE BootRestore
    <3>1. \/ model' = None /\ excused' = TRUE
          \/ model' = saved.model /\ Stored(saved.model)
      BY <2>2, Zenon DEF BootRestore, Restored
    <3> QED
      BY <1>4, <3>1, Zenon
  <2>3. CASE BootNone
    BY <2>3, Zenon DEF BootNone
  <2> QED
    BY <1>2, <2>1, <2>2, <2>3
<1>8. FlagTypes'
  BY <1>1, <1>6, Zenon DEF FlagTypes
<1>9. SelectionIsStored'
  BY <1>1, <1>7, Zenon DEF SelectionIsStored, Stored
<1>10. Selected'
  BY <1>1, <1>3, <1>5, <1>7, Zenon DEF Selected
<1>11. StoredWhole' /\ requests' \in 0 .. MaxRequests
  BY <1>1, StoreAssumption DEF StoreInv, StoredWhole
<1>12. StreamTypes'
  BY <1>5, <1>7 DEF StreamTypes
<1> QED
  BY <1>1, <1>6, <1>8, <1>9, <1>10, <1>11, <1>12, Zenon DEF StoreInv

\* A process that ended has selected nothing.
LEMMA EndKeepsModels == ASSUME StoreInv, ProcessEnds PROVE StoreInv'
<1>1. /\ up' = FALSE /\ audio' = FALSE /\ config' = NoKeys /\ model' = None
      /\ continuous' = FALSE /\ session' = FALSE /\ enabled' = FALSE /\ excused' = FALSE
      /\ UNCHANGED <<stored, saved, loadable, requests>>
  BY Zenon DEF ProcessEnds
<1>2. FlagTypes' /\ StreamTypes'
  BY <1>1, NoKeysAre, Zenon DEF FlagTypes, StreamTypes
<1>3. StoredWhole' /\ SelectionIsStored' /\ Selected'
  BY <1>1, Zenon DEF StoreInv, StoredWhole, SelectionIsStored, Selected
<1> QED
  BY <1>1, <1>2, <1>3, Zenon DEF StoreInv

-----------------------------------------------------------------------------
(* The invariant. *)

\* At first nothing is uploaded or selected, and what is stored are models.
LEMMA InitIInv == Init => IInv
<1> SUFFICES ASSUME Init PROVE IInv
  OBVIOUS
<1>1. PICK held \in [Models -> Loadable \union {None}] :
        stored = [place \in Places |-> IF place = Library \/ held[place] = None THEN None
                                       ELSE Chunks(held[place])]
  BY DEF Init
<1>2. \A place \in Places :
        stored[place] # None =>
          \E body \in Bodies : Length[body] > 0 /\ stored[place] = Chunks(body)
  BY <1>1, StoreAssumption DEF Places
<1>3. stored \in [Places -> File]
  <2>1. ASSUME NEW place \in Places PROVE stored[place] \in File
    BY <1>2, BodyOfChunks DEF File
  <2> QED
    BY <1>1, <2>1
<1>4. /\ parts = [path \in Paths |-> None] /\ saved = NoKeys /\ loadable \in BOOLEAN
      /\ uploads = {} /\ inFlight = 0 /\ counter = 0 /\ io = None
      /\ up = FALSE /\ audio = FALSE /\ config = NoKeys
      /\ model = None /\ continuous = FALSE /\ session = FALSE /\ enabled = FALSE
      /\ requests = 0 /\ begun = 0 /\ leftovers = {} /\ excused = FALSE
  BY Zenon DEF Init
<1>5. /\ 0 \in 0 .. kMaxConcurrentUploads /\ 0 \in 0 .. MaxUploads /\ 0 \in 0 .. MaxRequests
  BY StoreAssumption
<1>6. WebInv
  <2>1. WebTypes /\ parts \in [Paths -> File] /\ begun \in 0 .. MaxUploads
    BY <1>4, <1>5 DEF WebTypes, File
  <2>2. Slots
    BY <1>4, FS_EmptySet DEF Slots
  <2>3. Messages /\ NoStrays
    BY <1>4 DEF Messages, Distinct, NoStrays
  <2> QED
    BY <1>4, <2>1, <2>2, <2>3 DEF WebInv
<1>7. StoreInv
  <2>1. FlagTypes /\ StreamTypes /\ SelectionIsStored /\ Selected
    BY <1>4, NoKeysAre, Zenon DEF FlagTypes, StreamTypes, SelectionIsStored, Selected
  <2>2. StoredWhole
    BY <1>2 DEF StoredWhole
  <2> QED
    BY <1>3, <1>4, <1>5, <2>1, <2>2, NoKeysAre, Zenon DEF StoreInv
<1> QED
  BY <1>6, <1>7, Parts

\* Every step keeps what is known of messages, slots and files.
LEMMA NextWebInv == ASSUME IInv, Next PROVE WebInv'
<1>1. WebInv /\ TypeOK
  BY Parts DEF IInv
<1>2. ASSUME NEW place \in Places, NEW body \in Bodies, BeginUpload(place, body) PROVE WebInv'
  BY <1>1, <1>2, BeginUploadKeeps
<1>3. ASSUME NEW u \in uploads,
             \/ Stage(u) \/ StageFails(u) \/ GotChunk(u) \/ Complete(u) \/ CloseFails(u)
             \/ Install(u) \/ InstallFails(u) \/ HandOver(u) \/ MessageEnds(u)
      PROVE  WebInv'
  BY <1>1, <1>3, StageKeeps, StageFailsKeeps, GotChunkKeeps, CompleteKeeps, CloseFailsKeeps,
     InstallKeeps, InstallFailsKeeps, HandOverKeeps, MessageEndsKeeps
<1>4. ASSUME Hooks \/ EndSession \/ ReleaseUnusedWhisper PROVE WebInv'
  <2>1. /\ UNCHANGED <<uploads, inFlight, counter, parts, begun, leftovers, up>>
        /\ \/ io' = io
           \/ up /\ io = None /\ io' \in {"save", "select"}
           \/ io \in {"save", "select"} /\ io' = None
    <3>1. ASSUME NEW on \in BOOLEAN \union {None}, NEW name \in Models \union {None},
                 PutState(on, name)
          PROVE  <2>1!1 /\ <2>1!2
      BY <3>1 DEF PutState, Free, Begin, Keep, disk
    <3>2. ASSUME NEW name \in Models \union {None}, StartSubtitleSync(name)
          PROVE  <2>1!1 /\ <2>1!2
      BY <3>2 DEF StartSubtitleSync, Begin, disk, web
    <3>3. ASSUME NEW name \in Models, RemoveModel(name) PROVE <2>1!1 /\ <2>1!2
      BY <3>3 DEF RemoveModel, Free, Begin, Deselect, Keep
    <3>4. ASSUME Save \/ SaveFails \/ SaveOther PROVE <2>1!1 /\ <2>1!2
      BY <3>4 DEF Save, SaveFails, SaveOther, disk, web, process, history
    <3>5. ASSUME EndSession \/ ReleaseUnusedWhisper PROVE <2>1!1 /\ <2>1!2
      BY <3>5 DEF EndSession, ReleaseUnusedWhisper, disk, web, history
    <3> QED
      BY <1>4, <3>1, <3>2, <3>3, <3>4, <3>5 DEF Hooks
  <2>2. io # "upload" \/ io' = io
    BY <2>1, StoreAssumption
  <2>3. WebInv => (io # None => up)
    BY DEF WebInv, Slots
  <2> QED
    BY <1>1, <2>1, <2>2, <2>3, QuietKeeps
<1>5. ASSUME Boot PROVE WebInv'
  BY <1>1, <1>5, BootKeeps
<1>6. ASSUME ProcessEnds PROVE WebInv'
  BY <1>1, <1>6, ProcessEndsKeeps
<1> QED
  BY <1>2, <1>3, <1>4, <1>5, <1>6 DEF Next, Uploading

\* A step of the uploads, unless it installs, touches no model.
LEMMA UploadingIsQuiet ==
  ASSUME Uploading, requests \in 0 .. MaxRequests, \A u \in uploads : ~Installs(u)
  PROVE  /\ UNCHANGED <<stored, saved, loadable, process, excused>>
         /\ io \in {None, "upload"} /\ io' \in {None, "upload"}
         /\ requests' \in 0 .. MaxRequests
<1>1. ASSUME NEW place \in Places, NEW body \in Bodies, BeginUpload(place, body)
      PROVE  /\ UNCHANGED <<stored, saved, loadable, process, excused>>
             /\ io \in {None, "upload"} /\ io' \in {None, "upload"}
             /\ requests' \in 0 .. MaxRequests
  <2>1. /\ UNCHANGED <<stored, saved, loadable, process, excused>>
        /\ io = None /\ io' = "upload" /\ requests < MaxRequests /\ requests' = requests + 1
    BY <1>1, Zenon DEF BeginUpload, Free, disk
  <2>2. requests' \in 0 .. MaxRequests
    BY <2>1, StoreAssumption
  <2> QED
    BY <2>1, <2>2, Zenon
<1>2. ASSUME NEW u \in uploads,
             \/ Stage(u) \/ StageFails(u) \/ GotChunk(u) \/ Complete(u) \/ CloseFails(u)
             \/ Install(u) \/ InstallFails(u) \/ HandOver(u) \/ MessageEnds(u)
      PROVE  /\ UNCHANGED <<stored, saved, loadable, process, excused, requests>>
             /\ io \in {None, "upload"} /\ io' \in {None, "upload"}
  <2>1. CASE Stage(u) \/ StageFails(u) \/ InstallFails(u)
    BY <2>1, Zenon DEF Stage, StageFails, InstallFails, disk, history
  <2>2. CASE GotChunk(u) \/ CloseFails(u) \/ MessageEnds(u)
    BY <2>2, Zenon DEF GotChunk, CloseFails, MessageEnds, Received, Free, history
  <2>3. CASE Complete(u)
    BY <2>3, Zenon DEF Complete, Received, Free, disk, history
  <2>4. CASE HandOver(u)
    <3>1. UNCHANGED stored
      BY <2>4, HandOverInstalls
    <3> QED
      BY <2>4, <3>1, Zenon DEF HandOver, history
  <2> QED
    BY <1>2, <2>1, <2>2, <2>3, <2>4, InstallInstalls
<1> QED
  BY <1>1, <1>2, Zenon DEF Uploading

\* Every step keeps what is known of models and selections.
LEMMA NextStoreInv == ASSUME IInv, Next PROVE StoreInv'
<1>1. WebInv /\ StoreInv
  BY Parts
<1>2. ASSUME Uploading PROVE StoreInv'
  <2>1. CASE \E u \in uploads : Installs(u)
    BY <1>1, <2>1, InstallKeepsModels
  <2>2. CASE \A u \in uploads : ~Installs(u)
    <3>1. requests \in 0 .. MaxRequests
      BY <1>1 DEF StoreInv
    <3> QED
      BY <1>1, <1>2, <2>2, <3>1, UploadingIsQuiet, UploadsKeepModels
  <2> QED
    BY <2>1, <2>2
<1>3. ASSUME Hooks PROVE StoreInv'
  BY <1>1, <1>3, PutStateKeepsModels, StartSyncKeepsModels, RemoveKeepsModels,
     SavesKeepModels DEF Hooks
<1>4. ASSUME EndSession \/ ReleaseUnusedWhisper PROVE StoreInv'
  BY <1>1, <1>4, ReleasesKeepModels
<1>5. ASSUME Boot PROVE StoreInv'
  BY <1>1, <1>5, BootKeepsModels
<1>6. ASSUME ProcessEnds PROVE StoreInv'
  BY <1>1, <1>6, EndKeepsModels
<1> QED
  BY <1>2, <1>3, <1>4, <1>5, <1>6 DEF Next

\* A step that changes nothing keeps all of it.
LEMMA StutterIInv == ASSUME IInv, UNCHANGED vars PROVE IInv'
<1>1. UNCHANGED <<stored, parts, saved, loadable, uploads, inFlight, counter, io, up, audio,
                  config, model, continuous, session, enabled, requests, begun, leftovers,
                  excused>>
  BY Zenon DEF vars, disk, web, process, stream, history
<1>2. WebInv'
  BY <1>1, Parts, QuietKeeps
<1>3. StoreInv'
  <2>1. FlagTypes' /\ StreamTypes' /\ StoredWhole' /\ SelectionIsStored' /\ Selected'
    BY <1>1, Parts, Zenon DEF StoreInv, FlagTypes, StreamTypes, StoredWhole,
       SelectionIsStored, Stored, Selected
  <2> QED
    BY <1>1, <2>1, Parts, Zenon DEF StoreInv
<1> QED
  <2>1. (WebInv /\ StoreInv)'
    BY <1>2, <1>3
  <2>2. (WebInv /\ StoreInv)' => IInv'
    BY Zenon DEF IInv, TypeOK, DiskTypes, HistoryTypes, FlagTypes, WebInv, StoreInv
  <2> QED
    BY <2>1, <2>2

\* The whole of it is inductive.
LEMMA NextIInv == IInv /\ [Next]_vars => IInv'
<1> SUFFICES ASSUME IInv, [Next]_vars PROVE IInv'
  OBVIOUS
<1>1. CASE Next
  <2>1. WebInv' /\ StoreInv'
    BY <1>1, NextWebInv, NextStoreInv
  <2> QED
    BY <2>1, Zenon DEF IInv, TypeOK, DiskTypes, HistoryTypes, FlagTypes, WebInv, StoreInv
<1>2. CASE UNCHANGED vars
  BY <1>2, StutterIInv
<1> QED
  BY <1>1, <1>2

\* In every state each message has its slot and its file, what it wrote is the
\* body so far, and stream, config and config.ini agree on the model.
THEOREM Invariance == Spec => []IInv
BY InitIInv, NextIInv, PTL DEF Spec

\* Every variable stays within its type, and the uploads within their limit.
THEOREM TypeCorrect == Spec => []TypeOK
<1>1. IInv => TypeOK
  BY DEF IInv
<1> QED
  BY <1>1, Invariance, PTL

\* No failure on the way of an upload keeps its slot or loses track of its file
\* (BeginStagedUpload, DeleteStagedUpload, ~StagedUpload).
THEOREM LeakSound == Spec => []NothingLeaks
<1>1. IInv => NothingLeaks
  BY StoreAssumption DEF IInv, TypeOK, WebTypes, Slots, NoStrays, NothingLeaks
<1> QED
  BY <1>1, Invariance, PTL

\* The model the tap runs or reports has its file (HandleModelRemove).
THEOREM StoredSound == Spec => []SelectionIsStored
<1>1. IInv => SelectionIsStored
  BY DEF IInv
<1> QED
  BY <1>1, Invariance, PTL

\* The model that is reported is the one the next boot finds, unless a reason
\* not to is on record (hooks.whisper_state_set, whisper_model_clear, boot).
THEOREM PersistedSound == Spec => []SelectionIsPersisted
<1>1. IInv => SelectionIsPersisted
  BY Zenon DEF IInv, Selected, SelectionIsPersisted
<1> QED
  BY <1>1, Invariance, PTL

-----------------------------------------------------------------------------
(* The contract. *)

\* What the contract's variable stands for.
Holds == [place \in Places |->
            IF stored[place] = None THEN None ELSE BodyOf(stored[place])]

\* Each place holds a body or nothing.
LEMMA HoldsBodies == ASSUME StoreInv
  PROVE  Holds \in [Places -> Bodies \union {None}]
<1>1. ASSUME NEW place \in Places, stored[place] # None PROVE BodyOf(stored[place]) \in Bodies
  <2>1. PICK body \in Bodies : Length[body] > 0 /\ stored[place] = Chunks(body)
    BY <1>1 DEF StoreInv, StoredWhole
  <2> QED
    BY <2>1, BodyOfChunks
<1> QED
  BY <1>1 DEF Holds

\* Only an upload that is installed, and a removal, touch what is stored.
LEMMA StoredChanges ==
  ASSUME [Next]_vars, \A u \in uploads : ~Installs(u),
         \A name \in Models : ~RemoveModel(name)
  PROVE  UNCHANGED stored
<1>1. ASSUME Uploading PROVE UNCHANGED stored
  <2>1. ASSUME NEW place \in Places, NEW body \in Bodies, BeginUpload(place, body)
        PROVE  UNCHANGED stored
    BY <2>1, Zenon DEF BeginUpload, disk
  <2>2. ASSUME NEW u \in uploads,
               \/ Stage(u) \/ StageFails(u) \/ GotChunk(u) \/ Complete(u) \/ CloseFails(u)
               \/ Install(u) \/ InstallFails(u) \/ HandOver(u) \/ MessageEnds(u)
        PROVE  UNCHANGED stored
    <3>1. ~Install(u) /\ (HandOver(u) => UNCHANGED stored)
      BY InstallInstalls, HandOverInstalls
    <3> QED
      BY <2>2, <3>1, Zenon DEF Stage, StageFails, GotChunk, Complete, CloseFails,
         InstallFails, MessageEnds, disk
  <2> QED
    BY <1>1, <2>1, <2>2, Zenon DEF Uploading
<1>2. ASSUME Hooks PROVE UNCHANGED stored
  BY <1>2, Zenon DEF Hooks, PutState, StartSubtitleSync, Save, SaveFails, SaveOther, disk
<1>3. ASSUME EndSession \/ ReleaseUnusedWhisper \/ Boot \/ ProcessEnds PROVE UNCHANGED stored
  BY <1>3, Zenon DEF EndSession, ReleaseUnusedWhisper, Boot, ProcessEnds, disk
<1>4. ASSUME UNCHANGED vars PROVE UNCHANGED stored
  BY <1>4, Zenon DEF vars, disk
<1> QED
  BY <1>1, <1>2, <1>3, <1>4, Zenon DEF Next

\* A body takes a place whole.
LEMMA InstallIsChange ==
  ASSUME WebInv, StoreInv, NEW u \in uploads, Installs(u)
  PROVE  \E place \in Places :
           /\ \A other \in Places \ {place} : Holds'[other] = Holds[other]
           /\ Holds'[place] # None => Accepted(place, Holds'[place])
<1>1. /\ u.place \in Places /\ u.body \in Bodies
      /\ Length[u.body] \in 1 .. Limit[u.place]
      /\ stored' = [stored EXCEPT ![u.place] = Chunks(u.body)]
  BY InstallsBody
<1>2. Length[u.body] > 0
  BY <1>1, StoreAssumption
<1>3. BodyOf(Chunks(u.body)) = u.body /\ Chunks(u.body) # None
  BY <1>1, <1>2, BodyOfChunks
<1>4. stored'[u.place] = Chunks(u.body)
  BY <1>1 DEF StoreInv
<1>5. \A other \in Places \ {u.place} : stored'[other] = stored[other]
  BY <1>1 DEF StoreInv
<1>6. Holds'[u.place] = u.body
  BY <1>1, <1>3, <1>4 DEF Holds, BodyOf
<1>7. \A other \in Places \ {u.place} : Holds'[other] = Holds[other]
  BY <1>5 DEF Holds, BodyOf
<1>8. Accepted(u.place, Holds'[u.place])
  BY <1>1, <1>6 DEF Accepted
<1> QED
  BY <1>1, <1>7, <1>8

\* A removal empties one place.
LEMMA RemovalIsChange ==
  ASSUME StoreInv, NEW name \in Models, RemoveModel(name)
  PROVE  \E place \in Places :
           /\ \A other \in Places \ {place} : Holds'[other] = Holds[other]
           /\ Holds'[place] # None => Accepted(place, Holds'[place])
<1>1. name \in Places /\ stored' = [stored EXCEPT ![name] = None]
  BY Zenon DEF RemoveModel, Places
<1>2. /\ stored'[name] = None
      /\ \A other \in Places \ {name} : stored'[other] = stored[other]
  BY <1>1 DEF StoreInv
<1>3. Holds'[name] = None
  BY <1>1, <1>2 DEF Holds
<1>4. \A other \in Places \ {name} : Holds'[other] = Holds[other]
  BY <1>2 DEF Holds, BodyOf
<1> QED
  BY <1>1, <1>3, <1>4

\* Every step of the store is a step of the contract, or leaves what it sees.
LEMMA StepIsContracted ==
  ASSUME IInv, [Next]_vars, Holds' \in [Places -> Bodies \union {None}]
  PROVE  [Store!Next]_Holds
<1>1. WebInv /\ StoreInv
  BY Parts
<1>2. CASE /\ \A u \in uploads : ~Installs(u)
           /\ \A name \in Models : ~RemoveModel(name)
  <2>1. UNCHANGED stored
    BY <1>2, StoredChanges
  <2> QED
    BY <2>1 DEF Holds, BodyOf
<1>3. CASE \/ \E u \in uploads : Installs(u)
           \/ \E name \in Models : RemoveModel(name)
  <2>1. \E place \in Places :
           /\ \A other \in Places \ {place} : Holds'[other] = Holds[other]
           /\ Holds'[place] # None => Accepted(place, Holds'[place])
    BY <1>1, <1>3, InstallIsChange, RemovalIsChange
  <2>2. Store!Next
    BY <2>1, Zenon DEF Holds, Store!Next, Store!Change
  <2> QED
    BY <2>2
<1> QED
  BY <1>2, <1>3

\* Uploads and removals, with all that may go wrong on the way, implement the
\* contract: a body takes its place whole or not at all (HandleModelStore,
\* HandleSubtitleUpload and the hook it hands to, RemoveWhisperModel).
THEOREM ContractSound == Spec => ImplementsContract
<1>1. IInv => Holds \in [Places -> Bodies \union {None}]
  BY Parts, HoldsBodies
<1>2. Init => Store!Init
  BY <1>1, InitIInv DEF Holds, Store!Init
<1>3. IInv /\ [Next]_vars /\ (Holds \in [Places -> Bodies \union {None}])'
        => [Store!Next]_Holds
  BY StepIsContracted
<1> QED
  BY <1>1, <1>2, <1>3, Invariance, PTL DEF Spec, ImplementsContract, Store!Spec, Holds
===============================================================================
