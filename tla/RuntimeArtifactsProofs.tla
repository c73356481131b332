------------------------ MODULE RuntimeArtifactsProofs ------------------------
(***************************************************************************)
(* Theorems of RuntimeArtifacts: what a generation that can be seen is,    *)
(* for any number of writers and of contents that they render, after any   *)
(* crashes and power failures.                                             *)
(*                                                                         *)
(* The argument.  A writer publishes only a staging directory in which     *)
(* both files are fsynced and hold what writes of one content leave        *)
(* (StagingOK); a rename does not replace a directory that is not empty.   *)
(* So the published directory is empty or such a one (GenerationOK), and a *)
(* power failure leaves it as it is or takes its entry away.  Who uses it  *)
(* has compared it with its own content, or has published it (UserOK).     *)
(* All of this holds with short writes, too; that what writes leave is the *)
(* content itself needs writes that are not short.                         *)
(***************************************************************************)
EXTENDS RuntimeArtifacts, TLAPS

\* The file is there, and holds what a write of c leaves.
Holds(file, c) == file \in FileStates /\ file.content \in Leaves(c)

\* A directory d with both files rendered from c, all of it on disk.
OnDisk(d, c) ==
    d \in Directories /\ \A f \in Files : Holds(d[f], c) /\ d[f].synced = TRUE

GenerationOK == generation = NoDirectory \/ \E c \in Contents : OnDisk(generation, c)

\* The staging directory of a writer k.
StagingOK(k) ==
    /\ k.pc \in {"idle", "lookup", "compose", "syncParent", "using"} =>
           k.staging = NoDirectory
    /\ k.pc \in {"syncCompose", "env", "syncEnv", "publish"} =>
           Holds(k.staging["compose.yaml"], k.content)
    /\ k.pc \in {"env", "syncEnv", "publish"} => k.staging["compose.yaml"].synced = TRUE
    /\ k.pc \in {"syncEnv", "publish"} => Holds(k.staging[".env"], k.content)
    /\ k.pc = "publish" => k.staging[".env"].synced = TRUE
    /\ k.pc # "cleanup"

UserOK(k) == k.pc \in {"syncParent", "using"} => OnDisk(generation, k.content)

WriterOK(k) ==
    /\ k \in WriterStates
    /\ k.pc # "idle" => k.content \in Contents
    /\ StagingOK(k) /\ UserOK(k)

WritersOK ==
    /\ writer = [w \in Writers |-> writer[w]]
    /\ \A w \in Writers : WriterOK(writer[w])

IInv == GenerationOK /\ linked \in BOOLEAN /\ WritersOK

-----------------------------------------------------------------------------
(* Directories. *)

LEMMA DirectoriesTyped ==
    /\ NoDirectory \in Directories
    /\ \A d, c : OnDisk(d, c) => d # NoDirectory
<1>1. NoDirectory \in Directories
  BY DEF NoDirectory, Directories, FileStates, NoFile
<1>2. NoDirectory["compose.yaml"].synced = FALSE
  BY DEF NoDirectory, Files, NoFile
<1>3. \A d, c : OnDisk(d, c) => d["compose.yaml"].synced = TRUE
  BY DEF OnDisk, Files
<1> QED BY <1>1, <1>2, <1>3

\* What a write leaves, and that an fsync keeps it.
LEMMA FilesHold ==
    ASSUME NEW c \in Contents
    PROVE  /\ \A left \in Leaves(c) : Holds(Written(left), c)
           /\ \A file : Holds(file, c) => /\ Holds([file EXCEPT !.synced = TRUE], c)
                                         /\ [file EXCEPT !.synced = TRUE].synced = TRUE
<1>1. \A left \in Leaves(c) : left \in Contents \cup {Absent, Torn}
  BY DEF Leaves
<1> QED BY <1>1 DEF Holds, FileStates, Written

LEMMA RestingOK == WriterOK(Resting)
  BY DirectoriesTyped
     DEF WriterOK, StagingOK, UserOK, Resting, WriterStates, Pcs, Outcomes

\* A generation that is made or stays does not disturb a writer.
LEMMA KeptWriter ==
    ASSUME NEW k, WriterOK(k), generation' = generation \/ generation = NoDirectory
    PROVE  WriterOK(k)'
<1>1. k.pc \in {"syncParent", "using"} => OnDisk(generation, k.content) /\ generation # NoDirectory
  BY DirectoriesTyped DEF WriterOK, UserOK
<1>2. UserOK(k)'
  BY <1>1 DEF UserOK
<1> QED BY <1>2 DEF WriterOK, StagingOK

\* Writer w is at k now, and the others are where they were.
LEMMA Moves ==
    ASSUME IInv, NEW w \in Writers, NEW k, writer' = [writer EXCEPT ![w] = k],
           WriterOK(k)',
           generation' = generation \/ generation = NoDirectory
    PROVE  WritersOK'
<1>1. writer' = [v \in Writers |-> writer'[v]] /\ writer'[w] = k
      /\ \A v \in Writers \ {w} : writer'[v] = writer[v]
  BY DEF IInv, WritersOK
<1>2. \A v \in Writers \ {w} : WriterOK(writer[v])
  BY DEF IInv, WritersOK
<1> QED BY <1>1, <1>2, KeptWriter DEF WritersOK

\* Where a writer is, and that it stays well-formed as long as the generation does.
LEMMA WriterAt ==
    ASSUME IInv, NEW w \in Writers
    PROVE  \E k : /\ k = writer[w] /\ WriterOK(k)
                  /\ UNCHANGED generation => WriterOK(k)'
<1>1. PICK k : k = writer[w]
  OBVIOUS
<1>2. WriterOK(k)
  BY <1>1 DEF IInv, WritersOK
<1> QED BY <1>1, <1>2, KeptWriter

-----------------------------------------------------------------------------
(* The steps. *)

LEMMA StillThere ==
    ASSUME IInv, UNCHANGED <<generation, linked>>, WritersOK'
    PROVE  IInv'
  BY DEF IInv, GenerationOK

\* A writer rests again: it has finished, or its process has died.
LEMMA RestKeeps ==
    ASSUME IInv, NEW w \in Writers, Finish(w) \/ Crash(w)
    PROVE  IInv'
<1>1. WriterOK(Resting)'
  BY RestingOK, DirectoriesTyped DEF WriterOK, StagingOK, UserOK, Resting
<1> QED BY <1>1, Moves, StillThere DEF Finish, Crash

LEMMA RenderKeeps ==
    ASSUME IInv, NEW w \in Writers, Render(w)
    PROVE  IInv'
<1>1. PICK c \in Contents :
          writer' = [writer EXCEPT ![w] = [Resting EXCEPT !.pc = "lookup", !.content = c]]
  BY DEF Render
<1>2. UNCHANGED <<generation, linked>>
  BY DEF Render
<1>3. PICK k : k = [Resting EXCEPT !.pc = "lookup", !.content = c]
  OBVIOUS
<1>4. WriterOK(k)'
  BY <1>3, RestingOK DEF WriterOK, StagingOK, UserOK, Resting, WriterStates, Pcs
<1> QED BY <1>1, <1>2, <1>3, <1>4, Moves, StillThere

LEMMA EndKeeps ==
    ASSUME IInv, NEW w \in Writers, Verify(w) \/ Fails(w)
    PROVE  IInv'
<1>1. PICK k : k = writer[w] /\ WriterOK(k)
  BY WriterAt
<1>2. UNCHANGED <<generation, linked>>
  BY DEF Verify, Fails
<1>3. \A outcome \in Outcomes : WriterOK([k EXCEPT !.pc = "idle", !.outcome = outcome, !.staging = NoDirectory])'
  BY <1>1, DirectoriesTyped DEF WriterOK, WriterStates, StagingOK, UserOK, Pcs
<1>4. CASE End(w, "idle", "failed") \/ End(w, "idle", "different")
  <2>1. PICK outcome \in Outcomes : End(w, "idle", outcome)
    BY <1>4 DEF Outcomes
  <2>2. writer' = [writer EXCEPT ![w] =
                      [k EXCEPT !.pc = "idle", !.outcome = outcome, !.staging = NoDirectory]]
    BY <1>1, <2>1 DEF End
  <2> QED BY <1>2, <1>3, <2>2, Moves, StillThere
<1>5. CASE /\ \A f \in Files : generation[f].content = writer[w].content
           /\ writer[w].pc = "verify" /\ End(w, "using", "rendered")
  <2>1. k.content \in Contents
    BY <1>1, <1>5 DEF WriterOK
  <2>2. OnDisk(generation, k.content)
    <3>1. generation # NoDirectory
      BY <1>1, <1>5, <2>1, NotContents DEF NoDirectory, NoFile, Files
    <3>2. PICK c \in Contents : OnDisk(generation, c)
      BY <3>1 DEF IInv, GenerationOK
    <3>3. \A f \in Files : generation[f].content \in Leaves(k.content)
      BY <1>1, <1>5 DEF Leaves
    <3> QED BY <3>2, <3>3 DEF OnDisk, Holds
  <2>3. WriterOK([k EXCEPT !.pc = "using", !.outcome = "rendered", !.staging = NoDirectory])'
    BY <1>1, <1>2, <2>1, <2>2, DirectoriesTyped
       DEF WriterOK, WriterStates, StagingOK, UserOK, Pcs, Outcomes
  <2> QED BY <1>1, <1>2, <1>5, <2>3, Moves, StillThere DEF End
<1> QED BY <1>4, <1>5 DEF Verify, Fails, At

LEMMA LookupKeeps ==
    ASSUME IInv, NEW w \in Writers, Lookup(w)
    PROVE  IInv'
<1>1. PICK k : k = writer[w] /\ WriterOK(k)
  BY WriterAt
<1>2. UNCHANGED <<generation, linked>> /\ k.pc = "lookup"
  BY <1>1 DEF Lookup, At
<1>3. PICK pc \in {"verify", "compose"} : GoTo(w, pc)
  BY DEF Lookup
<1>4. WriterOK([k EXCEPT !.pc = pc])'
  BY <1>1, <1>2 DEF WriterOK, WriterStates, StagingOK, UserOK, Pcs
<1> QED BY <1>1, <1>2, <1>3, <1>4, Moves, StillThere DEF GoTo

\* Writer w, which is at k, has this staging directory now and goes on.
LEMMA FileKeeps ==
    ASSUME IInv, NEW w \in Writers, NEW k, k = writer[w], NEW staging, NEW pc,
           writer' = [writer EXCEPT ![w] = [k EXCEPT !.pc = pc, !.staging = staging]],
           UNCHANGED <<generation, linked>>, k.content \in Contents,
           pc \in Pcs \ {"idle", "lookup", "verify", "compose", "syncParent", "using", "cleanup"},
           staging \in Directories,
           StagingOK([k EXCEPT !.pc = pc, !.staging = staging])
    PROVE  IInv'
<1>1. WriterOK(k)
  BY WriterAt
<1>2. WriterOK([k EXCEPT !.pc = pc, !.staging = staging])'
  BY <1>1 DEF WriterOK, WriterStates, StagingOK, UserOK
<1> QED BY <1>2, Moves, StillThere

LEMMA WriteFileKeeps ==
    ASSUME IInv, NEW w \in Writers,
           \/ WriteFile(w, "compose", "compose.yaml", "syncCompose")
           \/ WriteFile(w, "env", ".env", "syncEnv")
    PROVE  IInv'
<1>1. PICK k : k = writer[w] /\ WriterOK(k)
  BY WriterAt
<1>2. UNCHANGED <<generation, linked>> /\ k.pc \in {"compose", "env"}
  BY <1>1 DEF WriteFile, At
<1>3. k.content \in Contents /\ k \in WriterStates /\ k.staging \in Directories /\ StagingOK(k)
  BY <1>1, <1>2 DEF WriterOK, WriterStates
<1>4. ASSUME NEW file \in Files, NEW left \in Leaves(k.content),
             NEW staging, staging = [k.staging EXCEPT ![file] = Written(left)]
      PROVE  /\ staging \in Directories /\ Holds(staging[file], k.content)
             /\ \A f \in Files \ {file} : staging[f] = k.staging[f]
  BY <1>3, <1>4, FilesHold DEF Directories, Holds
<1>5. CASE WriteFile(w, "compose", "compose.yaml", "syncCompose")
  <2>1. PICK left \in Leaves(k.content) :
            writer' = [writer EXCEPT ![w].pc = "syncCompose",
                                     ![w].staging["compose.yaml"] = Written(left)]
    BY <1>1, <1>5 DEF WriteFile
  <2>2. PICK staging : staging = [k.staging EXCEPT !["compose.yaml"] = Written(left)]
    OBVIOUS
  <2>3. writer' = [writer EXCEPT ![w] = [k EXCEPT !.pc = "syncCompose", !.staging = staging]]
    BY <1>1, <2>1, <2>2
  <2>4. StagingOK([k EXCEPT !.pc = "syncCompose", !.staging = staging])
    BY <1>3, <1>4, <2>2 DEF StagingOK, WriterStates, Files
  <2>5. staging \in Directories
    BY <1>4, <2>2 DEF Files
  <2> QED BY <1>1, <1>2, <1>3, <2>3, <2>4, <2>5, FileKeeps DEF Pcs
<1>6. CASE WriteFile(w, "env", ".env", "syncEnv")
  <2>1. PICK left \in Leaves(k.content) :
            writer' = [writer EXCEPT ![w].pc = "syncEnv", ![w].staging[".env"] = Written(left)]
    BY <1>1, <1>6 DEF WriteFile
  <2>2. PICK staging : staging = [k.staging EXCEPT ![".env"] = Written(left)]
    OBVIOUS
  <2>3. writer' = [writer EXCEPT ![w] = [k EXCEPT !.pc = "syncEnv", !.staging = staging]]
    BY <1>1, <2>1, <2>2
  <2>4. k.pc = "env"
    BY <1>1, <1>6 DEF WriteFile, At
  <2>5. StagingOK([k EXCEPT !.pc = "syncEnv", !.staging = staging])
    <3>1. Holds(staging[".env"], k.content) /\ staging["compose.yaml"] = k.staging["compose.yaml"]
      BY <1>4, <2>2 DEF Files
    <3> QED BY <1>3, <2>4, <3>1 DEF StagingOK, WriterStates
  <2>6. staging \in Directories
    BY <1>4, <2>2 DEF Files
  <2> QED BY <1>1, <1>2, <1>3, <2>3, <2>5, <2>6, FileKeeps DEF Pcs
<1> QED BY <1>5, <1>6

LEMMA SyncFileKeeps ==
    ASSUME IInv, NEW w \in Writers,
           \/ SyncFile(w, "syncCompose", "compose.yaml", "env")
           \/ SyncFile(w, "syncEnv", ".env", "publish")
    PROVE  IInv'
<1>1. PICK k : k = writer[w] /\ WriterOK(k)
  BY WriterAt
<1>2. UNCHANGED <<generation, linked>> /\ k.pc \in {"syncCompose", "syncEnv"}
  BY <1>1 DEF SyncFile, At
<1>3. k.content \in Contents /\ k \in WriterStates /\ k.staging \in Directories /\ StagingOK(k)
  BY <1>1, <1>2 DEF WriterOK, WriterStates
<1>4. ASSUME NEW file \in Files, Holds(k.staging[file], k.content),
             NEW staging, staging = [k.staging EXCEPT ![file] = [k.staging[file] EXCEPT !.synced = TRUE]]
      PROVE  /\ staging \in Directories
             /\ Holds(staging[file], k.content) /\ staging[file].synced = TRUE
             /\ \A f \in Files \ {file} : staging[f] = k.staging[f]
  BY <1>3, <1>4, FilesHold DEF Directories, Holds
<1>5. CASE SyncFile(w, "syncCompose", "compose.yaml", "env")
  <2>1. PICK staging :
            staging = [k.staging EXCEPT !["compose.yaml"] = [k.staging["compose.yaml"] EXCEPT !.synced = TRUE]]
    OBVIOUS
  <2>2. writer' = [writer EXCEPT ![w] = [k EXCEPT !.pc = "env", !.staging = staging]]
    <3>1. PICK file : file = [k.staging["compose.yaml"] EXCEPT !.synced = TRUE]
      OBVIOUS
    <3>2. writer' = [writer EXCEPT ![w].pc = "env", ![w].staging["compose.yaml"] = file]
      BY <1>1, <1>5, <3>1 DEF SyncFile
    <3> QED BY <1>1, <2>1, <3>1, <3>2
  <2>3. Holds(k.staging["compose.yaml"], k.content)
    BY <1>1, <1>3, <1>5 DEF SyncFile, At, StagingOK
  <2>4. staging \in Directories /\ StagingOK([k EXCEPT !.pc = "env", !.staging = staging])
    BY <1>3, <1>4, <2>1, <2>3 DEF StagingOK, WriterStates, Files
  <2> QED BY <1>1, <1>2, <1>3, <2>2, <2>4, FileKeeps DEF Pcs
<1>6. CASE SyncFile(w, "syncEnv", ".env", "publish")
  <2>1. PICK staging : staging = [k.staging EXCEPT ![".env"] = [k.staging[".env"] EXCEPT !.synced = TRUE]]
    OBVIOUS
  <2>2. writer' = [writer EXCEPT ![w] = [k EXCEPT !.pc = "publish", !.staging = staging]]
    <3>1. PICK file : file = [k.staging[".env"] EXCEPT !.synced = TRUE]
      OBVIOUS
    <3>2. writer' = [writer EXCEPT ![w].pc = "publish", ![w].staging[".env"] = file]
      BY <1>1, <1>6, <3>1 DEF SyncFile
    <3> QED BY <1>1, <2>1, <3>1, <3>2
  <2>3. k.pc = "syncEnv" /\ Holds(k.staging[".env"], k.content)
    BY <1>1, <1>3, <1>6 DEF SyncFile, At, StagingOK
  <2>4. staging \in Directories /\ StagingOK([k EXCEPT !.pc = "publish", !.staging = staging])
    <3>1. /\ staging \in Directories
          /\ Holds(staging[".env"], k.content) /\ staging[".env"].synced = TRUE
          /\ staging["compose.yaml"] = k.staging["compose.yaml"]
      BY <1>4, <2>1, <2>3 DEF Files
    <3> QED BY <1>3, <2>3, <3>1 DEF StagingOK, WriterStates
  <2> QED BY <1>1, <1>2, <1>3, <2>2, <2>4, FileKeeps DEF Pcs
<1> QED BY <1>5, <1>6

LEMMA PublishKeeps ==
    ASSUME IInv, NEW w \in Writers, Publish(w)
    PROVE  IInv'
<1>1. PICK k : k = writer[w] /\ WriterOK(k)
  BY WriterAt
<1>2. k.pc = "publish" /\ k.content \in Contents /\ k.staging \in Directories /\ StagingOK(k)
  BY <1>1 DEF Publish, At, WriterOK, WriterStates
<1>3. OnDisk(k.staging, k.content)
  BY <1>2 DEF StagingOK, OnDisk, Files
<1>4. generation' = k.staging /\ linked' = FALSE /\ generation = NoDirectory
  BY <1>1 DEF Publish, Published
<1>5. WriterOK([k EXCEPT !.pc = "syncParent", !.staging = NoDirectory])'
  BY <1>1, <1>2, <1>3, <1>4, DirectoriesTyped DEF WriterOK, WriterStates, StagingOK, UserOK, Pcs, OnDisk
<1>6. writer' = [writer EXCEPT ![w] = [k EXCEPT !.pc = "syncParent", !.staging = NoDirectory]]
  BY <1>1 DEF Publish
<1>7. WritersOK'
  BY <1>4, <1>5, <1>6, Moves
<1> QED BY <1>2, <1>3, <1>4, <1>7 DEF IInv, GenerationOK

LEMMA PublishRefusedKeeps ==
    ASSUME IInv, NEW w \in Writers, PublishRefused(w)
    PROVE  IInv'
<1>1. PICK k : k = writer[w] /\ WriterOK(k)
  BY WriterAt
<1>2. k.pc = "publish" /\ UNCHANGED <<generation, linked>>
  BY <1>1 DEF PublishRefused, At
<1>3. CASE GoTo(w, "verify")
  <2>1. WriterOK([k EXCEPT !.pc = "verify"])'
    BY <1>1, <1>2 DEF WriterOK, WriterStates, StagingOK, UserOK, Pcs
  <2> QED BY <1>1, <1>2, <1>3, <2>1, Moves, StillThere DEF GoTo
<1>4. CASE End(w, "idle", "exists")
  <2>1. WriterOK([k EXCEPT !.pc = "idle", !.outcome = "exists", !.staging = NoDirectory])'
    BY <1>1, DirectoriesTyped DEF WriterOK, WriterStates, StagingOK, UserOK, Pcs, Outcomes
  <2> QED BY <1>1, <1>2, <1>4, <2>1, Moves, StillThere DEF End
<1> QED BY <1>3, <1>4 DEF PublishRefused

LEMMA SyncParentKeeps ==
    ASSUME IInv, NEW w \in Writers, SyncParent(w)
    PROVE  IInv'
<1>1. PICK k : k = writer[w] /\ WriterOK(k)
  BY WriterAt
<1>2. k.pc = "syncParent" /\ linked' = TRUE /\ UNCHANGED generation /\ End(w, "using", "rendered")
  BY <1>1 DEF SyncParent, At
<1>3. WriterOK([k EXCEPT !.pc = "using", !.outcome = "rendered", !.staging = NoDirectory])'
  BY <1>1, <1>2, DirectoriesTyped DEF WriterOK, WriterStates, StagingOK, UserOK, Pcs, Outcomes
<1>4. WritersOK'
  BY <1>1, <1>2, <1>3, Moves DEF End
<1> QED BY <1>2, <1>4 DEF IInv, GenerationOK

\* A power failure loses nothing of a published generation, or all of it.
LEMMA PowerFailureLoses ==
    ASSUME IInv, PowerFailure
    PROVE  generation' = generation \/ (~linked /\ generation' = NoDirectory)
<1>1. CASE ~linked /\ generation' = NoDirectory
  BY <1>1
<1>2. ASSUME NEW left \in [Files -> UNION {Survivors(generation[f]) : f \in Files}],
             \A f \in Files : left[f] \in Survivors(generation[f]), generation' = left
      PROVE  generation' = generation
  <2>1. generation = [f \in Files |-> generation[f]]
    BY DEF IInv, GenerationOK, NoDirectory, OnDisk, Directories
  <2>2. \A f \in Files : Survivors(generation[f]) = {generation[f]}
    BY DEF IInv, GenerationOK, NoDirectory, OnDisk, Survivors
  <2> QED BY <1>2, <2>1, <2>2
<1> QED BY <1>1, <1>2 DEF PowerFailure

LEMMA PowerFailureKeeps ==
    ASSUME IInv, PowerFailure
    PROVE  IInv'
<1>1. generation' = generation \/ generation' = NoDirectory
  BY PowerFailureLoses
<1>2. WritersOK'
  <2>1. WriterOK(Resting)'
    BY RestingOK, DirectoriesTyped DEF WriterOK, StagingOK, UserOK, Resting
  <2>2. writer' = [w \in Writers |-> Resting]
    BY DEF PowerFailure
  <2> QED BY <2>1, <2>2 DEF WritersOK
<1> QED BY <1>1, <1>2 DEF IInv, GenerationOK, PowerFailure

-----------------------------------------------------------------------------
(* The theorems. *)

LEMMA InitOK == Init => IInv
  BY RestingOK DEF Init, IInv, GenerationOK, WritersOK

LEMMA StepOK == IInv /\ [Next]_vars => IInv'
<1> SUFFICES ASSUME IInv, [Next]_vars PROVE IInv'
  OBVIOUS
<1>1. CASE Next
  BY <1>1, RenderKeeps, LookupKeeps, EndKeeps, WriteFileKeeps, SyncFileKeeps, PublishKeeps,
     PublishRefusedKeeps, SyncParentKeeps, RestKeeps, PowerFailureKeeps DEF Next
<1>2. CASE UNCHANGED vars
  <2>1. WritersOK'
    BY <1>2, KeptWriter DEF vars, IInv, WritersOK
  <2> QED BY <1>2, <2>1, StillThere DEF vars
<1> QED BY <1>1, <1>2

LEMMA Invariance == Spec => []IInv
  BY InitOK, StepOK, PTL DEF Spec

\* Types; and staging directories are only in the hands of writers that fill them.
THEOREM TypeCorrect == Spec => []TypeOK
<1>1. IInv => TypeOK
  <2> SUFFICES ASSUME IInv PROVE TypeOK
    OBVIOUS
  <2>1. generation \in Directories
    BY DirectoriesTyped DEF IInv, GenerationOK, OnDisk
  <2>2. \A w \in Writers : writer[w] \in WriterStates /\ StagingOK(writer[w])
    BY DEF IInv, WritersOK, WriterOK
  <2>3. writer \in [Writers -> WriterStates]
    BY <2>2 DEF IInv, WritersOK
  <2> QED BY <2>1, <2>2, <2>3 DEF IInv, TypeOK, StagingOK
<1> QED BY <1>1, Invariance, PTL

\* As long as writes are not short, Docker Compose never reads a half-written generation,
\* or one of two renderings, also after crashes and power failures.
THEOREM GenerationsAreWhole ==
    ASSUME ~ShortWrites
    PROVE  Spec => []GenerationWhole
<1>1. IInv => GenerationWhole
  <2> SUFFICES ASSUME IInv, Published PROVE \E c \in Contents : \A f \in Files : generation[f].content = c
    BY DEF GenerationWhole
  <2>1. PICK c \in Contents : OnDisk(generation, c)
    BY DEF IInv, GenerationOK, Published
  <2> QED BY <2>1 DEF OnDisk, Holds, Leaves
<1> QED BY <1>1, Invariance, PTL

\* As long as writes are not short, two attempts that use a generation at the same time
\* have rendered the same.
THEOREM UsersOfGenerationAgree ==
    ASSUME ~ShortWrites
    PROVE  Spec => []UsersAgree
<1>1. IInv => UsersAgree
  BY DEF IInv, WritersOK, WriterOK, UserOK, UsersAgree, At, OnDisk, Holds, Leaves
<1> QED BY <1>1, Invariance, PTL

\* No writer replaces a published generation or removes it, also not one that has rendered
\* something else; only a power failure before the fsync of the parent takes it away.
THEOREM GenerationsAreImmutable == Spec => GenerationImmutable
<1>1. IInv /\ [Next]_vars =>
          [Published => generation' = generation \/ (~linked /\ generation' = NoDirectory)]_vars
  <2> SUFFICES ASSUME IInv, Next, Published
               PROVE  generation' = generation \/ (~linked /\ generation' = NoDirectory)
    OBVIOUS
  <2>1. CASE PowerFailure
    BY <2>1, PowerFailureLoses
  <2>2. CASE ~PowerFailure
    BY <2>2 DEF Next, Render, Lookup, Verify, WriteFile, SyncFile, Publish, PublishRefused, SyncParent, Finish,
                Fails, Crash, Published
  <2> QED BY <2>1, <2>2
<1> QED BY <1>1, Invariance, PTL DEF Spec, GenerationImmutable
=============================================================================
