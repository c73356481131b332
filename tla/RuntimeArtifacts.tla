-------------------------- MODULE RuntimeArtifacts --------------------------
(***************************************************************************)
(* RuntimeArtifactWriter.render for one generation of one project: the     *)
(* directory <runtime root>/<project id>/<generation> with the files       *)
(* compose.yaml and .env that Docker Compose reads afterwards.             *)
(*                                                                         *)
(* A writer looks for the directory; if it is missing it fills a staging   *)
(* directory of its own and renames it into place.  What a writer renders  *)
(* is determined by the deployment row and by the settings of its worker   *)
(* process: two workers, or one before and after a configuration change,   *)
(* may render different contents.                                          *)
(*                                                                         *)
(* The file system.  A write is on disk for certain once it is fsynced; a  *)
(* power failure kills every process and loses any part of what is not.  A *)
(* write may be short, for want of space or quota, without an error; that  *)
(* is left to ShortWrites, because the page cache of Linux does not split  *)
(* what fits into a page, and today both files do.                         *)
(* rename(2) refuses to replace a directory that is not empty.  Which error *)
(* it gives depends on the file system: ENOTEMPTY (ext4, overlay, tmpfs),  *)
(* which Python raises as OSError, or EEXIST, as FileExistsError.          *)
(***************************************************************************)
EXTENDS Naturals

CONSTANTS
    Writers,       \* processes that call render
    Contents,      \* what the deployment row and the settings of a process say
    ShortWrites,   \* whether write(2) may write a part and report no error
    RenameErrors,  \* what rename(2) says of a directory that is not empty
    Absent,        \* no such file
    Torn           \* a file some of whose bytes were lost

ASSUME ShortWritesAssumption == ShortWrites \in BOOLEAN
ASSUME RenameErrorsAssumption == RenameErrors \subseteq {"ENOTEMPTY", "EEXIST"}
ASSUME NotContents == Absent \notin Contents /\ Torn \notin Contents /\ Absent # Torn

VARIABLES
    generation,  \* the published directory
    linked,      \* its directory entry is on disk: the parent has been fsynced
    writer       \* each process: program point, content, staging directory

vars == <<generation, linked, writer>>

Files == {"compose.yaml", ".env"}
FileStates == [content : Contents \cup {Absent, Torn}, synced : BOOLEAN]
Directories == [Files -> FileStates]

NoFile == [content |-> Absent, synced |-> FALSE]
NoDirectory == [f \in Files |-> NoFile]

Written(c) == [content |-> c, synced |-> FALSE]
Synced(c) == [content |-> c, synced |-> TRUE]

\* What a write of content c leaves in the file: the file is unbuffered, and the
\* number of bytes that write returns is not looked at.
Leaves(c) == {c} \cup (IF ShortWrites THEN {Torn} ELSE {})

Outcomes == {"none", "rendered", "failed", "different", "exists"}
Pcs == {"idle", "lookup", "verify", "compose", "syncCompose", "env", "syncEnv",
        "publish", "syncParent", "cleanup", "using"}

WriterStates ==
    [pc : Pcs, content : Contents \cup {Absent}, staging : Directories, outcome : Outcomes]

Resting == [pc |-> "idle", content |-> Absent, staging |-> NoDirectory, outcome |-> "none"]

Init ==
    /\ generation = NoDirectory
    /\ linked = FALSE
    /\ writer = [w \in Writers |-> Resting]

-----------------------------------------------------------------------------
At(w, pc) == writer[w].pc = pc
Published == generation # NoDirectory

GoTo(w, pc) == writer' = [writer EXCEPT ![w].pc = pc]

\* Mutant: the staging directory is left behind.
EndKeepingStaging(w, pc, outcome) ==
    writer' = [writer EXCEPT ![w].pc = pc, ![w].outcome = outcome]

\* render returns or raises; the finally clause removes the staging directory.
End(w, pc, outcome) ==
    writer' = [writer EXCEPT ![w].pc = pc, ![w].outcome = outcome,
                             ![w].staging = NoDirectory]

Render(w) ==
    /\ At(w, "idle")
    /\ \E c \in Contents :
           writer' = [writer EXCEPT ![w] = [Resting EXCEPT !.pc = "lookup", !.content = c]]
    /\ UNCHANGED <<generation, linked>>

Lookup(w) ==
    /\ At(w, "lookup")
    /\ GoTo(w, IF Published THEN "verify" ELSE "compose")
    /\ UNCHANGED <<generation, linked>>

\* Mutant: an existing generation is taken as it is.
VerifyNothing(w) ==
    /\ At(w, "verify")
    /\ End(w, "using", "rendered")
    /\ UNCHANGED <<generation, linked>>

\* _verify_existing_generation: both files are there, with this content.
Verify(w) ==
    /\ At(w, "verify")
    /\ IF \A f \in Files : generation[f].content = writer[w].content
       THEN End(w, "using", "rendered")
       ELSE End(w, "idle", "different")
    /\ UNCHANGED <<generation, linked>>

\* _atomic_write, up to the replacement of the destination ...
WriteFile(w, pc, file, next) ==
    /\ At(w, pc)
    /\ \E left \in Leaves(writer[w].content) :
           writer' = [writer EXCEPT ![w].pc = next, ![w].staging[file] = Written(left)]
    /\ UNCHANGED <<generation, linked>>

\* Mutant: the files are not fsynced.
SyncNothing(w, pc, file, next) ==
    /\ At(w, pc)
    /\ GoTo(w, next)
    /\ UNCHANGED <<generation, linked>>

\* ... and the fsyncs of the file and of the staging directory.
SyncFile(w, pc, file, next) ==
    /\ At(w, pc)
    /\ writer' = [writer EXCEPT ![w].pc = next, ![w].staging[file].synced = TRUE]
    /\ UNCHANGED <<generation, linked>>

\* Mutant: the published directory is replaced, if there is one.
PublishOver(w) ==
    /\ At(w, "publish")
    /\ generation' = writer[w].staging
    /\ linked' = FALSE
    /\ writer' = [writer EXCEPT ![w].pc = "syncParent", ![w].staging = NoDirectory]

\* os.replace of the staging directory.
Publish(w) ==
    /\ At(w, "publish")
    /\ ~Published
    /\ generation' = writer[w].staging
    /\ linked' = FALSE
    /\ writer' = [writer EXCEPT ![w].pc = "syncParent", ![w].staging = NoDirectory]

\* The directory is there.  EEXIST is a FileExistsError, whose handler verifies the
\* other writer's generation; ENOTEMPTY is not, and escapes.
PublishRefused(w) ==
    /\ At(w, "publish")
    /\ Published
    /\ \/ "EEXIST" \in RenameErrors /\ GoTo(w, "verify")
       \/ "ENOTEMPTY" \in RenameErrors /\ End(w, "idle", "exists")
    /\ UNCHANGED <<generation, linked>>

SyncParent(w) ==
    /\ At(w, "syncParent")
    /\ linked' = TRUE
    /\ End(w, "using", "rendered")
    /\ UNCHANGED generation

\* The provisioner is done with the artifact, or another step of it fails.
Finish(w) ==
    /\ At(w, "using")
    /\ writer' = [writer EXCEPT ![w] = Resting]
    /\ UNCHANGED <<generation, linked>>

\* A system call fails: the disk is full, the directory is not writable.
Fails(w) ==
    /\ writer[w].pc \notin {"idle", "using"}
    /\ End(w, "idle", "failed")
    /\ UNCHANGED <<generation, linked>>

\* The process dies; its staging directory is never looked at again.
Crash(w) ==
    /\ ~At(w, "idle")
    /\ writer' = [writer EXCEPT ![w] = Resting]
    /\ UNCHANGED <<generation, linked>>

\* What may be found of a file after a power failure.
Survivors(file) ==
    IF file.synced \/ file = NoFile THEN {file} ELSE {Synced(Torn), Synced(file.content)}

\* The directory entry is lost unless it is on disk; of the files inside, those
\* bytes that were not fsynced may be lost.
PowerFailure ==
    /\ writer' = [w \in Writers |-> Resting]
    /\ \/ ~linked /\ generation' = NoDirectory
       \/ \E left \in [Files -> UNION {Survivors(generation[f]) : f \in Files}] :
              /\ \A f \in Files : left[f] \in Survivors(generation[f])
              /\ generation' = left
    /\ linked' = (generation' # NoDirectory)

Next ==
    \/ \E w \in Writers :
           \/ Render(w) \/ Lookup(w) \/ Verify(w)
           \/ WriteFile(w, "compose", "compose.yaml", "syncCompose")
           \/ SyncFile(w, "syncCompose", "compose.yaml", "env")
           \/ WriteFile(w, "env", ".env", "syncEnv")
           \/ SyncFile(w, "syncEnv", ".env", "publish")
           \/ Publish(w) \/ PublishRefused(w) \/ SyncParent(w)
           \/ Finish(w) \/ Fails(w) \/ Crash(w)
    \/ PowerFailure

Spec == Init /\ [][Next]_vars

-----------------------------------------------------------------------------
\* Types; and a process that is not filling a staging directory has none.
TypeOK ==
    /\ generation \in Directories
    /\ linked \in BOOLEAN
    /\ writer \in [Writers -> WriterStates]
    /\ \A w \in Writers :
           writer[w].pc \in {"idle", "using"} => writer[w].staging = NoDirectory

\* A generation that can be seen is whole: both files, rendered from one and the
\* same desired state, after any crash and any power failure.  This is what lets
\* Docker Compose run from it and a later attempt trust it.  It needs writes that
\* are not short: with ShortWrites it is not so, though a test's name says that
\* "failed second artifact write never publishes a partial generation"
\* (test_runtime_artifacts.py:340).
GenerationWhole ==
    Published =>
        \E c \in Contents : \A f \in Files : generation[f].content = c

\* A generation never changes: no writer replaces or removes it, and a power
\* failure takes it away only while its entry is not on disk.
GenerationImmutable ==
    [][Published => generation' = generation \/ (~linked /\ generation' = NoDirectory)]_vars

\* While an attempt works with the artifact that render returned to it, the files
\* on disk are the ones it rendered, so two attempts that use one generation at
\* the same time agree on every setting in it.
UsersAgree ==
    \A w \in Writers : At(w, "using") =>
        \A f \in Files : generation[f].content = writer[w].content

\* "Publish both private files together, or retain the prior immutable
\* generation" (runtime_artifacts.py:384): a writer that loses the race against
\* one with the same content retains the generation, it does not fail.
LoserRetains ==
    \A w \in Writers :
        writer[w].outcome = "exists" =>
            \E f \in Files : generation[f].content # writer[w].content
=============================================================================
