--------------------------- MODULE PipelineRunner ---------------------------
(***************************************************************************)
(* PipelineRunner of python/forgeir/pipeline/runner.py: the stages of a    *)
(* run, the ledger of what they wrote, the three files in which each       *)
(* step's outcome is persisted, and what a later runner makes of the       *)
(* directory it finds.                                                     *)
(*                                                                         *)
(* One configuration and so one run directory, shared by the processes in  *)
(* Runners, each started with or without --force. A process may die at any *)
(* step, a file operation may fail, and somebody may edit or delete files  *)
(* of the run between two stages or after it. Writing a file is not        *)
(* atomic: a process that dies while it writes leaves a torn file. A       *)
(* digest is the content it was taken of.                                  *)
(*                                                                         *)
(* Nothing in the code keeps a process from removing the directory of      *)
(* another that is still going. The model lets it, and keeps in shared     *)
(* that it has happened; from then on two processes write into one         *)
(* directory, and most properties are about directories that are not       *)
(* shared. (Two processes that write at the same time interleave within    *)
(* the steps below, too; that is not modelled.)                            *)
(*                                                                         *)
(* What the stages compute is not modelled, only that each writes its      *)
(* files and returns, returns a rejection, or raises. The reports have no  *)
(* summaries and no input hashes. Dry runs touch nothing.                  *)
(***************************************************************************)
EXTENDS Integers, Sequences

CONSTANTS
  Runners,     \* processes
  Outputs,     \* the files each stage writes; the stages are its domain
  Rejecting,   \* stages that may return without success
  MaxStarts,   \* bound on the calls of run
  MaxEdits     \* bound on the edits from outside

\* What _persist writes, and what is recorded before the first stage: nobody's
\* output.
Bookkeeping == {"status", "manifest", "digest"}

SetupFiles == {"normalized_config"}

ASSUME OutputsAssumption ==
  /\ Len(Outputs) \in Nat /\ DOMAIN Outputs = 1 .. Len(Outputs)
  /\ \A n \in DOMAIN Outputs : Outputs[n] \cap Bookkeeping = {}
\* Every stage writes into its own _stage_directory.
ASSUME DirectoriesAssumption ==
  \A n \in DOMAIN Outputs :
    /\ Outputs[n] \cap SetupFiles = {}
    /\ \A m \in DOMAIN Outputs : m # n => Outputs[m] \cap Outputs[n] = {}
ASSUME RejectingAssumption == Rejecting \subseteq DOMAIN Outputs

VARIABLES
  files,   \* the run directory: the content of each file there is
  exists,  \* the run directory exists
  shared,  \* history: it was removed from under a process that goes on
  runner,  \* the PipelineRunner object of each process
  starts,
  edits

vars == << files, exists, shared, runner, starts, edits >>

Stages == DOMAIN Outputs

LastStage == Len(Outputs)

----------------------------------------------------------------------------
(* Contents.                                                               *)

Good    == [ kind |-> "good"]      \* as the deterministic stage writes it
Torn    == [ kind |-> "torn"]      \* half of it
Changed == [ kind |-> "changed"]   \* edited since

Nothing == [ p \in {} |-> Good ]

\* f with the files of g on top.
Over(f, g) == [ p \in DOMAIN f \cup DOMAIN g |-> IF p \in DOMAIN g THEN g[p] ELSE f[p] ]

File(path, content) == [ p \in {path} |-> content ]

\* Files are written; the directories they are in are made where missing.
Put(g) == files' = Over(files, g) /\ exists' = (exists \/ DOMAIN g # {})

Only(f, paths) == [ p \in DOMAIN f \cap paths |-> f[p] ]

\* What may be there of a set of files when writing them was interrupted.
Interrupted(paths) == UNION { [ some -> {Good, Torn} ] : some \in SUBSET paths }

\* A story: what status.json and the manifest tell of a run.
Story(r) == [ success |-> r.success, failure |-> r.failure, results |-> r.results ]

StatusFile(r) == [ kind |-> "status", story |-> Story(r) ]

Manifest(r) == [ kind |-> "manifest", story |-> Story(r), ledger |-> r.ledger ]

DigestFile(content) == [ kind |-> "digest", content |-> content ]

StageResult(stage, status) == [ stage |-> stage, status |-> status ]

NoFailure == [ stage |-> 0, code |-> "none" ]

\* A new PipelineRunner.
Fresh == [ pc |-> "created", force |-> FALSE, stage |-> 0, success |-> FALSE,
           failure |-> NoFailure, ledger |-> Nothing, results |-> << >>,
           outcome |-> "none" ]

\* An exception has left run, or the process was killed.
Died == [ Fresh EXCEPT !.pc = "ended", !.outcome = "died" ]

\* No process, or one that has returned.
Idle(p) == runner[p].pc \in {"none", "ended"}

\* Process p has made the directory and works in it.
Owns(p) == runner[p].pc \notin {"none", "ended", "preparing", "removing", "creating"}

Init ==
  /\ files = Nothing
  /\ exists = FALSE
  /\ shared = FALSE
  /\ runner = [ p \in Runners |-> [ Fresh EXCEPT !.pc = "none" ] ]
  /\ starts = 0
  /\ edits = 0

\* Process p goes on as r.
Becomes(p, r) == runner' = [ runner EXCEPT ![p] = r ]

Goto(p, pc) == Becomes(p, [ runner[p] EXCEPT !.pc = pc ])

----------------------------------------------------------------------------
(* The run directory.                                                      *)

\* _validate_existing_run: the manifest is there, its digest is right and so is
\* every artifact it lists.
Valid ==
  /\ {"manifest", "digest"} \subseteq DOMAIN files
  /\ files["manifest"].kind = "manifest"
  /\ files["digest"] = DigestFile(files["manifest"])
  /\ LET listed == files["manifest"].ledger
     IN  Only(files, DOMAIN listed) = listed

Start(p) == Idle(p) /\ starts < MaxStarts /\ starts' = starts + 1

\* run without --force on a directory that exists: it is looked at and left
\* alone. (The reads of one validation are one step; the report goes to a file
\* outside the directory.)
RefuseExisting(p) ==
  /\ Start(p) /\ exists
  /\ Becomes(p, [ Fresh EXCEPT !.pc = "ended",
                    !.outcome = IF Valid THEN "run_directory_exists" ELSE "stale_artifact" ])
  /\ UNCHANGED << files, exists, shared, edits >>

\* Any other call gets past the first test of the directory.
StartRun(p, force) ==
  /\ Start(p) /\ (exists => force)
  /\ Becomes(p, [ Fresh EXCEPT !.pc = "preparing", !.force = force ])
  /\ UNCHANGED << files, exists, shared, edits >>

\* The second test, which does not ask for --force: a directory that has
\* appeared since the first one is removed.
PrepareDirectory(p) ==
  /\ runner[p].pc = "preparing"
  /\ Goto(p, IF exists THEN "removing" ELSE "creating")
  /\ UNCHANGED << files, exists, shared, starts, edits >>

\* Whoever works in the directory, if anybody does, is no longer alone with it.
FromUnderOwner == shared' = (shared \/ \E q \in Runners : Owns(q))

\* rmtree deletes file by file, in any order, and the directory last. (It raises
\* when somebody else has removed it: Dies.)
RemoveFile(p) ==
  /\ runner[p].pc = "removing" /\ DOMAIN files # {}
  /\ \E path \in DOMAIN files : files' = Only(files, DOMAIN files \ {path})
  /\ FromUnderOwner
  /\ UNCHANGED << exists, runner, starts, edits >>

RemoveDirectory(p) ==
  /\ runner[p].pc = "removing" /\ DOMAIN files = {} /\ exists
  /\ exists' = FALSE
  /\ Goto(p, "creating")
  /\ FromUnderOwner
  /\ UNCHANGED << files, starts, edits >>

\* Mutated form of MayCreate: mkdir is content with a directory that exists.
MayCreateAnyway == TRUE

\* mkdir(exist_ok=False).
MayCreate == ~exists

\* (mkdir raises where there is a directory again: Dies.) A new directory is
\* shared if somebody still works in the old one.
CreateDirectory(p) ==
  /\ runner[p].pc = "creating" /\ MayCreate
  /\ exists' = TRUE
  /\ Goto(p, "setup")
  /\ shared' = (shared /\ \E q \in Runners : Owns(q))
  /\ UNCHANGED << files, starts, edits >>

\* The copies of the configuration, into a directory of their own that must not
\* be there; the first persist follows.
RecordSetupInputs(p) ==
  LET inputs == [ path \in SetupFiles |-> Good ]
  IN  /\ runner[p].pc = "setup" /\ SetupFiles \cap DOMAIN files = {}
      /\ Put(inputs)
      /\ Becomes(p, [ runner[p] EXCEPT !.pc = "status", !.ledger = inputs ])
      /\ UNCHANGED << shared, starts, edits >>

----------------------------------------------------------------------------
(* Failure of a stage.                                                     *)

\* Mutated form of Skipped: the failed stage itself is skipped, too.
SkippedFrom(stage) ==
  [ n \in 1 .. LastStage - stage + 1 |-> StageResult(stage + n - 1, "skipped") ]

Skipped(stage) == [ n \in 1 .. LastStage - stage |-> StageResult(stage + n, "skipped") ]

\* The except branch: whatever the stage has left in its directory is recorded,
\* the stage has failed, the later ones are skipped, and that is persisted.
Failed(r, code, there) ==
  [ r EXCEPT !.pc = "status",
             !.failure = [ stage |-> r.stage, code |-> code ],
             !.ledger = Over(r.ledger, Only(there, Outputs[r.stage])),
             !.results = Append(@, StageResult(r.stage, "failed")) \o Skipped(r.stage) ]

----------------------------------------------------------------------------
(* The loop over the stages.                                               *)

\* Mutated form of Intact: only what the stage before has written is checked.
IntactSinceLastStage(r) ==
  \A path \in DOMAIN r.ledger \cap (IF r.stage = 1 THEN {} ELSE Outputs[r.stage - 1]) :
    path \in DOMAIN files /\ files[path] = r.ledger[path]

\* _validate_ledger: every recorded file is there as it was recorded.
Intact(r) ==
  \A path \in DOMAIN r.ledger : path \in DOMAIN files /\ files[path] = r.ledger[path]

ValidateLedger(p) ==
  /\ runner[p].pc = "validate"
  /\ IF Intact(runner[p])
       THEN Goto(p, "stage")
       ELSE Becomes(p, Failed(runner[p], "stale_artifact", files))
  /\ UNCHANGED << files, exists, shared, starts, edits >>

\* The stage function returns and its files are recorded. A stage may write all
\* it has to and still reject.
StageReturns(p) ==
  LET r       == runner[p]
      written == [ path \in Outputs[r.stage] |-> Good ]
      after   == [ r EXCEPT !.pc = "status", !.ledger = Over(@, written) ]
  IN  /\ r.pc = "stage"
      /\ Put(written)
      /\ \/ Becomes(p, [ after EXCEPT !.results = Append(@, StageResult(r.stage, "succeeded")) ])
         \/ /\ r.stage \in Rejecting
            /\ Becomes(p, [ after EXCEPT
                              !.failure = [ stage |-> r.stage, code |-> "rejected" ],
                              !.results = Append(@, StageResult(r.stage, "failed"))
                                            \o Skipped(r.stage) ])
      /\ UNCHANGED << shared, starts, edits >>

\* The stage function raises, after it has written some of its files, or
\* finds one of them missing.
StageRaises(p) ==
  /\ runner[p].pc = "stage"
  /\ \E partial \in Interrupted(Outputs[runner[p].stage]) :
       /\ Put(partial)
       /\ Becomes(p, Failed(runner[p], "stage_exception", files'))
  /\ UNCHANGED << shared, starts, edits >>

----------------------------------------------------------------------------
(* _persist.                                                               *)

\* Mutated forms of WithStatus: the status file is not an artifact; it is
\* recorded the first time only.
WithoutStatus(r) == r

WithFirstStatus(r) == [ r EXCEPT !.ledger = Over(File("status", StatusFile(r)), @) ]

WithStatus(r) == [ r EXCEPT !.ledger = Over(@, File("status", StatusFile(r))) ]

WriteStatus(p) ==
  /\ runner[p].pc = "status"
  /\ Put(File("status", StatusFile(runner[p])))
  /\ Becomes(p, [ WithStatus(runner[p]) EXCEPT !.pc = "manifest" ])
  /\ UNCHANGED << shared, starts, edits >>

WriteManifest(p) ==
  /\ runner[p].pc = "manifest"
  /\ Put(File("manifest", Manifest(runner[p])))
  /\ Goto(p, "digest")
  /\ UNCHANGED << shared, starts, edits >>

Returned(r) == [ r EXCEPT !.pc = "ended", !.outcome = "returned" ]

\* After the digest, run returns, goes to the next stage, or persists its
\* success.
AfterPersist(r) ==
  IF r.success \/ r.failure # NoFailure THEN Returned(r)
  ELSE IF r.stage < LastStage THEN [ r EXCEPT !.pc = "validate", !.stage = @ + 1 ]
  ELSE [ r EXCEPT !.pc = "status", !.success = TRUE ]

Persisting(r) == r.pc \in Bookkeeping

\* The outcome of a stage that has returned is persisted within the try of the
\* loop; the setup, the success of the run and a failure that was caught are not.
InTry(r) == r.stage > 0 /\ ~r.success /\ r.failure.code \in {"none", "rejected"}

\* The file at hand, when its writing failed. The digest's is not even opened
\* where there is no manifest.
HalfWritten(r) ==
  { Nothing } \cup
    IF r.pc = "digest" /\ "manifest" \notin DOMAIN files THEN {} ELSE { File(r.pc, Torn) }

\* Persisting raises. Within the try the stage, already listed as succeeded or
\* as failed, is listed as failed once more, and so are those it skips; outside
\* the process dies.
PersistRaises(p) ==
  LET r == runner[p]
  IN  /\ Persisting(r) /\ InTry(r)
      /\ \E half \in HalfWritten(r) : Put(half)
      /\ Becomes(p, Failed(r, "stage_exception", files'))
      /\ UNCHANGED << shared, starts, edits >>

WriteDigest(p) ==
  LET r == runner[p]
  IN  /\ r.pc = "digest" /\ "manifest" \in DOMAIN files
      /\ Put(File("digest", DigestFile(files["manifest"])))
      /\ Becomes(p, AfterPersist(r))
      /\ UNCHANGED << shared, starts, edits >>

----------------------------------------------------------------------------
(* Deaths and edits.                                                       *)

\* The process is killed, or an exception leaves run: any of them outside the
\* loop's try (of rmtree, of mkdir, of a write) and one in its except branch.
Dies(p) ==
  LET r == runner[p]
  IN  /\ ~Idle(p)
      /\ \/ UNCHANGED << files, exists >>
         \/ r.pc = "stage" /\ \E partial \in Interrupted(Outputs[r.stage]) : Put(partial)
         \/ r.pc = "setup" /\ \E partial \in Interrupted(SetupFiles) : Put(partial)
         \/ Persisting(r) /\ \E half \in HalfWritten(r) : Put(half)
      /\ Becomes(p, Died)
      /\ UNCHANGED << shared, starts, edits >>

\* Somebody changes or deletes a file of the run. Only between two stages: the
\* code does not claim to notice what happens while a stage reads.
Edit(path) ==
  /\ edits < MaxEdits /\ edits' = edits + 1
  /\ \A p \in Runners : Idle(p) \/ runner[p].pc = "validate"
  /\ path \in DOMAIN files
  /\ \/ files' = Over(files, File(path, Changed))
     \/ files' = Only(files, DOMAIN files \ {path})
  /\ UNCHANGED << exists, shared, runner, starts >>

Step(p) ==
  \/ PrepareDirectory(p)
  \/ RemoveFile(p) \/ RemoveDirectory(p) \/ CreateDirectory(p) \/ RecordSetupInputs(p)
  \/ ValidateLedger(p) \/ StageReturns(p) \/ StageRaises(p)
  \/ WriteStatus(p) \/ WriteManifest(p) \/ WriteDigest(p) \/ PersistRaises(p)

Next ==
  \/ \E p \in Runners : RefuseExisting(p) \/ \E force \in BOOLEAN : StartRun(p, force)
  \/ \E p \in Runners : Step(p)
  \/ \E p \in Runners : Dies(p)
  \/ \E path \in DOMAIN files : Edit(path)

Spec == Init /\ [][Next]_vars

----------------------------------------------------------------------------
(* Properties.                                                             *)

\* The shape of the state. A run lists at most two results per stage: when the
\* rejection by the first stage cannot be persisted, all are listed again.
TypeOK ==
  /\ \A p \in Runners :
       /\ runner[p].pc \in {"none", "preparing", "removing", "creating", "setup",
                            "validate", "stage", "status", "manifest", "digest", "ended"}
       /\ runner[p].stage \in Stages \cup {0}
       /\ Len(runner[p].results) <= 2 * LastStage
  /\ ~exists => files = Nothing

Succeeded(results) == { n \in Stages : StageResult(n, "succeeded") \in
                                         { results[i] : i \in DOMAIN results } }

\* Whatever became of the run and of the runs before it, a directory that
\* passes validation is honest, unless it was shared: status.json tells the same
\* story as the manifest, every file of every stage that succeeded is listed and
\* as the stage wrote it, stages succeeded in order and before the one that
\* failed, and the run is a success only if all of them did.
ValidRunIsHonest ==
  Valid /\ ~shared =>
    LET manifest == files["manifest"]
        story    == manifest.story
        done     == Succeeded(story.results)
    IN  /\ "status" \in DOMAIN files /\ files["status"].kind = "status"
        /\ files["status"].story = story
        /\ \A path \in SetupFiles \cup UNION { Outputs[n] : n \in done } :
             path \in DOMAIN manifest.ledger /\ files[path] = Good
        /\ \A n \in done : n = 1 \/ n - 1 \in done
        /\ \A n \in done : story.failure = NoFailure \/ n <= story.failure.stage
        /\ story.success => done = Stages /\ story.failure = NoFailure

\* "A missing, resized, or modified artifact fails with stale_artifact; it is
\* never reused" (docs/architecture/end_to_end_workflow.md:78-79): a stage
\* starts only on what the stages before it have written, unless another
\* process works in, or has removed, its directory.
StagesReadGoodFiles ==
  \A p \in Runners :
    runner[p].pc = "stage" /\ ~shared =>
      \A n \in 1 .. runner[p].stage - 1 : \A path \in Outputs[n] :
        path \in DOMAIN files /\ files[path] = Good

\* However the calls, tests, removals and mkdirs of several processes interleave
\* and whichever of them die: two processes work in the directory only after it
\* was removed from under one of them. No race of mkdirs, and no removal of the
\* directory of a run that has ended, brings it about.
OneOwner ==
  \A p, q \in Runners : Owns(p) /\ Owns(q) /\ p # q => shared

\* A run that returns, alone with its directory, leaves there what it returns; a
\* later validation passes, unless the run has failed because of a stale file.
ReturnedRunIsPersisted ==
  [][ \A p \in Runners :
        runner[p].pc = "digest" /\ runner'[p].outcome = "returned" /\ ~shared =>
          /\ files'["manifest"].story = Story(runner[p])
          /\ Valid' \/ runner[p].failure.code = "stale_artifact" ]_vars

\* "Only an explicit --force permits deletion and fresh recreation of that exact
\* run directory" (docs/architecture/end_to_end_workflow.md:100-101).
OnlyForceDeletes ==
  [][ \A p \in Runners : RemoveFile(p) \/ RemoveDirectory(p) => runner[p].force ]_vars
=============================================================================
