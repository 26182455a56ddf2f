------------------------ MODULE PipelineRunnerProofs ------------------------
(***************************************************************************)
(* Proofs about PipelineRunner, for any number of processes, any stages    *)
(* and any number of starts and edits.                                     *)
(***************************************************************************)
EXTENDS PipelineRunner, SequenceTheorems, TLAPS

(***************************************************************************)
(* The inductive invariant.                                                *)
(***************************************************************************)

IsRunner(r) ==
  /\ r = [ pc |-> r.pc, force |-> r.force, stage |-> r.stage, success |-> r.success,
           failure |-> r.failure, ledger |-> r.ledger, results |-> r.results,
           outcome |-> r.outcome ]
  /\ r.stage \in 0 .. LastStage

\* The stages that have written all they have to.
Complete(r) == IF r.pc \in {"validate", "stage"} THEN 1 .. r.stage - 1 ELSE 1 .. r.stage

\* Where a runner is that has not failed, and what its ledger then has: the
\* outputs of the complete stages, as these wrote them.
RunnerInv(r) ==
  /\ IsRunner(r)
  /\ r.pc \in {"preparing", "removing", "creating", "setup"} => r.stage = 0
  /\ r.pc \in {"preparing", "removing", "creating", "setup", "validate", "stage"} =>
       r.failure = NoFailure
  /\ r.pc \in {"validate", "stage"} => r.stage \in 1 .. LastStage
  /\ r.failure = NoFailure /\ r.pc \in {"validate", "stage"} \cup Bookkeeping =>
       \A n \in Complete(r) : \A path \in Outputs[n] :
         path \in DOMAIN r.ledger /\ r.ledger[path] = Good

\* A runner at work in the directory.
Working(r) == r.pc \notin {"none", "ended", "preparing", "removing", "creating"}

\* Who owns a directory that is not shared is alone with it, and it exists.
OwnerInv ==
  /\ OneOwner
  /\ \A p \in Runners : Owns(p) /\ ~shared => exists

\* Between the validation and the stage nothing happens to such a directory.
IntactInv ==
  \A p \in Runners : runner[p].pc = "stage" /\ ~shared => Intact(runner[p])

IInv ==
  /\ DOMAIN runner = Runners
  /\ \A p \in Runners : RunnerInv(runner[p])
  /\ OwnerInv
  /\ IntactInv

(***************************************************************************)
(* The steps.                                                              *)
(***************************************************************************)

\* A new PipelineRunner is sound wherever it begins or ends.
LEMMA FreshRunner ==
  ASSUME NEW pc \in {"none", "preparing", "ended"}, NEW outcome, NEW force,
         NEW r, \/ r = [ Fresh EXCEPT !.pc = pc ]
                \/ r = [ Fresh EXCEPT !.pc = pc, !.force = force ]
                \/ r = [ Fresh EXCEPT !.pc = pc, !.outcome = outcome ]
  PROVE  RunnerInv(r) /\ r.pc = pc
<1>1. LastStage \in Nat
  BY OutputsAssumption DEF LastStage
<1>2. r.pc = pc /\ r.stage = 0 /\ r.failure = NoFailure
  BY DEF Fresh
<1>3. IsRunner(r)
  <2>1. r = [ pc |-> r.pc, force |-> r.force, stage |-> r.stage, success |-> r.success,
              failure |-> r.failure, ledger |-> r.ledger, results |-> r.results,
              outcome |-> r.outcome ]
    BY DEF Fresh
  <2>2. QED
    BY <1>1, <1>2, <2>1 DEF IsRunner
<1>4. QED
  BY <1>2, <1>3 DEF RunnerInv, Bookkeeping

\* Nobody has begun.
LEMMA InitEstablishes == Init => IInv
<1> SUFFICES ASSUME Init PROVE IInv
  OBVIOUS
<1>1. DOMAIN runner = Runners /\ \A p \in Runners : runner[p] = [ Fresh EXCEPT !.pc = "none" ]
  BY DEF Init
<1>3. \A p \in Runners : RunnerInv(runner[p]) /\ runner[p].pc = "none"
  BY <1>1, FreshRunner
<1>4. OwnerInv /\ IntactInv
  BY <1>3 DEF OwnerInv, OneOwner, Owns, IntactInv
<1>5. QED
  BY <1>1, <1>3, <1>4 DEF IInv

\* What a process does keeps the invariant if its new state is sound, it works in
\* the directory only if it has done so before, removes nothing, and changes files
\* only as an owner.
LEMMA BecomesPreserves ==
  ASSUME IInv, NEW p \in Runners, NEW r, Becomes(p, r), RunnerInv(r),
         shared' = shared, exists => exists',
         Working(r) => Owns(p),
         r.pc = "stage" /\ ~shared => Intact(r) /\ files' = files,
         files' = files \/ Owns(p)
  PROVE  IInv'
<1>1. /\ DOMAIN runner' = Runners /\ runner'[p] = r
      /\ \A q \in Runners : q # p => runner'[q] = runner[q]
  BY DEF Becomes, IInv
<1>2. \A q \in Runners : RunnerInv(runner'[q])
  BY <1>1 DEF IInv
<1>3. \A q \in Runners : Owns(q)' => Owns(q)
  BY <1>1 DEF Owns, Working
<1>4. OwnerInv'
  BY <1>3 DEF IInv, OwnerInv, OneOwner
<1>5. IntactInv'
  <2> SUFFICES ASSUME NEW q \in Runners, runner'[q].pc = "stage", ~shared
               PROVE  Intact(runner[q])'
    BY DEF IntactInv
  <2>1. CASE q = p
    BY <1>1, <2>1 DEF Intact
  <2>2. CASE q # p
    <3>1. runner'[q] = runner[q] /\ runner[q].pc = "stage"
      BY <1>1, <2>2
    <3>2. Owns(q)
      BY <3>1 DEF Owns
    <3>3. files' = files
      BY <2>2, <3>2 DEF IInv, OwnerInv, OneOwner
    <3>4. QED
      BY <3>1, <3>3 DEF IInv, IntactInv, Intact
  <2>3. QED
    BY <2>1, <2>2
<1>6. QED
  BY <1>1, <1>2, <1>4, <1>5 DEF IInv

\* Writing files makes directories and removes none.
LEMMA PutFacts ==
  ASSUME NEW g, Put(g)
  PROVE  files' = Over(files, g) /\ (exists => exists') /\ (DOMAIN g # {} => exists')
BY DEF Put

\* The calls of run, and the second look at the directory.
LEMMA StartPreserves ==
  ASSUME IInv, NEW p \in Runners, NEW force,
         RefuseExisting(p) \/ StartRun(p, force) \/ PrepareDirectory(p)
  PROVE  IInv'
<1>1. CASE RefuseExisting(p)
  <2>1. PICK outcome : Becomes(p, [ Fresh EXCEPT !.pc = "ended", !.outcome = outcome ])
    BY <1>1 DEF RefuseExisting
  <2>2. PICK r : r = [ Fresh EXCEPT !.pc = "ended", !.outcome = outcome ] /\ Becomes(p, r)
    BY <2>1
  <2>3. RunnerInv(r) /\ r.pc = "ended"
    BY <2>2, FreshRunner
  <2>4. files' = files /\ exists' = exists /\ shared' = shared
    BY <1>1 DEF RefuseExisting
  <2>5. QED
    BY <2>2, <2>3, <2>4, BecomesPreserves DEF Working
<1>2. CASE StartRun(p, force)
  <2>1. PICK pc, outcome, r :
          /\ pc \in {"preparing", "ended"} /\ pc = "preparing" /\ Becomes(p, r)
          /\ \/ r = [ Fresh EXCEPT !.pc = pc, !.force = force ]
             \/ r = [ Fresh EXCEPT !.pc = pc, !.outcome = outcome ]
    BY <1>2 DEF StartRun
  <2>2. RunnerInv(r) /\ r.pc = "preparing"
    BY <2>1, FreshRunner
  <2>3. files' = files /\ exists' = exists /\ shared' = shared
    BY <1>2 DEF StartRun
  <2>4. QED
    BY <2>1, <2>2, <2>3, BecomesPreserves DEF Working
<1>3. CASE PrepareDirectory(p)
  <2>1. PICK pc : pc \in {"removing", "creating"} /\ Goto(p, pc)
    BY <1>3 DEF PrepareDirectory
  <2>2. PICK r : r = [ runner[p] EXCEPT !.pc = pc ] /\ Becomes(p, r)
    BY <2>1 DEF Goto
  <2>3. RunnerInv(r) /\ r.pc = pc
    BY <1>3, <2>1, <2>2 DEF IInv, PrepareDirectory, RunnerInv, IsRunner, Bookkeeping
  <2>4. files' = files /\ exists' = exists /\ shared' = shared
    BY <1>3 DEF PrepareDirectory
  <2>5. QED
    BY <2>1, <2>2, <2>3, <2>4, BecomesPreserves DEF Working
<1>4. QED
  BY <1>1, <1>2, <1>3

\* The end of a process that dies, at any step.
LEMMA DiesPreserves ==
  ASSUME IInv, NEW p \in Runners, Dies(p)
  PROVE  IInv'
<1>1. PICK r : r = [ Fresh EXCEPT !.pc = "ended", !.outcome = "died" ] /\ Becomes(p, r)
  BY DEF Dies, Died
<1>2. RunnerInv(r) /\ r.pc = "ended"
  BY <1>1, FreshRunner
<1>3. (exists => exists') /\ shared' = shared
  BY PutFacts DEF Dies
<1>4. files' = files \/ Owns(p)
  <2> SUFFICES ASSUME ~Owns(p) PROVE files' = files
    OBVIOUS
  <2>1. runner[p].pc \in {"preparing", "removing", "creating"}
    BY DEF Dies, Owns, Idle
  <2>2. ~Persisting(runner[p])
    BY <2>1 DEF Persisting, Bookkeeping
  <2>3. QED
    BY <2>1, <2>2 DEF Dies
<1>5. QED
  BY <1>1, <1>2, <1>3, <1>4, BecomesPreserves DEF Working

\* Where the directory is shared, or nobody works in it, nothing is claimed.
LEMMA NothingClaimed ==
  ASSUME shared' \/ \A q \in Runners : ~Owns(q)'
  PROVE  OwnerInv' /\ IntactInv'
BY DEF OwnerInv, OneOwner, IntactInv, Owns

\* rmtree: if somebody works in the directory, it is shared from now on.
LEMMA RemovePreserves ==
  ASSUME IInv, NEW p \in Runners, RemoveFile(p) \/ RemoveDirectory(p)
  PROVE  IInv'
<1>1. /\ RunnerInv(runner[p]) /\ runner[p].pc = "removing" /\ DOMAIN runner = Runners
      /\ shared' \/ \A q \in Runners : ~Owns(q)
  BY DEF IInv, RemoveFile, RemoveDirectory, FromUnderOwner
<1>2. CASE RemoveFile(p)
  <2>1. runner' = runner
    BY <1>2 DEF RemoveFile
  <2>2. shared' \/ \A q \in Runners : ~Owns(q)'
    BY <1>1, <2>1 DEF Owns
  <2>3. OwnerInv' /\ IntactInv'
    BY <2>2, NothingClaimed
  <2>4. QED
    BY <2>1, <2>3 DEF IInv
<1>3. CASE RemoveDirectory(p)
  <2>1. PICK r : r = [ runner[p] EXCEPT !.pc = "creating" ] /\ Becomes(p, r)
    BY <1>3 DEF RemoveDirectory, Goto
  <2>2. RunnerInv(r) /\ r.pc = "creating"
    BY <1>1, <2>1 DEF RunnerInv, IsRunner, Bookkeeping
  <2>3. /\ DOMAIN runner' = Runners /\ runner'[p] = r
        /\ \A q \in Runners : q # p => runner'[q] = runner[q]
    BY <1>1, <2>1 DEF Becomes
  <2>4. shared' \/ \A q \in Runners : ~Owns(q)'
    BY <1>1, <2>2, <2>3 DEF Owns
  <2>5. OwnerInv' /\ IntactInv'
    BY <2>4, NothingClaimed
  <2>6. QED
    BY <2>2, <2>3, <2>5 DEF IInv
<1>4. QED
  BY <1>2, <1>3

\* mkdir: it succeeds only where there is no directory, and so no owner that has
\* not lost his.
LEMMA CreatePreserves ==
  ASSUME IInv, NEW p \in Runners, CreateDirectory(p)
  PROVE  IInv'
<1>1. /\ RunnerInv(runner[p]) /\ runner[p].pc = "creating" /\ DOMAIN runner = Runners
      /\ ~exists /\ exists'
  BY DEF IInv, CreateDirectory, MayCreate
<1>2. shared' \/ \A q \in Runners : ~Owns(q)
  BY <1>1 DEF CreateDirectory, IInv, OwnerInv
<1>3. PICK r : r = [ runner[p] EXCEPT !.pc = "setup" ] /\ Becomes(p, r)
  BY DEF CreateDirectory, Goto
<1>4. RunnerInv(r) /\ r.pc = "setup"
  BY <1>1, <1>3 DEF RunnerInv, IsRunner, Bookkeeping
<1>5. /\ DOMAIN runner' = Runners /\ runner'[p] = r
      /\ \A q \in Runners : q # p => runner'[q] = runner[q]
  BY <1>1, <1>3 DEF Becomes
<1>6. OwnerInv' /\ IntactInv'
  <2>1. CASE shared'
    BY <2>1, NothingClaimed
  <2>2. CASE \A q \in Runners : ~Owns(q)
    <3>1. \A q \in Runners : Owns(q)' => q = p
      BY <1>5, <2>2 DEF Owns
    <3>2. \A q \in Runners : runner'[q].pc # "stage"
      BY <1>4, <1>5, <2>2 DEF Owns
    <3>3. QED
      BY <1>1, <3>1, <3>2 DEF OwnerInv, OneOwner, IntactInv
  <2>3. QED
    BY <1>2, <2>1, <2>2
<1>7. QED
  BY <1>4, <1>5, <1>6 DEF IInv

\* Whatever the owner does to the files, the invariant holds afterwards if its own
\* new state is sound.
LEMMA OwnerPreserves ==
  ASSUME IInv, NEW p \in Runners, Owns(p), exists => exists', shared' = shared,
         NEW r, Becomes(p, r), RunnerInv(r),
         r.pc = "stage" => Intact(r) /\ files' = files
  PROVE  IInv'
BY BecomesPreserves

\* Nothing outside g's domain changes when g comes on top of f.
LEMMA OverFacts ==
  ASSUME NEW f, NEW g
  PROVE  /\ \A path \in DOMAIN g : path \in DOMAIN Over(f, g) /\ Over(f, g)[path] = g[path]
         /\ \A path \in DOMAIN f \ DOMAIN g :
              path \in DOMAIN Over(f, g) /\ Over(f, g)[path] = f[path]
BY DEF Over

\* The first files, of no stage.
LEMMA SetupPreserves ==
  ASSUME IInv, NEW p \in Runners, RecordSetupInputs(p)
  PROVE  IInv'
<1>1. /\ RunnerInv(runner[p]) /\ runner[p].pc = "setup" /\ Owns(p)
      /\ exists => exists'
      /\ shared' = shared
  BY PutFacts DEF IInv, RecordSetupInputs, Owns
<1>2. PICK ledger : Becomes(p, [ runner[p] EXCEPT !.pc = "status", !.ledger = ledger ])
  BY DEF RecordSetupInputs
<1>3. PICK r : r = [ runner[p] EXCEPT !.pc = "status", !.ledger = ledger ] /\ Becomes(p, r)
  BY <1>2
<1>4. r.pc = "status" /\ r.stage = 0 /\ r.failure = runner[p].failure /\ IsRunner(r)
  BY <1>1, <1>3 DEF RunnerInv, IsRunner
<1>5. Complete(r) = {}
  BY <1>4 DEF Complete
<1>6. RunnerInv(r)
  BY <1>4, <1>5 DEF RunnerInv
<1>7. QED
  BY <1>1, <1>3, <1>4, <1>6, OwnerPreserves

\* A failed runner owes nothing.
LEMMA FailedRunner ==
  ASSUME NEW r, RunnerInv(r), NEW code, code # "none", NEW there,
         NEW s, s = Failed(r, code, there)
  PROVE  RunnerInv(s) /\ s.pc = "status"
<1>1. s.pc = "status" /\ s.stage = r.stage /\ s.failure = [ stage |-> r.stage, code |-> code ]
  BY DEF Failed, RunnerInv, IsRunner
<1>2. s.failure # NoFailure
  BY <1>1 DEF NoFailure
<1>3. IsRunner(s)
  BY <1>1 DEF Failed, RunnerInv, IsRunner
<1>4. QED
  BY <1>1, <1>2, <1>3 DEF RunnerInv

\* A stage begins only on an intact ledger.
LEMMA ValidatePreserves ==
  ASSUME IInv, NEW p \in Runners, ValidateLedger(p)
  PROVE  IInv'
<1>1. /\ RunnerInv(runner[p]) /\ runner[p].pc = "validate" /\ Owns(p)
      /\ exists' = exists /\ files' = files /\ shared' = shared
  BY DEF IInv, ValidateLedger, Owns
<1>2. CASE Intact(runner[p])
  <2>1. PICK r : r = [ runner[p] EXCEPT !.pc = "stage" ] /\ Becomes(p, r)
    BY <1>2 DEF ValidateLedger, Goto
  <2>2. r.pc = "stage" /\ r.stage = runner[p].stage /\ r.ledger = runner[p].ledger
        /\ r.failure = runner[p].failure /\ IsRunner(r)
    BY <1>1, <2>1 DEF RunnerInv, IsRunner
  <2>3. Complete(r) = Complete(runner[p])
    BY <1>1, <2>2 DEF Complete
  <2>4. RunnerInv(r)
    BY <1>1, <2>2, <2>3 DEF RunnerInv
  <2>5. Intact(r)
    BY <1>2, <2>2 DEF Intact
  <2>6. QED
    BY <1>1, <2>1, <2>4, <2>5, OwnerPreserves
<1>3. CASE ~Intact(runner[p])
  <2>1. PICK r : r = Failed(runner[p], "stale_artifact", files) /\ Becomes(p, r)
    BY <1>3 DEF ValidateLedger
  <2>2. RunnerInv(r) /\ r.pc = "status"
    BY <1>1, <2>1, FailedRunner
  <2>3. QED
    BY <1>1, <2>1, <2>2, OwnerPreserves
<1>4. QED
  BY <1>2, <1>3

\* A stage that fails, or whose success cannot be persisted.
LEMMA RaisesPreserves ==
  ASSUME IInv, NEW p \in Runners, StageRaises(p) \/ PersistRaises(p)
  PROVE  IInv'
<1>1. RunnerInv(runner[p]) /\ Owns(p) /\ (exists => exists') /\ shared' = shared
  BY PutFacts DEF IInv, StageRaises, PersistRaises, Persisting, Bookkeeping, Owns
<1>2. PICK r : r = Failed(runner[p], "stage_exception", files') /\ Becomes(p, r)
  BY DEF StageRaises, PersistRaises
<1>3. RunnerInv(r) /\ r.pc = "status"
  BY <1>1, <1>2, FailedRunner
<1>4. QED
  BY <1>1, <1>2, <1>3, OwnerPreserves

\* A stage that returns has written all it has to.
LEMMA ReturnsPreserves ==
  ASSUME IInv, NEW p \in Runners, StageReturns(p)
  PROVE  IInv'
<1> DEFINE s == runner[p]
           written == [ path \in Outputs[s.stage] |-> Good ]
<1>1. RunnerInv(s) /\ s.pc = "stage" /\ Owns(p) /\ (exists => exists') /\ shared' = shared
  BY PutFacts DEF IInv, StageReturns, Owns
<1>2. PICK r : /\ Becomes(p, r) /\ IsRunner(r) /\ r.pc = "status" /\ r.stage = s.stage
               /\ r.ledger = Over(s.ledger, written)
               /\ r.failure = NoFailure
                    \/ r.failure = [ stage |-> s.stage, code |-> "rejected" ]
  <2> DEFINE failure == [ stage |-> s.stage, code |-> "rejected" ]
  <2>1. PICK after : /\ after = [ s EXCEPT !.pc = "status", !.ledger = Over(@, written) ]
                     /\ \/ \E results : Becomes(p, [ after EXCEPT !.results = results ])
                        \/ \E results : Becomes(p, [ after EXCEPT !.failure = failure,
                                                                  !.results = results ])
    BY DEF StageReturns
  <2>2. /\ IsRunner(after) /\ after.pc = "status" /\ after.stage = s.stage
        /\ after.ledger = Over(s.ledger, written) /\ after.failure = NoFailure
    <3>1. s.failure = NoFailure /\ IsRunner(s)
      BY <1>1 DEF RunnerInv
    <3>2. PICK ledger : ledger = Over(s.ledger, written)
      OBVIOUS
    <3>3. after = [ s EXCEPT !.pc = "status", !.ledger = ledger ]
      BY <2>1, <3>2
    <3>4. QED
      BY <3>1, <3>2, <3>3 DEF IsRunner
  <2>3. CASE \E results : Becomes(p, [ after EXCEPT !.results = results ])
    <3>1. PICK results, r : r = [ after EXCEPT !.results = results ] /\ Becomes(p, r)
      BY <2>3
    <3>2. /\ IsRunner(r) /\ r.pc = "status" /\ r.stage = s.stage
          /\ r.ledger = after.ledger /\ r.failure = NoFailure
      BY <2>2, <3>1 DEF IsRunner
    <3>3. QED
      BY <2>2, <3>1, <3>2
  <2>4. CASE \E results : Becomes(p, [ after EXCEPT !.failure = failure,
                                                    !.results = results ])
    <3>1. PICK results, r : /\ r = [ after EXCEPT !.failure = failure, !.results = results ]
                            /\ Becomes(p, r)
      BY <2>4
    <3>2. /\ IsRunner(r) /\ r.pc = "status" /\ r.stage = s.stage
          /\ r.ledger = after.ledger /\ r.failure = failure
      BY <2>2, <3>1 DEF IsRunner
    <3>3. QED
      BY <2>2, <3>1, <3>2
  <2>5. QED
    BY <2>1, <2>3, <2>4
<1>3. s.stage \in 1 .. LastStage /\ LastStage \in Nat
  BY <1>1, OutputsAssumption DEF RunnerInv, LastStage
<1>4. \A n \in Complete(r) : n \in Complete(s) \/ n = s.stage
  BY <1>1, <1>2, <1>3 DEF Complete
<1>5. \A n \in Complete(s) : \A path \in Outputs[n] :
        path \in DOMAIN s.ledger /\ s.ledger[path] = Good
  BY <1>1 DEF RunnerInv
<1>6. \A n \in Complete(r) : \A path \in Outputs[n] :
        path \in DOMAIN r.ledger /\ r.ledger[path] = Good
  <2> SUFFICES ASSUME NEW n \in Complete(r), NEW path \in Outputs[n]
               PROVE  path \in DOMAIN r.ledger /\ r.ledger[path] = Good
    OBVIOUS
  <2>1. CASE path \in Outputs[s.stage]
    <3>1. path \in DOMAIN written /\ written[path] = Good
      BY <2>1
    <3>2. QED
      BY <3>1, <1>2, OverFacts
  <2>2. CASE path \notin Outputs[s.stage]
    <3>1. n \in Complete(s)
      BY <1>4, <2>2
    <3>2. path \in DOMAIN s.ledger \ DOMAIN written /\ s.ledger[path] = Good
      BY <1>5, <2>2, <3>1
    <3>3. QED
      BY <3>2, <1>2, OverFacts
  <2>3. QED
    BY <2>1, <2>2
<1>7. RunnerInv(r)
  BY <1>2, <1>6 DEF RunnerInv
<1>8. QED
  BY <1>1, <1>2, <1>7, OwnerPreserves

\* The first two writes of _persist add no output to the ledger.
LEMMA WritePreserves ==
  ASSUME IInv, NEW p \in Runners, WriteStatus(p) \/ WriteManifest(p)
  PROVE  IInv'
<1> DEFINE s == runner[p]
<1>1. /\ RunnerInv(s) /\ s.pc \in {"status", "manifest"}
      /\ Owns(p) /\ (exists => exists') /\ shared' = shared
  BY PutFacts DEF IInv, WriteStatus, WriteManifest, Owns
<1>2. PICK r : /\ Becomes(p, r) /\ IsRunner(r) /\ r.pc \in {"manifest", "digest"}
               /\ r.stage = s.stage /\ r.failure = s.failure
               /\ r.ledger = s.ledger
                    \/ r.ledger = Over(s.ledger, File("status", StatusFile(s)))
  <2>1. CASE WriteStatus(p)
    <3>1. PICK ledger : ledger = Over(s.ledger, File("status", StatusFile(s)))
      OBVIOUS
    <3>2. PICK with, r : /\ with = [ s EXCEPT !.ledger = ledger ]
                         /\ r = [ with EXCEPT !.pc = "manifest" ] /\ Becomes(p, r)
      BY <2>1, <3>1 DEF WriteStatus, WithStatus
    <3>3. IsRunner(with) /\ with.stage = s.stage /\ with.failure = s.failure
          /\ with.ledger = ledger
      BY <1>1, <3>2 DEF RunnerInv, IsRunner
    <3>4. IsRunner(r) /\ r.pc = "manifest" /\ r.stage = s.stage /\ r.failure = s.failure
          /\ r.ledger = ledger
      BY <3>2, <3>3 DEF IsRunner
    <3>5. QED
      BY <3>1, <3>2, <3>4
  <2>2. CASE WriteManifest(p)
    <3> DEFINE new == [ s EXCEPT !.pc = "digest" ]
    <3>1. /\ IsRunner(new) /\ new.pc = "digest" /\ new.stage = s.stage
          /\ new.failure = s.failure /\ new.ledger = s.ledger
      BY <1>1 DEF RunnerInv, IsRunner
    <3>2. Becomes(p, new)
      BY <2>2 DEF WriteManifest, Goto
    <3>3. QED
      BY <3>1, <3>2
  <2>3. QED
    BY <2>1, <2>2
<1>3. Complete(r) = 1 .. s.stage /\ Complete(s) = 1 .. s.stage
  BY <1>1, <1>2 DEF Complete
<1>4. ASSUME r.failure = NoFailure
      PROVE  \A n \in Complete(r) : \A path \in Outputs[n] :
               path \in DOMAIN r.ledger /\ r.ledger[path] = Good
  <2> SUFFICES ASSUME NEW n \in Complete(r), NEW path \in Outputs[n]
               PROVE  path \in DOMAIN r.ledger /\ r.ledger[path] = Good
    OBVIOUS
  <2>1. path \in DOMAIN s.ledger /\ s.ledger[path] = Good
    BY <1>1, <1>2, <1>3, <1>4 DEF RunnerInv, Bookkeeping
  <2>2. n \in DOMAIN Outputs
    BY <1>1, <1>3, OutputsAssumption DEF RunnerInv, IsRunner, LastStage
  <2>3. path \notin DOMAIN File("status", StatusFile(s))
    BY <2>2, OutputsAssumption DEF Bookkeeping, File
  <2>4. QED
    BY <1>2, <2>1, <2>3, OverFacts
<1>5. RunnerInv(r)
  BY <1>2, <1>4 DEF RunnerInv
<1>6. QED
  BY <1>1, <1>2, <1>5, OwnerPreserves

\* After the digest, the next stage is behind nothing but complete ones.
LEMMA DigestPreserves ==
  ASSUME IInv, NEW p \in Runners, WriteDigest(p)
  PROVE  IInv'
<1> DEFINE s == runner[p]
<1>1. RunnerInv(s) /\ s.pc = "digest" /\ Owns(p) /\ (exists => exists') /\ shared' = shared
  BY PutFacts DEF IInv, WriteDigest, Owns
<1>2. PICK r : r = AfterPersist(s) /\ Becomes(p, r)
  BY DEF WriteDigest
<1>3. IsRunner(s) /\ LastStage \in Nat
  BY <1>1, OutputsAssumption DEF RunnerInv, LastStage
<1>4. CASE s.success \/ s.failure # NoFailure
  <2>1. r = [ s EXCEPT !.pc = "ended", !.outcome = "returned" ]
    BY <1>2, <1>4 DEF AfterPersist, Returned
  <2>2. r.pc = "ended" /\ r.stage = s.stage /\ IsRunner(r)
    BY <1>3, <2>1 DEF IsRunner
  <2>3. RunnerInv(r)
    BY <2>2 DEF RunnerInv, Bookkeeping
  <2>4. QED
    BY <1>1, <1>2, <2>2, <2>3, OwnerPreserves
<1>5. CASE ~s.success /\ s.failure = NoFailure /\ s.stage < LastStage
  <2>1. r = [ s EXCEPT !.pc = "validate", !.stage = s.stage + 1 ]
    BY <1>2, <1>5 DEF AfterPersist
  <2>2. /\ r.pc = "validate" /\ r.stage = s.stage + 1 /\ r.failure = NoFailure
        /\ r.ledger = s.ledger
        /\ r = [ pc |-> r.pc, force |-> r.force, stage |-> r.stage,
                 success |-> r.success, failure |-> r.failure, ledger |-> r.ledger,
                 results |-> r.results, outcome |-> r.outcome ]
    BY <1>3, <1>5, <2>1 DEF IsRunner
  <2>3. r.stage \in 1 .. LastStage /\ Complete(r) = Complete(s)
    BY <1>1, <1>3, <1>5, <2>2 DEF IsRunner, Complete
  <2>4. IsRunner(r)
    BY <1>3, <2>2, <2>3 DEF IsRunner
  <2>5. RunnerInv(r)
    BY <1>1, <1>5, <2>2, <2>3, <2>4 DEF RunnerInv, Bookkeeping
  <2>6. QED
    BY <1>1, <1>2, <2>2, <2>5, OwnerPreserves
<1>6. CASE ~s.success /\ s.failure = NoFailure /\ ~(s.stage < LastStage)
  <2>1. r = [ s EXCEPT !.pc = "status", !.success = TRUE ]
    BY <1>2, <1>6 DEF AfterPersist
  <2>2. /\ r.pc = "status" /\ r.stage = s.stage /\ r.failure = s.failure
        /\ r.ledger = s.ledger /\ IsRunner(r)
    BY <1>3, <2>1 DEF IsRunner
  <2>3. Complete(r) = Complete(s)
    BY <1>1, <2>2 DEF Complete
  <2>4. RunnerInv(r)
    BY <1>1, <2>2, <2>3 DEF RunnerInv, Bookkeeping
  <2>5. QED
    BY <1>1, <1>2, <2>2, <2>4, OwnerPreserves
<1>7. QED
  BY <1>4, <1>5, <1>6

\* Edits happen while no stage reads.
LEMMA EditPreserves ==
  ASSUME IInv, NEW path, Edit(path)
  PROVE  IInv'
<1>1. runner' = runner /\ exists' = exists /\ shared' = shared
  BY DEF Edit
<1>2. \A p \in Runners : runner[p].pc # "stage"
  BY DEF Edit, Idle
<1>3. OwnerInv'
  BY <1>1 DEF IInv, OwnerInv, OneOwner, Owns
<1>4. IntactInv'
  BY <1>1, <1>2 DEF IntactInv
<1>5. QED
  BY <1>1, <1>3, <1>4 DEF IInv

LEMMA StepPreserves ==
  ASSUME IInv, [Next]_vars
  PROVE  IInv'
<1>1. CASE \E p \in Runners : RefuseExisting(p) \/ \E force \in BOOLEAN : StartRun(p, force)
  BY <1>1, StartPreserves
<1>2. CASE \E p \in Runners : Step(p)
  <2> PICK p \in Runners : Step(p)
    BY <1>2
  <2> QED
    BY StartPreserves, RemovePreserves, CreatePreserves, SetupPreserves, ValidatePreserves,
       ReturnsPreserves, RaisesPreserves, WritePreserves, DigestPreserves DEF Step
<1>3. CASE \E p \in Runners : Dies(p)
  BY <1>3, DiesPreserves
<1>4. CASE \E path \in DOMAIN files : Edit(path)
  BY <1>4, EditPreserves
<1>5. CASE UNCHANGED vars
  BY <1>5 DEF vars, IInv, OwnerInv, OneOwner, Owns, IntactInv, Intact
<1>6. QED
  BY <1>1, <1>2, <1>3, <1>4, <1>5 DEF Next

(***************************************************************************)
(* The theorems.                                                           *)
(***************************************************************************)

\* The invariant of the runners, their ledgers and the directory.
THEOREM Invariance == Spec => []IInv
<1>1. IInv /\ [Next]_vars => IInv'
  BY StepPreserves
<1>2. QED
  BY <1>1, InitEstablishes, PTL DEF Spec

\* Two processes work in the directory only after it was removed from under one of
\* them (the two tests, rmtree and mkdir of _prepare_run_directory, without a lock).
THEOREM OneOwnerHolds == Spec => []OneOwner
<1>1. IInv => OneOwner
  BY DEF IInv, OwnerInv
<1>2. QED
  BY <1>1, Invariance, PTL

\* A stage starts only on what the stages before it have written, whatever has
\* been edited, has failed or has died before, unless the directory is shared
\* (_validate_ledger and its place in the loop of run).
THEOREM StagesReadGoodFilesHolds == Spec => []StagesReadGoodFiles
<1>1. IInv => StagesReadGoodFiles
  <2> SUFFICES ASSUME IInv, NEW p \in Runners, runner[p].pc = "stage", ~shared,
                      NEW n \in 1 .. runner[p].stage - 1, NEW path \in Outputs[n]
               PROVE  path \in DOMAIN files /\ files[path] = Good
    BY DEF StagesReadGoodFiles
  <2>1. RunnerInv(runner[p]) /\ Intact(runner[p])
    BY DEF IInv, IntactInv
  <2>2. n \in Complete(runner[p])
    BY DEF Complete
  <2>3. path \in DOMAIN runner[p].ledger /\ runner[p].ledger[path] = Good
    BY <2>1, <2>2 DEF RunnerInv
  <2>4. QED
    BY <2>1, <2>3 DEF Intact
<1>2. QED
  BY <1>1, Invariance, PTL

(***************************************************************************)
(* What a run tells of itself.                                             *)
(***************************************************************************)

StageResults == [ stage : Stages, status : {"succeeded", "failed", "skipped"} ]

\* What a runner's results tell: each stage behind it has succeeded; of a runner
\* that has failed, so have those before the failed one, and perhaps that one,
\* when its success could not be persisted.
ResultsInv(r) ==
  /\ r.results \in Seq(StageResults)
  /\ r.pc \in {"none", "preparing", "removing", "creating", "setup"} =>
       r.results = << >> /\ r.ledger = Nothing
  /\ r.pc \in {"validate", "stage"} =>
       Len(r.results) = r.stage - 1 /\ Succeeded(r.results) = 1 .. r.stage - 1
  /\ r.pc \in Bookkeeping /\ r.failure = NoFailure =>
       Len(r.results) = r.stage /\ Succeeded(r.results) = 1 .. r.stage
  /\ r.pc \in Bookkeeping /\ r.failure # NoFailure =>
       /\ r.failure.code # "none"
       /\ Len(r.results) <= IF r.failure.code = "rejected" THEN LastStage ELSE 2 * LastStage
       /\ r.failure.stage = r.stage
       /\ Succeeded(r.results) \in { 1 .. r.stage - 1, 1 .. r.stage }
  /\ r.pc = "ended" => Len(r.results) <= 2 * LastStage

\* What its ledger lists, as long as it may still be persisted.
LedgerInv(r) ==
  /\ r.ledger = [ path \in DOMAIN r.ledger |-> r.ledger[path] ]
  /\ DOMAIN r.ledger \cap {"manifest", "digest"} = {}
  /\ r.pc \in {"validate", "stage"} \cup Bookkeeping =>
       \A path \in SetupFiles \cup UNION { Outputs[n] : n \in Succeeded(r.results) } :
         path \in DOMAIN r.ledger /\ r.ledger[path] = Good
  /\ r.pc = "manifest" => "status" \in DOMAIN r.ledger /\ r.ledger["status"] = StatusFile(r)

\* The program counter; success comes after the last stage; only the end has an
\* outcome.
CourseInv(r) ==
  /\ r.pc \in {"none", "preparing", "removing", "creating", "setup", "validate",
               "stage", "status", "manifest", "digest", "ended"}
  /\ r.success => r.pc \in Bookkeeping \cup {"ended"}
  /\ r.success /\ r.pc \in Bookkeeping => r.failure = NoFailure /\ r.stage = LastStage
  /\ r.pc # "ended" => r.outcome = "none"

\* Path is there as the ledger of r lists it.
Listed(r, path) == path \in DOMAIN files /\ files[path] = r.ledger[path]

\* How the directory stands to a runner that persists: its ledger is right, unless
\* it has just been found wrong, status.json is written before the manifest and
\* the manifest before the digest; what a stage has written stays as it was.
FilesInv(r) ==
  /\ r.pc = "status" /\ r.failure.code # "stale_artifact" =>
       \A path \in DOMAIN r.ledger \ {"status"} : Listed(r, path)
  /\ r.pc \in {"manifest", "digest"} /\ r.failure.code # "stale_artifact" =>
       Intact(r)
  /\ r.pc = "digest" => "manifest" \in DOMAIN files /\ files["manifest"] = Manifest(r)

\* A manifest is honest whatever has become of the other files.
HonestManifest(m) ==
  LET done == Succeeded(m.story.results)
  IN  /\ "status" \in DOMAIN m.ledger
      /\ m.ledger["status"] = [ kind |-> "status", story |-> m.story ]
      /\ \A path \in SetupFiles \cup UNION { Outputs[n] : n \in done } :
           path \in DOMAIN m.ledger /\ m.ledger[path] = Good
      /\ \A n \in done : n = 1 \/ n - 1 \in done
      /\ \A n \in done : m.story.failure = NoFailure \/ n <= m.story.failure.stage
      /\ m.story.success => done = Stages /\ m.story.failure = NoFailure

ManifestInv ==
  "manifest" \in DOMAIN files /\ files["manifest"].kind = "manifest" =>
    HonestManifest(files["manifest"])

DirectoryInv ==
  /\ files = [ path \in DOMAIN files |-> files[path] ]
  /\ ~exists => files = Nothing

\* Of a directory that is shared, and of the ledgers of those who share it,
\* nothing is claimed.
StoryInv ==
  /\ \A p \in Runners : ResultsInv(runner[p]) /\ CourseInv(runner[p])
  /\ DirectoryInv
  /\ ~shared =>
       /\ \A p \in Runners : Owns(p) => LedgerInv(runner[p]) /\ FilesInv(runner[p])
       /\ ManifestInv

\* One more result.
LEMMA OneMoreSucceeded ==
  ASSUME NEW s \in Seq(StageResults), NEW n \in Stages,
         NEW t, t = Append(s, StageResult(n, "succeeded"))
  PROVE  t \in Seq(StageResults) /\ Len(t) = Len(s) + 1 /\ Succeeded(t) = Succeeded(s) \cup {n}
<1>1. StageResult(n, "succeeded") \in StageResults
  BY DEF StageResult, StageResults
<1>2. /\ t \in Seq(StageResults) /\ Len(t) = Len(s) + 1 /\ Len(s) \in Nat
      /\ DOMAIN t = 1 .. Len(s) + 1 /\ DOMAIN s = 1 .. Len(s)
      /\ \A i \in 1 .. Len(s) : t[i] = s[i]
      /\ t[Len(s) + 1] = StageResult(n, "succeeded")
  BY <1>1
<1>3. ASSUME NEW m \in Stages, m # n
      PROVE  StageResult(m, "succeeded") # StageResult(n, "succeeded")
  BY <1>3 DEF StageResult
<1>4. \A m \in Stages : (\E i \in DOMAIN t : t[i] = StageResult(m, "succeeded"))
                          <=> m = n \/ \E i \in DOMAIN s : s[i] = StageResult(m, "succeeded")
  <2> SUFFICES ASSUME NEW m \in Stages
               PROVE  (\E i \in DOMAIN t : t[i] = StageResult(m, "succeeded"))
                        <=> m = n \/ \E i \in DOMAIN s : s[i] = StageResult(m, "succeeded")
    OBVIOUS
  <2>1. Len(s) + 1 \in DOMAIN t /\ \A i \in DOMAIN s : i \in DOMAIN t
    BY <1>2
  <2>2. \A i \in DOMAIN t : i \in DOMAIN s \/ i = Len(s) + 1
    BY <1>2
  <2>3. QED
    BY <1>2, <1>3, <2>1, <2>2
<1>5. QED
  BY <1>2, <1>4 DEF Succeeded

\* The results of a failure.
LEMMA FailureAppended ==
  ASSUME NEW s \in Seq(StageResults), NEW n \in Stages,
         NEW t, t = Append(s, StageResult(n, "failed")) \o Skipped(n)
  PROVE  /\ t \in Seq(StageResults) /\ Len(t) = Len(s) + 1 + (LastStage - n)
         /\ Succeeded(t) = Succeeded(s)
<1>1. StageResult(n, "failed") \in StageResults /\ LastStage \in Nat /\ Stages = 1 .. LastStage
  BY OutputsAssumption DEF StageResult, StageResults, Stages, LastStage
<1> DEFINE u == Append(s, StageResult(n, "failed"))
<1>2. /\ u \in Seq(StageResults) /\ Len(u) = Len(s) + 1 /\ Len(s) \in Nat
      /\ \A i \in 1 .. Len(s) : u[i] = s[i]
      /\ u[Len(s) + 1] = StageResult(n, "failed")
  BY <1>1
<1>3. /\ Skipped(n) \in Seq(StageResults) /\ Len(Skipped(n)) = LastStage - n
      /\ \A i \in 1 .. LastStage - n : Skipped(n)[i] = StageResult(n + i, "skipped")
  <2>1. \A i \in 1 .. LastStage - n : StageResult(n + i, "skipped") \in StageResults
    BY <1>1 DEF StageResult, StageResults
  <2>2. LastStage - n \in Nat
    BY <1>1
  <2>3. /\ Skipped(n) \in [1 .. LastStage - n -> StageResults]
        /\ \A i \in 1 .. LastStage - n : Skipped(n)[i] = StageResult(n + i, "skipped")
    BY <2>1 DEF Skipped
  <2>4. Skipped(n) \in Seq(StageResults)
    <3>1. PICK k \in Nat : k = LastStage - n
      BY <2>2
    <3>2. Skipped(n) \in [1 .. k -> StageResults]
      BY <2>3, <3>1
    <3>3. QED
      BY <3>2
  <2>5. Len(Skipped(n)) = LastStage - n
    BY <2>2, <2>3, <2>4, LenProperties
  <2>6. QED
    BY <2>3, <2>4, <2>5
<1> HIDE DEF u
<1>4. /\ t \in Seq(StageResults) /\ Len(t) = Len(u) + Len(Skipped(n))
      /\ \A i \in 1 .. Len(u) : t[i] = u[i]
      /\ \A i \in Len(u) + 1 .. Len(t) : t[i] = Skipped(n)[i - Len(u)]
  <2>1. t = u \o Skipped(n)
    BY DEF u
  <2>2. QED
    BY <1>2, <1>3, <2>1
<1>5. DOMAIN t = 1 .. Len(t) /\ DOMAIN s = 1 .. Len(s)
  BY <1>4
<1>6. ASSUME NEW m \in Stages
      PROVE  (\E i \in DOMAIN t : t[i] = StageResult(m, "succeeded"))
               <=> \E i \in DOMAIN s : s[i] = StageResult(m, "succeeded")
  <2>1. \A k : /\ StageResult(m, "succeeded") # StageResult(k, "failed")
               /\ StageResult(m, "succeeded") # StageResult(k, "skipped")
    BY DEF StageResult
  <2>2. ASSUME NEW i \in DOMAIN t, t[i] = StageResult(m, "succeeded")
        PROVE  i \in DOMAIN s /\ s[i] = StageResult(m, "succeeded")
    <3>1. CASE i \in 1 .. Len(s)
      BY <1>2, <1>4, <1>5, <2>2, <3>1
    <3>2. CASE i = Len(s) + 1
      BY <1>2, <1>4, <2>1, <2>2, <3>2
    <3>3. CASE i \in Len(u) + 1 .. Len(t)
      <4>1. i - Len(u) \in 1 .. LastStage - n
        BY <1>1, <1>2, <1>3, <1>4, <3>3
      <4>2. t[i] = StageResult(n + (i - Len(u)), "skipped")
        BY <1>3, <1>4, <3>3, <4>1
      <4>3. QED
        BY <2>1, <2>2, <4>2
    <3>4. QED
      BY <1>2, <1>4, <1>5, <3>1, <3>2, <3>3
  <2>3. ASSUME NEW i \in DOMAIN s, s[i] = StageResult(m, "succeeded")
        PROVE  i \in DOMAIN t /\ t[i] = StageResult(m, "succeeded")
    <3>1. i \in 1 .. Len(s) /\ i \in 1 .. Len(u) /\ i \in 1 .. Len(t)
      BY <1>1, <1>2, <1>3, <1>4, <1>5
    <3>2. QED
      BY <1>2, <1>4, <1>5, <2>3, <3>1
  <2>4. QED
    BY <2>2, <2>3
<1>7. Succeeded(t) = Succeeded(s)
  BY <1>6 DEF Succeeded
<1>8. QED
  BY <1>2, <1>3, <1>4, <1>7

(***************************************************************************)
(* The steps and what is told.                                             *)
(***************************************************************************)

\* What a process does keeps the stories if its own is sound and only the owner
\* changes files.
LEMMA StoryKept ==
  ASSUME IInv, StoryInv, NEW p \in Runners, NEW r, Becomes(p, r), shared' = shared,
         ResultsInv(r), CourseInv(r), DirectoryInv',
         ~shared => ManifestInv',
         ~shared /\ Working(r) => LedgerInv(r) /\ FilesInv(r)',
         files' = files \/ Owns(p)
  PROVE  StoryInv'
<1>1. /\ DOMAIN runner' = Runners /\ runner'[p] = r
      /\ \A q \in Runners : q # p => runner'[q] = runner[q]
  BY DEF Becomes, IInv
<1>2. \A q \in Runners : ResultsInv(runner'[q]) /\ CourseInv(runner'[q])
  BY <1>1 DEF StoryInv
<1>3. ASSUME ~shared, NEW q \in Runners, Owns(q)'
      PROVE  LedgerInv(runner'[q]) /\ FilesInv(runner[q])'
  <2>1. CASE q = p
    <3>1. Working(r)
      BY <1>1, <1>3, <2>1 DEF Owns, Working
    <3>2. LedgerInv(r) /\ FilesInv(r)'
      BY <1>3, <3>1
    <3>3. QED
      BY <1>1, <2>1, <3>2 DEF FilesInv, Listed, Intact
  <2>2. CASE q # p
    <3>1. runner'[q] = runner[q]
      BY <1>1, <2>2
    <3>2. Owns(q)
      BY <1>3, <3>1 DEF Owns
    <3>3. files' = files
      BY <1>3, <2>2, <3>2 DEF IInv, OwnerInv, OneOwner
    <3>4. LedgerInv(runner[q]) /\ FilesInv(runner[q])
      BY <1>3, <3>2 DEF StoryInv
    <3>5. FilesInv(runner[q])'
      BY <3>1, <3>3, <3>4 DEF FilesInv, Listed, Intact
    <3>6. QED
      BY <3>1, <3>4, <3>5
  <2>3. QED
    BY <2>1, <2>2
<1>4. QED
  BY <1>2, <1>3 DEF StoryInv

\* A new PipelineRunner, or one that has died, has nothing to tell.
LEMMA FreshStory ==
  ASSUME NEW pc \in {"none", "preparing", "ended"}, NEW outcome, NEW force,
         NEW r, \/ r = [ Fresh EXCEPT !.pc = pc ]
                \/ r = [ Fresh EXCEPT !.pc = pc, !.force = force ]
                \/ r = [ Fresh EXCEPT !.pc = pc, !.outcome = outcome ] /\ pc = "ended"
  PROVE  ResultsInv(r) /\ CourseInv(r) /\ ~Working(r)
<1>1. LastStage \in Nat
  BY OutputsAssumption DEF LastStage
<1>2. /\ r.pc = pc /\ r.stage = 0 /\ r.failure = NoFailure /\ r.success = FALSE
      /\ r.results = << >> /\ r.ledger = Nothing
      /\ pc # "ended" => r.outcome = "none"
  BY DEF Fresh
<1>3. ResultsInv(r)
  BY <1>1, <1>2 DEF ResultsInv, Bookkeeping
<1>4. CourseInv(r) /\ ~Working(r)
  BY <1>2 DEF CourseInv, Bookkeeping, Working
<1>5. QED
  BY <1>3, <1>4

LEMMA StoryBegins == Init => StoryInv
<1> SUFFICES ASSUME Init
             PROVE  StoryInv
  OBVIOUS
<1>1. \A p \in Runners : runner[p] = [ Fresh EXCEPT !.pc = "none" ]
  BY DEF Init
<1>2. \A p \in Runners : ResultsInv(runner[p]) /\ CourseInv(runner[p]) /\ ~Working(runner[p])
  BY <1>1, FreshStory
<1>3. ManifestInv /\ DirectoryInv
  BY DEF Init, ManifestInv, DirectoryInv, Nothing
<1>4. QED
  BY <1>2, <1>3 DEF StoryInv, Owns, Working

\* Writing on top of the files keeps the manifest honest if it writes none, or
\* half of one, or an honest one.
LEMMA WrittenOver ==
  ASSUME StoryInv, NEW g, Put(g),
         ~shared /\ "manifest" \in DOMAIN g =>
           g["manifest"] = Torn \/ HonestManifest(g["manifest"])
  PROVE  DirectoryInv' /\ (~shared => ManifestInv')
<1>1. files' = Over(files, g)
  BY DEF Put
<1>2. files' = [ path \in DOMAIN files' |-> files'[path] ]
  BY <1>1 DEF Over
<1>3. ASSUME ~exists'
      PROVE  files' = Nothing
  <2>1. ~exists /\ DOMAIN g = {}
    BY <1>3 DEF Put
  <2>2. DOMAIN files = {}
    BY <2>1 DEF StoryInv, DirectoryInv, Nothing
  <2>3. DOMAIN files' = {}
    BY <1>1, <2>1, <2>2 DEF Over
  <2>4. QED
    BY <1>2, <2>3 DEF Nothing
<1>4. DirectoryInv'
  BY <1>2, <1>3 DEF DirectoryInv
<1>5. ASSUME ~shared
      PROVE  ManifestInv'
  <2>1. CASE "manifest" \in DOMAIN g
    <3>1. "manifest" \in DOMAIN files' /\ files'["manifest"] = g["manifest"]
      BY <1>1, <2>1 DEF Over
    <3>2. QED
      BY <1>5, <2>1, <3>1 DEF ManifestInv, Torn
  <2>2. CASE "manifest" \notin DOMAIN g
    <3>1. "manifest" \in DOMAIN files' =>
            "manifest" \in DOMAIN files /\ files'["manifest"] = files["manifest"]
      BY <1>1, <2>2 DEF Over
    <3>2. QED
      BY <1>5, <3>1 DEF ManifestInv, StoryInv
  <2>3. QED
    BY <2>1, <2>2
<1>6. QED
  BY <1>4, <1>5

\* Where nothing is written, nothing changes for the manifest.
LEMMA NothingWritten ==
  ASSUME StoryInv, files' = files, exists => exists'
  PROVE  DirectoryInv' /\ (~shared => ManifestInv')
BY DEF StoryInv, ManifestInv, DirectoryInv

\* A stage that is listed as succeeded has left its files as it wrote them.
Unspoiled(r, there) ==
  r.stage \in Succeeded(r.results) =>
    \A path \in DOMAIN there \cap Outputs[r.stage] : there[path] = Good

\* A stage fails, or fails again when its rejection could not be persisted.
LEMMA FailureTells ==
  ASSUME NEW s, RunnerInv(s), ResultsInv(s), CourseInv(s),
         s.failure.code \in {"none", "rejected"}, ~s.success, s.stage \in Stages,
         s.pc \in {"validate", "stage"} \cup Bookkeeping,
         NEW there, NEW code, code \notin {"none", "rejected"},
         NEW r, r = Failed(s, code, there)
  PROVE  /\ ResultsInv(r) /\ CourseInv(r)
         /\ r.pc = "status" /\ r.failure.code = code
         /\ r.ledger = Over(s.ledger, Only(there, Outputs[s.stage]))
         /\ Succeeded(r.results) = Succeeded(s.results)
<1> DEFINE results == Append(s.results, StageResult(s.stage, "failed")) \o Skipped(s.stage)
           ledger == Over(s.ledger, Only(there, Outputs[s.stage]))
           failure == [ stage |-> s.stage, code |-> code ]
<1>1. /\ r.pc = "status" /\ r.stage = s.stage /\ r.failure = failure
      /\ r.ledger = ledger /\ r.results = results /\ r.success = s.success
      /\ r.outcome = s.outcome
  <2>1. IsRunner(s)
    BY DEF RunnerInv
  <2>2. r = [ s EXCEPT !.pc = "status", !.failure = failure, !.ledger = ledger,
                       !.results = results ]
    BY DEF Failed
  <2> HIDE DEF results, ledger, failure
  <2>3. QED
    BY <2>1, <2>2 DEF IsRunner
<1>2. s.results \in Seq(StageResults) /\ Stages = 1 .. LastStage /\ LastStage \in Nat
  BY OutputsAssumption DEF ResultsInv, Stages, LastStage
<1>3. /\ results \in Seq(StageResults)
      /\ Len(results) = Len(s.results) + 1 + (LastStage - s.stage)
      /\ Succeeded(results) = Succeeded(s.results)
  <2>1. s.stage \in Stages
    OBVIOUS
  <2>2. QED
    BY ONLY <1>2, <2>1, FailureAppended
<1> HIDE DEF results
<1>4. failure.code = code /\ failure.stage = s.stage /\ failure # NoFailure
  BY DEF NoFailure
<1>5. Len(results) <= 2 * LastStage /\ Succeeded(results) \in { 1 .. s.stage - 1, 1 .. s.stage }
  <2>1. CASE s.pc \in {"validate", "stage"}
    <3>1. Len(s.results) = s.stage - 1 /\ Succeeded(s.results) = 1 .. s.stage - 1
      BY <2>1 DEF ResultsInv
    <3>2. QED
      BY <1>2, <1>3, <3>1
  <2>2. CASE s.pc \in Bookkeeping /\ s.failure = NoFailure
    <3>1. Len(s.results) = s.stage /\ Succeeded(s.results) = 1 .. s.stage
      BY <2>2 DEF ResultsInv
    <3>2. QED
      BY <1>2, <1>3, <3>1
  <2>3. CASE s.pc \in Bookkeeping /\ s.failure # NoFailure
    <3>1. /\ Len(s.results) <= LastStage /\ Len(s.results) \in Nat
          /\ Succeeded(s.results) \in { 1 .. s.stage - 1, 1 .. s.stage }
      BY <1>2, <2>3 DEF ResultsInv
    <3>2. QED
      BY <1>2, <1>3, <3>1
  <2>4. QED
    BY <2>1, <2>2, <2>3
<1> HIDE DEF failure
<1>6. ResultsInv(r)
  BY <1>1, <1>3, <1>4, <1>5 DEF ResultsInv, Bookkeeping
<1>7. CourseInv(r)
  BY <1>1 DEF CourseInv, Bookkeeping
<1>8. QED
  BY <1>1, <1>3, <1>4, <1>6, <1>7

\* What it has left is listed, and what the stages before it have written stays
\* listed.
LEMMA FailureLists ==
  ASSUME NEW s, LedgerInv(s), s.stage \in Stages,
         s.pc \in {"validate", "stage"} \cup Bookkeeping,
         NEW there, Unspoiled(s, there),
         NEW r, r.pc = "status", Succeeded(r.results) = Succeeded(s.results),
         r.ledger = Over(s.ledger, Only(there, Outputs[s.stage]))
  PROVE  LedgerInv(r)
<1> DEFINE ledger == Over(s.ledger, Only(there, Outputs[s.stage]))
<1>1. r.ledger = [ path \in DOMAIN r.ledger |-> r.ledger[path] ]
  BY DEF Over
<1>2. DOMAIN Only(there, Outputs[s.stage]) = DOMAIN there \cap Outputs[s.stage]
      /\ \A path \in DOMAIN there \cap Outputs[s.stage] :
           Only(there, Outputs[s.stage])[path] = there[path]
  BY DEF Only
<1>3. DOMAIN ledger = DOMAIN s.ledger \cup (DOMAIN there \cap Outputs[s.stage])
  BY <1>2 DEF Over
<1>4. DOMAIN r.ledger \cap {"manifest", "digest"} = {}
  BY <1>3, OutputsAssumption DEF LedgerInv, Bookkeeping, Stages
<1>5. ASSUME NEW path \in SetupFiles \cup UNION { Outputs[n] : n \in Succeeded(s.results) }
      PROVE  path \in DOMAIN ledger /\ ledger[path] = Good
  <2>1. path \in DOMAIN s.ledger /\ s.ledger[path] = Good
    BY DEF LedgerInv
  <2>2. CASE path \in DOMAIN there \cap Outputs[s.stage]
    <3>1. path \notin SetupFiles
      BY <2>2, DirectoriesAssumption DEF Stages
    <3>2. PICK n \in Succeeded(s.results) : path \in Outputs[n]
      BY <3>1
    <3>3. n = s.stage
      BY <2>2, <3>2, DirectoriesAssumption DEF Succeeded, Stages
    <3>4. there[path] = Good
      BY <2>2, <3>2, <3>3 DEF Unspoiled
    <3>5. QED
      BY <1>2, <2>2, <3>4, OverFacts
  <2>3. CASE path \notin DOMAIN there \cap Outputs[s.stage]
    <3>1. path \in DOMAIN s.ledger \ DOMAIN Only(there, Outputs[s.stage])
      BY <1>2, <2>1, <2>3
    <3>2. QED
      BY <2>1, <3>1, OverFacts
  <2>4. QED
    BY <2>2, <2>3
<1>6. r.ledger = ledger
  OBVIOUS
<1> HIDE DEF ledger
<1>7. QED
  BY <1>1, <1>4, <1>5, <1>6 DEF LedgerInv

\* A validation that fails is not believed to have found the directory in order.
LEMMA ValidateTells ==
  ASSUME IInv, StoryInv, NEW p \in Runners, ValidateLedger(p)
  PROVE  StoryInv'
<1> DEFINE s == runner[p]
<1>1. /\ RunnerInv(s) /\ ResultsInv(s) /\ CourseInv(s)
      /\ ~shared => LedgerInv(s)
      /\ s.pc = "validate" /\ files' = files /\ exists' = exists /\ shared' = shared
      /\ IsRunner(s) /\ s.failure = NoFailure /\ s.stage \in Stages
  BY OutputsAssumption
     DEF IInv, StoryInv, ValidateLedger, RunnerInv, Stages, LastStage, Owns
<1>2. DirectoryInv' /\ (~shared => ManifestInv')
  BY <1>1, NothingWritten
<1>3. CASE Intact(s)
  <2>1. PICK r : r = [ s EXCEPT !.pc = "stage" ] /\ Becomes(p, r)
    BY <1>3 DEF ValidateLedger, Goto
  <2>2. /\ r.pc = "stage" /\ r.stage = s.stage /\ r.ledger = s.ledger
        /\ r.results = s.results /\ r.success = s.success /\ r.outcome = s.outcome
    BY <1>1, <2>1 DEF IsRunner
  <2>3. ResultsInv(r)
    BY <1>1, <2>2 DEF ResultsInv, Bookkeeping
  <2>4. ~shared => LedgerInv(r)
    BY <1>1, <2>2 DEF LedgerInv
  <2>5. CourseInv(r) /\ FilesInv(r)'
    BY <1>1, <2>2 DEF CourseInv, FilesInv, Bookkeeping
  <2>6. QED
    BY <1>1, <1>2, <2>1, <2>3, <2>4, <2>5, StoryKept
<1>4. CASE ~Intact(s)
  <2>1. PICK r : r = Failed(s, "stale_artifact", files) /\ Becomes(p, r)
    BY <1>4 DEF ValidateLedger
  <2>2. ~s.success /\ s.failure.code \in {"none", "rejected"}
    BY <1>1 DEF CourseInv, Bookkeeping, NoFailure
  <2>3. s.stage \notin Succeeded(s.results)
    BY <1>1, OutputsAssumption DEF ResultsInv, Stages
  <2>4. s.pc \in {"validate", "stage"} \cup Bookkeeping /\ Unspoiled(s, files)
    BY <1>1, <2>3 DEF Unspoiled
  <2>5. /\ ResultsInv(r) /\ CourseInv(r)
        /\ r.pc = "status" /\ r.failure.code = "stale_artifact"
        /\ r.ledger = Over(s.ledger, Only(files, Outputs[s.stage]))
        /\ Succeeded(r.results) = Succeeded(s.results)
    <3> HIDE DEF s
    <3>1. QED
      BY <1>1, <2>1, <2>2, <2>4, FailureTells
  <2>6. ~shared => LedgerInv(r)
    <3> HIDE DEF s
    <3>1. QED
      BY <1>1, <2>4, <2>5, FailureLists
  <2>7. FilesInv(r)'
    BY <2>5 DEF FilesInv
  <2>8. QED
    BY <1>1, <1>2, <2>1, <2>5, <2>6, <2>7, StoryKept
<1>5. QED
  BY <1>3, <1>4

\* A stage that raises, whatever it has left of its files.
LEMMA StageRaisesTells ==
  ASSUME IInv, StoryInv, NEW p \in Runners, StageRaises(p)
  PROVE  StoryInv'
<1> DEFINE s == runner[p]
           mine == Outputs[s.stage]
<1>1. /\ RunnerInv(s) /\ ResultsInv(s) /\ CourseInv(s)
      /\ ~shared => LedgerInv(s) /\ Intact(s)
      /\ s.pc = "stage" /\ Owns(p) /\ shared' = shared
      /\ IsRunner(s) /\ s.failure = NoFailure /\ s.stage \in Stages
  BY OutputsAssumption
     DEF IInv, StoryInv, StageRaises, RunnerInv, Stages, LastStage, Owns, OwnerInv, IntactInv
<1>2. PICK partial \in Interrupted(mine) : Put(partial)
  BY DEF StageRaises
<1>3. DOMAIN partial \subseteq mine /\ files' = Over(files, partial)
  BY <1>2 DEF Interrupted, Put
<1>4. "manifest" \notin DOMAIN partial
  BY <1>1, <1>3, OutputsAssumption DEF Stages, Bookkeeping
<1>5. DirectoryInv' /\ (~shared => ManifestInv')
  BY <1>2, <1>4, WrittenOver
<1>6. PICK r : r = Failed(s, "stage_exception", files') /\ Becomes(p, r)
  BY DEF StageRaises
<1>7. ~s.success /\ s.failure.code \in {"none", "rejected"}
  BY <1>1 DEF CourseInv, Bookkeeping, NoFailure
<1>8. s.stage \notin Succeeded(s.results)
  BY <1>1, OutputsAssumption DEF ResultsInv, Stages
<1>9. s.pc \in {"validate", "stage"} \cup Bookkeeping /\ Unspoiled(s, files')
  BY <1>1, <1>8 DEF Unspoiled
<1>10. /\ ResultsInv(r) /\ CourseInv(r)
       /\ r.pc = "status" /\ r.failure.code = "stage_exception"
       /\ r.ledger = Over(s.ledger, Only(files', mine))
       /\ Succeeded(r.results) = Succeeded(s.results)
  <2> HIDE DEF s
  <2>1. QED
    BY <1>1, <1>6, <1>7, <1>9, FailureTells
<1>11. ~shared => LedgerInv(r)
  <2> HIDE DEF s
  <2>1. QED
    BY <1>1, <1>9, <1>10, FailureLists
<1>12. ASSUME ~shared
       PROVE  \A path \in DOMAIN r.ledger \ {"status"} : Listed(r, path)'
  <2>1. \A path \in DOMAIN s.ledger : path \in DOMAIN files /\ files[path] = s.ledger[path]
    BY <1>1, <1>12 DEF Intact
  <2>2. \A path \in DOMAIN files : path \in DOMAIN files'
    BY <1>3 DEF Over
  <2>3. \A path \in DOMAIN files \ mine : files'[path] = files[path]
    BY <1>3, OverFacts
  <2>4. DOMAIN Only(files', mine) = DOMAIN files' \cap mine
        /\ \A path \in DOMAIN files' \cap mine : Only(files', mine)[path] = files'[path]
    BY DEF Only
  <2>5. DOMAIN r.ledger = DOMAIN s.ledger \cup (DOMAIN files' \cap mine)
    BY <1>10, <2>4 DEF Over
  <2>6. \A path \in DOMAIN files' \cap mine : r.ledger[path] = files'[path]
    BY <1>10, <2>4, OverFacts
  <2>7. \A path \in DOMAIN s.ledger \ (DOMAIN files' \cap mine) :
          r.ledger[path] = s.ledger[path]
    BY <1>10, <2>4, OverFacts
  <2>8. \A path \in DOMAIN r.ledger : path \in DOMAIN files' /\ files'[path] = r.ledger[path]
    BY <2>1, <2>2, <2>3, <2>5, <2>6, <2>7
  <2>9. QED
    BY <2>8 DEF Listed
<1>13. ~shared => FilesInv(r)'
  BY <1>10, <1>12 DEF FilesInv
<1>14. QED
  BY <1>1, <1>5, <1>6, <1>10, <1>11, <1>13, StoryKept

\* A runner whose outcome could not be persisted lists its stage once more, as
\* failed; the stage's files are as they were.
LEMMA PersistRaisesTells ==
  ASSUME IInv, StoryInv, NEW p \in Runners, PersistRaises(p)
  PROVE  StoryInv'
<1> DEFINE s == runner[p]
           mine == Outputs[s.stage]
<1>1. /\ RunnerInv(s) /\ ResultsInv(s) /\ CourseInv(s) /\ shared' = shared
      /\ s.pc \in Bookkeeping /\ Owns(p) /\ IsRunner(s)
      /\ s.failure.code \in {"none", "rejected"} /\ ~s.success /\ s.stage > 0
  BY DEF IInv, RunnerInv, StoryInv, PersistRaises, Persisting, InTry, Owns, Bookkeeping
<1>2. s.stage \in Stages /\ (~shared => LedgerInv(s) /\ FilesInv(s))
  BY <1>1, OutputsAssumption DEF StoryInv, IsRunner, Stages, LastStage
<1>3. PICK half \in HalfWritten(s) : Put(half)
  BY DEF PersistRaises
<1>4. /\ DOMAIN half \subseteq {s.pc} /\ \A path \in DOMAIN half : half[path] = Torn
      /\ files' = Over(files, half)
  BY <1>3 DEF HalfWritten, File, Nothing, Put
<1>5. DirectoryInv' /\ (~shared => ManifestInv')
  BY <1>3, <1>4, WrittenOver
<1>6. PICK r : r = Failed(s, "stage_exception", files') /\ Becomes(p, r)
  BY DEF PersistRaises
<1>7. \* all that is listed is there, but for the file that was being written
      ASSUME ~shared
      PROVE  \A path \in DOMAIN s.ledger \ {"status"} :
               path \in DOMAIN files' /\ files'[path] = s.ledger[path]
  <2>1. s.failure.code # "stale_artifact"
    BY <1>1
  <2>2. \A path \in DOMAIN s.ledger \ {"status"} : Listed(s, path)
    BY <1>1, <1>2, <1>7, <2>1 DEF FilesInv, Intact, Listed, Bookkeeping
  <2>3. \A path \in DOMAIN s.ledger \ {"status"} : path # s.pc
    BY <1>1, <1>2, <1>7 DEF LedgerInv, Bookkeeping
  <2>4. QED
    BY <1>4, <2>2, <2>3, OverFacts DEF Listed
<1>8. mine \cap Bookkeeping = {}
  BY <1>2, OutputsAssumption DEF Stages
<1>9. ASSUME ~shared
      PROVE  Unspoiled(s, files')
  <2> SUFFICES ASSUME s.stage \in Succeeded(s.results), NEW path \in DOMAIN files' \cap mine
               PROVE  files'[path] = Good
    BY DEF Unspoiled
  <2>1. path \in DOMAIN s.ledger /\ s.ledger[path] = Good
    BY <1>1, <1>2, <1>9 DEF LedgerInv
  <2>2. QED
    BY <1>7, <1>8, <1>9, <2>1 DEF Bookkeeping
<1>10. /\ ResultsInv(r) /\ CourseInv(r)
       /\ r.pc = "status" /\ r.failure.code = "stage_exception"
       /\ r.ledger = Over(s.ledger, Only(files', mine))
       /\ Succeeded(r.results) = Succeeded(s.results)
  <2> HIDE DEF s
  <2>1. QED
    BY <1>1, <1>2, <1>6, FailureTells
<1>11. ~shared => LedgerInv(r)
  <2> HIDE DEF s
  <2>1. QED
    BY <1>1, <1>2, <1>9, <1>10, FailureLists
<1>12. ASSUME ~shared
       PROVE  \A path \in DOMAIN r.ledger \ {"status"} :
                path \in DOMAIN files' /\ files'[path] = r.ledger[path]
  <2>1. DOMAIN Only(files', mine) = DOMAIN files' \cap mine
        /\ \A path \in DOMAIN files' \cap mine : Only(files', mine)[path] = files'[path]
    BY DEF Only
  <2>2. DOMAIN r.ledger = DOMAIN s.ledger \cup (DOMAIN files' \cap mine)
    BY <1>10, <2>1 DEF Over
  <2>3. \A path \in DOMAIN files' \cap mine : r.ledger[path] = files'[path]
    BY <1>10, <2>1, OverFacts
  <2>4. \A path \in DOMAIN s.ledger \ (DOMAIN files' \cap mine) :
          r.ledger[path] = s.ledger[path]
    BY <1>10, <2>1, OverFacts
  <2>5. QED
    BY <1>7, <1>12, <2>2, <2>3, <2>4
<1>13. ~shared => FilesInv(r)'
  BY <1>10, <1>12 DEF FilesInv, Listed
<1>14. QED
  BY <1>1, <1>5, <1>6, <1>10, <1>11, <1>13, StoryKept

\* The calls of run touch nothing.
LEMMA StartTells ==
  ASSUME IInv, StoryInv, NEW p \in Runners, NEW force, RefuseExisting(p) \/ StartRun(p, force)
  PROVE  StoryInv'
<1>1. files' = files /\ exists' = exists /\ shared' = shared
  BY DEF RefuseExisting, StartRun
<1>2. DirectoryInv' /\ (~shared => ManifestInv')
  BY <1>1, NothingWritten
<1>3. PICK pc, outcome, r :
        /\ pc \in {"preparing", "ended"} /\ Becomes(p, r)
        /\ \/ r = [ Fresh EXCEPT !.pc = pc, !.force = force ]
           \/ r = [ Fresh EXCEPT !.pc = pc, !.outcome = outcome ] /\ pc = "ended"
  BY DEF RefuseExisting, StartRun
<1>4. ResultsInv(r) /\ CourseInv(r) /\ ~Working(r)
  BY <1>3, FreshStory
<1>5. QED
  BY <1>1, <1>2, <1>3, <1>4, StoryKept

\* A process that has written nothing yet goes on without a result.
LEMMA NothingToTell ==
  ASSUME NEW s, RunnerInv(s), ResultsInv(s), CourseInv(s),
         s.pc \in {"preparing", "removing", "creating"},
         NEW pc \in {"removing", "creating", "setup"}, NEW r, r = [ s EXCEPT !.pc = pc ]
  PROVE  ResultsInv(r) /\ CourseInv(r) /\ r.pc = pc
<1>1. /\ r.pc = pc /\ r.stage = s.stage /\ r.ledger = s.ledger /\ r.results = s.results
      /\ r.success = s.success /\ r.outcome = s.outcome
  BY DEF RunnerInv, IsRunner
<1>2. ResultsInv(r)
  BY <1>1 DEF ResultsInv, Bookkeeping
<1>3. CourseInv(r)
  BY <1>1 DEF CourseInv, Bookkeeping
<1>4. QED
  BY <1>1, <1>2, <1>3

\* The second look at the directory touches nothing.
LEMMA PrepareTells ==
  ASSUME IInv, StoryInv, NEW p \in Runners, PrepareDirectory(p)
  PROVE  StoryInv'
<1>1. /\ files' = files /\ exists' = exists /\ shared' = shared
      /\ RunnerInv(runner[p]) /\ ResultsInv(runner[p]) /\ CourseInv(runner[p])
      /\ runner[p].pc = "preparing"
  BY DEF PrepareDirectory, IInv, StoryInv
<1>2. DirectoryInv' /\ (~shared => ManifestInv')
  BY <1>1, NothingWritten
<1>3. PICK pc \in {"removing", "creating"} : Goto(p, pc)
  BY DEF PrepareDirectory
<1>4. PICK r : r = [ runner[p] EXCEPT !.pc = pc ] /\ Becomes(p, r)
  BY <1>3 DEF Goto
<1>5. ResultsInv(r) /\ CourseInv(r) /\ r.pc = pc
  BY <1>1, <1>4, NothingToTell
<1>6. ~Working(r)
  BY <1>5 DEF Working
<1>7. QED
  BY <1>1, <1>2, <1>4, <1>5, <1>6, StoryKept

\* rmtree leaves of a manifest all or nothing, and of a directory that is gone no
\* file; if somebody works there, nothing more is claimed.
LEMMA RemoveTells ==
  ASSUME IInv, StoryInv, NEW p \in Runners, RemoveFile(p) \/ RemoveDirectory(p)
  PROVE  StoryInv'
<1>1. /\ RunnerInv(runner[p]) /\ ResultsInv(runner[p]) /\ CourseInv(runner[p])
      /\ runner[p].pc = "removing" /\ DOMAIN runner = Runners
      /\ shared' \/ \A q \in Runners : ~Owns(q)
      /\ shared => shared'
  BY DEF IInv, StoryInv, RemoveFile, RemoveDirectory, FromUnderOwner
<1>2. CASE RemoveFile(p)
  <2>1. PICK path \in DOMAIN files : files' = Only(files, DOMAIN files \ {path})
    BY <1>2 DEF RemoveFile
  <2>2. runner' = runner /\ exists' = exists
    BY <1>2 DEF RemoveFile
  <2>3. exists
    BY <2>1 DEF StoryInv, DirectoryInv, Nothing
  <2>4. DOMAIN files' = DOMAIN files \ {path}
        /\ \A other \in DOMAIN files' : files'[other] = files[other]
    BY <2>1 DEF Only
  <2>5. ~shared' => ManifestInv'
    BY <1>1, <2>4 DEF StoryInv, ManifestInv
  <2>6. DirectoryInv'
    BY <2>1, <2>2, <2>3 DEF DirectoryInv, Only
  <2>7. ~shared' => \A q \in Runners : ~Owns(q)'
    BY <1>1, <2>2 DEF Owns
  <2>8. \A q \in Runners : ResultsInv(runner'[q]) /\ CourseInv(runner'[q])
    BY <2>2 DEF StoryInv
  <2>9. QED
    BY <2>5, <2>6, <2>7, <2>8 DEF StoryInv
<1>3. CASE RemoveDirectory(p)
  <2>1. files' = files /\ DOMAIN files = {}
    BY <1>3 DEF RemoveDirectory
  <2>2. files = Nothing
    BY <2>1 DEF StoryInv, DirectoryInv, Nothing
  <2>3. DirectoryInv' /\ (~shared' => ManifestInv')
    BY <1>1, <2>1, <2>2 DEF StoryInv, ManifestInv, DirectoryInv
  <2>4. PICK r : r = [ runner[p] EXCEPT !.pc = "creating" ] /\ Becomes(p, r)
    BY <1>3 DEF RemoveDirectory, Goto
  <2>5. ResultsInv(r) /\ CourseInv(r) /\ r.pc = "creating"
    BY <1>1, <2>4, NothingToTell
  <2>6. runner'[p] = r /\ \A q \in Runners : q # p => runner'[q] = runner[q]
    BY <1>1, <2>4 DEF Becomes
  <2>7. ~shared' => \A q \in Runners : ~Owns(q)'
    BY <1>1, <2>5, <2>6 DEF Owns
  <2>8. \A q \in Runners : ResultsInv(runner'[q]) /\ CourseInv(runner'[q])
    BY <2>5, <2>6 DEF StoryInv
  <2>9. QED
    BY <2>3, <2>7, <2>8 DEF StoryInv
<1>4. QED
  BY <1>2, <1>3

\* Whoever makes the directory finds it empty.
LEMMA CreateTells ==
  ASSUME IInv, StoryInv, NEW p \in Runners, CreateDirectory(p)
  PROVE  StoryInv'
<1>1. /\ RunnerInv(runner[p]) /\ ResultsInv(runner[p]) /\ CourseInv(runner[p])
      /\ runner[p].pc = "creating" /\ files' = files /\ ~exists /\ exists'
      /\ DOMAIN runner = Runners
  BY DEF IInv, StoryInv, CreateDirectory, MayCreate
<1>2. files = Nothing
  BY <1>1 DEF StoryInv, DirectoryInv
<1>3. DirectoryInv' /\ ManifestInv'
  BY <1>1, <1>2 DEF StoryInv, DirectoryInv, ManifestInv, Nothing
<1>4. PICK r : r = [ runner[p] EXCEPT !.pc = "setup" ] /\ Becomes(p, r)
  BY DEF CreateDirectory, Goto
<1>5. ResultsInv(r) /\ CourseInv(r) /\ r.pc = "setup"
  BY <1>1, <1>4, NothingToTell
<1>6. runner'[p] = r /\ \A q \in Runners : q # p => runner'[q] = runner[q]
  BY <1>1, <1>4 DEF Becomes
<1>7. \A q \in Runners : ResultsInv(runner'[q]) /\ CourseInv(runner'[q])
  BY <1>5, <1>6 DEF StoryInv
<1>8. shared' \/ \A q \in Runners : ~Owns(q)
  BY <1>1 DEF CreateDirectory, IInv, OwnerInv
<1>9. ASSUME ~shared', NEW q \in Runners, Owns(q)'
      PROVE  LedgerInv(runner'[q]) /\ FilesInv(runner[q])'
  <2>1. q = p
    BY <1>6, <1>8, <1>9 DEF Owns
  <2>2. LedgerInv(r)
    BY <1>5 DEF LedgerInv, ResultsInv, Nothing, Bookkeeping
  <2>3. FilesInv(runner[p])'
    BY <1>5, <1>6 DEF FilesInv
  <2>4. QED
    BY <1>6, <2>1, <2>2, <2>3
<1>10. QED
  BY <1>3, <1>7, <1>9 DEF StoryInv

\* The first files are listed as they are written.
LEMMA SetupTells ==
  ASSUME IInv, StoryInv, NEW p \in Runners, RecordSetupInputs(p)
  PROVE  StoryInv'
<1> DEFINE s == runner[p]
           setup == [ path \in SetupFiles |-> Good ]
<1>1. /\ RunnerInv(s) /\ ResultsInv(s) /\ CourseInv(s) /\ s.pc = "setup"
      /\ Owns(p) /\ shared' = shared /\ Put(setup)
      /\ IsRunner(s) /\ s.stage = 0 /\ s.failure = NoFailure /\ s.results = << >>
  BY DEF IInv, StoryInv, RecordSetupInputs, Owns, RunnerInv, ResultsInv
<1>2. PICK r : r = [ s EXCEPT !.pc = "status", !.ledger = setup ] /\ Becomes(p, r)
  BY DEF RecordSetupInputs
<1>3. /\ r.pc = "status" /\ r.stage = 0 /\ r.failure = NoFailure /\ r.ledger = setup
      /\ r.results = << >> /\ r.success = s.success /\ r.outcome = s.outcome
  BY <1>1, <1>2 DEF IsRunner
<1>4. /\ DOMAIN setup = SetupFiles /\ \A path \in SetupFiles : setup[path] = Good
      /\ files' = Over(files, setup)
  BY <1>1 DEF Put
<1>5. Succeeded(r.results) = {} /\ Len(r.results) = 0 /\ r.results \in Seq(StageResults)
  BY <1>3 DEF Succeeded
<1>6. DirectoryInv' /\ (~shared => ManifestInv')
  BY <1>1, <1>4, WrittenOver DEF SetupFiles
<1>7. ResultsInv(r)
  BY <1>3, <1>5 DEF ResultsInv, Bookkeeping
<1>8. LedgerInv(r)
  BY <1>3, <1>4, <1>5 DEF LedgerInv, SetupFiles
<1>9. CourseInv(r)
  BY <1>1, <1>3 DEF CourseInv, Bookkeeping
<1>10. \A path \in SetupFiles : path \in DOMAIN files' /\ files'[path] = Good
  BY <1>4, OverFacts
<1>11. FilesInv(r)'
  BY <1>3, <1>4, <1>10 DEF FilesInv, Listed
<1>12. QED
  BY <1>1, <1>2, <1>6, <1>7, <1>8, <1>9, <1>11, StoryKept

\* A stage that returns is told of as it should be, and so is one that rejects.
LEMMA ReturnsTells ==
  ASSUME IInv, StoryInv, NEW p \in Runners, StageReturns(p)
  PROVE  StoryInv'
<1> DEFINE s == runner[p]
           mine == Outputs[s.stage]
           written == [ path \in mine |-> Good ]
           done == Append(s.results, StageResult(s.stage, "succeeded"))
           undone == Append(s.results, StageResult(s.stage, "failed")) \o Skipped(s.stage)
           failure == [ stage |-> s.stage, code |-> "rejected" ]
           ledger == Over(s.ledger, written)
<1>1. /\ RunnerInv(s) /\ ResultsInv(s) /\ CourseInv(s)
      /\ ~shared => LedgerInv(s) /\ Intact(s)
      /\ s.pc = "stage" /\ Owns(p) /\ shared' = shared /\ Put(written)
      /\ IsRunner(s) /\ s.failure = NoFailure /\ files' = Over(files, written)
  BY DEF IInv, StoryInv, StageReturns, RunnerInv, Owns, IntactInv, Put
<1>2. /\ s.stage \in Stages /\ Stages = 1 .. LastStage /\ LastStage \in Nat
      /\ s.results \in Seq(StageResults)
      /\ Len(s.results) = s.stage - 1 /\ Succeeded(s.results) = 1 .. s.stage - 1
  BY <1>1, OutputsAssumption DEF RunnerInv, ResultsInv, Stages, LastStage
<1>3. DOMAIN written = mine /\ \A path \in mine : written[path] = Good
  OBVIOUS
<1>4. mine \cap Bookkeeping = {} /\ mine \cap SetupFiles = {}
  BY <1>2, OutputsAssumption, DirectoriesAssumption DEF Stages
<1>5. DirectoryInv' /\ (~shared => ManifestInv')
  BY <1>1, <1>3, <1>4, WrittenOver DEF Bookkeeping
<1>6. PICK r : /\ Becomes(p, r)
               /\ \/ r = [ s EXCEPT !.pc = "status", !.ledger = ledger, !.results = done ]
                  \/ r = [ s EXCEPT !.pc = "status", !.ledger = ledger, !.results = undone,
                                    !.failure = failure ]
  <2> DEFINE after == [ s EXCEPT !.pc = "status", !.ledger = ledger ]
  <2>1. after.results = s.results
    BY <1>1 DEF IsRunner
  <2>2. \/ Becomes(p, [ after EXCEPT !.results = done ])
        \/ Becomes(p, [ after EXCEPT !.failure = failure, !.results = undone ])
    BY <2>1 DEF StageReturns
  <2> HIDE DEF ledger, done, undone, failure
  <2>3. [ after EXCEPT !.results = done ]
          = [ s EXCEPT !.pc = "status", !.ledger = ledger, !.results = done ]
    BY <1>1 DEF IsRunner
  <2>4. [ after EXCEPT !.failure = failure, !.results = undone ]
          = [ s EXCEPT !.pc = "status", !.ledger = ledger, !.results = undone,
                       !.failure = failure ]
    BY <1>1 DEF IsRunner
  <2>5. QED
    BY <2>2, <2>3, <2>4
<1>7. /\ r.pc = "status" /\ r.stage = s.stage /\ r.ledger = ledger
      /\ r.success = s.success /\ r.outcome = s.outcome
      /\ \/ r.results = done /\ r.failure = NoFailure
         \/ r.results = undone /\ r.failure = failure
  <2> HIDE DEF ledger, done, undone, failure
  <2>1. QED
    BY <1>1, <1>6 DEF IsRunner
<1>8. /\ done \in Seq(StageResults) /\ Len(done) = s.stage
      /\ Succeeded(done) = 1 .. s.stage
  <2>1. /\ done \in Seq(StageResults) /\ Len(done) = Len(s.results) + 1
        /\ Succeeded(done) = Succeeded(s.results) \cup {s.stage}
    BY <1>2, OneMoreSucceeded
  <2> HIDE DEF s, done
  <2>2. QED
    BY <1>2, <2>1
<1>9. /\ undone \in Seq(StageResults) /\ Len(undone) = LastStage
      /\ Succeeded(undone) = 1 .. s.stage - 1
  <2> HIDE DEF s
  <2>1. /\ undone \in Seq(StageResults)
        /\ Len(undone) = Len(s.results) + 1 + (LastStage - s.stage)
        /\ Succeeded(undone) = Succeeded(s.results)
    BY <1>2, FailureAppended
  <2> HIDE DEF undone
  <2>2. QED
    BY <1>2, <2>1
<1>10. failure.stage = s.stage /\ failure.code = "rejected" /\ failure # NoFailure
  BY DEF NoFailure
<1> HIDE DEF done, undone, failure
<1>11. ResultsInv(r)
  BY <1>2, <1>7, <1>8, <1>9, <1>10 DEF ResultsInv, Bookkeeping
<1>12. ASSUME ~shared
       PROVE  LedgerInv(r)
  <2>1. ledger = [ path \in DOMAIN ledger |-> ledger[path] ]
        /\ DOMAIN ledger = DOMAIN s.ledger \cup mine
    BY <1>3 DEF Over
  <2>2. DOMAIN ledger \cap {"manifest", "digest"} = {}
    BY <1>1, <1>4, <1>12, <2>1 DEF LedgerInv, Bookkeeping
  <2>3. Succeeded(r.results) \subseteq Succeeded(s.results) \cup {s.stage}
    BY <1>2, <1>7, <1>8, <1>9
  <2>4. ASSUME NEW path \in SetupFiles \cup UNION { Outputs[n] : n \in Succeeded(r.results) }
        PROVE  path \in DOMAIN ledger /\ ledger[path] = Good
    <3>1. CASE path \in mine
      BY <1>3, <3>1, OverFacts
    <3>2. CASE path \notin mine
      <4>1. path \in SetupFiles \cup UNION { Outputs[n] : n \in Succeeded(s.results) }
        BY <2>3, <3>2
      <4>2. path \in DOMAIN s.ledger \ DOMAIN written /\ s.ledger[path] = Good
        BY <1>1, <1>3, <1>12, <3>2, <4>1 DEF LedgerInv
      <4>3. QED
        BY <4>2, OverFacts
    <3>3. QED
      BY <3>1, <3>2
  <2> HIDE DEF ledger
  <2>5. QED
    BY <1>7, <2>1, <2>2, <2>4 DEF LedgerInv
<1>13. CourseInv(r)
  BY <1>1, <1>7 DEF CourseInv, Bookkeeping
<1>14. ASSUME ~shared
       PROVE  FilesInv(r)'
  <2>1. \A path \in DOMAIN ledger : path \in DOMAIN files' /\ files'[path] = ledger[path]
    <3>1. DOMAIN ledger = DOMAIN s.ledger \cup mine
      BY <1>3 DEF Over
    <3>2. \A path \in mine : path \in DOMAIN files' /\ files'[path] = Good /\ ledger[path] = Good
      BY <1>1, <1>3, OverFacts
    <3>3. \A path \in DOMAIN s.ledger \ mine :
            path \in DOMAIN files' /\ files'[path] = files[path] /\ ledger[path] = s.ledger[path]
      BY <1>1, <1>3, <1>14, OverFacts DEF Intact
    <3>4. QED
      BY <1>1, <1>14, <3>1, <3>2, <3>3 DEF Intact
  <2> HIDE DEF ledger
  <2>2. QED
    BY <1>7, <2>1 DEF FilesInv, Listed
<1>15. QED
  BY <1>1, <1>5, <1>6, <1>11, <1>12, <1>13, <1>14, StoryKept

\* Of a process that dies, the files stay, perhaps torn, and nothing is told.
LEMMA DiesTells ==
  ASSUME IInv, StoryInv, NEW p \in Runners, Dies(p)
  PROVE  StoryInv'
<1> DEFINE s == runner[p]
<1>1. PICK r : r = [ Fresh EXCEPT !.pc = "ended", !.outcome = "died" ] /\ Becomes(p, r)
  BY DEF Dies, Died
<1>2. ResultsInv(r) /\ CourseInv(r) /\ ~Working(r) /\ shared' = shared
  BY <1>1, FreshStory DEF Dies
<1>3. CASE UNCHANGED << files, exists >>
  <2>1. DirectoryInv' /\ (~shared => ManifestInv')
    BY <1>3, NothingWritten
  <2>2. QED
    BY <1>1, <1>2, <1>3, <2>1, StoryKept
<1>4. CASE ~UNCHANGED << files, exists >>
  <2>1. Owns(p)
    BY <1>4 DEF Dies, Persisting, Owns, Bookkeeping
  <2>2. PICK g : Put(g) /\ ("manifest" \in DOMAIN g => g["manifest"] = Torn)
    <3>1. CASE s.pc = "stage" /\ \E partial \in Interrupted(Outputs[s.stage]) : Put(partial)
      <4>1. PICK partial \in Interrupted(Outputs[s.stage]) : Put(partial)
        BY <3>1
      <4>2. DOMAIN partial \subseteq Outputs[s.stage]
        BY DEF Interrupted
      <4>3. s.stage \in DOMAIN Outputs
        BY <3>1, OutputsAssumption DEF IInv, RunnerInv, LastStage
      <4>4. QED
        BY <4>1, <4>2, <4>3, OutputsAssumption DEF Bookkeeping
    <3>2. CASE \E partial \in Interrupted(SetupFiles) : Put(partial)
      BY <3>2 DEF Interrupted, SetupFiles
    <3>3. CASE \E half \in HalfWritten(s) : Put(half)
      BY <3>3 DEF HalfWritten, File, Nothing
    <3>4. QED
      BY <1>4, <3>1, <3>2, <3>3 DEF Dies
  <2>3. DirectoryInv' /\ (~shared => ManifestInv')
    BY <2>2, WrittenOver
  <2>4. QED
    BY <1>1, <1>2, <2>1, <2>3, StoryKept
<1>5. QED
  BY <1>3, <1>4

\* Whoever edits files does it behind nobody's back that persists.
LEMMA EditTells ==
  ASSUME IInv, StoryInv, NEW path, Edit(path)
  PROVE  StoryInv'
<1>1. /\ runner' = runner /\ exists' = exists /\ shared' = shared /\ path \in DOMAIN files
      /\ \/ files' = Over(files, File(path, Changed))
         \/ files' = Only(files, DOMAIN files \ {path})
  BY DEF Edit
<1>2. \A q \in Runners : FilesInv(runner[q])'
  <2>1. \A q \in Runners : runner[q].pc \notin Bookkeeping
    BY DEF Edit, Idle, Bookkeeping
  <2>2. QED
    BY <1>1, <2>1 DEF FilesInv, Bookkeeping
<1>3. exists
  BY <1>1 DEF StoryInv, DirectoryInv, Nothing
<1>4. files' = [ other \in DOMAIN files' |-> files'[other] ]
  BY <1>1 DEF Over, Only
<1>5. DirectoryInv'
  BY <1>1, <1>3, <1>4 DEF DirectoryInv
<1>6. \A other \in DOMAIN files' :
        \/ files'[other] = Changed
        \/ other \in DOMAIN files /\ files'[other] = files[other]
  <2>1. CASE files' = Over(files, File(path, Changed))
    <3>1. DOMAIN File(path, Changed) = {path} /\ File(path, Changed)[path] = Changed
      BY DEF File
    <3>2. DOMAIN files' = DOMAIN files \cup {path}
      BY <2>1, <3>1 DEF Over
    <3>3. /\ \A other \in {path} : files'[other] = Changed
          /\ \A other \in DOMAIN files \ {path} : files'[other] = files[other]
      BY <2>1, <3>1, OverFacts
    <3>4. QED
      BY <3>2, <3>3
  <2>2. CASE files' = Only(files, DOMAIN files \ {path})
    BY <2>2 DEF Only
  <2>3. QED
    BY <1>1, <2>1, <2>2
<1>7. ~shared => ManifestInv'
  BY <1>6 DEF ManifestInv, StoryInv, Changed
<1>8. \A q \in Runners : Owns(q)' <=> Owns(q)
  BY <1>1 DEF Owns
<1>9. QED
  BY <1>1, <1>2, <1>5, <1>7, <1>8 DEF StoryInv

\* status.json is written and listed.
LEMMA WriteStatusTells ==
  ASSUME IInv, StoryInv, NEW p \in Runners, WriteStatus(p)
  PROVE  StoryInv'
<1> DEFINE s == runner[p]
           status == File("status", StatusFile(s))
           ledger == Over(s.ledger, status)
<1>1. /\ IsRunner(s) /\ ResultsInv(s) /\ CourseInv(s)
      /\ ~shared => LedgerInv(s) /\ FilesInv(s)
      /\ s.pc = "status" /\ s.stage \in 0 .. LastStage /\ Owns(p) /\ shared' = shared
      /\ Put(status) /\ files' = Over(files, status)
  BY DEF IInv, StoryInv, WriteStatus, RunnerInv, IsRunner, Owns, Put
<1>2. DOMAIN status = {"status"} /\ status["status"] = StatusFile(s)
  BY DEF File
<1>3. DirectoryInv' /\ (~shared => ManifestInv')
  BY <1>1, <1>2, WrittenOver
<1>4. PICK r : r = [ s EXCEPT !.pc = "manifest", !.ledger = ledger ] /\ Becomes(p, r)
  <2> DEFINE with == [ s EXCEPT !.ledger = ledger ]
  <2>1. Becomes(p, [ with EXCEPT !.pc = "manifest" ])
    BY DEF WriteStatus, WithStatus
  <2> HIDE DEF ledger
  <2>2. [ with EXCEPT !.pc = "manifest" ] = [ s EXCEPT !.pc = "manifest", !.ledger = ledger ]
    BY <1>1 DEF IsRunner
  <2>3. QED
    BY <2>1, <2>2
<1>5. /\ r.pc = "manifest" /\ r.stage = s.stage /\ r.ledger = ledger
      /\ r.results = s.results /\ r.success = s.success /\ r.outcome = s.outcome
      /\ r.failure = s.failure
  <2> HIDE DEF ledger
  <2>1. QED
    BY <1>1, <1>4 DEF IsRunner
<1>6. StatusFile(r) = StatusFile(s)
  BY <1>5 DEF StatusFile, Story
<1>7. /\ DOMAIN ledger = DOMAIN s.ledger \cup {"status"}
      /\ ledger = [ path \in DOMAIN ledger |-> ledger[path] ]
  BY <1>2 DEF Over
<1>8. "status" \in DOMAIN ledger /\ ledger["status"] = StatusFile(s)
  BY <1>2, OverFacts
<1>9. \A path \in DOMAIN s.ledger \ {"status"} : ledger[path] = s.ledger[path]
  BY <1>2, OverFacts
<1> HIDE DEF ledger
<1>10. ResultsInv(r)
  BY <1>1, <1>5 DEF ResultsInv, Bookkeeping
<1>11. ASSUME ~shared
       PROVE  LedgerInv(r)
  <2>1. DOMAIN ledger \cap {"manifest", "digest"} = {}
    BY <1>1, <1>7, <1>11 DEF LedgerInv
  <2>2. ASSUME NEW path \in SetupFiles \cup UNION { Outputs[n] : n \in Succeeded(s.results) }
        PROVE  path \in DOMAIN ledger /\ ledger[path] = Good
    <3>1. path \in DOMAIN s.ledger /\ s.ledger[path] = Good
      BY <1>1, <1>11 DEF LedgerInv, Bookkeeping
    <3>2. path # "status"
      BY OutputsAssumption DEF SetupFiles, Succeeded, Stages, Bookkeeping
    <3>3. QED
      BY <1>7, <1>9, <3>1, <3>2
  <2>3. QED
    BY <1>5, <1>6, <1>7, <1>8, <2>1, <2>2 DEF LedgerInv
<1>12. CourseInv(r)
  BY <1>1, <1>5 DEF CourseInv, Bookkeeping
<1>13. ASSUME ~shared
       PROVE  FilesInv(r)'
  <2>1. ASSUME s.failure.code # "stale_artifact", NEW path \in DOMAIN ledger
        PROVE  path \in DOMAIN files' /\ files'[path] = ledger[path]
    <3>1. CASE path = "status"
      BY <1>1, <1>2, <1>8, <3>1, OverFacts
    <3>2. CASE path # "status"
      <4>1. path \in DOMAIN files \ {"status"} /\ files[path] = s.ledger[path]
        BY <1>1, <1>7, <1>13, <2>1, <3>2 DEF FilesInv, Listed
      <4>2. path \in DOMAIN files' /\ files'[path] = files[path]
        BY <1>1, <1>2, <4>1, OverFacts
      <4>3. QED
        BY <1>7, <1>9, <3>2, <4>1, <4>2
    <3>3. QED
      BY <3>1, <3>2
  <2>2. QED
    BY <1>5, <2>1 DEF FilesInv, Intact
<1>14. QED
  BY <1>1, <1>3, <1>4, <1>10, <1>11, <1>12, <1>13, StoryKept

\* The manifest of a runner that writes one is honest.
LEMMA ManifestTells ==
  ASSUME NEW s, IsRunner(s), ResultsInv(s), LedgerInv(s), CourseInv(s), s.pc = "manifest"
  PROVE  HonestManifest(Manifest(s))
<1> DEFINE m == Manifest(s)
           done == Succeeded(s.results)
<1>1. /\ m.story.results = s.results /\ m.story.failure = s.failure
      /\ m.story.success = s.success /\ m.ledger = s.ledger
      /\ m.story = Story(s)
  BY DEF Manifest, Story
<1>2. /\ "status" \in DOMAIN s.ledger
      /\ s.ledger["status"] = [ kind |-> "status", story |-> Story(s) ]
      /\ \A path \in SetupFiles \cup UNION { Outputs[n] : n \in done } :
           path \in DOMAIN s.ledger /\ s.ledger[path] = Good
  BY DEF LedgerInv, Bookkeeping, StatusFile
<1>3. Stages = 1 .. LastStage /\ LastStage \in Nat /\ s.stage \in 0 .. LastStage
  BY OutputsAssumption DEF Stages, LastStage, IsRunner
<1>4. /\ done \in { 1 .. s.stage - 1, 1 .. s.stage }
      /\ s.failure = NoFailure => done = 1 .. s.stage
      /\ s.failure # NoFailure => s.failure.stage = s.stage
  BY DEF ResultsInv, Bookkeeping
<1> HIDE DEF done
<1>5. /\ \A n \in done : n = 1 \/ n - 1 \in done
      /\ \A n \in done : n <= s.stage
  BY <1>3, <1>4
<1>6. s.success => done = Stages /\ s.failure = NoFailure
  <2>1. s.success => s.failure = NoFailure /\ s.stage = LastStage
    BY DEF CourseInv, Bookkeeping
  <2>2. QED
    BY <1>3, <1>4, <2>1
<1>7. \A n \in done : s.failure = NoFailure \/ n <= s.failure.stage
  BY <1>4, <1>5
<1> HIDE DEF m
<1>8. done = Succeeded(m.story.results)
  BY <1>1 DEF done
<1>9. HonestManifest(m)
  BY <1>1, <1>2, <1>5, <1>6, <1>7, <1>8 DEF HonestManifest
<1>10. QED
  BY <1>9 DEF m

\* The manifest is written.
LEMMA WriteManifestTells ==
  ASSUME IInv, StoryInv, NEW p \in Runners, WriteManifest(p)
  PROVE  StoryInv'
<1> DEFINE s == runner[p]
           manifest == File("manifest", Manifest(s))
<1>1. /\ IsRunner(s) /\ ResultsInv(s) /\ CourseInv(s)
      /\ ~shared => LedgerInv(s) /\ FilesInv(s)
      /\ s.pc = "manifest" /\ Owns(p) /\ shared' = shared
      /\ Put(manifest) /\ files' = Over(files, manifest)
  BY DEF IInv, StoryInv, WriteManifest, RunnerInv, Owns, Put
<1>2. DOMAIN manifest = {"manifest"} /\ manifest["manifest"] = Manifest(s)
  BY DEF File
<1>3. ~shared => HonestManifest(Manifest(s))
  BY <1>1, ManifestTells
<1>4. DirectoryInv' /\ (~shared => ManifestInv')
  BY <1>1, <1>2, <1>3, WrittenOver
<1>5. PICK r : r = [ s EXCEPT !.pc = "digest" ] /\ Becomes(p, r)
  BY DEF WriteManifest, Goto
<1>6. /\ r.pc = "digest" /\ r.stage = s.stage /\ r.ledger = s.ledger
      /\ r.results = s.results /\ r.success = s.success /\ r.outcome = s.outcome
      /\ r.failure = s.failure
  BY <1>1, <1>5 DEF IsRunner
<1>7. ResultsInv(r)
  BY <1>1, <1>6 DEF ResultsInv, Bookkeeping
<1>8. ~shared => LedgerInv(r)
  BY <1>1, <1>6 DEF LedgerInv, Bookkeeping
<1>9. CourseInv(r)
  BY <1>1, <1>6 DEF CourseInv, Bookkeeping
<1>10. "manifest" \in DOMAIN files' /\ files'["manifest"] = Manifest(r)
  <2>1. Manifest(r) = Manifest(s)
    BY <1>6 DEF Manifest, Story
  <2>2. QED
    BY <1>1, <1>2, <2>1, OverFacts
<1>11. ASSUME ~shared, r.failure.code # "stale_artifact"
       PROVE  Intact(r)'
  <2> SUFFICES ASSUME NEW path \in DOMAIN s.ledger
               PROVE  path \in DOMAIN files' /\ files'[path] = s.ledger[path]
    BY <1>6 DEF Intact
  <2>1. path \in DOMAIN files /\ files[path] = s.ledger[path] /\ path # "manifest"
    BY <1>1, <1>6, <1>11 DEF FilesInv, Intact, LedgerInv
  <2>2. QED
    BY <1>1, <1>2, <2>1, OverFacts
<1>12. ~shared => FilesInv(r)'
  BY <1>6, <1>10, <1>11 DEF FilesInv
<1>13. QED
  BY <1>1, <1>4, <1>5, <1>7, <1>8, <1>9, <1>12, StoryKept

\* The digest is written; run goes on, returns, or is about to tell its success.
LEMMA WriteDigestTells ==
  ASSUME IInv, StoryInv, NEW p \in Runners, WriteDigest(p)
  PROVE  StoryInv'
<1> DEFINE s == runner[p]
           digest == File("digest", DigestFile(files["manifest"]))
<1>1. /\ IsRunner(s) /\ ResultsInv(s) /\ CourseInv(s)
      /\ ~shared => LedgerInv(s) /\ FilesInv(s)
      /\ s.pc = "digest" /\ s.stage \in 0 .. LastStage /\ LastStage \in Nat
      /\ Owns(p) /\ shared' = shared /\ Put(digest) /\ files' = Over(files, digest)
  BY OutputsAssumption
     DEF IInv, StoryInv, WriteDigest, RunnerInv, IsRunner, Owns, LastStage, Put
<1>2. DOMAIN digest = {"digest"}
  BY DEF File
<1>3. DirectoryInv' /\ (~shared => ManifestInv')
  BY <1>1, <1>2, WrittenOver
<1>4. PICK r : r = AfterPersist(s) /\ Becomes(p, r)
  BY DEF WriteDigest
<1>5. Len(s.results) \in Nat /\ Len(s.results) <= 2 * LastStage
  <2>1. s.stage <= LastStage /\ s.results \in Seq(StageResults)
    BY <1>1 DEF ResultsInv
  <2>2. Len(s.results) = s.stage \/ Len(s.results) <= LastStage \/ Len(s.results) <= 2 * LastStage
    BY <1>1 DEF ResultsInv, Bookkeeping
  <2>3. Len(s.results) \in Nat
    BY <2>1
  <2> HIDE DEF s
  <2>4. QED
    BY <1>1, <2>1, <2>2, <2>3
<1>6. ResultsInv(r) /\ CourseInv(r) /\ (~shared /\ Working(r) => LedgerInv(r) /\ FilesInv(r)')
  <2>1. CASE s.success \/ s.failure # NoFailure
    <3>1. r = [ s EXCEPT !.pc = "ended", !.outcome = "returned" ]
      BY <1>4, <2>1 DEF AfterPersist, Returned
    <3>2. r.pc = "ended" /\ r.ledger = s.ledger /\ r.results = s.results
      BY <1>1, <3>1 DEF IsRunner
    <3>3. ResultsInv(r)
      BY <1>1, <1>5, <3>2 DEF ResultsInv, Bookkeeping
    <3>4. CourseInv(r) /\ ~Working(r)
      BY <3>2 DEF CourseInv, Working, Bookkeeping
    <3>5. QED
      BY <3>3, <3>4
  <2>2. CASE ~s.success /\ s.failure = NoFailure /\ s.stage < LastStage
    <3>1. r = [ s EXCEPT !.pc = "validate", !.stage = s.stage + 1 ]
      BY <1>4, <2>2 DEF AfterPersist
    <3>2. /\ r.pc = "validate" /\ r.stage = s.stage + 1 /\ r.ledger = s.ledger
          /\ r.results = s.results /\ r.success = s.success /\ r.outcome = s.outcome
      BY <1>1, <3>1 DEF IsRunner
    <3>3. s.results \in Seq(StageResults) /\ Len(s.results) = s.stage
          /\ Succeeded(s.results) = 1 .. s.stage
      BY <1>1, <2>2 DEF ResultsInv, Bookkeeping
    <3>4. r.stage - 1 = s.stage
      BY <1>1, <3>2
    <3>5. ResultsInv(r)
      BY <3>2, <3>3, <3>4 DEF ResultsInv, Bookkeeping
    <3>6. ~shared => LedgerInv(r)
      BY <1>1, <3>2 DEF LedgerInv, Bookkeeping
    <3>7. CourseInv(r) /\ FilesInv(r)'
      BY <1>1, <2>2, <3>2 DEF CourseInv, FilesInv, Bookkeeping
    <3>8. QED
      BY <3>5, <3>6, <3>7
  <2>3. CASE ~s.success /\ s.failure = NoFailure /\ ~(s.stage < LastStage)
    <3>1. r = [ s EXCEPT !.pc = "status", !.success = TRUE ]
      BY <1>4, <2>3 DEF AfterPersist
    <3>2. /\ r.pc = "status" /\ r.stage = s.stage /\ r.ledger = s.ledger
          /\ r.results = s.results /\ r.outcome = s.outcome /\ r.failure = s.failure
      BY <1>1, <3>1 DEF IsRunner
    <3>3. s.stage = LastStage
      BY <1>1, <2>3
    <3>4. ResultsInv(r)
      BY <1>1, <3>2 DEF ResultsInv, Bookkeeping
    <3>5. ~shared => LedgerInv(r)
      BY <1>1, <3>2 DEF LedgerInv, Bookkeeping
    <3>6. CourseInv(r)
      BY <1>1, <2>3, <3>2, <3>3 DEF CourseInv, Bookkeeping
    <3>7. ASSUME ~shared
          PROVE  \A path \in DOMAIN s.ledger :
                   path \in DOMAIN files' /\ files'[path] = s.ledger[path]
      <4>1. Intact(s) /\ "digest" \notin DOMAIN s.ledger
        BY <1>1, <2>3, <3>7 DEF FilesInv, LedgerInv, NoFailure
      <4>2. \A path \in DOMAIN s.ledger :
              path \in DOMAIN files \ DOMAIN digest /\ files[path] = s.ledger[path]
        BY <1>2, <4>1 DEF Intact
      <4>3. \A path \in DOMAIN files \ DOMAIN digest :
              path \in DOMAIN files' /\ files'[path] = files[path]
        BY <1>1, OverFacts
      <4>4. QED
        BY <4>2, <4>3
    <3>8. ~shared => FilesInv(r)'
      BY <3>2, <3>7 DEF FilesInv, Listed
    <3>9. QED
      BY <3>4, <3>5, <3>6, <3>8
  <2>4. QED
    BY <2>1, <2>2, <2>3
<1>7. QED
  BY <1>1, <1>3, <1>4, <1>6, StoryKept

LEMMA StoryPreserved ==
  ASSUME IInv, StoryInv, [Next]_vars
  PROVE  StoryInv'
<1>1. CASE \E p \in Runners : RefuseExisting(p) \/ \E force \in BOOLEAN : StartRun(p, force)
  BY <1>1, StartTells
<1>2. CASE \E p \in Runners : Step(p)
  <2> PICK p \in Runners : Step(p)
    BY <1>2
  <2> QED
    BY PrepareTells, RemoveTells, CreateTells, SetupTells, ValidateTells, ReturnsTells,
       StageRaisesTells, PersistRaisesTells, WriteStatusTells, WriteManifestTells,
       WriteDigestTells DEF Step
<1>3. CASE \E p \in Runners : Dies(p)
  BY <1>3, DiesTells
<1>4. CASE \E path \in DOMAIN files : Edit(path)
  BY <1>4, EditTells
<1>5. CASE UNCHANGED vars
  <2>1. files' = files /\ exists' = exists /\ runner' = runner /\ shared' = shared
    BY <1>5 DEF vars
  <2>2. \A p \in Runners : FilesInv(runner[p]) => FilesInv(runner[p])'
    BY <2>1 DEF FilesInv, Listed, Intact
  <2>3. DirectoryInv' /\ (~shared => ManifestInv')
    BY <2>1, NothingWritten
  <2>4. \A p \in Runners : Owns(p)' <=> Owns(p)
    BY <2>1 DEF Owns
  <2>5. QED
    BY <2>1, <2>2, <2>3, <2>4 DEF StoryInv
<1>6. QED
  BY <1>1, <1>2, <1>3, <1>4, <1>5 DEF Next

(***************************************************************************)
(* The theorems about what is told.                                        *)
(***************************************************************************)

\* The invariant of the results, the ledgers, and the files that tell of them.
THEOREM StoryInvariance == Spec => []StoryInv
<1>1. StoryInv /\ IInv /\ [Next]_vars => StoryInv'
  BY StoryPreserved
<1>2. QED
  BY <1>1, StoryBegins, Invariance, PTL DEF Spec

\* The state keeps its shape; in particular a run lists at most two results per
\* stage, however often persisting fails (run and _persist).
THEOREM TypeCorrect == Spec => []TypeOK
<1>1. IInv /\ StoryInv => TypeOK
  <2> SUFFICES ASSUME IInv, StoryInv
               PROVE  TypeOK
    OBVIOUS
  <2>1. Stages = 1 .. LastStage /\ LastStage \in Nat
    BY OutputsAssumption DEF Stages, LastStage
  <2>2. ASSUME NEW p \in Runners
        PROVE  /\ runner[p].pc \in {"none", "preparing", "removing", "creating", "setup",
                                    "validate", "stage", "status", "manifest", "digest", "ended"}
               /\ runner[p].stage \in Stages \cup {0}
               /\ Len(runner[p].results) <= 2 * LastStage
    <3> DEFINE s == runner[p]
    <3>1. /\ s.stage \in 0 .. LastStage /\ ResultsInv(s)
          /\ s.pc \in {"none", "preparing", "removing", "creating", "setup", "validate",
                       "stage", "status", "manifest", "digest", "ended"}
      BY DEF IInv, RunnerInv, IsRunner, StoryInv, CourseInv
    <3> HIDE DEF s
    <3>2. s.stage \in Stages \cup {0}
      BY <2>1, <3>1
    <3>3. Len(s.results) <= 2 * LastStage
      <4>1. CASE s.pc \in {"none", "preparing", "removing", "creating", "setup"}
        BY <2>1, <3>1, <4>1 DEF ResultsInv
      <4>2. CASE s.pc \in {"validate", "stage"}
        BY <2>1, <3>1, <4>2 DEF ResultsInv
      <4>3. CASE s.pc \in Bookkeeping \cup {"ended"}
        BY <2>1, <3>1, <4>3 DEF ResultsInv
      <4>4. QED
        BY <3>1, <4>1, <4>2, <4>3 DEF Bookkeeping
    <3>4. QED
      BY <3>1, <3>2, <3>3 DEF s
  <2>3. ~exists => files = Nothing
    BY DEF StoryInv, DirectoryInv
  <2>4. QED
    BY <2>2, <2>3 DEF TypeOK
<1>2. QED
  BY <1>1, Invariance, StoryInvariance, PTL

\* A directory that passes validation is honest unless it was shared, whatever has
\* become of the run that wrote it and of those before (_persist,
\* _validate_existing_run).
THEOREM ValidRunIsHonestHolds == Spec => []ValidRunIsHonest
<1>1. StoryInv => ValidRunIsHonest
  <2> SUFFICES ASSUME StoryInv, Valid, ~shared
               PROVE  ValidRunIsHonest
    BY DEF ValidRunIsHonest
  <2> DEFINE m == files["manifest"]
  <2>1. HonestManifest(m)
    BY DEF StoryInv, ManifestInv, Valid
  <2>2. Only(files, DOMAIN m.ledger) = m.ledger
    BY DEF Valid
  <2>3. DOMAIN Only(files, DOMAIN m.ledger) = DOMAIN files \cap DOMAIN m.ledger
        /\ \A path \in DOMAIN files \cap DOMAIN m.ledger :
             Only(files, DOMAIN m.ledger)[path] = files[path]
    BY DEF Only
  <2>4. \A path \in DOMAIN m.ledger : path \in DOMAIN files /\ files[path] = m.ledger[path]
    BY <2>2, <2>3
  <2> HIDE DEF m
  <2>5. /\ "status" \in DOMAIN files /\ files["status"].kind = "status"
        /\ files["status"].story = m.story
    BY <2>1, <2>4 DEF HonestManifest
  <2>6. \A path \in SetupFiles \cup UNION { Outputs[n] : n \in Succeeded(m.story.results) } :
          path \in DOMAIN m.ledger /\ files[path] = Good
    BY <2>1, <2>4 DEF HonestManifest
  <2>7. QED
    BY <2>1, <2>5, <2>6 DEF HonestManifest, ValidRunIsHonest, m
<1>2. QED
  BY <1>1, StoryInvariance, PTL

\* A run that returns, alone with its directory, leaves there what it returns, and
\* what passes validation unless the run has failed because of a stale file (run's
\* last _persist).
THEOREM ReturnedRunIsPersistedHolds == Spec => ReturnedRunIsPersisted
<1> DEFINE A == \A p \in Runners :
                  runner[p].pc = "digest" /\ runner'[p].outcome = "returned" /\ ~shared =>
                    /\ files'["manifest"].story = Story(runner[p])
                    /\ Valid' \/ runner[p].failure.code = "stale_artifact"
<1>1. IInv /\ StoryInv /\ [Next]_vars => A
  <2> SUFFICES ASSUME IInv, StoryInv, [Next]_vars, NEW p \in Runners,
                      runner[p].pc = "digest", runner'[p].outcome = "returned", ~shared
               PROVE  /\ files'["manifest"].story = Story(runner[p])
                      /\ Valid' \/ runner[p].failure.code = "stale_artifact"
    OBVIOUS
  <2> DEFINE s == runner[p]
  <2>1. /\ IsRunner(s) /\ LedgerInv(s) /\ FilesInv(s) /\ s.outcome = "none"
        /\ DOMAIN runner = Runners
    BY DEF IInv, StoryInv, RunnerInv, CourseInv, Owns
  <2>2. WriteDigest(p)
    <3>1. ASSUME NEW q \in Runners, NEW r, Becomes(q, r)
          PROVE  q = p /\ r.outcome = "returned"
      BY <2>1, <3>1 DEF Becomes
    <3>2. ~UNCHANGED runner
      BY <2>1
    <3>3. \A q \in Runners : ~RefuseExisting(q) /\ \A force \in BOOLEAN : ~StartRun(q, force)
      <4> SUFFICES ASSUME NEW q \in Runners, NEW force, RefuseExisting(q) \/ StartRun(q, force)
                   PROVE  FALSE
        OBVIOUS
      <4>1. \E r : Becomes(q, r)
        BY DEF RefuseExisting, StartRun
      <4>2. q = p
        BY <3>1, <4>1
      <4>3. QED
        BY <4>2 DEF RefuseExisting, StartRun, Start, Idle
    <3>4. \A q \in Runners : ~Dies(q)
      <4> SUFFICES ASSUME NEW q \in Runners, Dies(q)
                   PROVE  FALSE
        OBVIOUS
      <4>1. PICK r : r = [ Fresh EXCEPT !.pc = "ended", !.outcome = "died" ] /\ Becomes(q, r)
        BY DEF Dies, Died
      <4>2. r.outcome = "died"
        BY <4>1 DEF Fresh
      <4>3. QED
        BY <3>1, <4>1, <4>2
    <3>5. \A path \in DOMAIN files : ~Edit(path)
      BY <3>2 DEF Edit
    <3>6. ~UNCHANGED vars
      BY <3>2 DEF vars
    <3>7. PICK q \in Runners : Step(q)
      BY <3>3, <3>4, <3>5, <3>6 DEF Next
    <3>8. ~RemoveFile(q)
      BY <3>2 DEF RemoveFile
    <3>9. q = p
      <4>1. \E r : Becomes(q, r)
        BY <3>7, <3>8
           DEF Step, PrepareDirectory, RemoveDirectory, CreateDirectory, RecordSetupInputs,
               ValidateLedger, StageReturns, StageRaises, WriteStatus, WriteManifest, WriteDigest,
               PersistRaises, Goto
      <4>2. QED
        BY <3>1, <4>1
    <3>10. ~PersistRaises(p)
      <4> SUFFICES ASSUME PersistRaises(p)
                   PROVE  FALSE
        OBVIOUS
      <4>1. PICK r : r = Failed(s, "stage_exception", files') /\ Becomes(p, r)
        BY DEF PersistRaises
      <4>2. r.outcome = s.outcome
        BY <2>1, <4>1 DEF Failed, IsRunner
      <4>3. QED
        BY <2>1, <3>1, <4>1, <4>2
    <3>11. QED
      BY <3>7, <3>8, <3>9, <3>10
         DEF Step, PrepareDirectory, RemoveDirectory, CreateDirectory, RecordSetupInputs,
             ValidateLedger, StageReturns, StageRaises, WriteStatus, WriteManifest
  <2>3. "manifest" \in DOMAIN files /\ files["manifest"] = Manifest(s)
    BY <2>1 DEF FilesInv
  <2> DEFINE digest == File("digest", DigestFile(files["manifest"]))
  <2>4. /\ files' = Over(files, digest)
        /\ DOMAIN digest = {"digest"} /\ digest["digest"] = DigestFile(files["manifest"])
    BY <2>2 DEF WriteDigest, File, Put
  <2>5. "manifest" \in DOMAIN files' /\ files'["manifest"] = Manifest(s)
    BY <2>3, <2>4, OverFacts
  <2>6. "digest" \in DOMAIN files' /\ files'["digest"] = DigestFile(Manifest(s))
    BY <2>3, <2>4, OverFacts
  <2>7. ASSUME s.failure.code # "stale_artifact"
        PROVE  Valid'
    <3>1. Intact(s) /\ "digest" \notin DOMAIN s.ledger
      BY <2>1, <2>7 DEF FilesInv, LedgerInv
    <3>2. \A path \in DOMAIN s.ledger :
            path \in DOMAIN files' /\ files'[path] = s.ledger[path]
      BY <2>4, <3>1, OverFacts DEF Intact
    <3>3. Only(files', DOMAIN s.ledger) = [ path \in DOMAIN s.ledger |-> s.ledger[path] ]
      BY <3>2 DEF Only
    <3>4. Only(files', DOMAIN s.ledger) = s.ledger
      BY <2>1, <3>3 DEF LedgerInv
    <3>5. Manifest(s).kind = "manifest" /\ Manifest(s).ledger = s.ledger
      BY DEF Manifest
    <3>6. QED
      BY <2>5, <2>6, <3>4, <3>5 DEF Valid
  <2>8. Manifest(s).story = Story(s)
    BY DEF Manifest
  <2>9. QED
    BY <2>5, <2>7, <2>8
<1>2. QED
  BY <1>1, Invariance, StoryInvariance, PTL DEF Spec, ReturnedRunIsPersisted
=============================================================================
