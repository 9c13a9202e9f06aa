------------------------- MODULE StrategyGovernance -------------------------
(***************************************************************************)
(* The governance area strategies/<family>: concurrent sessions of the     *)
(* commands candidate review, candidate evaluate, candidate freeze and     *)
(* strategy deploy over the files of one strategy family.                  *)
(*                                                                         *)
(* Registry operations hold a file lock that nobody waits for; readers and *)
(* the application's own copying, removing and rolling back do not take    *)
(* it.  The family has one research credential: open_research_credential   *)
(* refuses a family with two.  A candidate stands for its package and its  *)
(* mandate, a hash for what it is the hash of.                             *)
(***************************************************************************)
EXTENDS Integers, FiniteSets, SequencesExt

CONSTANTS Session, Candidate, None,
          MaxVersion, MaxOps, MaxFaults   \* bounds

ASSUME NoneAssumption == None \notin Session \cup Candidate
ASSUME BoundAssumption == MaxVersion \in Nat \ {0} /\ MaxOps \in Nat /\ MaxFaults \in Nat

Version == 1 .. MaxVersion

VARIABLES
  home,       \* strategies/<family>: absent, bare (no family.json) or family
  cred,       \* credentials/<id>.jsonl: the seals, and which admission wrote the first
  events,     \* versions with a VERSION_FROZEN event in lifecycle.jsonl
  evidence,   \* versions with a line in evidence.jsonl
  versions,   \* versions/vN.json: its candidate, and the admission it was frozen under
  packages,   \* releases/vN: whose package, and whether it is as it was built
  candidates, \* candidates/<id>: absent, package, record or reviewed (both)
  receipts,   \* deployments/<family>-vN.json
  lock,       \* the session that holds .registry.lock
  session,    \* the running commands
  count       \* admissions, commands and faults so far; torn: a freeze stopped half way

vars == <<home, cred, events, evidence, versions, packages, candidates, receipts, lock,
          session, count>>
registry == <<home, cred, events, evidence, versions>>

NoCred == [by |-> 0, seals |-> <<>>]
NoFile == [cand |-> None, by |-> 0]
NoPackage == [cand |-> None, intact |-> FALSE]
Seal(stage, c, v) == [stage |-> stage, cand |-> c, version |-> v]
Exists(k) == k.seals # <<>>
Stage(k) == Last(k.seals).stage
\* _submission_from_credential: the candidate of the latest submission.
Submitted(k) == SelectLastInSeq(k.seals, LAMBDA x : x.stage = "SUBMITTED")
SubmittedCandidate(k) == IF Submitted(k) = 0 THEN None ELSE k.seals[Submitted(k)].cand

Idle == [pc |-> "idle", kind |-> "none", cand |-> None, created |-> FALSE, undo |-> <<>>, seen |-> NoCred,
         version |-> 0, before |-> [version |-> 0, evidence |-> {}, events |-> {}, cred |-> NoCred]]

Init ==
  /\ home \in {"absent", "family"}    \* a new family, or one of the backfilled ones
  /\ cred = NoCred /\ events = {} /\ evidence = {}
  /\ versions = [v \in Version |-> NoFile]
  /\ packages = [v \in Version |-> NoPackage]
  /\ candidates = [c \in Candidate |-> "absent"]
  /\ receipts = {} /\ lock = None
  /\ session = [s \in Session |-> Idle]
  /\ count = [admissions |-> 0, ops |-> 0, faults |-> 0, torn |-> FALSE]

At(s, pc) == session[s].pc = pc
Set(s, r) == session' = [session EXCEPT ![s] = r]
Goto(s, pc) == Set(s, [session[s] EXCEPT !.pc = pc])
Done(s) == Set(s, Idle)
\* An exception: the except clause of the command runs next.
Fail(s) == Goto(s, "undo")
Fault == count.faults < MaxFaults /\ count' = [count EXCEPT !.faults = @ + 1]
\* Writing below the family's directory creates it.
MakeHome == home' = IF home = "absent" THEN "bare" ELSE home

Start(s, kind, c, pc, seen) ==
  /\ At(s, "idle") /\ count.ops < MaxOps
  /\ Set(s, [Idle EXCEPT !.kind = kind, !.cand = c, !.pc = pc, !.seen = seen])
  /\ count' = [count EXCEPT !.ops = @ + 1]
  /\ UNCHANGED <<registry, packages, candidates, receipts, lock>>

-----------------------------------------------------------------------------
(* candidate review                                                        *)

Review(s) == \E c \in Candidate : Start(s, "review", c, "snapshot", NoCred)

\* promote_research_registration reads the files first ...
Before(s) == [home |-> home, cred |-> cred, events |-> events, inner |-> At(s, "resnapshot")]
Snapshot(s) ==
  /\ session[s].pc \in {"snapshot", "resnapshot"}
  /\ LET next == IF At(s, "snapshot") THEN "promote" ELSE "repromote" IN
       IF next = "repromote" /\ candidates[session[s].cand] \notin {"package", "reviewed"}
       THEN Fail(s)
       ELSE Set(s, [session[s] EXCEPT !.pc = next, !.undo = <<Before(s)>> \o @])
  /\ UNCHANGED <<registry, packages, candidates, receipts, lock, count>>

\* ... and then finds the credential, or writes it with start_research_batch
\* or create_family.  Only a promotion that reports a change is rolled back.
Promote(s) ==
  LET next == IF At(s, "promote") THEN "admit" ELSE "submit"
      mine == Head(session[s].undo)
      kept == Tail(session[s].undo)
      Unchanged == Set(s, [session[s] EXCEPT !.pc = next, !.undo = kept, !.seen = mine.cred])
      Refused == Set(s, [session[s] EXCEPT !.pc = "undo", !.undo = kept]) IN
  /\ session[s].pc \in {"promote", "repromote"}
  /\ \/ /\ Exists(mine.cred) /\ Unchanged
        /\ UNCHANGED <<home, cred, count>>
     \/ /\ ~Exists(mine.cred) /\ lock = None
        /\ home = mine.home /\ home # "bare"
        /\ LET new == [by |-> count.admissions + 1, seals |-> <<Seal("OPEN", None, 0)>>] IN
             /\ cred' = IF Exists(cred) THEN cred ELSE new
             /\ count' = IF Exists(cred) THEN count ELSE [count EXCEPT !.admissions = @ + 1]
        /\ home' = "family"
        /\ Set(s, [session[s] EXCEPT !.pc = next, !.seen = cred'])
     \/ /\ ~Exists(mine.cred)
        /\ lock # None \/ home # mine.home \/ home = "bare"
        /\ Refused /\ UNCHANGED <<home, cred, count>>
  /\ UNCHANGED <<events, evidence, versions, packages, candidates, receipts, lock>>

\* create_family is killed before it has written the credential.
KillPromotion(s) ==
  /\ Fault /\ At(s, "promote") /\ Head(session[s].undo).home = "absent"
  /\ home = "absent" /\ lock = None /\ home' \in {"bare", "family"} /\ Done(s)
  /\ UNCHANGED <<cred, events, evidence, versions, packages, candidates, receipts, lock>>

\* review_candidate: the candidate's directory is there, or it is copied.
Admit(s) ==
  /\ At(s, "admit")
  /\ CASE candidates[session[s].cand] = "absent" -> Goto(s, "move")
       [] candidates[session[s].cand] = "reviewed" -> Goto(s, "resnapshot")
       [] OTHER -> Fail(s)
  /\ UNCHANGED <<registry, packages, candidates, receipts, lock, count>>

\* shutil.move puts the copy inside a directory that has appeared meanwhile.
MoveCandidate(s) ==
  /\ At(s, "move")
  /\ candidates' = [candidates EXCEPT ![session[s].cand] = IF @ = "absent" THEN "package" ELSE @]
  /\ MakeHome
  /\ Set(s, [session[s] EXCEPT !.pc = "resnapshot", !.created = TRUE])
  /\ UNCHANGED <<cred, events, evidence, versions, packages, receipts, lock, count>>

\* _validate_governance_transition; REJECTED stands for INCOMPLETE as well, which
\* may be followed by the same seals.
Follows(stage, next) ==
  \/ next = "SUBMITTED" /\ stage \in {"OPEN", "REJECTED"}
  \/ next \in {"ELIGIBLE", "REJECTED"} /\ stage = "SUBMITTED"
  \/ next = "APPROVED" /\ stage = "ELIGIBLE"
  \/ next = "FROZEN" /\ stage = "APPROVED"

Sealed(k, seal) == [k EXCEPT !.seals = Append(@, seal)]

\* Mutant: the new chain is not validated.
AppendUnchecked(s, seal, pc) ==
  \/ /\ lock = None /\ Exists(cred) /\ cred = session[s].seen
     /\ cred' = Sealed(cred, seal)
     /\ IF pc = "idle" THEN Done(s)
        ELSE Set(s, [session[s] EXCEPT !.pc = pc, !.seen = cred'])
  \/ /\ lock # None \/ ~Exists(cred) \/ cred # session[s].seen
     /\ Fail(s) /\ UNCHANGED cred

\* Mutant: the seal goes to the end of whatever chain is there by now.
AppendAnywhere(s, seal, pc) ==
  \/ /\ lock = None /\ Exists(cred) /\ Follows(Stage(cred), seal.stage)
     /\ cred' = Sealed(cred, seal)
     /\ IF pc = "idle" THEN Done(s)
        ELSE Set(s, [session[s] EXCEPT !.pc = pc, !.seen = cred'])
  \/ /\ ~(lock = None /\ Exists(cred) /\ Follows(Stage(cred), seal.stage))
     /\ Fail(s) /\ UNCHANGED cred

\* append_governance_seal: the chain must end where the session read it.  The
\* same submission twice is one; the other seals hold the time they were made.
AppendSeal(s, seal, pc) ==
  LET fits == /\ lock = None /\ Exists(cred) /\ cred = session[s].seen
              /\ Follows(Stage(cred), seal.stage)
      again == /\ lock = None /\ seal.stage = "SUBMITTED"
               /\ cred = Sealed(session[s].seen, seal) IN
  \/ /\ fits \/ again
     /\ cred' = IF fits THEN Sealed(cred, seal) ELSE cred
     /\ IF pc = "idle" THEN Done(s)
        ELSE Set(s, [session[s] EXCEPT !.pc = pc, !.seen = cred'])
  \/ /\ ~(fits \/ again) /\ Fail(s) /\ UNCHANGED cred

\* open_freeze_review
Submit(s) ==
  LET c == session[s].cand seen == session[s].seen IN
  /\ At(s, "submit")
  /\ IF Exists(seen) /\ Last(seen.seals) = Seal("SUBMITTED", c, 0)
     THEN Goto(s, "record") /\ UNCHANGED cred
     ELSE AppendSeal(s, Seal("SUBMITTED", c, 0), "record")
  /\ UNCHANGED <<home, events, evidence, versions, packages, candidates, receipts, lock, count>>

Record(s) ==
  /\ At(s, "record")
  /\ candidates' = [candidates EXCEPT ![session[s].cand] =
                      IF @ \in {"package", "reviewed"} THEN "reviewed" ELSE "record"]
  /\ MakeHome /\ Done(s)
  /\ UNCHANGED <<cred, events, evidence, versions, packages, receipts, lock, count>>

-----------------------------------------------------------------------------
(* candidate evaluate: a long computation between its read and its seal.   *)

Evaluate(s) ==
  \E c \in Candidate :
    /\ candidates[c] = "reviewed" /\ Exists(cred) /\ Stage(cred) = "SUBMITTED"
    /\ SubmittedCandidate(cred) = c /\ Start(s, "evaluate", c, "judge", cred)

\* The report judges the candidate the session read.
Judge(s) ==
  /\ At(s, "judge")
  /\ \E stage \in {"ELIGIBLE", "REJECTED"} : AppendSeal(s, Seal(stage, session[s].cand, 0), "idle")
  /\ UNCHANGED <<home, events, evidence, versions, packages, candidates, receipts, lock, count>>

-----------------------------------------------------------------------------
(* candidate freeze                                                        *)

Frozen == {v \in Version : versions[v] # NoFile}
NextVersion == Cardinality(Frozen) + 1

\* _build_release_package: the package is there, or it is built and moved.
Freeze(s) == \E c \in Candidate : candidates[c] = "reviewed" /\ Start(s, "freeze", c, "build", NoCred)

Build(s) ==
  LET v == NextVersion
      To(pc) == Set(s, [session[s] EXCEPT !.pc = pc, !.version = v]) IN
  /\ At(s, "build") /\ v \in Version
  /\ IF packages[v] = NoPackage THEN To("place")
     ELSE IF packages[v] = [cand |-> session[s].cand, intact |-> TRUE] THEN To("approve")
     ELSE Fail(s)
  /\ UNCHANGED <<registry, packages, candidates, receipts, lock, count>>

\* shutil.move again: a package that appeared meanwhile gets files of no manifest.
Place(s) ==
  /\ At(s, "place")
  /\ packages' = [packages EXCEPT ![session[s].version] =
                    IF @ = NoPackage THEN [cand |-> session[s].cand, intact |-> TRUE]
                    ELSE [@ EXCEPT !.intact = FALSE]]
  /\ MakeHome
  /\ Set(s, [session[s] EXCEPT !.pc = "approve", !.created = TRUE])
  /\ UNCHANGED <<cred, events, evidence, versions, candidates, receipts, lock, count>>

\* freeze_review_candidate: the runtime in the package is the submitted one,
\* and it is the next version's; an approval given before must be for it too.
RuntimeHolds(s, k) ==
  LET r == session[s] IN
  /\ packages[r.version].cand = r.cand /\ SubmittedCandidate(k) = r.cand
  /\ r.version = NextVersion
  /\ Stage(k) = "APPROVED" => Last(k.seals).version = r.version

\* create_frozen_version_from_credential, replayed: the one version and its event.
Replays(s, k) ==
  /\ lock = None
  /\ \E v \in Frozen : Frozen = {v} /\ v \in events /\ v = session[s].version

ReadCredential(s) ==
  /\ At(s, "approve")
  /\ IF ~Exists(cred) THEN Fail(s)
     ELSE CASE Stage(cred) = "FROZEN" -> IF Replays(s, cred) THEN Done(s) ELSE Fail(s)
            [] Stage(cred) \in {"ELIGIBLE", "APPROVED"} /\ RuntimeHolds(s, cred) ->
                 Set(s, [session[s] EXCEPT
                           !.pc = IF Stage(cred) = "APPROVED" THEN "freeze" ELSE "seal", !.seen = cred])
            [] OTHER -> Fail(s)
  /\ UNCHANGED <<registry, packages, candidates, receipts, lock, count>>

Approve(s) ==
  /\ At(s, "seal")
  /\ AppendSeal(s, Seal("APPROVED", session[s].cand, session[s].version), "freeze")
  /\ UNCHANGED <<home, events, evidence, versions, packages, candidates, receipts, lock, count>>

\* Mutant: the release the approval names is not compared.
FreezableAsNext ==
  /\ Exists(cred) /\ Stage(cred) = "APPROVED" /\ NextVersion \in Version
  /\ cred.seals[Len(cred.seals) - 1].cand = SubmittedCandidate(cred)

\* What the lock holder verifies before it writes.
Freezable ==
  /\ Exists(cred) /\ Stage(cred) = "APPROVED"
  /\ Last(cred.seals).version = NextVersion /\ NextVersion \in Version
  /\ cred.seals[Len(cred.seals) - 1].cand = SubmittedCandidate(cred)

WriteVersion(s) ==
  LET v == NextVersion IN
  /\ At(s, "freeze")
  /\ \/ /\ lock = None /\ Freezable
        /\ lock' = s
        /\ versions' = [versions EXCEPT ![v] = [cand |-> SubmittedCandidate(cred), by |-> cred.by]]
        /\ MakeHome
        /\ Set(s, [session[s] EXCEPT !.pc = "evidence",
                     !.before = [version |-> v, evidence |-> evidence, events |-> events,
                                 cred |-> cred]])
     \/ /\ lock = None /\ Exists(cred) /\ Stage(cred) = "FROZEN"
        /\ IF Replays(s, cred) THEN Done(s) ELSE Fail(s)
        /\ UNCHANGED <<home, versions, lock>>
     \/ /\ lock # None \/ ~(Freezable \/ (Exists(cred) /\ Stage(cred) = "FROZEN"))
        /\ Fail(s) /\ UNCHANGED <<home, versions, lock>>
  /\ UNCHANGED <<cred, events, evidence, packages, candidates, receipts, count>>

Writing == {"evidence", "lifecycle", "stamp"}
Written(s) == session[s].before.version

\* Mutant: the version file is no part of the snapshots.
RestoreLedgers(s) ==
  LET old == session[s].before IN
  /\ evidence' = old.evidence /\ events' = old.events
  /\ cred' = IF home = "family" THEN old.cred ELSE cred
  /\ UNCHANGED versions

\* _restore_files: the last first; a directory that is gone keeps its file away.
RestoreFiles(s) ==
  LET old == session[s].before IN
  /\ versions' = [versions EXCEPT ![Written(s)] = NoFile]
  /\ evidence' = old.evidence /\ events' = old.events
  /\ cred' = IF home = "family" THEN old.cred ELSE cred

\* A write raises: the disk's, or _atomic_write saw another file than it read.
GiveUp(s) == RestoreFiles(s) /\ Fail(s) /\ lock' = None

WriteEvidence(s) ==
  /\ At(s, "evidence")
  /\ IF evidence = session[s].before.evidence
     THEN evidence' = evidence \cup {Written(s)} /\ Goto(s, "lifecycle")
          /\ UNCHANGED <<cred, events, versions, lock>>
     ELSE GiveUp(s)
  /\ UNCHANGED <<home, packages, candidates, receipts, count>>

\* Mutant: the credential is stamped before the event is written.
SealFirst(s) ==
  /\ At(s, "lifecycle")
  /\ cred' = Sealed(cred, Seal("FROZEN", SubmittedCandidate(cred), Written(s)))
  /\ Goto(s, "stamp")
  /\ UNCHANGED <<home, events, evidence, versions, packages, candidates, receipts, lock, count>>

WriteEvent(s) ==
  /\ At(s, "lifecycle")
  /\ IF events = session[s].before.events
     THEN events' = events \cup {Written(s)} /\ Goto(s, "stamp")
          /\ UNCHANGED <<cred, evidence, versions, lock>>
     ELSE GiveUp(s)
  /\ UNCHANGED <<home, packages, candidates, receipts, count>>

\* The version frozen must be the one the package was built for.
StampCredential(s) ==
  /\ At(s, "stamp")
  /\ IF cred = session[s].before.cred
     THEN cred' = Sealed(cred, Seal("FROZEN", SubmittedCandidate(cred), Written(s)))
          /\ lock' = None /\ UNCHANGED <<events, evidence, versions>>
          /\ IF Written(s) = session[s].version THEN Done(s) ELSE Fail(s)
     ELSE GiveUp(s)
  /\ UNCHANGED <<home, packages, candidates, receipts, count>>

WriteFails(s) ==
  /\ Fault /\ session[s].pc \in Writing /\ GiveUp(s)
  /\ UNCHANGED <<home, packages, candidates, receipts>>

\* The compensation fails as well: every file stays as far as it was written.
RestoreFails(s) ==
  /\ count.faults < MaxFaults /\ session[s].pc \in Writing
  /\ count' = [count EXCEPT !.faults = @ + 1, !.torn = TRUE]
  /\ Fail(s) /\ lock' = None
  /\ UNCHANGED <<registry, packages, candidates, receipts>>

-----------------------------------------------------------------------------
(* The except clauses, which hold no lock, and sessions that are killed.   *)

Rollback(b) ==
  IF b.home = "absent"
  THEN /\ home' = "absent" /\ cred' = NoCred /\ events' = {} /\ evidence' = {}
       /\ versions' = [v \in Version |-> NoFile]
       /\ packages' = [v \in Version |-> NoPackage]
       /\ candidates' = [c \in Candidate |-> "absent"]
  ELSE home' = "family" /\ cred' = b.cred /\ events' = b.events

\* open_freeze_review rolls back its own promotion, then review_candidate its
\* copy and its own promotion; freeze_candidate removes the package it built.
Undo(s) ==
  LET r == session[s]
      drops == r.created /\ Len(r.undo) < 2
      gone == [candidates EXCEPT ![r.cand] = IF drops /\ r.kind = "review" THEN "absent" ELSE @] IN
  /\ At(s, "undo")
  /\ IF r.undo # <<>> THEN Rollback(Head(r.undo)) ELSE UNCHANGED registry
  /\ r.undo = <<>> \/ Head(r.undo).home # "absent" =>
       /\ candidates' = gone
       /\ packages' = [v \in Version |-> IF drops /\ r.kind = "freeze" /\ v = r.version THEN NoPackage ELSE packages[v]]
  /\ r.undo # <<>> /\ Head(r.undo).home # "absent" => UNCHANGED <<evidence, versions>>
  /\ IF Len(r.undo) > 1 THEN Set(s, [r EXCEPT !.undo = Tail(@)]) ELSE Done(s)
  /\ UNCHANGED <<receipts, lock, count>>

\* Any other step raises: a file cannot be read or copied, a check fails.  What
\* open_freeze_review promoted stays once it has returned.
Raise(s) ==
  LET undo == session[s].undo
      outer == IF undo # <<>> /\ Head(undo).inner THEN Tail(undo) ELSE undo IN
  /\ Fault
  /\ \/ /\ session[s].pc \in {"admit", "move", "resnapshot", "submit", "approve", "seal"}
        /\ Fail(s)
     \/ At(s, "record") /\ Set(s, [session[s] EXCEPT !.pc = "undo", !.undo = outer])
  /\ UNCHANGED <<registry, packages, candidates, receipts, lock>>

Kill(s) ==
  /\ count.faults < MaxFaults /\ ~At(s, "idle") /\ Done(s)
  /\ count' = [count EXCEPT !.faults = @ + 1, !.torn = @ \/ session[s].pc \in Writing]
  /\ lock' = IF lock = s THEN None ELSE lock
  /\ UNCHANGED <<registry, packages, candidates, receipts>>

-----------------------------------------------------------------------------
(* strategy deploy, and what the paper trading engine asks before it trades *)

PackageFits(v) ==
  packages[v].intact /\ versions[v] # NoFile /\ versions[v].cand = packages[v].cand

Deploy ==
  \E v \in Version \ receipts :
    /\ PackageFits(v) /\ receipts' = receipts \cup {v}
    /\ UNCHANGED <<registry, packages, candidates, lock, session, count>>

\* strategy info succeeds and the qualification may enter paper trading.
Tradable(v) == v \in receipts /\ PackageFits(v) /\ v \in events

Next ==
  \/ \E s \in Session :
       \/ Review(s) \/ Snapshot(s) \/ Promote(s) \/ KillPromotion(s) \/ Admit(s)
       \/ MoveCandidate(s) \/ Submit(s) \/ Record(s) \/ Evaluate(s) \/ Judge(s)
       \/ Freeze(s) \/ Build(s) \/ Place(s) \/ ReadCredential(s) \/ Approve(s)
       \/ WriteVersion(s) \/ WriteEvidence(s) \/ WriteEvent(s) \/ StampCredential(s)
       \/ WriteFails(s) \/ RestoreFails(s) \/ Raise(s) \/ Undo(s) \/ Kill(s)
  \/ Deploy

Spec == Init /\ [][Next]_vars

-----------------------------------------------------------------------------
(* Properties                                                              *)

Seals == UNION {{Seal(stage, c, v) : c \in Candidate \cup {None}, v \in Version \cup {0}} :
                stage \in {"OPEN", "SUBMITTED", "ELIGIBLE", "REJECTED", "APPROVED", "FROZEN"}}

\* Types, and every chain is one _validate_governance_transition accepts.
TypeOK ==
  /\ home \in {"absent", "bare", "family"}
  /\ cred.by \in Nat /\ ToSet(cred.seals) \subseteq Seals
  /\ \A i \in 2 .. Len(cred.seals) : Follows(cred.seals[i - 1].stage, cred.seals[i].stage)
  /\ events \subseteq Version /\ evidence \subseteq Version /\ receipts \subseteq Version
  /\ versions \in [Version -> [cand : Candidate \cup {None}, by : Nat]]
  /\ packages \in [Version -> [cand : Candidate \cup {None}, intact : BOOLEAN]]
  /\ candidates \in [Candidate -> {"absent", "package", "record", "reviewed"}]
  /\ lock \in Session \cup {None}

\* Every seal is about the candidate of the submission it follows, however long
\* an evaluation or a freeze took between its read and its seal and whatever
\* other sessions sealed meanwhile (expected_previous_hash).
SealsFitSubmission ==
  \A i \in 2 .. Len(cred.seals) :
    cred.seals[i].stage # "SUBMITTED" => cred.seals[i].cand = cred.seals[i - 1].cand

\* One approval freezes one version, also when a freeze was torn and retried
\* (runtime_acceptance.release_id against v{len(versions) + 1}).
ApprovalFreezesOnce ==
  \A v, w \in Frozen : versions[v].by = versions[w].by => v = w

\* The final seal is the last thing written: a credential that says it froze a
\* version has the version, its evidence and its event (validate_all).
SealedIsComplete ==
  Exists(cred) /\ Stage(cred) = "FROZEN" =>
    LET final == Last(cred.seals) IN
    /\ versions[final.version] = [cand |-> final.cand, by |-> cred.by]
    /\ final.version \in events \cap evidence

\* An approved credential whose freeze failed can be resumed: the approval is
\* still for the next version.  Only a freeze that stopped half way and was
\* not undone loses it.
ApprovedCanResume ==
  Exists(cred) /\ Stage(cred) = "APPROVED" /\ lock = None /\ ~count.torn =>
    Last(cred.seals).version = NextVersion

\* What the paper trading engine may trade was submitted, found eligible and
\* approved as that version, under the admission its version file names
\* (create_frozen_version_from_credential, deploy_strategy, _strategy_info).
\* The registry's lock and its detection of concurrent changes are to keep it so.
TradableWasApproved ==
  \A v \in Version : Tradable(v) =>
    /\ cred.by = versions[v].by
    /\ \E i \in 3 .. Len(cred.seals) :
         /\ cred.seals[i] = Seal("APPROVED", versions[v].cand, v)
         /\ cred.seals[i - 1].stage = "ELIGIBLE" /\ cred.seals[i - 1].cand = versions[v].cand
         /\ cred.seals[i - 2] = Seal("SUBMITTED", versions[v].cand, 0)

\* What may be traded has its final seal, evidence and version record: SM is
\* to verify them at deployment.
TradableIsSealed ==
  lock = None => \A v \in Version : Tradable(v) =>
    Exists(cred) /\ Last(cred.seals) = Seal("FROZEN", versions[v].cand, v)

\* A deployment receipt stands for a package that can still be loaded.
DeployedCanBeLoaded == \A v \in receipts : PackageFits(v)
=============================================================================
