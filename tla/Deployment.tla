----------------------------- MODULE Deployment -----------------------------
(***************************************************************************)
(* How releases of the paper trading engine reach the machine and how the  *)
(* service keeps one of them running: the release files and the selection  *)
(* of the active one, `pte serve` processes competing for the runtime      *)
(* database, the watchdog that starts, probes and restarts them, and the   *)
(* administrator's pte-release and pte control commands.                   *)
(*                                                                         *)
(* A release writes one schema version into the database it opens and      *)
(* opens databases of a few versions; nothing else of its code matters     *)
(* here.  Probes, delays and waits have no duration: they end whenever.    *)
(***************************************************************************)
EXTENDS Integers, FiniteSets

CONSTANTS Release, First,   \* the releases, and the one installed at first
          Writes, Reads,    \* the manifests' database_schema: current, compatible
          Proc, None,
          Threshold,        \* Watchdog.failure_threshold
          StartProbes,      \* how many probes a starting process may miss
          MaxFaults, MaxOps \* bounds: faults, and commands of the administrator

ASSUME ReleaseAssumption == First \in Release /\ None \notin Release \cup Proc
ASSUME SchemaAssumption ==
  /\ Writes \in [Release -> Nat] /\ Reads \in [Release -> SUBSET Nat]
  /\ \A r \in Release : Writes[r] \in Reads[r]
ASSUME BoundAssumption == {MaxFaults, MaxOps} \subseteq Nat
ASSUME ProbeAssumption == Threshold \in Nat \ {0} /\ StartProbes \in 0 .. Threshold

VARIABLES
  files,     \* releases/<id>: absent, partial (no manifest yet) or loadable
  hosts,     \* releases whose service host is initialised
  active,    \* active-release.json
  schema,    \* settings.runtime_database_schema_version of runtime.db
  lock,      \* the process that holds runtime.db.lock
  proc,      \* pte serve processes
  watchdog,  \* the service thread and its Watchdog
  stop,      \* SvcStop: "no", "set" (the event), "killed" (stop_child returned)
  admin,     \* the running pte-release command
  budget     \* faults and commands so far (bounds, not state of the system)

vars == <<files, hosts, active, schema, lock, proc, watchdog, stop, admin, budget>>

Phase == {"none", "spawned", "locked", "starting", "serving", "hung", "draining", "closed",
          "done", "failed"}
Live == Phase \ {"none", "done", "failed"}

NoProc == [phase |-> "none", release |-> First, orphan |-> FALSE]
NoCommand == [pc |-> "idle", target |-> First, previous |-> First, old |-> None, back |-> FALSE]

\* Processes that answer GET /api/health with an instance id.
Answering == {p \in Proc : proc[p].phase \in {"serving", "draining"}}
LiveProcs == {p \in Proc : proc[p].phase \in Live}

Fault == budget.faults < MaxFaults /\ budget' = [budget EXCEPT !.faults = @ + 1]
Command == admin.pc = "idle" /\ budget.ops < MaxOps /\ budget' = [budget EXCEPT !.ops = @ + 1]

Init ==
  /\ files = [r \in Release |-> IF r = First THEN "loadable" ELSE "absent"]
  /\ hosts = {First}
  /\ active = [id |-> First, previous |-> None]
  /\ schema = Writes[First]
  /\ lock = None
  /\ proc = [p \in Proc |-> NoProc]
  /\ watchdog = [mode |-> "off", child |-> None, next |-> First, failures |-> 0]
  /\ stop = "no"
  /\ admin = NoCommand
  /\ budget = [faults |-> 0, ops |-> 0]

-----------------------------------------------------------------------------
(* A pte serve process.                                                    *)

To(p, phase) == proc' = [proc EXCEPT ![p].phase = phase]
Unlock(P) == lock' = IF lock \in P THEN None ELSE lock

\* The process is gone.  Only the watchdog that spawned it learns the code.
Exit(p, code) ==
  /\ proc' = [proc EXCEPT ![p] = IF watchdog.child = p THEN [@ EXCEPT !.phase = code] ELSE NoProc]
  /\ Unlock({p})

\* Mutant: the port probe alone keeps a second process away.
TakeLockByPort(p) ==
  /\ proc[p].phase = "spawned"
  /\ IF Answering = {} THEN To(p, "locked") /\ lock' = p ELSE Exit(p, "failed")
  /\ UNCHANGED <<files, hosts, active, schema, watchdog, stop, admin, budget>>

\* probe_port, then RuntimeDatabaseLock.acquire, which does not wait.
TakeLock(p) ==
  /\ proc[p].phase = "spawned"
  /\ IF Answering = {} /\ lock = None THEN To(p, "locked") /\ lock' = p ELSE Exit(p, "failed")
  /\ UNCHANGED <<files, hosts, active, schema, watchdog, stop, admin, budget>>

\* PaperStore.__init__: refuse a foreign schema, migrate, write the own version.
OpenDatabase(r) == schema \in Reads[r] /\ schema' = Writes[r]

OpenStore(p) ==
  /\ proc[p].phase = "locked"
  /\ \/ OpenDatabase(proc[p].release) /\ To(p, "starting") /\ UNCHANGED lock
     \/ schema \notin Reads[proc[p].release] /\ Exit(p, "failed") /\ UNCHANGED schema
  /\ UNCHANGED <<files, hosts, active, watchdog, stop, admin, budget>>

Listen(p) ==
  /\ proc[p].phase = "starting" /\ To(p, "serving")
  /\ UNCHANGED <<files, hosts, active, schema, lock, watchdog, stop, admin, budget>>

\* graceful_restart ends serve_forever; the engine is closed, then the lock.
CloseEngine(p) ==
  /\ proc[p].phase = "draining" /\ To(p, "closed")
  /\ UNCHANGED <<files, hosts, active, schema, lock, watchdog, stop, admin, budget>>

ReturnZero(p) ==
  /\ proc[p].phase = "closed" /\ Exit(p, "done")
  /\ UNCHANGED <<files, hosts, active, schema, watchdog, stop, admin, budget>>

\* Startup raises, or the process dies.
Crash(p) ==
  /\ Fault /\ proc[p].phase \in Live /\ Exit(p, "failed")
  /\ UNCHANGED <<files, hosts, active, schema, watchdog, stop, admin>>

\* The health endpoint no longer answers 200 and RUNNING.
Hang(p) ==
  /\ Fault /\ proc[p].phase = "serving" /\ To(p, "hung")
  /\ UNCHANGED <<files, hosts, active, schema, lock, watchdog, stop, admin>>

\* begin_shutdown raises in its thread: the 202 was sent, nothing stops.
DrainFails(p) ==
  /\ Fault /\ proc[p].phase = "draining" /\ To(p, "serving")
  /\ UNCHANGED <<files, hosts, active, schema, lock, watchdog, stop, admin>>

Step(p) ==
  TakeLock(p) \/ OpenStore(p) \/ Listen(p) \/ CloseEngine(p) \/ ReturnZero(p)

-----------------------------------------------------------------------------
(* The watchdog.                                                           *)

Mode(m) == watchdog' = [watchdog EXCEPT !.mode = m, !.failures = 0]
Child == watchdog.child

\* start_child asks for the command of the release that is active by then.
ReadCommand(w) == watchdog' = [w EXCEPT !.mode = "spawn", !.next = active.id, !.failures = 0]

Reap(P) == proc' = [p \in Proc |-> IF p \in P THEN NoProc ELSE proc[p]]

\* stop_child: terminate, or kill, the child and forget it.
StopChild(w) ==
  /\ Reap({Child} \cap Proc) /\ Unlock({Child} \cap Proc)
  /\ watchdog' = [w EXCEPT !.child = None]

Spawn ==
  /\ watchdog.mode = "spawn"
  /\ \E p \in Proc :
       /\ proc[p].phase = "none" /\ p # admin.old
       /\ proc' = [proc EXCEPT ![p] = [phase |-> "spawned", release |-> watchdog.next,
                                       orphan |-> FALSE]]
       /\ watchdog' = [watchdog EXCEPT !.mode = "wait", !.child = p]
  /\ UNCHANGED <<files, hosts, active, schema, lock, stop, admin, budget>>

\* stop_event.wait(probe_interval) returns FALSE.
Wake ==
  /\ watchdog.mode = "wait" /\ stop = "no"
  /\ watchdog' = [watchdog EXCEPT !.mode = "check"]
  /\ UNCHANGED <<files, hosts, active, schema, lock, proc, stop, admin, budget>>

\* check_once: there is no child, it exited with 0, or it failed.
CheckExited ==
  /\ watchdog.mode = "check"
  /\ \/ Child = None /\ ReadCommand(watchdog) /\ UNCHANGED proc
     \/ /\ Child # None /\ proc[Child].phase = "done"
        /\ Reap({Child}) /\ ReadCommand([watchdog EXCEPT !.child = None])
     \/ /\ Child # None /\ proc[Child].phase = "failed" /\ Reap({Child})
        /\ watchdog' = [watchdog EXCEPT !.mode = "delay", !.child = None, !.failures = 0]
  /\ UNCHANGED <<files, hosts, active, schema, lock, stop, admin, budget>>

\* Mutant: a failed probe is counted but never acted upon.
ProbeAndCount ==
  /\ watchdog.mode = "check" /\ Child # None /\ proc[Child].phase \in Live
  /\ \/ Answering # {} /\ Mode("wait")
     \/ /\ Answering = {} /\ watchdog.failures < Threshold
        /\ watchdog' = [watchdog EXCEPT !.mode = "wait", !.failures = @ + 1]
  /\ UNCHANGED <<files, hosts, active, schema, lock, proc, stop, admin, budget>>

\* Mutant: the child gets one probe more than the threshold allows.
ProbeLate ==
  /\ watchdog.mode = "check" /\ Child # None /\ proc[Child].phase = "hung"
  /\ IF watchdog.failures < Threshold
     THEN watchdog' = [watchdog EXCEPT !.mode = "wait", !.failures = @ + 1] /\ UNCHANGED <<proc, lock>>
     ELSE StopChild([watchdog EXCEPT !.mode = "delay", !.failures = 0])
  /\ UNCHANGED <<files, hosts, active, schema, stop, admin, budget>>

\* The health probe: any process that answers on the port passes it.  A
\* process that is starting is assumed to miss at most StartProbes of them.
Probe ==
  /\ watchdog.mode = "check" /\ Child # None /\ proc[Child].phase \in Live
  /\ \/ Answering # {} /\ Mode("wait") /\ UNCHANGED <<proc, lock>>
     \/ /\ Answering = {} /\ watchdog.failures + 1 < Threshold
        /\ proc[Child].phase = "hung" \/ watchdog.failures < StartProbes
        /\ watchdog' = [watchdog EXCEPT !.mode = "wait", !.failures = @ + 1]
        /\ UNCHANGED <<proc, lock>>
     \/ /\ Answering = {} /\ watchdog.failures + 1 = Threshold
        /\ proc[Child].phase = "hung" \/ watchdog.failures < StartProbes
        /\ StopChild([watchdog EXCEPT !.mode = "delay", !.failures = 0])
  /\ UNCHANGED <<files, hosts, active, schema, stop, admin, budget>>

\* The delay of _restart_child ends, or SvcStop interrupts it.
DelayEnds ==
  /\ watchdog.mode = "delay"
  /\ IF stop = "no" THEN ReadCommand(watchdog) ELSE Mode("wait")
  /\ UNCHANGED <<files, hosts, active, schema, lock, proc, stop, admin, budget>>

\* Mutant: run() returns without stopping the child.
RunReturns ==
  /\ watchdog.mode = "wait" /\ stop # "no" /\ Mode("off")
  /\ UNCHANGED <<files, hosts, active, schema, lock, proc, stop, admin, budget>>

\* run() sees the stop event: its finally clause stops the child.
RunEnds ==
  /\ watchdog.mode = "wait" /\ stop # "no"
  /\ StopChild([watchdog EXCEPT !.mode = "off", !.failures = 0])
  /\ UNCHANGED <<files, hosts, active, schema, stop, admin, budget>>

\* SvcStop, on a thread of its own: set the event, then stop the child.
SetStopEvent ==
  /\ Command /\ watchdog.mode # "off" /\ stop = "no" /\ stop' = "set"
  /\ UNCHANGED <<files, hosts, active, schema, lock, proc, watchdog, admin>>

SvcStop ==
  /\ stop = "set" /\ stop' = "killed" /\ StopChild(watchdog)
  /\ UNCHANGED <<files, hosts, active, schema, admin, budget>>

\* The service process dies and leaves its child behind.
ServiceDies ==
  /\ Fault /\ watchdog.mode # "off" /\ stop = "no"
  /\ watchdog' = [watchdog EXCEPT !.mode = "off", !.child = None, !.failures = 0]
  /\ proc' = [p \in Proc |-> IF p \in LiveProcs THEN [proc[p] EXCEPT !.orphan = TRUE] ELSE NoProc]
  /\ UNCHANGED <<files, hosts, active, schema, lock, stop, admin>>

\* SvcDoRun: at boot or by the SCM's recovery, and again after a stop.
ServiceStarts ==
  /\ watchdog.mode = "off" /\ stop = "no" /\ ReadCommand(watchdog)
  /\ UNCHANGED <<files, hosts, active, schema, lock, proc, stop, admin, budget>>

ServiceStartedAgain ==
  /\ Command /\ watchdog.mode = "off" /\ stop = "killed" /\ stop' = "no" /\ ReadCommand(watchdog)
  /\ UNCHANGED <<files, hosts, active, schema, lock, proc, admin>>

Watch == Spawn \/ Wake \/ CheckExited \/ Probe \/ DelayEnds \/ RunEnds

-----------------------------------------------------------------------------
(* The administrator: one command at a time, which may be killed.          *)

Do(pc) == admin' = [admin EXCEPT !.pc = pc]
Done == admin' = NoCommand

\* publish_release: rename the staging directory to its final place, then
\* install the environment and write the manifest, then the service host.
Publish(r) ==
  /\ Command /\ files[r] = "absent" /\ r \notin hosts
  /\ files' = [files EXCEPT ![r] = "partial"]
  /\ admin' = [NoCommand EXCEPT !.pc = "build", !.target = r]
  /\ UNCHANGED <<hosts, active, schema, lock, proc, watchdog, stop>>

WriteManifest ==
  /\ admin.pc = "build" /\ files' = [files EXCEPT ![admin.target] = "loadable"] /\ Do("host")
  /\ UNCHANGED <<hosts, active, schema, lock, proc, watchdog, stop, budget>>

InitializeHost ==
  /\ admin.pc = "host" /\ hosts' = hosts \cup {admin.target} /\ Done
  /\ UNCHANGED <<files, active, schema, lock, proc, watchdog, stop, budget>>

PublishFails ==
  /\ Fault /\ admin.pc \in {"build", "host"} /\ Done
  /\ files' = [files EXCEPT ![admin.target] = "absent"]
  /\ UNCHANGED <<hosts, active, schema, lock, proc, watchdog, stop>>

Compatible(r) == schema \in Reads[r]

\* activate_release, which is idempotent, keeps the id it replaces.
ActivateRelease(r) ==
  /\ files[r] = "loadable"
  /\ active' = IF active.id = r THEN active ELSE [id |-> r, previous |-> active.id]

\* pte-release activate: nothing is restarted.
Activate(r) ==
  /\ Command /\ Compatible(r) /\ ActivateRelease(r)
  /\ UNCHANGED <<files, hosts, schema, lock, proc, watchdog, stop, admin>>

\* deploy_release up to the compatibility check; rollback deploys the
\* previous_release_id.
Deploy(r) ==
  /\ Command /\ files[active.id] = "loadable" /\ files[r] = "loadable" /\ r # active.id
  /\ Compatible(r)
  /\ admin' = [NoCommand EXCEPT !.pc = "activate", !.target = r, !.previous = active.id]
  /\ UNCHANGED <<files, hosts, active, schema, lock, proc, watchdog, stop>>

DeployActivate ==
  /\ admin.pc = "activate" /\ ActivateRelease(admin.target) /\ Do("open")
  /\ UNCHANGED <<files, hosts, schema, lock, proc, watchdog, stop, budget>>

\* A failure of the first restart leads to the rollback, of the second ends it.
Trouble == IF admin.back THEN Done ELSE Do("recheck")

\* pte control restart, run by the previous release: it opens the store
\* without the runtime lock, to read the control token ...
ControlOpen ==
  /\ admin.pc = "open"
  /\ \/ OpenDatabase(admin.previous) /\ Do("ask")
     \/ ~Compatible(admin.previous) /\ Trouble /\ UNCHANGED schema
  /\ UNCHANGED <<files, hosts, active, lock, proc, watchdog, stop, budget>>

\* ... asks the running instance to restart ...
ControlAsk ==
  /\ admin.pc = "ask"
  /\ \/ \E p \in Answering :
          To(p, "draining") /\ admin' = [admin EXCEPT !.pc = "poll", !.old = p]
     \/ Answering = {} /\ Trouble /\ UNCHANGED proc
  /\ UNCHANGED <<files, hosts, active, schema, lock, watchdog, stop, budget>>

\* ... and polls for another instance until the deadline.
ControlPoll ==
  /\ admin.pc = "poll"
  /\ \/ Answering \ {admin.old} # {} /\ Do("check")
     \/ Answering \ {admin.old} = {} /\ Trouble
  /\ UNCHANGED <<files, hosts, active, schema, lock, proc, watchdog, stop, budget>>

\* The release that the health endpoint reports decides.
DeployCheck ==
  /\ admin.pc = "check"
  /\ LET goal == IF admin.back THEN admin.previous ELSE admin.target
     IN  IF \E p \in Answering : proc[p].release = goal THEN Done ELSE Trouble
  /\ UNCHANGED <<files, hosts, active, schema, lock, proc, watchdog, stop, budget>>

\* The rollback is given up if the failed release has migrated the database.
RollbackCheck ==
  /\ admin.pc = "recheck"
  /\ IF Compatible(admin.previous) THEN Do("reactivate") ELSE Done
  /\ UNCHANGED <<files, hosts, active, schema, lock, proc, watchdog, stop, budget>>

Reactivate ==
  /\ admin.pc = "reactivate" /\ ActivateRelease(admin.previous)
  /\ admin' = [admin EXCEPT !.pc = "open", !.back = TRUE]
  /\ UNCHANGED <<files, hosts, schema, lock, proc, watchdog, stop, budget>>

\* pte account ... and pte performance of the active release open the store
\* without the runtime lock.
StoreCommand ==
  /\ Command /\ OpenDatabase(active.id)
  /\ UNCHANGED <<files, hosts, active, lock, proc, watchdog, stop, admin>>

AdminDies ==
  /\ Fault /\ admin.pc # "idle" /\ Done
  /\ UNCHANGED <<files, hosts, active, schema, lock, proc, watchdog, stop>>

AdminStep ==
  \/ \E r \in Release : Publish(r) \/ Activate(r) \/ Deploy(r)
  \/ WriteManifest \/ InitializeHost \/ PublishFails
  \/ DeployActivate \/ ControlOpen \/ ControlAsk \/ ControlPoll \/ DeployCheck
  \/ RollbackCheck \/ Reactivate \/ StoreCommand \/ AdminDies

Next ==
  \/ \E p \in Proc : Step(p) \/ Crash(p) \/ Hang(p) \/ DrainFails(p)
  \/ Watch \/ SetStopEvent \/ SvcStop \/ ServiceDies \/ ServiceStarts \/ ServiceStartedAgain
  \/ AdminStep

\* Threads that are running go on, and the SCM restarts a service that died;
\* nothing obliges the administrator.
Spec ==
  /\ Init /\ [][Next]_vars
  /\ \A p \in Proc : WF_vars(Step(p))
  /\ WF_vars(Watch) /\ WF_vars(SvcStop) /\ WF_vars(ServiceStarts)

-----------------------------------------------------------------------------
(* Properties.                                                             *)

AdminPC == {"idle", "build", "host", "activate", "open", "ask", "poll", "check", "recheck",
            "reactivate"}
ProcRow == [phase : Phase, release : Release, orphan : BOOLEAN]
WatchdogRow == [mode : {"off", "spawn", "wait", "check", "delay"}, child : Proc \cup {None},
                next : Release, failures : 0 .. Threshold - 1]
AdminRow == [pc : AdminPC, target : Release, previous : Release, old : Proc \cup {None},
             back : BOOLEAN]

\* Every variable holds a value the code can store in it.
TypeOK ==
  /\ files \in [Release -> {"absent", "partial", "loadable"}] /\ hosts \subseteq Release
  /\ active \in [id : Release, previous : Release \cup {None}]
  /\ schema \in {Writes[r] : r \in Release} /\ lock \in Proc \cup {None}
  /\ proc \in [Proc -> ProcRow] /\ watchdog \in WatchdogRow /\ stop \in {"no", "set", "killed"}
  /\ admin \in AdminRow /\ budget \in [faults : 0 .. MaxFaults, ops : 0 .. MaxOps]

\* At most one automatic trader works on runtime.db, whatever processes the
\* watchdog has left behind ("serve and once compete for one exclusive lock").
OneWriter ==
  \A p, q \in Proc :
    {proc[p].phase, proc[q].phase} \subseteq Live \ {"spawned"} => p = q

\* The release the next start will take can be started: its files are whole
\* and it accepts the database as it is now.  A process of the release before,
\* which migrates the database after the check, can break it (LateMigration.cfg).
ActiveCanStart == files[active.id] = "loadable" /\ schema \in Reads[active.id]

\* Once the service is stopped no process it started is left, even when
\* SvcStop arrives while the other thread starts a child.  Processes that a
\* dead service left behind are out of its reach.
NothingOutlivesStop ==
  watchdog.mode = "off" /\ stop = "killed" => \A p \in LiveProcs : proc[p].orphan

\* The service comes back after every exit, hang, failed deployment and death
\* of the watchdog, unless it was stopped or a process that hangs was left
\* behind by a dead watchdog.
ServiceReturns ==
  []<>(Answering # {} \/ stop # "no" \/ \E p \in Proc : proc[p].orphan /\ proc[p].phase = "hung")
=============================================================================
