-------------------------- MODULE DeploymentProofs --------------------------
(***************************************************************************)
(* What holds of Deployment for any releases, processes and bounds: types, *)
(* the one writer, and the stopped service.                                *)
(***************************************************************************)
EXTENDS Deployment, TLAPS

-----------------------------------------------------------------------------
(* Types: first what the pieces do that the actions are made of.           *)

LEMMA ToTypes ==
  ASSUME TypeOK, NEW p \in Proc, NEW phase \in Phase, To(p, phase)
  PROVE  proc' \in [Proc -> ProcRow]
  BY DEF TypeOK, To, ProcRow

LEMMA NoProcTypes == NoProc \in ProcRow
  BY ReleaseAssumption DEF NoProc, ProcRow, Phase

LEMMA ExitTypes ==
  ASSUME TypeOK, NEW p \in Proc, NEW code \in Phase, Exit(p, code)
  PROVE  proc' \in [Proc -> ProcRow] /\ lock' \in Proc \cup {None}
<1>1. [proc[p] EXCEPT !.phase = code] \in ProcRow
  BY DEF TypeOK, ProcRow
<1> QED
  BY <1>1, NoProcTypes DEF TypeOK, Exit, Unlock

LEMMA StopTypes ==
  ASSUME TypeOK, NEW w \in WatchdogRow, StopChild(w)
  PROVE  /\ proc' \in [Proc -> ProcRow] /\ lock' \in Proc \cup {None}
         /\ watchdog' \in WatchdogRow
<1>1. watchdog' \in WatchdogRow
  BY DEF StopChild, WatchdogRow
<1> QED
  BY <1>1, NoProcTypes DEF TypeOK, StopChild, Reap, Unlock

LEMMA ReadTypes ==
  ASSUME TypeOK, NEW w \in WatchdogRow, ReadCommand(w)
  PROVE  watchdog' \in WatchdogRow
<1>1. active.id \in Release /\ 0 \in 0 .. Threshold - 1
  BY ProbeAssumption DEF TypeOK
<1> QED
  BY <1>1 DEF ReadCommand, WatchdogRow

LEMMA ResetTypes ==
  ASSUME TypeOK, NEW m \in {"off", "wait", "delay"}
  PROVE  [watchdog EXCEPT !.mode = m, !.failures = 0] \in WatchdogRow
<1>1. 0 \in 0 .. Threshold - 1
  BY ProbeAssumption
<1> QED
  BY <1>1 DEF TypeOK, WatchdogRow

LEMMA NoCommandTypes == NoCommand \in AdminRow
  BY ReleaseAssumption DEF NoCommand, AdminRow, AdminPC

LEMMA DoTypes ==
  ASSUME TypeOK, \/ Done \/ Trouble \/ \E pc \in AdminPC : Do(pc)
  PROVE  admin' \in AdminRow
<1>1. CASE Done
  BY <1>1, NoCommandTypes DEF Done
<1>2. ASSUME NEW pc \in AdminPC, Do(pc) PROVE admin' \in AdminRow
  BY <1>2 DEF TypeOK, Do, AdminRow
<1>3. Trouble => Done \/ Do("recheck")
  BY DEF Trouble
<1> QED
  BY <1>1, <1>2, <1>3 DEF AdminPC

LEMMA OpenTypes ==
  ASSUME NEW r \in Release, OpenDatabase(r)
  PROVE  schema' \in {Writes[q] : q \in Release}
  BY DEF OpenDatabase

LEMMA ActivateTypes ==
  ASSUME TypeOK, NEW r \in Release, ActivateRelease(r)
  PROVE  active' \in [id : Release, previous : Release \cup {None}]
  BY DEF TypeOK, ActivateRelease

LEMMA BudgetTypes ==
  ASSUME TypeOK, Fault \/ Command
  PROVE  budget' \in [faults : 0 .. MaxFaults, ops : 0 .. MaxOps]
  BY BoundAssumption DEF TypeOK, Fault, Command

LEMMA InitTypes == Init => TypeOK
<1> SUFFICES ASSUME Init PROVE TypeOK
  OBVIOUS
<1>1. watchdog \in WatchdogRow
  BY ReleaseAssumption, ProbeAssumption DEF Init, WatchdogRow
<1>2. budget \in [faults : 0 .. MaxFaults, ops : 0 .. MaxOps]
  BY BoundAssumption DEF Init
<1> QED
  BY <1>1, <1>2, NoProcTypes, NoCommandTypes, ReleaseAssumption DEF Init, TypeOK

LEMMA ProcessTypes ==
  ASSUME TypeOK, NEW p \in Proc, Step(p) \/ Crash(p) \/ Hang(p) \/ DrainFails(p)
  PROVE  TypeOK'
<1> USE DEF TypeOK
<1>p. {"locked", "starting", "serving", "closed", "done", "failed", "hung"} \subseteq Phase
  BY DEF Phase
<1>1. CASE TakeLock(p)
  BY <1>1, <1>p, ToTypes, ExitTypes DEF TakeLock
<1>2. CASE OpenStore(p)
  <2>1. proc[p].release \in Release
    BY DEF ProcRow
  <2> QED
    BY <1>2, <1>p, <2>1, OpenTypes, ToTypes, ExitTypes DEF OpenStore
<1>3. CASE Listen(p) \/ CloseEngine(p)
  BY <1>3, <1>p, ToTypes DEF Listen, CloseEngine
<1>4. CASE ReturnZero(p)
  BY <1>4, <1>p, ExitTypes DEF ReturnZero
<1>5. CASE Crash(p)
  BY <1>5, <1>p, BudgetTypes, ExitTypes DEF Crash
<1>6. CASE Hang(p) \/ DrainFails(p)
  BY <1>6, <1>p, BudgetTypes, ToTypes DEF Hang, DrainFails
<1> QED
  BY <1>1, <1>2, <1>3, <1>4, <1>5, <1>6 DEF Step

LEMMA WatchTypes ==
  ASSUME TypeOK, Watch \/ SetStopEvent \/ SvcStop \/ ServiceDies
                   \/ ServiceStarts \/ ServiceStartedAgain
  PROVE  TypeOK'
<1> USE DEF TypeOK
<1>0. /\ 0 \in 0 .. Threshold - 1 /\ Threshold \in Nat
      /\ watchdog.failures \in 0 .. Threshold - 1 /\ watchdog.next \in Release
      /\ watchdog.child \in Proc \cup {None}
  BY ProbeAssumption DEF WatchdogRow
<1>1. CASE Spawn
  <2> PICK p \in Proc :
        /\ proc' = [proc EXCEPT ![p] = [phase |-> "spawned", release |-> watchdog.next,
                                        orphan |-> FALSE]]
        /\ watchdog' = [watchdog EXCEPT !.mode = "wait", !.child = p]
    BY <1>1 DEF Spawn
  <2>1. [phase |-> "spawned", release |-> watchdog.next, orphan |-> FALSE] \in ProcRow
    BY <1>0 DEF ProcRow, Phase
  <2>2. watchdog' \in WatchdogRow
    BY DEF WatchdogRow
  <2> QED
    BY <1>1, <2>1, <2>2 DEF Spawn
<1>2. CASE Wake
  <2>1. watchdog' \in WatchdogRow
    BY <1>2 DEF Wake, WatchdogRow
  <2> QED
    BY <1>2, <2>1 DEF Wake
<1>3. CASE CheckExited
  <2>1. [watchdog EXCEPT !.child = None] \in WatchdogRow
    BY DEF WatchdogRow
  <2>2. [watchdog EXCEPT !.mode = "delay", !.child = None, !.failures = 0] \in WatchdogRow
    BY <1>0 DEF WatchdogRow
  <2>3. proc' \in [Proc -> ProcRow]
    BY <1>3, NoProcTypes DEF CheckExited, Reap
  <2>4. watchdog' \in WatchdogRow
    BY <1>3, <2>1, <2>2, ReadTypes DEF CheckExited
  <2> QED
    BY <1>3, <2>3, <2>4 DEF CheckExited
<1>4. CASE Probe
  <2>1. [watchdog EXCEPT !.mode = "delay", !.failures = 0] \in WatchdogRow
    BY ResetTypes
  <2>2. ASSUME watchdog.failures + 1 < Threshold
        PROVE  [watchdog EXCEPT !.mode = "wait", !.failures = @ + 1] \in WatchdogRow
    <3>1. watchdog.failures + 1 \in 0 .. Threshold - 1
      BY <1>0, <2>2
    <3> QED
      BY <3>1 DEF WatchdogRow
  <2> QED
    BY <1>4, <2>1, <2>2, ResetTypes, StopTypes DEF Probe, Mode
<1>5. CASE DelayEnds
  BY <1>5, ReadTypes, ResetTypes DEF DelayEnds, Mode
<1>6. CASE RunEnds
  <2>1. [watchdog EXCEPT !.mode = "off", !.failures = 0] \in WatchdogRow
    BY ResetTypes
  <2> QED
    BY <1>6, <2>1, StopTypes DEF RunEnds
<1>7. CASE SetStopEvent
  BY <1>7, BudgetTypes DEF SetStopEvent
<1>8. CASE SvcStop
  BY <1>8, StopTypes DEF SvcStop
<1>9. CASE ServiceDies
  <2>1. watchdog' \in WatchdogRow
    BY <1>0, <1>9 DEF ServiceDies, WatchdogRow
  <2>2. \A p \in Proc : [proc[p] EXCEPT !.orphan = TRUE] \in ProcRow
    BY DEF ProcRow
  <2>3. proc' \in [Proc -> ProcRow]
    BY <1>9, <2>2, NoProcTypes DEF ServiceDies
  <2> QED
    BY <1>9, <2>1, <2>3, BudgetTypes DEF ServiceDies
<1>10. CASE ServiceStarts \/ ServiceStartedAgain
  BY <1>10, ReadTypes, BudgetTypes DEF ServiceStarts, ServiceStartedAgain
<1> QED
  BY <1>1, <1>2, <1>3, <1>4, <1>5, <1>6, <1>7, <1>8, <1>9, <1>10 DEF Watch

LEMMA AdminTypes ==
  ASSUME TypeOK, AdminStep
  PROVE  TypeOK'
<1> USE DEF TypeOK
<1>0. admin.target \in Release /\ admin.previous \in Release /\ active.id \in Release
  BY DEF AdminRow
<1>p. {"activate", "open", "host", "ask", "poll", "check", "reactivate", "recheck"} \subseteq AdminPC
  BY DEF AdminPC
<1>1. ASSUME NEW r \in Release, Publish(r) PROVE TypeOK'
  <2>1. admin' \in AdminRow
    BY <1>1, NoCommandTypes DEF Publish, NoCommand, AdminRow, AdminPC
  <2> QED
    BY <1>1, <2>1, BudgetTypes DEF Publish
<1>2. ASSUME NEW r \in Release, Activate(r) PROVE TypeOK'
  BY <1>2, BudgetTypes, ActivateTypes DEF Activate
<1>3. ASSUME NEW r \in Release, Deploy(r) PROVE TypeOK'
  <2>1. admin' \in AdminRow
    BY <1>0, <1>3, NoCommandTypes DEF Deploy, NoCommand, AdminRow, AdminPC
  <2> QED
    BY <1>3, <2>1, BudgetTypes DEF Deploy
<1>4. CASE WriteManifest
  BY <1>0, <1>p, <1>4, DoTypes DEF WriteManifest
<1>5. CASE InitializeHost
  BY <1>0, <1>5, DoTypes DEF InitializeHost
<1>6. CASE PublishFails
  BY <1>0, <1>6, BudgetTypes, DoTypes DEF PublishFails
<1>7. CASE DeployActivate
  BY <1>0, <1>p, <1>7, ActivateTypes, DoTypes DEF DeployActivate
<1>8. CASE ControlOpen
  <2>1. admin' \in AdminRow
    BY <1>p, <1>8, DoTypes DEF ControlOpen
  <2> QED
    BY <1>0, <1>8, <2>1, OpenTypes DEF ControlOpen
<1>9. CASE ControlAsk
  <2>1. ASSUME NEW p \in Answering, To(p, "draining"),
               admin' = [admin EXCEPT !.pc = "poll", !.old = p]
        PROVE  admin' \in AdminRow /\ proc' \in [Proc -> ProcRow]
    <3>1. p \in Proc /\ "draining" \in Phase
      BY DEF Answering, Phase
    <3>2. admin' \in AdminRow
      BY <1>p, <2>1, <3>1 DEF AdminRow
    <3> QED
      BY <2>1, <3>1, <3>2, ToTypes
  <2>2. Trouble => admin' \in AdminRow
    BY DoTypes
  <2> QED
    BY <1>9, <2>1, <2>2 DEF ControlAsk
<1>10. CASE ControlPoll \/ DeployCheck \/ RollbackCheck
  <2>1. admin' \in AdminRow
    BY <1>p, <1>10, DoTypes DEF ControlPoll, DeployCheck, RollbackCheck
  <2> QED
    BY <1>10, <2>1 DEF ControlPoll, DeployCheck, RollbackCheck
<1>11. CASE Reactivate
  <2>1. admin' \in AdminRow
    BY <1>p, <1>11 DEF Reactivate, AdminRow
  <2> QED
    BY <1>0, <1>11, <2>1, ActivateTypes DEF Reactivate
<1>12. CASE StoreCommand
  BY <1>0, <1>12, BudgetTypes, OpenTypes DEF StoreCommand
<1>13. CASE AdminDies
  BY <1>13, BudgetTypes, DoTypes DEF AdminDies
<1> QED
  BY <1>1, <1>2, <1>3, <1>4, <1>5, <1>6, <1>7, <1>8, <1>9, <1>10, <1>11, <1>12, <1>13
  DEF AdminStep

LEMMA StepTypes == TypeOK /\ [Next]_vars => TypeOK'
<1>1. ASSUME TypeOK, UNCHANGED vars PROVE TypeOK'
  BY <1>1 DEF TypeOK, vars
<1> QED
  BY <1>1, ProcessTypes, WatchTypes, AdminTypes DEF Next

\* Every variable holds a value the code can store in it.
THEOREM TypeCorrect == Spec => []TypeOK
  BY InitTypes, StepTypes, PTL DEF Spec

-----------------------------------------------------------------------------
(* One writer: whoever got past the lock still holds it.                   *)

Working == Live \ {"spawned"}
WorkersLock == \A p \in Proc : proc[p].phase \in Working => lock = p

\* A process that ends gives the lock back, and only its own.
LEMMA ExitKeepsLock ==
  ASSUME TypeOK, WorkersLock, NEW p \in Proc, NEW code \in {"done", "failed"}, Exit(p, code)
  PROVE  WorkersLock'
<1>1. code \notin Working /\ NoProc.phase \notin Working
  BY DEF Working, Live, Phase, NoProc
<1>2. proc'[p].phase \notin Working /\ \A q \in Proc \ {p} : proc'[q] = proc[q]
  BY <1>1 DEF TypeOK, ProcRow, Exit
<1> QED
  BY <1>2 DEF WorkersLock, Exit, Unlock

LEMMA StopKeepsLock ==
  ASSUME TypeOK, WorkersLock, NEW w, StopChild(w)
  PROVE  WorkersLock'
<1> DEFINE P == {Child} \cap Proc
<1>1. NoProc.phase \notin Working
  BY DEF Working, Live, Phase, NoProc
<1>2. \A p \in Proc : proc'[p] = IF p \in P THEN NoProc ELSE proc[p]
  BY DEF StopChild, Reap
<1>3. lock' = IF lock \in P THEN None ELSE lock
  BY DEF StopChild, Unlock
<1> QED
  BY <1>1, <1>2, <1>3 DEF WorkersLock

\* A step between two phases behind the lock, by the process that holds it.
LEMMA ToKeepsLock ==
  ASSUME TypeOK, WorkersLock, NEW p \in Proc, NEW phase,
         To(p, phase), lock' = lock, lock = p
  PROVE  WorkersLock'
  BY DEF TypeOK, WorkersLock, To, ProcRow

LEMMA LockStep == TypeOK /\ WorkersLock /\ [Next]_vars => WorkersLock'
<1> SUFFICES ASSUME TypeOK, WorkersLock, [Next]_vars PROVE WorkersLock'
  OBVIOUS
<1>0. {"locked", "starting", "serving", "hung", "draining", "closed"} = Working
  BY DEF Working, Live, Phase
<1>1. ASSUME NEW p \in Proc, TakeLock(p) PROVE WorkersLock'
  <2>1. CASE lock = None /\ To(p, "locked") /\ lock' = p
    <3>1. \A q \in Proc : proc[q].phase \notin Working
      BY <2>1, ReleaseAssumption DEF WorkersLock
    <3>2. \A q \in Proc \ {p} : proc'[q] = proc[q]
      BY <2>1 DEF TypeOK, To
    <3> QED
      BY <2>1, <3>1, <3>2 DEF WorkersLock
  <2> QED
    BY <1>1, <2>1, ExitKeepsLock DEF TakeLock
<1>2. ASSUME NEW p \in Proc, OpenStore(p) \/ Listen(p) \/ CloseEngine(p) \/ ReturnZero(p)
                             \/ Hang(p) \/ DrainFails(p)
      PROVE  WorkersLock'
  <2>1. lock = p
    BY <1>0, <1>2
    DEF WorkersLock, OpenStore, Listen, CloseEngine, ReturnZero, Hang, DrainFails
  <2> QED
    BY <1>2, <2>1, ToKeepsLock, ExitKeepsLock
    DEF OpenStore, Listen, CloseEngine, ReturnZero, Hang, DrainFails
<1>3. ASSUME NEW p \in Proc, Crash(p) PROVE WorkersLock'
  BY <1>3, ExitKeepsLock DEF Crash
<1>4. CASE Spawn
  <2> PICK p \in Proc : proc' = [proc EXCEPT ![p] = [phase |-> "spawned",
                                   release |-> watchdog.next, orphan |-> FALSE]]
    BY <1>4 DEF Spawn
  <2>1. proc'[p].phase \notin Working /\ \A q \in Proc \ {p} : proc'[q] = proc[q]
    BY DEF TypeOK, Working
  <2> QED
    BY <1>4, <2>1 DEF WorkersLock, Spawn
<1>5. CASE CheckExited
  <2>1. \A p \in Proc : proc'[p] \in {proc[p], NoProc}
    BY <1>5 DEF CheckExited, Reap
  <2> QED
    BY <1>5, <2>1 DEF WorkersLock, CheckExited, NoProc, Working, Live
<1>6. CASE Probe \/ RunEnds \/ SvcStop
  <2>1. CASE UNCHANGED <<proc, lock>>
    BY <2>1 DEF WorkersLock
  <2> QED
    BY <1>6, <2>1, StopKeepsLock DEF Probe, RunEnds, SvcStop
<1>7. CASE ServiceDies
  <2>1. \A p \in Proc : proc'[p].phase \in {proc[p].phase, "none"}
    BY <1>7 DEF TypeOK, ProcRow, ServiceDies, NoProc
  <2> QED
    BY <1>7, <2>1 DEF WorkersLock, ServiceDies, Working, Live
<1>8. CASE ControlAsk
  <2>1. ASSUME NEW p \in Answering, To(p, "draining") PROVE WorkersLock'
    <3>1. p \in Proc /\ lock = p
      BY <1>0 DEF Answering, WorkersLock
    <3> QED
      BY <1>8, <2>1, <3>1, ToKeepsLock DEF ControlAsk
  <2> QED
    BY <1>8, <2>1 DEF ControlAsk, WorkersLock
<1>9. CASE UNCHANGED <<proc, lock>>
  BY <1>9 DEF WorkersLock
<1> QED
  BY <1>1, <1>2, <1>3, <1>4, <1>5, <1>6, <1>7, <1>8, <1>9
  DEF Next, vars, Step, Watch, Wake, DelayEnds, SetStopEvent, ServiceStarts,
      ServiceStartedAgain, AdminStep, Publish, Activate, Deploy, WriteManifest,
      InitializeHost, PublishFails, DeployActivate, ControlOpen, ControlPoll,
      DeployCheck, RollbackCheck, Reactivate, StoreCommand, AdminDies

\* At most one automatic trader works on runtime.db, whatever processes the
\* watchdog has left behind, hung or restarted.
THEOREM AtMostOneWriter == Spec => []OneWriter
<1>1. Init => WorkersLock
  BY DEF Init, WorkersLock, NoProc, Working, Live
<1>2. WorkersLock => OneWriter
  BY DEF WorkersLock, OneWriter, Working
<1> QED
  BY <1>1, <1>2, LockStep, TypeCorrect, PTL DEF Spec

-----------------------------------------------------------------------------
(* A stopped service: what lives and is no orphan is the watchdog's child, *)
(* and a watchdog that is off or about to start a process has none.        *)

Attached(row) == row.phase \in Live /\ ~row.orphan
ChildKnown ==
  /\ \A p \in Proc : Attached(proc[p]) => Child = p
  /\ watchdog.mode \in {"off", "spawn", "delay"} => Child = None

\* No process gets attached, and the watchdog keeps its child and its mode.
LEMMA QuietKeepsChild ==
  ASSUME ChildKnown, \A p \in Proc : Attached(proc'[p]) => Attached(proc[p]),
         watchdog'.child = Child,
         watchdog'.mode \in {"off", "spawn", "delay"} => Child = None
  PROVE  ChildKnown'
  BY DEF ChildKnown, Child

\* The watchdog has no child any more, and no process is attached.
LEMMA NoChild ==
  ASSUME watchdog'.child = None, \A p \in Proc : ~Attached(proc'[p])
  PROVE  ChildKnown'
  BY DEF ChildKnown, Child

LEMMA ToAttaches ==
  ASSUME TypeOK, NEW p \in Proc, proc[p].phase \in Live, NEW phase, To(p, phase)
  PROVE  \A q \in Proc : Attached(proc'[q]) => Attached(proc[q])
  BY DEF TypeOK, To, ProcRow, Attached

LEMMA ExitAttaches ==
  ASSUME TypeOK, NEW p \in Proc, NEW code \in {"done", "failed"}, Exit(p, code)
  PROVE  \A q \in Proc : Attached(proc'[q]) => Attached(proc[q])
<1>1. code \notin Live /\ NoProc.phase \notin Live
  BY DEF Live, Phase, NoProc
<1>2. proc'[p].phase \notin Live /\ \A q \in Proc \ {p} : proc'[q] = proc[q]
  BY <1>1 DEF TypeOK, ProcRow, Exit
<1> QED
  BY <1>2 DEF Attached

LEMMA StopAttaches ==
  ASSUME TypeOK, ChildKnown, NEW w, StopChild(w)
  PROVE  \A p \in Proc : ~Attached(proc'[p])
<1>1. ~Attached(NoProc)
  BY DEF Attached, NoProc, Live
<1>2. \A p \in Proc : proc'[p] = IF p = Child THEN NoProc ELSE proc[p]
  BY DEF StopChild, Reap
<1> QED
  BY <1>1, <1>2 DEF ChildKnown

LEMMA StopKeepsChild ==
  ASSUME TypeOK, ChildKnown, NEW w \in WatchdogRow, StopChild(w)
  PROVE  ChildKnown'
<1>1. watchdog'.child = None
  BY DEF StopChild, WatchdogRow
<1> QED
  BY <1>1, NoChild, StopAttaches

LEMMA ChildStep == TypeOK /\ ChildKnown /\ [Next]_vars => ChildKnown'
<1> SUFFICES ASSUME TypeOK, ChildKnown, [Next]_vars PROVE ChildKnown'
  OBVIOUS
<1> DEFINE Same == \A p \in Proc : Attached(proc'[p]) => Attached(proc[p])
<1>0. {"spawned", "locked", "starting", "serving", "draining", "closed"} \subseteq Live
      /\ ~Attached(NoProc)
  BY DEF Live, Phase, Attached, NoProc
<1>1. ASSUME NEW p \in Proc, Step(p) \/ Crash(p) \/ Hang(p) \/ DrainFails(p)
      PROVE  ChildKnown'
  <2>1. Same
    BY <1>0, <1>1, ToAttaches, ExitAttaches
    DEF Step, TakeLock, OpenStore, Listen, CloseEngine, ReturnZero, Crash, Hang, DrainFails
  <2>2. watchdog' = watchdog
    BY <1>1
    DEF Step, TakeLock, OpenStore, Listen, CloseEngine, ReturnZero, Crash, Hang, DrainFails
  <2> QED
    BY <2>1, <2>2, QuietKeepsChild DEF ChildKnown, Child
<1>2. CASE Spawn
  <2> PICK p \in Proc :
        /\ proc' = [proc EXCEPT ![p] = [phase |-> "spawned", release |-> watchdog.next,
                                        orphan |-> FALSE]]
        /\ watchdog' = [watchdog EXCEPT !.mode = "wait", !.child = p]
    BY <1>2 DEF Spawn
  <2>1. \A q \in Proc : ~Attached(proc[q])
    BY <1>2, ReleaseAssumption DEF ChildKnown, Spawn
  <2>2. \A q \in Proc \ {p} : proc'[q] = proc[q]
    BY DEF TypeOK
  <2>3. watchdog'.mode = "wait" /\ watchdog'.child = p
    BY DEF TypeOK, WatchdogRow
  <2> QED
    BY <2>1, <2>2, <2>3 DEF ChildKnown, Child
<1>3. CASE CheckExited
  <2>1. CASE Child = None
    <3>1. watchdog'.child = None /\ UNCHANGED proc
      BY <1>3, <2>1 DEF CheckExited, ReadCommand, TypeOK, WatchdogRow, Child
    <3> QED
      BY <2>1, <3>1, NoChild, ReleaseAssumption DEF ChildKnown
  <2>2. CASE Child # None
    <3>1. proc[Child].phase \notin Live /\ Reap({Child}) /\ watchdog'.child = None
      BY <1>3, <2>2
      DEF CheckExited, ReadCommand, TypeOK, WatchdogRow, Child, Live, Phase
    <3>2. \A p \in Proc : ~Attached(proc[p])
      BY <3>1 DEF ChildKnown, Attached
    <3> QED
      BY <1>0, <3>1, <3>2, NoChild DEF Reap
  <2> QED
    BY <2>1, <2>2
<1>4. CASE Probe
  <2>1. CASE UNCHANGED proc /\ watchdog'.child = Child /\ watchdog'.mode = "wait"
    BY <2>1, QuietKeepsChild
  <2>2. [watchdog EXCEPT !.mode = "delay", !.failures = 0] \in WatchdogRow
    BY ResetTypes
  <2>3. CASE StopChild([watchdog EXCEPT !.mode = "delay", !.failures = 0])
    BY <2>2, <2>3, StopKeepsChild
  <2> QED
    BY <1>4, <2>1, <2>3 DEF Probe, Mode, TypeOK, WatchdogRow, Child
<1>5. CASE RunEnds \/ SvcStop
  <2>1. [watchdog EXCEPT !.mode = "off", !.failures = 0] \in WatchdogRow
    BY ResetTypes
  <2> QED
    BY <1>5, <2>1, StopKeepsChild DEF RunEnds, SvcStop, TypeOK
<1>6. CASE Wake \/ DelayEnds \/ ServiceStarts \/ ServiceStartedAgain
  <2>1. /\ UNCHANGED proc /\ watchdog'.child = Child
        /\ watchdog.mode \in {"off", "delay"} \/ watchdog'.mode = "check"
    BY <1>6 DEF Wake, DelayEnds, ServiceStarts, ServiceStartedAgain, ReadCommand, Mode,
                TypeOK, WatchdogRow, Child
  <2> QED
    BY <2>1, QuietKeepsChild DEF ChildKnown
<1>7. CASE ServiceDies
  <2>1. \A p \in Proc : ~Attached(proc'[p])
    BY <1>0, <1>7 DEF ServiceDies, LiveProcs, Attached, TypeOK, ProcRow
  <2>2. watchdog'.child = None
    BY <1>7 DEF ServiceDies, TypeOK, WatchdogRow
  <2> QED
    BY <2>1, <2>2, NoChild
<1>8. CASE ControlAsk
  <2>1. \A p \in Answering : p \in Proc /\ proc[p].phase \in Live
    BY <1>0 DEF Answering
  <2>2. Same /\ watchdog' = watchdog
    BY <1>8, <2>1, ToAttaches DEF ControlAsk
  <2> QED
    BY <2>2, QuietKeepsChild DEF ChildKnown, Child
<1>9. CASE UNCHANGED <<proc, watchdog>>
  BY <1>9, QuietKeepsChild DEF ChildKnown, Child
<1> QED
  BY <1>1, <1>2, <1>3, <1>4, <1>5, <1>6, <1>7, <1>8, <1>9
  DEF Next, vars, Watch, SetStopEvent, AdminStep, Publish, Activate, Deploy, WriteManifest,
      InitializeHost, PublishFails, DeployActivate, ControlOpen, ControlPoll, DeployCheck,
      RollbackCheck, Reactivate, StoreCommand, AdminDies

\* Once the service is stopped no process it started is left, even when SvcStop
\* arrives while the other thread starts a child.
THEOREM StopLeavesNothing == Spec => []NothingOutlivesStop
<1>1. Init => ChildKnown
  BY DEF Init, ChildKnown, Child, Attached, NoProc, Live
<1>2. ChildKnown => NothingOutlivesStop
  BY ReleaseAssumption DEF ChildKnown, NothingOutlivesStop, LiveProcs, Attached
<1> QED
  BY <1>1, <1>2, ChildStep, TypeCorrect, PTL DEF Spec
=============================================================================
