---------------------------- MODULE AptRunProofs ----------------------------
(***************************************************************************)
(* Proofs about AptRun, for any number of requests, runs and restarts:     *)
(* what is reported of a run is true of it, and said after it.             *)
(***************************************************************************)
EXTENDS AptRun, TLAPS

Preparing == {"journal", "launch"}
Final == {"success", "failed", "lost"}

\* What the unit has done is what its result and its outcome show.
UnitShown ==
    \A r \in Runs :
        /\ unit[r] \in {"none", "queued", "apt"} => outcome[r] = "none"
        /\ unit[r] \in {"finished", "opened", "written"} =>
               outcome[r] \in {"success", "failed"}
        /\ result[r] # "absent" => unit[r] \in {"opened", "written", "over"}
        /\ result[r] = "success" => outcome[r] = "success"

\* A task that has got that far has a run, and every run was begun.
RunsBegun ==
    /\ \A t \in Tasks : run[t] <= begun
    /\ \A t \in Tasks : pc[t] \in Preparing \cup Watching => run[t] \in Runs
    /\ journal \in Runs => journal <= begun
    /\ \A p \in reports : p.run <= begun
    /\ ~up => \A t \in Tasks : pc[t] \in {"new", "done"}

\* A task that prepares a run is alone with it, or the run is contested.
PreparedAlone ==
    \A t, u \in Tasks :
        (/\ t # u /\ run[t] = run[u]
         /\ pc[u] \in Preparing /\ pc[t] \in Preparing \cup Watching)
            => run[t] \in contested

\* A verdict that waits to be reported is true, and the run is past dpkg.
VerdictsHeld ==
    \A t \in Tasks : pc[t] \in {"clean", "clear"} =>
        /\ verdict[t] \in Final
        /\ verdict[t] = "success" => outcome[run[t]] = "success"
        /\ run[t] \notin contested => unit[run[t]] \notin {"queued", "apt"}

\* Nobody prepares a run again of which a verdict was reported.
ReportedOver ==
    \A p \in reports : p.verdict \in Final =>
        /\ p.run \in Runs
        /\ p.run \notin contested =>
               \A u \in Tasks : pc[u] \in Preparing => run[u] # p.run

IInv ==
    /\ TypeOK /\ UnitShown /\ RunsBegun /\ PreparedAlone /\ VerdictsHeld
    /\ ReportedOver /\ SuccessIsReal /\ ReportsAfterDpkg

-----------------------------------------------------------------------------
(* The initial states satisfy the invariant.                                *)
LEMMA InitIInv == Init => IInv
<1> SUFFICES ASSUME Init PROVE IInv
    OBVIOUS
<1>1. TypeOK
  <2>1. /\ up \in BOOLEAN /\ restarts \in 0 .. MaxRestarts
        /\ begun \in 0 .. MaxRuns /\ contested \subseteq Runs
        /\ journal \in Runs \cup {NoRun, Torn}
      BY ConstantsAssumption DEF Init
  <2>2. /\ script \in [Runs -> BOOLEAN] /\ log \in [Runs -> {"absent", "whole", "split"}]
        /\ result \in [Runs -> {"absent", "empty", "success", "failed"}]
        /\ unit \in [Runs -> {"none", "queued", "apt", "finished", "opened",
                              "written", "over"}]
        /\ outcome \in [Runs -> {"none", "success", "failed", "killed"}]
      BY DEF Init
  <2>3. /\ pc \in [Tasks -> Steps] /\ run \in [Tasks -> Runs \cup {NoRun}]
        /\ verdict \in [Tasks -> Verdicts \cup {"none"}] /\ reports = {}
      BY DEF Init, Steps
  <2> QED
      BY <2>1, <2>2, <2>3 DEF TypeOK
<1>2. UnitShown
    BY DEF Init, UnitShown
<1>3. RunsBegun /\ PreparedAlone /\ VerdictsHeld
  <2>1. /\ up /\ journal = 0 /\ begun = 0 /\ reports = {}
        /\ \A t \in Tasks : pc[t] \in {"new", "done"} /\ run[t] = 0
      BY DEF Init, NoRun
  <2>2. RunsBegun
      BY <2>1 DEF RunsBegun, Preparing, Watching, Runs
  <2> QED
      BY <2>1, <2>2 DEF PreparedAlone, VerdictsHeld, Preparing
<1>4. ReportedOver /\ SuccessIsReal /\ ReportsAfterDpkg
    BY DEF Init, ReportedOver, SuccessIsReal, ReportsAfterDpkg
<1> QED
    BY <1>1, <1>2, <1>3, <1>4 DEF IInv

-----------------------------------------------------------------------------
(* The unit.                                                                *)

(* A step of the unit leaves the tasks, the journal and the reports alone.  *)
LEMMA UnitKeepsTasks ==
    ASSUME IInv, NEW r \in Runs, Unit(r)
    PROVE  /\ UNCHANGED <<process, journal, script, tasks, history>>
           /\ (RunsBegun /\ PreparedAlone /\ ReportedOver)'
<1>1. UNCHANGED <<process, journal, script, tasks, history>>
    BY DEF Unit, UnitStarts, LogGrows, AptFinishes, OpenResult, WriteResult, UnitExits,
           UnitKilled, files
<1>2. RunsBegun'
    BY <1>1 DEF IInv, RunsBegun, process, tasks, history
<1>3. PreparedAlone'
    BY <1>1 DEF IInv, PreparedAlone, tasks, history
<1>4. ReportedOver'
    BY <1>1 DEF IInv, ReportedOver, tasks, history
<1> QED
    BY <1>1, <1>2, <1>3, <1>4

(* A step of the unit keeps the types and shows what it has done.           *)
LEMMA UnitShows ==
    ASSUME IInv, NEW r \in Runs, Unit(r)
    PROVE  (TypeOK /\ UnitShown)'
<1> USE DEF IInv, TypeOK, UnitShown, Verdicts, process, files, dpkg, tasks, history
<1>1. CASE UnitStarts(r)
  <2>1. TypeOK'
    BY <1>1 DEF UnitStarts
  <2>2. UnitShown'
    BY <1>1 DEF UnitStarts
  <2> QED
    BY <2>1, <2>2
<1>2. CASE AptFinishes(r)
  <2>1. TypeOK'
    BY <1>2 DEF AptFinishes
  <2>2. UnitShown'
    BY <1>2 DEF AptFinishes
  <2> QED
    BY <2>1, <2>2
<1>3. CASE OpenResult(r)
  <2>1. TypeOK'
    BY <1>3 DEF OpenResult
  <2>2. UnitShown'
    BY <1>3 DEF OpenResult
  <2> QED
    BY <2>1, <2>2
<1>4. CASE WriteResult(r)
  <2>1. TypeOK'
    BY <1>4 DEF WriteResult
  <2>2. UnitShown'
    BY <1>4 DEF WriteResult
  <2> QED
    BY <2>1, <2>2
<1>5. CASE UnitExits(r)
  <2>1. TypeOK'
    BY <1>5 DEF UnitExits
  <2>2. UnitShown'
    BY <1>5 DEF UnitExits
  <2> QED
    BY <2>1, <2>2
<1>6. CASE UnitKilled(r)
  <2>1. TypeOK'
    BY <1>6 DEF UnitKilled
  <2>2. UnitShown'
    BY <1>6 DEF UnitKilled
  <2> QED
    BY <2>1, <2>2
<1>7. CASE LogGrows(r)
  <2>1. TypeOK'
    BY <1>7 DEF LogGrows
  <2>2. UnitShown'
    BY <1>7 DEF LogGrows
  <2> QED
    BY <2>1, <2>2
<1> QED
    BY <1>1, <1>2, <1>3, <1>4, <1>5, <1>6, <1>7 DEF Unit

(* No unit goes back to waiting for dpkg, and a success is not taken back.  *)
LEMMA UnitGoesOn ==
    ASSUME IInv, NEW r \in Runs, Unit(r), NEW q \in Runs
    PROVE  /\ unit[q] \notin {"queued", "apt"} => unit'[q] \notin {"queued", "apt"}
           /\ outcome[q] = "success" => outcome'[q] = "success"
<1> USE DEF IInv, TypeOK, UnitShown
<1>1. CASE UnitStarts(r)
    BY <1>1 DEF UnitStarts
<1>2. CASE AptFinishes(r)
    BY <1>2 DEF AptFinishes
<1>3. CASE OpenResult(r) \/ WriteResult(r) \/ UnitExits(r)
    BY <1>3 DEF OpenResult, WriteResult, UnitExits
<1>4. CASE UnitKilled(r)
    BY <1>4 DEF UnitKilled
<1>5. CASE LogGrows(r)
    BY <1>5 DEF LogGrows, dpkg
<1> QED
    BY <1>1, <1>2, <1>3, <1>4, <1>5 DEF Unit

(* The unit keeps the invariant.                                            *)
LEMMA UnitStep ==
    ASSUME IInv, NEW r \in Runs, Unit(r)
    PROVE  IInv'
<1>1. UNCHANGED <<process, journal, script, tasks, history>>
    BY UnitKeepsTasks
<1>2. VerdictsHeld'
  <2> SUFFICES ASSUME NEW t \in Tasks, pc'[t] \in {"clean", "clear"}
               PROVE  /\ verdict'[t] \in Final
                      /\ verdict'[t] = "success" => outcome'[run'[t]] = "success"
                      /\ run'[t] \notin contested' => unit'[run'[t]] \notin {"queued", "apt"}
      BY DEF VerdictsHeld
  <2>1. pc' = pc /\ run' = run /\ verdict' = verdict /\ contested' = contested
      BY <1>1 DEF tasks, history
  <2>2. run[t] \in Runs
      BY <2>1 DEF IInv, RunsBegun, Watching
  <2> QED
      BY <2>1, <2>2, UnitGoesOn DEF IInv, VerdictsHeld
<1>3. ReportsAfterDpkg'
  <2> SUFFICES ASSUME NEW p \in reports, p.verdict \in Final, p.run \notin contested
               PROVE  unit'[p.run] \notin {"queued", "apt"}
      BY <1>1 DEF ReportsAfterDpkg, Final, history
  <2>1. p.run \in Runs /\ unit[p.run] \notin {"queued", "apt"}
      BY DEF IInv, ReportedOver, ReportsAfterDpkg, Final
  <2> QED
      BY <2>1, UnitGoesOn
<1>4. SuccessIsReal'
  <2> SUFFICES ASSUME NEW p \in reports, p.verdict = "success"
               PROVE  outcome'[p.run] = "success"
      BY <1>1 DEF SuccessIsReal, history
  <2>1. p.run \in Runs /\ outcome[p.run] = "success"
      BY DEF IInv, SuccessIsReal, ReportedOver, Final
  <2> QED
      BY <2>1, UnitGoesOn
<1> QED
    BY <1>2, <1>3, <1>4, UnitKeepsTasks, UnitShows DEF IInv

-----------------------------------------------------------------------------
(* The tasks.                                                               *)

TaskStep(t) == Start(t) \/ Watch(t) \/ QueryFails(t)

(* A task's step keeps the types.                                           *)
LEMMA TaskTypes ==
    ASSUME IInv, NEW t \in Tasks, TaskStep(t)
    PROVE  TypeOK'
<1> USE ConstantsAssumption
    DEF IInv, TypeOK, Goto, Steps, Starting, Watching, process, files, dpkg, tasks, history
<1>1. CASE BeginUpgrade(t)
    BY <1>1 DEF BeginUpgrade, Launching
<1>2. CASE WriteScript(t)
  <2>1. PICK r \in {begun + 1} \cup Launching :
            /\ r \in Runs
            /\ begun' = IF r > begun THEN r ELSE begun
            /\ run' = [run EXCEPT ![t] = r]
            /\ contested' = contested \cup ({r} \cap Launching)
            /\ script' = [script EXCEPT ![r] = TRUE]
      BY <1>2 DEF WriteScript
  <2>2. begun' \in 0 .. MaxRuns
      BY <2>1 DEF Runs
  <2>3. contested' \subseteq Runs /\ run' \in [Tasks -> Runs \cup {NoRun}]
      BY <2>1
  <2> QED
      BY <1>2, <2>1, <2>2, <2>3 DEF WriteScript
<1>3. CASE StartRefused(t)
    BY <1>3 DEF StartRefused, Report, Verdicts
<1>4. CASE TruncateJournal(t)
    BY <1>4 DEF TruncateJournal
<1>5. CASE WriteJournal(t)
    BY <1>5 DEF WriteJournal, RunsBegun, Preparing
<1>6. CASE Launch(t)
    BY <1>6 DEF Launch
<1>7. CASE LaunchRefused(t)
  <2>1. /\ script' = [script EXCEPT ![run[t]] = FALSE]
        /\ log' = [log EXCEPT ![run[t]] = "absent"]
        /\ result' = [result EXCEPT ![run[t]] = "absent"]
        /\ journal' = NoRun /\ pc' = [pc EXCEPT ![t] = "done"]
        /\ UNCHANGED <<up, restarts, unit, outcome, run, verdict, begun, contested>>
      BY <1>7 DEF LaunchRefused, RemoveFiles
  <2>2. reports' = reports \cup {[task |-> t, run |-> run[t], verdict |-> "refused"]}
      BY <1>7 DEF LaunchRefused, Report
  <2>3. reports' \subseteq [task : Tasks, run : Runs \cup {NoRun}, verdict : Verdicts]
      BY <2>2 DEF Verdicts
  <2>4. /\ script' \in [Runs -> BOOLEAN] /\ log' \in [Runs -> {"absent", "whole", "split"}]
        /\ result' \in [Runs -> {"absent", "empty", "success", "failed"}]
        /\ pc' \in [Tasks -> Steps]
      BY <2>1
  <2> QED
      BY <2>1, <2>3, <2>4
<1>8. CASE LaunchFails(t)
    BY <1>8 DEF LaunchFails, Report, Verdicts
<1>9. CASE Tick(t)
    BY <1>9 DEF Tick
<1>10. CASE FlushJournal(t)
    BY <1>10 DEF FlushJournal, RunsBegun
<1>11. CASE CheckResult(t)
    BY <1>11 DEF CheckResult, VerdictOf, Verdicts
<1>12. CASE QueryUnit(t)
    BY <1>12 DEF QueryUnit, Verdicts
<1>13. CASE CleanFiles(t)
    BY <1>13 DEF CleanFiles, RemoveFiles
<1>14. CASE ClearJournal(t)
    BY <1>14 DEF ClearJournal, Report, VerdictsHeld, Final, Verdicts
<1>15. CASE QueryFails(t)
    BY <1>15 DEF QueryFails
<1>16. CASE TickPanics(t)
    BY <1>16 DEF TickPanics
<1> QED
    BY <1>1, <1>2, <1>3, <1>4, <1>5, <1>6, <1>7, <1>8, <1>9,
       <1>10, <1>11, <1>12, <1>13, <1>14, <1>15, <1>16
    DEF TaskStep, Start, Watch

(* A task starts a unit or removes files, and does nothing else to a run.   *)
LEMMA TaskShows ==
    ASSUME IInv, NEW t \in Tasks, TaskStep(t)
    PROVE  /\ outcome' = outcome
           /\ \/ unit' = unit
              \/ Launch(t)
           /\ UnitShown'
<1> USE DEF IInv, UnitShown
<1>1. CASE Launch(t)
    BY <1>1 DEF Launch, TypeOK, files
<1>2. CASE LaunchRefused(t) \/ CleanFiles(t)
    BY <1>2 DEF LaunchRefused, CleanFiles, RemoveFiles, TypeOK, dpkg
<1>3. CASE unit' = unit /\ outcome' = outcome /\ result' = result
    BY <1>3
<1> QED
    BY <1>1, <1>2, <1>3
    DEF TaskStep, Start, Watch, dpkg, files,
        BeginUpgrade, WriteScript, StartRefused, TruncateJournal, WriteJournal, LaunchFails,
        Tick, TickPanics, FlushJournal, CheckResult, QueryUnit, ClearJournal, QueryFails

\* A task comes to a run in two ways: it finds it journaled, or it begins it.
Joins(t) == BeginUpgrade(t) \/ WriteScript(t)

(* Any other step of a task goes on with the run it has, or ends.           *)
LEMMA TaskMoves ==
    ASSUME IInv, NEW t \in Tasks, TaskStep(t), ~Joins(t)
    PROVE  /\ UNCHANGED <<process, run, begun, contested>>
           /\ \A u \in Tasks \ {t} : pc'[u] = pc[u] /\ verdict'[u] = verdict[u]
           /\ pc'[t] \in Preparing => pc[t] \in Preparing
           /\ pc'[t] \in Watching => pc[t] \in Preparing \cup Watching
           /\ pc'[t] \in {"clean", "clear"} =>
                  \/ pc[t] = "clean" /\ verdict'[t] = verdict[t]
                  \/ CheckResult(t) \/ QueryUnit(t)
<1> USE DEF IInv, TypeOK, Goto, Preparing, Watching, tasks, history
<1>1. CASE StartRefused(t)
    BY <1>1 DEF StartRefused
<1>2. CASE TruncateJournal(t)
    BY <1>2 DEF TruncateJournal
<1>3. CASE WriteJournal(t)
    BY <1>3 DEF WriteJournal
<1>4. CASE Launch(t)
    BY <1>4 DEF Launch
<1>5. CASE LaunchRefused(t)
    BY <1>5 DEF LaunchRefused
<1>6. CASE LaunchFails(t)
    BY <1>6 DEF LaunchFails
<1>7. CASE Tick(t)
    BY <1>7 DEF Tick
<1>8. CASE FlushJournal(t)
    BY <1>8 DEF FlushJournal
<1>9. CASE CheckResult(t)
    BY <1>9 DEF CheckResult
<1>10. CASE QueryUnit(t)
    BY <1>10 DEF QueryUnit
<1>11. CASE CleanFiles(t)
    BY <1>11 DEF CleanFiles
<1>12. CASE ClearJournal(t)
    BY <1>12 DEF ClearJournal
<1>13. CASE QueryFails(t)
    BY <1>13 DEF QueryFails
<1>14. CASE TickPanics(t)
    BY <1>14 DEF TickPanics
<1> QED
    BY <1>1, <1>2, <1>3, <1>4, <1>5, <1>6, <1>7, <1>8, <1>9,
       <1>10, <1>11, <1>12, <1>13, <1>14
    DEF TaskStep, Start, Watch, Joins

(* What a task adds to the reports is a refusal or the verdict it held.     *)
LEMMA TaskReportsOnly ==
    ASSUME IInv, NEW t \in Tasks, TaskStep(t), NEW p \in reports'
    PROVE  \/ p \in reports
           \/ p.run = run[t] /\ p.verdict = "refused"
           \/ p.run = run[t] /\ p.verdict = verdict[t] /\ ClearJournal(t)
<1>1. CASE reports' = reports
    BY <1>1
<1>2. CASE Report(t, "refused")
    BY <1>2 DEF Report
<1>3. CASE ClearJournal(t)
    BY <1>3 DEF ClearJournal, Report
<1> QED
    BY <1>1, <1>2, <1>3
    DEF TaskStep, Start, Watch, history, BeginUpgrade, WriteScript,
        StartRefused, TruncateJournal, WriteJournal, Launch, LaunchRefused, LaunchFails,
        Tick, TickPanics, FlushJournal, CheckResult, QueryUnit, CleanFiles, QueryFails

(* A task that joins a run finds it contested if another prepares it, and   *)
(* prepares itself only a run that nobody prepares or has begun.            *)
JoinsRun(t, r) ==
    /\ run' = [run EXCEPT ![t] = r]
    /\ contested' = contested \cup ({r} \cap Launching)
    /\ begun' \in Nat /\ begun <= begun' /\ r <= begun'
    /\ pc' = [pc EXCEPT ![t] = "tick"] \/ pc' = [pc EXCEPT ![t] = "journal"]
    /\ pc' = [pc EXCEPT ![t] = "journal"] => r = begun + 1 \/ r \in Launching

(* What joining a run changes.                                              *)
LEMMA TaskJoins ==
    ASSUME IInv, NEW t \in Tasks, Joins(t)
    PROVE  /\ UNCHANGED <<process, journal, dpkg, verdict, reports>>
           /\ up /\ pc[t] \in {"new", "script"}
           /\ \/ /\ pc' = [pc EXCEPT ![t] = "script"]
                 /\ UNCHANGED <<run, begun, contested>>
              \/ \E r \in Runs : JoinsRun(t, r)
<1> USE DEF IInv, Goto
<1>1. begun \in Nat
    BY DEF TypeOK
<1>2. CASE BeginUpgrade(t)
  <2>1. CASE journal \in Runs
    <3>1. /\ begun' = begun /\ run' = [run EXCEPT ![t] = journal]
          /\ contested' = contested \cup ({journal} \cap Launching)
          /\ pc' = [pc EXCEPT ![t] = "tick"]
        BY <1>2, <2>1 DEF BeginUpgrade
    <3>2. pc' # [pc EXCEPT ![t] = "journal"]
        BY <3>1 DEF TypeOK
    <3>3. JoinsRun(t, journal)
        BY <1>1, <2>1, <3>1, <3>2 DEF JoinsRun, RunsBegun
    <3> QED
        BY <1>2, <2>1, <3>3 DEF BeginUpgrade, TypeOK
  <2>2. CASE journal \notin Runs
    BY <1>2, <2>2 DEF BeginUpgrade, TypeOK
  <2> QED
    BY <2>1, <2>2
<1>3. CASE WriteScript(t)
  <2>1. PICK r \in {begun + 1} \cup Launching :
            /\ r \in Runs
            /\ begun' = IF r > begun THEN r ELSE begun
            /\ run' = [run EXCEPT ![t] = r]
            /\ contested' = contested \cup ({r} \cap Launching)
      BY <1>3 DEF WriteScript
  <2>2. begun' \in Nat /\ begun <= begun' /\ r <= begun'
      BY <1>1, <2>1 DEF Runs
  <2>3. pc' = [pc EXCEPT ![t] = "journal"]
      BY <1>3 DEF WriteScript
  <2>4. JoinsRun(t, r)
      BY <2>1, <2>2, <2>3 DEF JoinsRun
  <2> QED
      BY <1>3, <2>1, <2>4 DEF WriteScript
<1> QED
    BY <1>2, <1>3 DEF Joins

(* A task works on a run that was begun.                                    *)
LEMMA TaskRunsBegun ==
    ASSUME IInv, NEW t \in Tasks, TaskStep(t)
    PROVE  RunsBegun'
<1>1. up /\ up' = up
    BY DEF TaskStep, Start, Watch, process, BeginUpgrade, WriteScript, StartRefused,
       TruncateJournal, WriteJournal, Launch, LaunchRefused, LaunchFails, Tick, TickPanics,
       FlushJournal, CheckResult, QueryUnit, CleanFiles, ClearJournal, QueryFails
<1>2. /\ \A u \in Tasks : run'[u] <= begun'
      /\ \A u \in Tasks : pc'[u] \in Preparing \cup Watching => run'[u] \in Runs
      /\ begun <= begun' /\ begun \in Nat /\ begun' \in Nat
  <2>1. begun \in Nat /\ \A u \in Tasks : run[u] \in Nat
      BY DEF IInv, TypeOK, Runs, NoRun
  <2>2. CASE Joins(t)
    <3>1. CASE pc' = [pc EXCEPT ![t] = "script"] /\ UNCHANGED <<run, begun, contested>>
        BY <2>1, <3>1 DEF IInv, RunsBegun, TypeOK, Preparing, Watching
    <3>2. CASE \E r \in Runs : JoinsRun(t, r)
        BY <2>1, <3>2 DEF JoinsRun, IInv, RunsBegun, TypeOK, Runs
    <3> QED
        BY <2>2, <3>1, <3>2, TaskJoins
  <2>3. CASE ~Joins(t)
    <3>1. /\ run' = run /\ begun' = begun
          /\ \A u \in Tasks \ {t} : pc'[u] = pc[u]
          /\ pc'[t] \in Preparing \cup Watching => pc[t] \in Preparing \cup Watching
        BY <2>3, TaskMoves
    <3> QED
        BY <2>1, <3>1 DEF IInv, RunsBegun
  <2> QED
      BY <2>2, <2>3
<1>3. journal' \in Runs => journal' <= begun'
  <2>1. journal' = journal \/ journal' \notin Runs \/ (journal' = run[t] /\ begun' = begun)
      BY ConstantsAssumption
      DEF TaskStep, Start, Watch, history, Runs, NoRun, Torn, BeginUpgrade, WriteScript,
       StartRefused, TruncateJournal, WriteJournal, Launch, LaunchRefused, LaunchFails,
       Tick, TickPanics, FlushJournal, CheckResult, QueryUnit, CleanFiles, ClearJournal, QueryFails
  <2>2. \A u \in Tasks : run[u] \in Nat
      BY DEF IInv, TypeOK, Runs, NoRun
  <2> QED
      BY <1>2, <2>1, <2>2 DEF IInv, RunsBegun, Runs
<1>4. \A p \in reports' : p.run <= begun'
  <2>1. \A p \in reports' : p \in reports \/ p.run = run[t]
      BY TaskReportsOnly
  <2>2. \A p \in reports : p.run \in Nat /\ p.run <= begun
      BY DEF IInv, RunsBegun, TypeOK, Runs, NoRun
  <2>3. run[t] \in Nat /\ run[t] <= begun
      BY DEF IInv, RunsBegun, TypeOK, Runs, NoRun
  <2> QED
      BY <1>2, <2>1, <2>2, <2>3
<1> QED
    BY <1>1, <1>2, <1>3, <1>4 DEF RunsBegun

(* Two tasks that prepare and watch one run have contested it.              *)
LEMMA TaskAlone ==
    ASSUME IInv, NEW t \in Tasks, TaskStep(t)
    PROVE  PreparedAlone'
<1> SUFFICES ASSUME NEW a \in Tasks, NEW b \in Tasks, a # b, run'[a] = run'[b],
                    pc'[b] \in Preparing, pc'[a] \in Preparing \cup Watching
             PROVE  run'[a] \in contested'
    BY DEF PreparedAlone
<1>1. CASE ~Joins(t)
  <2>1. /\ run' = run /\ contested' = contested
        /\ pc[b] \in Preparing /\ pc[a] \in Preparing \cup Watching
      BY <1>1, TaskMoves
  <2> QED
      BY <2>1 DEF IInv, PreparedAlone
<1>2. CASE /\ Joins(t) /\ run' = run /\ contested' = contested
           /\ pc' = [pc EXCEPT ![t] = "script"]
  <2>1. pc[b] \in Preparing /\ pc[a] \in Preparing \cup Watching
      BY <1>2 DEF IInv, TypeOK, Preparing, Watching
  <2> QED
      BY <1>2, <2>1 DEF IInv, PreparedAlone
<1>3. ASSUME NEW r \in Runs, JoinsRun(t, r) PROVE run'[a] \in contested'
  <2> USE DEF IInv, TypeOK
  <2>1. /\ run' = [run EXCEPT ![t] = r]
        /\ contested' = contested \cup ({r} \cap Launching)
      BY <1>3 DEF JoinsRun
  <2>2. \A u \in Tasks \ {t} : pc'[u] = pc[u] /\ run'[u] = run[u]
      BY <1>3, <2>1 DEF JoinsRun
  <2>3. run'[t] = r /\ pc'[t] \in {"tick", "journal"}
      BY <1>3, <2>1 DEF JoinsRun
  <2>4. CASE a # t /\ b # t
      BY <2>1, <2>2, <2>4 DEF PreparedAlone
  <2>5. CASE a = t
    <3>1. pc[b] \in {"journal", "launch"} /\ run[b] = r
        BY <2>2, <2>3, <2>5 DEF Preparing
    <3> QED
        BY <2>1, <2>3, <2>5, <3>1 DEF Launching
  <2>6. CASE b = t
    <3>1. pc' = [pc EXCEPT ![t] = "journal"]
        BY <1>3, <2>6 DEF JoinsRun, Preparing
    <3>2. r = begun + 1 \/ r \in Launching
        BY <1>3, <3>1 DEF JoinsRun
    <3>3. run[a] = r
        BY <2>2, <2>3, <2>6
    <3>4. r # begun + 1
        BY <3>3 DEF RunsBegun, Runs, NoRun
    <3> QED
        BY <2>1, <2>3, <2>6, <3>2, <3>4
  <2> QED
      BY <2>4, <2>5, <2>6
<1> QED
    BY <1>1, <1>2, <1>3, TaskJoins

(* A task that starts a unit is the only one that has anything to say of it. *)
LEMMA LaunchAlone ==
    ASSUME IInv, NEW t \in Tasks, Launch(t)
    PROVE  /\ run[t] \in Runs
           /\ \A r \in Runs \ {run[t]} : unit'[r] = unit[r]
           /\ \A u \in Tasks : pc[u] \in {"clean", "clear"} /\ run[u] = run[t] =>
                  run[u] \in contested
           /\ \A p \in reports : p.verdict \in Final /\ p.run = run[t] => p.run \in contested
<1>1. pc[t] \in Preparing /\ pc[t] = "launch"
    BY DEF Launch, Preparing
<1>2. run[t] \in Runs
    BY <1>1 DEF IInv, RunsBegun
<1>3. \A r \in Runs \ {run[t]} : unit'[r] = unit[r]
    BY DEF Launch, IInv, TypeOK
<1>4. \A u \in Tasks : pc[u] \in {"clean", "clear"} /\ run[u] = run[t] =>
          run[u] \in contested
    BY <1>1 DEF IInv, PreparedAlone, Watching
<1>5. \A p \in reports : p.verdict \in Final /\ p.run = run[t] => p.run \in contested
    BY <1>1 DEF IInv, ReportedOver
<1> QED
    BY <1>2, <1>3, <1>4, <1>5

(* A verdict is true when it is reached and stays so.                       *)
LEMMA TaskHolds ==
    ASSUME IInv, NEW t \in Tasks, TaskStep(t)
    PROVE  VerdictsHeld'
<1> SUFFICES ASSUME NEW u \in Tasks, pc'[u] \in {"clean", "clear"}
             PROVE  /\ verdict'[u] \in Final
                    /\ verdict'[u] = "success" => outcome'[run'[u]] = "success"
                    /\ run'[u] \notin contested' => unit'[run'[u]] \notin {"queued", "apt"}
    BY DEF VerdictsHeld
<1>1. outcome' = outcome /\ (unit' = unit \/ Launch(t))
    BY TaskShows
<1>2. CASE Joins(t)
  <2>1. unit' = unit /\ verdict' = verdict
      BY <1>2, TaskJoins DEF dpkg
  <2>2. u # t /\ run'[u] = run[u] /\ pc'[u] = pc[u] /\ contested \subseteq contested'
      BY <1>2, TaskJoins DEF JoinsRun, IInv, TypeOK
  <2> QED
      BY <1>1, <2>1, <2>2 DEF IInv, VerdictsHeld
<1>3. CASE ~Joins(t) /\ pc[u] \in {"clean", "clear"} /\ verdict'[u] = verdict[u]
  <2>1. run' = run /\ contested' = contested
      BY <1>3, TaskMoves
  <2>2. run[u] \in Runs
      BY <1>3 DEF IInv, RunsBegun, Watching
  <2>3. run[u] \notin contested => unit'[run[u]] = unit[run[u]]
      BY <1>1, <1>3, <2>2, LaunchAlone
  <2> QED
      BY <1>1, <1>3, <2>1, <2>3 DEF IInv, VerdictsHeld
<1>4. CASE u = t /\ CheckResult(t)
  <2>1. /\ run' = run /\ unit' = unit /\ verdict'[t] = VerdictOf(result[run[t]])
        /\ result[run[t]] # "absent" /\ pc[t] = "check"
      BY <1>4 DEF CheckResult, dpkg, Goto, IInv, TypeOK
  <2>2. run[t] \in Runs
      BY <2>1 DEF IInv, RunsBegun, Watching
  <2>3. unit[run[t]] \notin {"queued", "apt"} /\
        (result[run[t]] = "success" => outcome[run[t]] = "success")
      BY <2>1, <2>2 DEF IInv, UnitShown
  <2> QED
      BY <1>1, <1>4, <2>1, <2>3 DEF VerdictOf, Final
<1>5. CASE u = t /\ QueryUnit(t)
  <2>1. /\ run' = run /\ unit' = unit /\ verdict'[t] = "lost" /\ Gone(run[t])
      BY <1>5 DEF QueryUnit, dpkg, Goto, IInv, TypeOK
  <2>2. unit[run[t]] \notin {"queued", "apt"}
      BY <2>1 DEF Gone, NotFound, Failed
  <2> QED
      BY <1>5, <2>1, <2>2 DEF Final
<1> QED
    BY <1>2, <1>3, <1>4, <1>5, TaskMoves

(* What a task reports is the verdict it held.                              *)
LEMMA TaskReports ==
    ASSUME IInv, NEW t \in Tasks, TaskStep(t)
    PROVE  (ReportedOver /\ SuccessIsReal /\ ReportsAfterDpkg)'
<1>1. outcome' = outcome /\ (unit' = unit \/ Launch(t))
    BY TaskShows
<1>2. contested \subseteq contested'
    BY TaskJoins, TaskMoves DEF JoinsRun
<1>3. ASSUME NEW p \in reports', p.verdict \in Final
      PROVE  /\ p.run \in Runs
             /\ p.verdict = "success" => outcome[p.run] = "success"
             /\ p.run \notin contested =>
                    /\ unit'[p.run] \notin {"queued", "apt"}
                    /\ \A u \in Tasks : pc[u] \in Preparing => run[u] # p.run
  <2>1. CASE p \in reports
    <3>1. p.run \in Runs /\ (p.verdict = "success" => outcome[p.run] = "success")
        BY <1>3, <2>1 DEF IInv, ReportedOver, SuccessIsReal
    <3>2. p.run \notin contested => unit'[p.run] = unit[p.run]
        BY <1>1, <1>3, <2>1, <3>1, LaunchAlone
    <3> QED
        BY <1>3, <2>1, <3>1, <3>2 DEF IInv, ReportedOver, ReportsAfterDpkg, Final
  <2>2. CASE p.run = run[t] /\ p.verdict = verdict[t] /\ ClearJournal(t)
    <3>1. pc[t] = "clear" /\ unit' = unit
        BY <2>2 DEF ClearJournal, dpkg
    <3>2. run[t] \in Runs
        BY <3>1 DEF IInv, RunsBegun, Watching
    <3>3. run[t] \notin contested =>
              \A u \in Tasks : pc[u] \in Preparing => run[u] # run[t]
        BY <3>1 DEF IInv, PreparedAlone, Watching, Preparing
    <3> QED
        BY <2>2, <3>1, <3>2, <3>3 DEF IInv, VerdictsHeld
  <2> QED
      BY <1>3, <2>1, <2>2, TaskReportsOnly DEF Final
<1>4. ASSUME NEW p \in reports', p.verdict \in Final, p.run \notin contested',
             NEW u \in Tasks, pc'[u] \in Preparing
      PROVE  run'[u] # p.run
  <2>1. /\ p.run \notin contested /\ p.run \in Runs
        /\ \A a \in Tasks : pc[a] \in Preparing => run[a] # p.run
      BY <1>2, <1>3, <1>4
  <2>2. CASE ~Joins(t)
      BY <1>4, <2>1, <2>2, TaskMoves
  <2>3. CASE Joins(t) /\ run' = run /\ pc' = [pc EXCEPT ![t] = "script"]
      BY <1>4, <2>1, <2>3 DEF Preparing, IInv, TypeOK
  <2>4. ASSUME Joins(t), NEW r \in Runs, JoinsRun(t, r) PROVE run'[u] # p.run
    <3>1. CASE u # t
        BY <1>4, <2>1, <2>4, <3>1 DEF JoinsRun, IInv, TypeOK
    <3>2. CASE u = t
      <4>1. run'[u] = r /\ (r = begun + 1 \/ r \in Launching)
          BY <1>4, <2>4, <3>2 DEF JoinsRun, IInv, TypeOK, Preparing
      <4>2. r \in Launching => r # p.run
          BY <2>1 DEF Launching, Preparing
      <4>3. p \in reports
          BY <2>4, TaskJoins
      <4>4. p.run <= begun
          BY <4>3 DEF IInv, RunsBegun
      <4>5. p.run # begun + 1
          BY <2>1, <4>4 DEF Runs, IInv, TypeOK
      <4> QED
          BY <4>1, <4>2, <4>5
    <3> QED
        BY <3>1, <3>2
  <2> QED
      BY <2>2, <2>3, <2>4, TaskJoins
<1>5. ReportedOver'
    BY <1>3, <1>4 DEF ReportedOver
<1>6. SuccessIsReal' /\ ReportsAfterDpkg'
    BY <1>1, <1>2, <1>3 DEF SuccessIsReal, ReportsAfterDpkg, Final
<1> QED
    BY <1>5, <1>6

(* A task keeps the invariant.                                              *)
LEMMA TaskKeeps ==
    ASSUME IInv, NEW t \in Tasks, TaskStep(t)
    PROVE  IInv'
BY TaskTypes, TaskShows, TaskRunsBegun, TaskAlone, TaskHolds, TaskReports DEF IInv

-----------------------------------------------------------------------------
(* The agent's process.  A crash ends every task that has begun, so that    *)
(* the one that resumes finds nobody preparing a run.                       *)

(* The tasks a crash ends hold nothing that the invariant speaks of.        *)
LEMMA CrashStep ==
    ASSUME IInv, Crash
    PROVE  IInv'
<1>1. /\ \A t \in Tasks : pc'[t] \in {"new", "done"}
      /\ up' = FALSE /\ restarts' = restarts + 1
      /\ UNCHANGED <<journal, files, dpkg, run, verdict, history>>
    BY DEF Crash
<1>2. TypeOK'
  <2>1. pc' \in [Tasks -> Steps]
      BY DEF Crash, Steps
  <2>2. restarts' \in 0 .. MaxRestarts
      BY ConstantsAssumption DEF Crash, IInv, TypeOK
  <2> QED
      BY <1>1, <2>1, <2>2 DEF IInv, TypeOK, files, dpkg, history
<1>3. UnitShown' /\ SuccessIsReal' /\ ReportsAfterDpkg'
    BY <1>1 DEF IInv, UnitShown, SuccessIsReal, ReportsAfterDpkg, files, dpkg, history
<1>4. RunsBegun'
    BY <1>1 DEF IInv, RunsBegun, Preparing, Watching, history
<1>5. PreparedAlone' /\ VerdictsHeld'
    BY <1>1 DEF PreparedAlone, VerdictsHeld, Preparing
<1>6. ReportedOver'
    BY <1>1 DEF IInv, ReportedOver, Preparing, history
<1> QED
    BY <1>2, <1>3, <1>4, <1>5, <1>6 DEF IInv

(* The task that resumes finds nobody preparing its run.                    *)
LEMMA RestartStep ==
    ASSUME IInv, Restart
    PROVE  IInv'
<1>1. /\ up' = TRUE /\ UNCHANGED <<restarts, journal, files, dpkg, verdict, history>>
      /\ \A t \in Tasks : pc[t] \in {"new", "done"}
    BY DEF Restart, IInv, RunsBegun
<1>2. "resume" \in Tasks
    BY DEF Tasks
<1>3. \/ pc' = pc /\ run' = run
      \/ /\ journal \in Runs /\ pc' = [pc EXCEPT !["resume"] = "tick"]
         /\ run' = [run EXCEPT !["resume"] = journal]
    BY DEF Restart, Goto
<1>4. TypeOK'
    BY <1>1, <1>3 DEF IInv, TypeOK, Steps, Watching, files, dpkg, history
<1>5. UnitShown' /\ SuccessIsReal' /\ ReportsAfterDpkg'
    BY <1>1 DEF IInv, UnitShown, SuccessIsReal, ReportsAfterDpkg, files, dpkg, history
<1>6. \A t \in Tasks :
         /\ pc'[t] \notin Preparing \cup {"clean", "clear"}
         /\ pc'[t] \in Watching => t = "resume" /\ journal \in Runs /\ run'[t] = journal
    BY <1>1, <1>2, <1>3 DEF Preparing, Watching, IInv, TypeOK
<1>7. RunsBegun'
  <2>1. \A t \in Tasks : run'[t] <= begun
      BY <1>2, <1>3 DEF IInv, RunsBegun, TypeOK
  <2> QED
      BY <1>1, <1>6, <2>1 DEF IInv, RunsBegun, history
<1>8. PreparedAlone' /\ VerdictsHeld'
    BY <1>6 DEF PreparedAlone, VerdictsHeld
<1>9. ReportedOver'
    BY <1>1, <1>6 DEF IInv, ReportedOver, history
<1> QED
    BY <1>4, <1>5, <1>7, <1>8, <1>9 DEF IInv

(* A step that changes nothing keeps the invariant.                         *)
LEMMA StutterStep ==
    ASSUME IInv, UNCHANGED vars
    PROVE  IInv'
BY DEF vars, process, files, dpkg, tasks, history, IInv, TypeOK, UnitShown, RunsBegun,
       PreparedAlone, VerdictsHeld, ReportedOver, SuccessIsReal, ReportsAfterDpkg

(* Every step keeps the invariant.                                          *)
LEMMA NextStep == IInv /\ [Next]_vars => IInv'
<1> SUFFICES ASSUME IInv, [Next]_vars PROVE IInv'
    OBVIOUS
<1>1. CASE \E r \in Runs : Unit(r)
    BY <1>1, UnitStep
<1>2. CASE \E t \in Tasks : Start(t) \/ Watch(t) \/ QueryFails(t)
    BY <1>2, TaskKeeps DEF TaskStep
<1>3. CASE Crash
    BY <1>3, CrashStep
<1>4. CASE Restart
    BY <1>4, RestartStep
<1>5. CASE UNCHANGED vars
    BY <1>5, StutterStep
<1> QED
    BY <1>1, <1>2, <1>3, <1>4, <1>5 DEF Next

-----------------------------------------------------------------------------
(* The theorems.                                                            *)

(* apt.rs: the invariant holds of every behaviour.                          *)
THEOREM AptInvariance == Spec => []IInv
<1>1. Init => IInv
    BY InitIInv
<1>2. IInv /\ [Next]_vars => IInv'
    BY NextStep
<1> QED
    BY <1>1, <1>2, PTL DEF Spec

(* The state keeps its types.                                               *)
THEOREM Types == Spec => []TypeOK
<1>1. IInv => TypeOK
    BY DEF IInv
<1> QED
    BY <1>1, AptInvariance, PTL

(* A success that upgrade or resume_pending_upgrade reports happened, and   *)
(* no verdict on an uncontested run comes before dpkg has ended, whatever   *)
(* the number of requests, watchers, runs and restarts.                     *)
THEOREM TrueVerdicts == Spec => []VerdictsAreReal
<1>1. IInv => VerdictsAreReal
    BY DEF IInv, VerdictsAreReal
<1> QED
    BY <1>1, AptInvariance, PTL
=============================================================================
