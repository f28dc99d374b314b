-------------------------- MODULE RunManagerProofs --------------------------
(***************************************************************************)
(* Theorems about RunManager for any set of runs and any length of the data*)
(* set, however the requests and the workers interleave.                   *)
(***************************************************************************)
EXTENDS RunManager, TLAPS

(* Where a run is in its life, and so what its status can be.              *)
StatusFitsStep(r) ==
  /\ pc[r] = "absent" <=> status[r] = "none"
  /\ pc[r] \in {"prepare", "replay", "closed", "count", "returned", "halted", "finished"}
       => status[r] = "RUNNING"
  /\ pc[r] = "save" => status[r] \in {"COMPLETED", "STOPPED"}
  /\ pc[r] = "done" => status[r] \in Final

(* A bar is counted only after the row that closed it was read.            *)
BarsFitRows(r) ==
  /\ bars[r] <= read[r]
  /\ pc[r] \in {"closed", "count"} => bars[r] < read[r]

(* No bar but the one already past the test is counted after a stop.       *)
CountFitsStop(r) ==
  /\ ~flag[r] => atStop[r] = Bars
  /\ bars[r] <= IF pc[r] = "count" THEN atStop[r] ELSE atStop[r] + 1

(* Why a run that was stopped too late can still be COMPLETED.             *)
Exhausted(r) == read[r] = Bars \/ session[r] = "FAILED"

VerdictFits(r) ==
  /\ pc[r] = "returned" => flag[r] \/ Exhausted(r)
  /\ pc[r] = "finished" => Exhausted(r)
  /\ pc[r] = "halted" => flag[r]
  /\ status[r] = "COMPLETED" => Exhausted(r)
  /\ status[r] = "STOPPED" => flag[r]
  /\ dossier[r] \in Final => pc[r] = "done" /\ dossier[r] = status[r]

RunInv(r) == StatusFitsStep(r) /\ BarsFitRows(r) /\ CountFitsStop(r) /\ VerdictFits(r)

IInv == TypeOK /\ \A r \in Runs : RunInv(r)

LEMMA InitEstablishes == Init => IInv
<1>1. Bars \in Nat \ {0}
  BY RunAssumption
<1> QED
  BY <1>1, SMT DEF Init, IInv, TypeOK, RunInv, StatusFitsStep, BarsFitRows, CountFitsStop,
     VerdictFits, Exhausted, Final

LEMMA StartSimulationPreserves ==
  ASSUME IInv, NEW r \in Runs, StartSimulation(r)
  PROVE  IInv'
<1>1. TypeOK'
  BY SMT DEF StartSimulation, Goto, IInv, TypeOK
<1>2. ASSUME NEW q \in Runs
      PROVE  RunInv(q)'
  <2>1. CASE q = r
    BY <2>1, SMT DEF StartSimulation, Goto, IInv, TypeOK, RunInv, StatusFitsStep,
       BarsFitRows, CountFitsStop, VerdictFits
  <2>2. CASE q # r
    BY <2>2, SMT DEF StartSimulation, Goto, IInv, RunInv, StatusFitsStep, BarsFitRows,
       CountFitsStop, VerdictFits, Exhausted
  <2> QED BY <2>1, <2>2
<1> QED BY <1>1, <1>2 DEF IInv

LEMMA StopSimulationPreserves ==
  ASSUME IInv, NEW r \in Runs, StopSimulation(r)
  PROVE  IInv'
<1>1. TypeOK'
  BY SMT DEF StopSimulation, IInv, TypeOK
<1>2. ASSUME NEW q \in Runs
      PROVE  RunInv(q)'
  <2>1. CASE q = r
    BY <2>1, SMT DEF StopSimulation, IInv, TypeOK, RunInv, StatusFitsStep, BarsFitRows,
       CountFitsStop, VerdictFits, Exhausted
  <2>2. CASE q # r
    BY <2>2, SMT DEF StopSimulation, IInv, RunInv, StatusFitsStep, BarsFitRows,
       CountFitsStop, VerdictFits, Exhausted
  <2> QED BY <2>1, <2>2
<1> QED BY <1>1, <1>2 DEF IInv

LEMMA PreparePreserves ==
  ASSUME IInv, NEW r \in Runs, Prepare(r)
  PROVE  IInv'
<1>1. TypeOK'
  BY SMT DEF Prepare, Goto, Raise, AfterError, IInv, TypeOK, Final
<1>2. ASSUME NEW q \in Runs
      PROVE  RunInv(q)'
  <2>1. CASE q = r
    BY <2>1, SMT DEF Prepare, Goto, Raise, AfterError, IInv, TypeOK, RunInv, StatusFitsStep,
       BarsFitRows, CountFitsStop, VerdictFits, Final
  <2>2. CASE q # r
    BY <2>2, SMT DEF Prepare, Goto, Raise, IInv, TypeOK, RunInv, StatusFitsStep,
       BarsFitRows, CountFitsStop, VerdictFits, Exhausted
  <2> QED BY <2>1, <2>2
<1> QED BY <1>1, <1>2 DEF IInv

LEMMA NextRowPreserves ==
  ASSUME IInv, NEW r \in Runs, NextRow(r)
  PROVE  IInv'
<1>1. Bars \in Nat \ {0}
  BY RunAssumption
<1>2. TypeOK'
  BY <1>1, SMT DEF NextRow, Goto, IInv, TypeOK
<1>3. ASSUME NEW q \in Runs
      PROVE  RunInv(q)'
  <2>1. CASE q = r
    BY <2>1, SMT DEF NextRow, Goto, IInv, TypeOK, RunInv, StatusFitsStep, BarsFitRows,
       CountFitsStop, VerdictFits
  <2>2. CASE q # r
    BY <2>2, SMT DEF NextRow, Goto, IInv, RunInv, StatusFitsStep, BarsFitRows,
       CountFitsStop, VerdictFits, Exhausted
  <2> QED BY <2>1, <2>2
<1> QED BY <1>2, <1>3 DEF IInv

LEMMA OnBarClosedPreserves ==
  ASSUME IInv, NEW r \in Runs, OnBarClosed(r)
  PROVE  IInv'
<1>1. TypeOK'
  BY SMT DEF OnBarClosed, Returns, Goto, IInv, TypeOK
<1>2. ASSUME NEW q \in Runs
      PROVE  RunInv(q)'
  <2>1. CASE q = r
    BY <2>1, SMT DEF OnBarClosed, Halts, Returns, Goto, IInv, TypeOK, RunInv,
       StatusFitsStep, BarsFitRows, CountFitsStop, VerdictFits
  <2>2. CASE q # r
    BY <2>2, SMT DEF OnBarClosed, Returns, Goto, IInv, TypeOK, RunInv, StatusFitsStep,
       BarsFitRows, CountFitsStop, VerdictFits, Exhausted
  <2> QED BY <2>1, <2>2
<1> QED BY <1>1, <1>2 DEF IInv

LEMMA CountBarPreserves ==
  ASSUME IInv, NEW r \in Runs, CountBar(r)
  PROVE  IInv'
<1>1. Bars \in Nat \ {0}
  BY RunAssumption
<1>2. TypeOK'
  BY <1>1, SMT DEF CountBar, Goto, IInv, TypeOK, RunInv, BarsFitRows
<1>3. ASSUME NEW q \in Runs
      PROVE  RunInv(q)'
  <2>1. CASE q = r
    BY <2>1, SMT DEF CountBar, Goto, IInv, TypeOK, RunInv, StatusFitsStep, BarsFitRows,
       CountFitsStop, VerdictFits
  <2>2. CASE q # r
    BY <2>2, SMT DEF CountBar, Goto, IInv, RunInv, StatusFitsStep, BarsFitRows,
       CountFitsStop, VerdictFits, Exhausted
  <2> QED BY <2>1, <2>2
<1> QED BY <1>2, <1>3 DEF IInv

LEMMA EndOfFeedPreserves ==
  ASSUME IInv, NEW r \in Runs, EndOfFeed(r)
  PROVE  IInv'
<1>1. TypeOK'
  BY SMT DEF EndOfFeed, Returns, Goto, IInv, TypeOK
<1>2. ASSUME NEW q \in Runs
      PROVE  RunInv(q)'
  <2>1. CASE q = r
    BY <2>1, SMT DEF EndOfFeed, Returns, Goto, IInv, RunInv, StatusFitsStep, BarsFitRows,
       CountFitsStop, VerdictFits, Exhausted
  <2>2. CASE q # r
    BY <2>2, SMT DEF EndOfFeed, Returns, Goto, IInv, RunInv, StatusFitsStep, BarsFitRows,
       CountFitsStop, VerdictFits, Exhausted
  <2> QED BY <2>1, <2>2
<1> QED BY <1>1, <1>2 DEF IInv

LEMMA ReplayFailsPreserves ==
  ASSUME IInv, NEW r \in Runs, ReplayFails(r)
  PROVE  IInv'
<1>1. TypeOK'
  BY SMT DEF ReplayFails, Returns, Raise, AfterError, Goto, IInv, TypeOK, Final
<1>2. ASSUME NEW q \in Runs
      PROVE  RunInv(q)'
  <2>1. CASE q = r
    BY <2>1, SMT DEF ReplayFails, Returns, Raise, AfterError, Goto, IInv, TypeOK, RunInv,
       StatusFitsStep, BarsFitRows, CountFitsStop, VerdictFits, Exhausted, Final
  <2>2. CASE q # r
    BY <2>2, SMT DEF ReplayFails, Returns, Raise, Goto, IInv, TypeOK, RunInv,
       StatusFitsStep, BarsFitRows, CountFitsStop, VerdictFits, Exhausted
  <2> QED BY <2>1, <2>2
<1> QED BY <1>1, <1>2 DEF IInv

LEMMA JudgePreserves ==
  ASSUME IInv, NEW r \in Runs, Judge(r)
  PROVE  IInv'
<1>1. TypeOK'
  BY SMT DEF Judge, Goto, IInv, TypeOK
<1>2. ASSUME NEW q \in Runs
      PROVE  RunInv(q)'
  <2>1. CASE q = r
    BY <2>1, SMT DEF Judge, Goto, IInv, RunInv, StatusFitsStep, BarsFitRows, CountFitsStop,
       VerdictFits, Exhausted
  <2>2. CASE q # r
    BY <2>2, SMT DEF Judge, Goto, IInv, RunInv, StatusFitsStep, BarsFitRows, CountFitsStop,
       VerdictFits, Exhausted
  <2> QED BY <2>1, <2>2
<1> QED BY <1>1, <1>2 DEF IInv

LEMMA ConcludePreserves ==
  ASSUME IInv, NEW r \in Runs, Conclude(r)
  PROVE  IInv'
<1>1. TypeOK'
  BY SMT DEF Conclude, Verdict, Goto, IInv, TypeOK, Final
<1>2. ASSUME NEW q \in Runs
      PROVE  RunInv(q)'
  <2>1. CASE q = r
    BY <2>1, SMT DEF Conclude, Verdict, Goto, IInv, TypeOK, RunInv, StatusFitsStep,
       BarsFitRows, CountFitsStop, VerdictFits, Exhausted
  <2>2. CASE q # r
    BY <2>2, SMT DEF Conclude, Goto, IInv, RunInv, StatusFitsStep, BarsFitRows,
       CountFitsStop, VerdictFits, Exhausted
  <2> QED BY <2>1, <2>2
<1> QED BY <1>1, <1>2 DEF IInv

LEMMA SavePreserves ==
  ASSUME IInv, NEW r \in Runs, Save(r)
  PROVE  IInv'
<1>1. TypeOK'
  BY SMT DEF Save, Raise, AfterError, Goto, IInv, TypeOK, RunInv, StatusFitsStep, Final
<1>2. ASSUME NEW q \in Runs
      PROVE  RunInv(q)'
  <2>1. CASE q = r
    BY <2>1, SMT DEF Save, Raise, AfterError, Goto, IInv, TypeOK, RunInv, StatusFitsStep,
       BarsFitRows, CountFitsStop, VerdictFits, Exhausted, Final
  <2>2. CASE q # r
    BY <2>2, SMT DEF Save, Raise, Goto, IInv, TypeOK, RunInv, StatusFitsStep, BarsFitRows,
       CountFitsStop, VerdictFits, Exhausted
  <2> QED BY <2>1, <2>2
<1> QED BY <1>1, <1>2 DEF IInv

LEMMA StepPreserves == IInv /\ [Next]_vars => IInv'
<1> SUFFICES ASSUME IInv, [Next]_vars
             PROVE  IInv'
  OBVIOUS
<1>1. CASE UNCHANGED vars
  BY <1>1 DEF vars, IInv, TypeOK, RunInv, StatusFitsStep, BarsFitRows, CountFitsStop,
     VerdictFits, Exhausted
<1>2. CASE Next
  <2>1. PICK r \in Runs : StartSimulation(r) \/ StopSimulation(r) \/ Worker(r)
    BY <1>2 DEF Next
  <2>2. CASE StartSimulation(r)
    BY <2>2, StartSimulationPreserves
  <2>3. CASE StopSimulation(r)
    BY <2>3, StopSimulationPreserves
  <2>4. CASE Worker(r)
    BY <2>4, PreparePreserves, NextRowPreserves, OnBarClosedPreserves, CountBarPreserves,
       EndOfFeedPreserves, ReplayFailsPreserves, JudgePreserves, ConcludePreserves,
       SavePreserves DEF Worker
  <2> QED BY <2>1, <2>2, <2>3, <2>4
<1> QED BY <1>1, <1>2

(* The invariant of every run: its status fits the step of its worker, no  *)
(* bar is counted past a stop, and what makes a verdict what it is.        *)
THEOREM Inductive == Spec => []IInv
<1>1. Init => IInv
  BY InitEstablishes
<1>2. IInv /\ [Next]_vars => IInv'
  BY StepPreserves
<1> QED BY <1>1, <1>2, PTL DEF Spec

(* The state keeps its types; no run counts more bars than its data set.   *)
THEOREM TypeCorrect == Spec => []TypeOK
<1>1. IInv => TypeOK
  BY DEF IInv
<1> QED BY <1>1, Inductive, PTL

(* A stop that was accepted is heeded, by every run and worker.            *)
THEOREM StopIsHeeded == Spec => []StopHeeded
<1>1. IInv => StopHeeded
  <2> SUFFICES ASSUME IInv, NEW r \in Runs
               PROVE  /\ bars[r] <= atStop[r] + 1
                      /\ flag[r] /\ status[r] = "COMPLETED" => Exhausted(r)
                      /\ status[r] = "STOPPED" => flag[r]
                      /\ dossier[r] \in Final => dossier[r] = status[r]
    BY DEF StopHeeded, Exhausted
  <2>1. bars[r] \in Nat /\ atStop[r] \in Nat
    BY RunAssumption DEF IInv, TypeOK
  <2> QED BY <2>1 DEF IInv, RunInv, CountFitsStop, VerdictFits
<1> QED BY <1>1, Inductive, PTL

(* A verdict a poll has seen stands, but for a run without a whole dossier.*)
THEOREM VerdictIsFinal == Spec => VerdictStands
<1> DEFINE Stands ==
      \A r \in Runs : (status[r] \in Final) => status'[r] = status[r]
                                    \/ (status'[r] = "FAILED" /\ dossier'[r] \notin Final)
<1>1. IInv /\ [Next]_vars => Stands
  <2> SUFFICES ASSUME IInv, [Next]_vars, NEW q \in Runs, status[q] \in Final,
                      status'[q] # status[q]
               PROVE  status'[q] = "FAILED" /\ dossier'[q] \notin Final
    OBVIOUS
  <2>1. PICK r \in Runs : StartSimulation(r) \/ StopSimulation(r) \/ Worker(r)
    BY DEF Next, vars
  <2>2. pc[q] \in {"save", "done"} /\ status \in [Runs -> Final \cup {"none", "RUNNING"}]
    BY DEF IInv, TypeOK, RunInv, StatusFitsStep, Final
  <2>3. ~(StartSimulation(r) \/ StopSimulation(r) \/ Prepare(r) \/ NextRow(r)
            \/ OnBarClosed(r) \/ CountBar(r) \/ EndOfFeed(r) \/ Judge(r))
    BY <2>2 DEF StartSimulation, StopSimulation, Prepare, NextRow, OnBarClosed, CountBar,
       EndOfFeed, Judge, Raise, AfterError, Final, IInv, RunInv, StatusFitsStep
  <2>4. ~(ReplayFails(r) \/ Conclude(r))
    BY <2>2 DEF ReplayFails, Conclude, Raise, AfterError, Verdict, Final, IInv, RunInv,
       StatusFitsStep
  <2>5. Save(r)
    BY <2>1, <2>3, <2>4 DEF Worker
  <2>6. /\ q = r /\ status'[q] = "FAILED" /\ pc[q] = "save"
        /\ dossier' = dossier \/ dossier' = [dossier EXCEPT ![r] = "torn"]
    BY <2>2, <2>5 DEF Save, Raise, AfterError
  <2> QED BY <2>6 DEF IInv, TypeOK, RunInv, VerdictFits, Final
<1> QED BY <1>1, Inductive, PTL DEF Spec, VerdictStands
=============================================================================
