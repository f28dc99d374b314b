------------------------------ MODULE RunManager ------------------------------
(***************************************************************************)
(* The background simulations of the web workstation, ActiveRunManager in  *)
(* web/services.py.  A request starts a worker thread per run, which       *)
(* replays a file through a ForwardTestRunner and then judges how it went; *)
(* other requests ask the run to stop and poll its status.  The runner is  *)
(* its contract as ForwardTestRunner has it: over a feed run() turns an    *)
(* error into a session that FAILED, and stop() from its bar callback ends *)
(* the replay.  The worker writes the run's state without the lock, so that*)
(* every read of it by another request may fall between two writes.        *)
(***************************************************************************)
EXTENDS Naturals

CONSTANTS
  Runs,  \* run ids
  Bars   \* rows of the data set; each is a tick and closes the bar before it

ASSUME RunAssumption == Bars \in Nat \ {0}

VARIABLES
  pc,       \* of each run's worker thread
  status,   \* ActiveRunState.status
  flag,     \* _stop_flag
  read,     \* rows the runner has taken from the feed
  bars,     \* bars_processed
  session,  \* how the runner's own session ended
  dossier,  \* the status in the file of the run; "torn", a file cut off half-way
  (* History. *)
  atStop    \* bars_processed when a stop was first accepted; Bars before

vars == <<pc, status, flag, read, bars, session, dossier, atStop>>

Final == {"COMPLETED", "STOPPED", "FAILED"}
Goto(r, step) == pc' = [pc EXCEPT ![r] = step]

Init ==
  /\ pc = [r \in Runs |-> "absent"] /\ status = [r \in Runs |-> "none"]
  /\ flag = [r \in Runs |-> FALSE]
  /\ read = [r \in Runs |-> 0] /\ bars = [r \in Runs |-> 0]
  /\ session = [r \in Runs |-> "none"] /\ dossier = [r \in Runs |-> "none"]
  /\ atStop = [r \in Runs |-> Bars]

(* POST /api/runs/start, once the compatibility gate lets it pass. *)
StartSimulation(r) ==
  /\ pc[r] = "absent"
  /\ status' = [status EXCEPT ![r] = "RUNNING"]
  /\ Goto(r, "prepare")
  /\ UNCHANGED <<flag, read, bars, session, dossier, atStop>>

(* POST /api/runs/active/<id>/stop: True is returned to the caller. *)
(* Mutant: the request writes the status it asks for. *)
MutStopSimulation(r) ==
  /\ status[r] = "RUNNING"
  /\ flag' = [flag EXCEPT ![r] = TRUE]
  /\ status' = [status EXCEPT ![r] = "STOPPED"]
  /\ UNCHANGED <<pc, read, bars, session, dossier, atStop>>

StopSimulation(r) ==
  /\ status[r] = "RUNNING"
  /\ flag' = [flag EXCEPT ![r] = TRUE]
  /\ atStop' = [atStop EXCEPT ![r] = IF flag[r] THEN @ ELSE bars[r]]
  /\ UNCHANGED <<pc, status, read, bars, session, dossier>>

-----------------------------------------------------------------------------
(* _run_worker                                                             *)

(* Mutant: only a run that had been judged is FAILED. *)
MutAfterError(r) == IF status[r] = "RUNNING" THEN "RUNNING" ELSE "FAILED"

AfterError(r) == "FAILED"

(* except Exception: whatever had been decided, the run FAILED. *)
Raise(r) ==
  /\ status' = [status EXCEPT ![r] = AfterError(r)]
  /\ Goto(r, "done")
  /\ UNCHANGED <<flag, read, bars, session, atStop>>

Prepare(r) ==
  /\ pc[r] = "prepare"
  /\ \/ Goto(r, "replay") /\ UNCHANGED <<status, flag, read, bars, session, atStop>>
     \/ Raise(r)
  /\ UNCHANGED dossier

NextRow(r) ==
  /\ pc[r] = "replay" /\ read[r] < Bars
  /\ read' = [read EXCEPT ![r] = @ + 1]
  /\ Goto(r, IF read[r] > 0 THEN "closed" ELSE "replay")
  /\ UNCHANGED <<status, flag, bars, session, dossier, atStop>>

(* The runner concludes its session, and run() returns. *)
Returns(r, verdict) ==
  /\ session' = [session EXCEPT ![r] = verdict]
  /\ Goto(r, "returned")

(* on_bar_closed, which the runner calls inside process_tick. *)
(* Mutant: the flag is looked at after the bar. *)
MutHalts(r) == flag[r] /\ bars[r] > atStop[r] + 1

Halts(r) == flag[r]

OnBarClosed(r) ==
  /\ pc[r] = "closed"
  /\ IF Halts(r) THEN Returns(r, "COMPLETED") ELSE Goto(r, "count") /\ UNCHANGED session
  /\ UNCHANGED <<status, flag, read, bars, dossier, atStop>>

(* The rest of the callback; a stop that comes now misses this bar. *)
CountBar(r) ==
  /\ pc[r] = "count"
  /\ bars' = [bars EXCEPT ![r] = @ + 1]
  /\ Goto(r, "replay")
  /\ UNCHANGED <<status, flag, read, session, dossier, atStop>>

(* The last row's bar is flushed without a callback. *)
EndOfFeed(r) ==
  /\ pc[r] = "replay" /\ read[r] = Bars
  /\ Returns(r, "COMPLETED")
  /\ UNCHANGED <<status, flag, read, bars, dossier, atStop>>

(* A bad row or an error in a bar: the runner fails its session, or its    *)
(* own stop() raises.                                                      *)
ReplayFails(r) ==
  /\ pc[r] \in {"replay", "closed", "count"}
  /\ \/ Returns(r, "FAILED") /\ UNCHANGED <<status, flag, read, bars, atStop>>
     \/ Raise(r)
  /\ UNCHANGED dossier

(* if state._stop_flag; the session's verdict is not looked at. *)
Judge(r) ==
  /\ pc[r] = "returned"
  /\ Goto(r, IF flag[r] THEN "halted" ELSE "finished")
  /\ UNCHANGED <<status, flag, read, bars, session, dossier, atStop>>

Verdict(r) == IF pc[r] = "halted" THEN "STOPPED" ELSE "COMPLETED"

Conclude(r) ==
  /\ pc[r] \in {"halted", "finished"}
  /\ status' = [status EXCEPT ![r] = Verdict(r)]
  /\ Goto(r, "save")
  /\ UNCHANGED <<flag, read, bars, session, dossier, atStop>>

(* _save_session_dossier, after the status has been set; it may raise, and *)
(* half-way through json.dump it leaves a file that cannot be read.        *)
Save(r) ==
  /\ pc[r] = "save"
  /\ \/ /\ dossier' = [dossier EXCEPT ![r] = status[r]]
        /\ Goto(r, "done")
        /\ UNCHANGED <<status, flag, read, bars, session, atStop>>
     \/ /\ Raise(r)
        /\ \/ UNCHANGED dossier
           \/ dossier' = [dossier EXCEPT ![r] = "torn"]

Worker(r) ==
  \/ Prepare(r) \/ NextRow(r) \/ OnBarClosed(r) \/ CountBar(r) \/ EndOfFeed(r)
  \/ ReplayFails(r)  \/ Judge(r) \/ Conclude(r) \/ Save(r)

Next == \E r \in Runs : StartSimulation(r) \/ StopSimulation(r) \/ Worker(r)

(* Each run has a thread of its own, and the file ends. *)
Spec == Init /\ [][Next]_vars /\ \A r \in Runs : WF_vars(Worker(r))
-----------------------------------------------------------------------------
TypeOK ==
  /\ pc \in [Runs -> {"absent", "prepare", "replay", "closed", "count", "returned", "halted",
                      "finished", "save", "done"}]
  /\ status \in [Runs -> Final \cup {"none", "RUNNING"}] /\ flag \in [Runs -> BOOLEAN]
  /\ read \in [Runs -> 0 .. Bars] /\ bars \in [Runs -> 0 .. Bars]
  /\ session \in [Runs -> {"none", "COMPLETED", "FAILED"}]
  /\ dossier \in [Runs -> Final \cup {"none", "torn"}] /\ atStop \in [Runs -> 0 .. Bars]

(* A stop that was accepted is heeded: at most the bar being closed is     *)
(* still counted; and the run that is nevertheless reported COMPLETED had  *)
(* nothing left to replay.  Nobody's run is STOPPED unasked, and its file, *)
(* when it is whole, says what its status says.                            *)
StopHeeded ==
  \A r \in Runs :
    /\ bars[r] <= atStop[r] + 1
    /\ flag[r] /\ status[r] = "COMPLETED" => read[r] = Bars \/ session[r] = "FAILED"
    /\ status[r] = "STOPPED" => flag[r]
    /\ dossier[r] \in Final => dossier[r] = status[r]

(* What a poll was told of a run that is over stays true, but for one that *)
(* turns out to have no whole dossier.                                     *)
VerdictStands ==
  [][\A r \in Runs :
       (status[r] \in Final) => status'[r] = status[r]
                                \/ (status'[r] = "FAILED" /\ dossier'[r] \notin Final)]_vars

(* Every run comes to an end, stopped or not. *)
RunConcludes == \A r \in Runs : (status[r] = "RUNNING") ~> (status[r] \in Final)
=============================================================================
