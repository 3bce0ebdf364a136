------------------------------ MODULE Learning ------------------------------
(***************************************************************************)
(* The learning engine (learning/engine.py) and what it keeps: the memory  *)
(* of closed trades with its failure log on disk, the calibration of the   *)
(* predictions, the versions of the model with their champion, and the      *)
(* proposals.  The drift monitor and the reflections only report.           *)
(*                                                                         *)
(* One engine is shared by all its callers: the autonomous loop, the       *)
(* dashboard cycle, the tools, and the daemon threads of the scheduler.    *)
(* Only the memory has a lock, so their steps interleave: a thread gives   *)
(* way between the calls it makes.  A prediction is right or wrong by the   *)
(* square of its error, in hundredths.                                     *)
(***************************************************************************)
EXTENDS Integers, Sequences, FiniteSets, SequencesExt

CONSTANTS Threads,         \* callers of the engine
          Closings,        \* the trades that are closed: [outcome, failed, named, error]
          MaxTrades,       \* bound: trades in the memory
          MaxTrainings,    \* bound: versions registered
          Window,          \* rolling_window_trades
          MaxBrier,        \* max_acceptable_brier_score, in hundredths
          Interval,        \* interval_trades
          MinSample,       \* min_sample_size
          Kelly,           \* the multipliers, in percent: [base, degraded, least, most]
          Absent

(* classify_trade: a trade that does not win always has a category of       *)
(* failure, one that wins may have one; an error is Absent where the trade  *)
(* was not predicted.  A trade that a tool closes need not have a trade_id, *)
(* and then it is written to the log but not read back: it is not named.    *)
ASSUME ClosingsAssumption ==
  Closings \subseteq {c \in [outcome : {"WIN", "LOSS", "BREAKEVEN"}, failed : BOOLEAN,
                             named : BOOLEAN, error : 0..100 \cup {Absent}] :
                       c.outcome # "WIN" => c.failed}

ASSUME AbsentAssumption == Absent \notin {"ACCEPTED", "REJECTED"}

Pending  == {"PROPOSED", "VALIDATION"}
Statuses == Pending \cup {"ACCEPTED", "REJECTED", "ROLLED_BACK"}

VARIABLES records,     \* memory.records: the trades of this and, where they failed, of
                       \* former lives of the process
          log,         \* the failure log on disk: its items
          torn,        \* whether it was cut off and cannot be parsed; then log is empty
          history,     \* calibration.history: the errors in the window
          kelly,       \* kelly_multiplier
          stale,       \* history: a calibration that had changed since set the multiplier
          processed,   \* trades_processed
          lastTrained, \* retraining.last_trained_at_count
          versions,    \* registry.versions: [brier, champion, decision]
          proposal,    \* the status of one of the proposals, whichever, or Absent
          pc, local,   \* where each thread is, and what it holds
          overlapped   \* history: two threads changed the versions at once

memory   == <<records, log, torn>>
quality  == <<history, kelly, stale>>
training == <<processed, lastTrained>>
registry == <<versions, overlapped>>
vars     == <<memory, quality, training, registry, proposal, pc, local>>

Nothing == [outcome |-> Absent, error |-> Absent, degraded |-> FALSE,
            challenger |-> 0, champion |-> 0]

Init ==
  /\ records = <<>> /\ log = <<>> /\ torn = FALSE
  /\ history = <<>> /\ kelly = Kelly.base /\ stale = FALSE
  /\ processed = 0 /\ lastTrained = 0
  /\ versions = <<>> /\ overlapped = FALSE
  /\ proposal = Absent
  /\ pc = [t \in Threads |-> "idle"]
  /\ local = [t \in Threads |-> Nothing]

At(t, from, to) == pc[t] = from /\ pc' = [pc EXCEPT ![t] = to]
Hold(t, field, value) == local' = [local EXCEPT ![t][field] = value]

-----------------------------------------------------------------------------
(* Memory *)

\* The items of a list that have a flag, in their order: sifted[i] are those of
\* the first i.
Sifted(list, flag) ==
  LET sifted[i \in 0..Len(list)] ==
        IF i = 0 THEN <<>>
        ELSE IF list[i][flag] THEN Append(sifted[i - 1], list[i]) ELSE sifted[i - 1]
  IN  sifted[Len(list)]

\* Mutant: only the newest trade is exported.
Failing_Newest(kept) == IF kept = <<>> THEN <<>> ELSE Sifted(<<Last(kept)>>, "failed")

\* What _export_compat writes.
Failing(kept) == Sifted(kept, "failed")

(* run_post_mortem names the outcome; LearningMemory.add then appends the   *)
(* trade and rewrites the whole log, under the lock of the memory.  An      *)
(* export that fails is swallowed.  It leaves the file if it could not open *)
(* it, and else what it had written: write_text truncates the file first.   *)
CloseTrade(t) ==
  /\ At(t, "idle", "calibrate")
  /\ Len(records) < MaxTrades
  /\ \E c \in Closings :
       /\ records' = Append(records, [outcome |-> c.outcome, failed |-> c.failed,
                                      named |-> c.named])
       /\ local' = [local EXCEPT ![t] = [Nothing EXCEPT !.outcome = c.outcome, !.error = c.error]]
  /\ \/ log' = Failing(records') /\ torn' = FALSE
     \/ UNCHANGED <<log, torn>>
     \/ log' = <<>> /\ torn' = TRUE
  /\ UNCHANGED <<quality, training, registry, proposal>>

(* A process that starts reads the log, without the items that have no      *)
(* trade_id; all else of a former life is lost.                             *)
Loaded(list) == Sifted(list, "named")

Start ==
  /\ records' = Loaded(log')
  /\ history' = <<>> /\ kelly' = Kelly.base /\ stale' = FALSE
  /\ processed' = 0 /\ lastTrained' = 0
  /\ versions' = <<>> /\ overlapped' = FALSE
  /\ proposal' = Absent
  /\ pc' = [t \in Threads |-> "idle"]
  /\ local' = [t \in Threads |-> Nothing]

Restart == UNCHANGED <<log, torn>> /\ Start

(* The process dies while it writes the log.                                *)
DieInExport ==
  /\ \E t \in Threads : pc[t] = "idle"
  /\ log' = <<>> /\ torn' = TRUE
  /\ Start

-----------------------------------------------------------------------------
(* Calibration and Kelly *)

Total(errors) == FoldLeft(LAMBDA a, b : a + b, 0, errors)

\* rolling_brier(history), which is Absent without history, is above
\* max_acceptable_brier_score.
Degraded(errors) == errors # <<>> /\ Total(errors) > MaxBrier * Len(errors)

(* CalibrationTracker.update: the prediction is appended, the window is cut *)
(* to its length, and what is then in it is judged.                         *)
NotePrediction(t) ==
  /\ pc[t] = "calibrate"
  /\ IF local[t].error = Absent
     THEN history' = history /\ pc' = [pc EXCEPT ![t] = "count"]
     ELSE history' = Append(history, local[t].error) /\ pc' = [pc EXCEPT ![t] = "trim"]
  /\ Hold(t, "error", Absent)
  /\ UNCHANGED <<memory, kelly, stale, training, registry, proposal>>

TrimWindow(t) ==
  /\ At(t, "trim", "judge")
  /\ history' = IF Len(history) > Window
                THEN SubSeq(history, Len(history) - Window + 1, Len(history))
                ELSE history
  /\ UNCHANGED <<memory, kelly, stale, training, registry, proposal, local>>

\* Mutant: the window before this trade decides.
JudgeCalibration_Before(t) ==
  /\ At(t, "judge", IF Degraded(SubSeq(history, 1, Len(history) - 1)) THEN "adapt" ELSE "count")
  /\ UNCHANGED <<memory, quality, training, registry, proposal, local>>

JudgeCalibration(t) ==
  /\ At(t, "judge", IF Degraded(history) THEN "adapt" ELSE "count")
  /\ UNCHANGED <<memory, quality, training, registry, proposal, local>>

(* bounded_kelly_multiplier: kept between the bounds of the configuration.  *)
KellyMultiplier(degraded) ==
  LET fraction == IF degraded THEN Kelly.degraded ELSE Kelly.base
      raised   == IF fraction < Kelly.least THEN Kelly.least ELSE fraction
  IN  IF raised > Kelly.most THEN Kelly.most ELSE raised

(* A cycle of the dashboard calls kelly_adapt before it closes its trade.   *)
AskKelly(t) ==
  /\ At(t, "idle", "adapt")
  /\ local' = [local EXCEPT ![t] = Nothing]
  /\ UNCHANGED <<memory, quality, training, registry, proposal>>

(* kelly_adapt asks the calibration again: another thread may have closed a *)
(* trade since.  And one may before it sets the multiplier by the answer.   *)
ReadCalibration(t) ==
  /\ At(t, "adapt", "set")
  /\ Hold(t, "degraded", Degraded(history))
  /\ UNCHANGED <<memory, quality, training, registry, proposal>>

AdaptKelly(t) ==
  /\ At(t, "set", IF local[t].outcome = Absent THEN "idle" ELSE "count")
  /\ kelly' = KellyMultiplier(local[t].degraded)
  /\ stale' = (local[t].degraded # Degraded(history))
  /\ Hold(t, "degraded", FALSE)
  /\ UNCHANGED <<memory, history, training, registry, proposal>>

-----------------------------------------------------------------------------
(* Retraining *)

\* A thread is retraining or rolling back.
Retraining == {"train", "pick", "crown", "rollback"}
Overlaps(t) == overlapped \/ \E u \in Threads \ {t} : pc[u] \in Retraining

(* trades_processed, which counts this process's trades, is compared with   *)
(* the length of the memory when the last training ended.                   *)
Count(t) ==
  /\ pc[t] = "count"
  /\ processed' = processed + 1
  /\ LET due == processed' - lastTrained >= Interval
     IN  /\ overlapped' = IF due THEN Overlaps(t) ELSE overlapped
         /\ pc' = [pc EXCEPT ![t] = IF due THEN "train" ELSE "propose"]
  /\ UNCHANGED <<memory, quality, lastTrained, versions, proposal, local>>

(* The tool run_retraining starts a training of its own.                    *)
RunRetraining(t) ==
  /\ At(t, "idle", "train")
  /\ overlapped' = Overlaps(t)
  /\ local' = [local EXCEPT ![t] = Nothing]
  /\ UNCHANGED <<memory, quality, training, versions, proposal>>

Usable == Len(SelectSeq(records, LAMBDA r : r.outcome # "BREAKEVEN"))

AfterTraining(t) == IF local[t].outcome = Absent THEN "idle" ELSE "propose"

(* A sample that is too small, or a model that raises, changes nothing.     *)
TrainRefused(t) ==
  /\ At(t, "train", AfterTraining(t))
  /\ UNCHANGED <<memory, quality, training, registry, proposal, local>>

(* train fits a model on the memory and registers it; whether it is well     *)
(* calibrated on the last part of the sample, anything may come out.        *)
Train(t) ==
  /\ At(t, "train", "pick")
  /\ Usable >= MinSample
  /\ Len(versions) < MaxTrainings
  /\ \E brier \in {MaxBrier, MaxBrier + 1} :
       versions' = Append(versions, [brier |-> brier, champion |-> FALSE, decision |-> Absent])
  /\ lastTrained' = Len(records)
  /\ UNCHANGED <<memory, quality, processed, overlapped, proposal, local>>

\* registry.champion: the latest version that is one, or 0.
Champion ==
  LET crowned == {v \in DOMAIN versions : versions[v].champion}
  IN  IF crowned = {} THEN 0 ELSE CHOOSE v \in crowned : \A w \in crowned : w <= v

(* The challenger is the version registered last, whoever registered it.    *)
PickChallenger(t) ==
  /\ At(t, "pick", "crown")
  /\ local' = [local EXCEPT ![t].challenger = Len(versions), ![t].champion = Champion]
  /\ UNCHANGED <<memory, quality, training, registry, proposal>>

\* The sample is large enough, or train would have refused.
Passes(version) == version.brier <= MaxBrier

\* Mutant: the former champion stays.
Demote_Nobody(list, v) == list

Demote(list, v) == IF v = 0 THEN list ELSE [list EXCEPT ![v].champion = FALSE]

\* A new proposal may be the one that is followed from here on.
Create(status) ==
  proposal' \in {proposal} \cup (IF proposal = Absent THEN {status} ELSE {})

(* evaluate_challenger, as run_retraining calls it: with no return to       *)
(* compare and no turnover.  An accepted challenger is crowned before the   *)
(* champion is demoted.                                                     *)
Crown(t) ==
  LET v      == local[t].challenger
      judged == [versions EXCEPT ![v].decision =
                   IF Passes(versions[v]) THEN "ACCEPTED" ELSE "REJECTED"]
  IN  /\ At(t, "crown", AfterTraining(t))
      /\ versions' = IF Passes(versions[v])
                     THEN Demote([judged EXCEPT ![v].champion = TRUE], local[t].champion)
                     ELSE judged
      /\ Create(versions'[v].decision)
      /\ local' = [local EXCEPT ![t].challenger = 0, ![t].champion = 0]
      /\ UNCHANGED <<memory, quality, training, overlapped>>

-----------------------------------------------------------------------------
(* Proposals *)

Propose(t) ==
  /\ At(t, "propose", "idle")
  /\ IF local[t].outcome = "LOSS" THEN Create("PROPOSED") ELSE UNCHANGED proposal
  /\ local' = [local EXCEPT ![t] = Nothing]
  /\ UNCHANGED <<memory, quality, training, registry>>

(* validate_learning: whatever the status of the proposal was.              *)
Validate ==
  /\ proposal # Absent
  /\ proposal' = IF Len(records) < MinSample THEN "REJECTED" ELSE "VALIDATION"
  /\ UNCHANGED <<memory, quality, training, registry, pc, local>>

(* rollback_to_champion notes the champion, whose version is then the only  *)
(* one left with a crown.                                                   *)
StartRollback(t) ==
  /\ At(t, "idle", "rollback")
  /\ overlapped' = Overlaps(t)
  /\ local' = [local EXCEPT ![t] = [Nothing EXCEPT !.champion = Champion]]
  /\ UNCHANGED <<memory, quality, training, versions, proposal>>

Rollback(t) ==
  /\ At(t, "rollback", "idle")
  /\ versions' = [v \in DOMAIN versions |->
                    [versions[v] EXCEPT !.champion = (v = local[t].champion)]]
  /\ proposal' = IF proposal \in Pending THEN "ROLLED_BACK" ELSE proposal
  /\ local' = [local EXCEPT ![t] = Nothing]
  /\ UNCHANGED <<memory, quality, training, overlapped>>

-----------------------------------------------------------------------------
ThreadStep(t) ==
  \/ CloseTrade(t) \/ NotePrediction(t) \/ TrimWindow(t) \/ JudgeCalibration(t)
  \/ AskKelly(t) \/ ReadCalibration(t) \/ AdaptKelly(t) \/ Count(t)
  \/ RunRetraining(t) \/ TrainRefused(t) \/ Train(t) \/ PickChallenger(t) \/ Crown(t)
  \/ Propose(t) \/ StartRollback(t) \/ Rollback(t)

Next == (\E t \in Threads : ThreadStep(t)) \/ Validate \/ Restart \/ DieInExport

Spec == Init /\ [][Next]_vars
-----------------------------------------------------------------------------
TypeOK ==
  /\ Len(records) <= MaxTrades /\ Len(log) <= MaxTrades
  /\ torn => log = <<>>
  /\ Len(history) <= Window + Cardinality(Threads)
  /\ kelly \in {Kelly.base, KellyMultiplier(TRUE), KellyMultiplier(FALSE)}
  /\ proposal \in Statuses \cup {Absent}
  /\ processed \in 0..MaxTrades /\ lastTrained \in 0..MaxTrades
  /\ \A v \in DOMAIN versions : versions[v].champion \in BOOLEAN
  /\ pc \in [Threads -> {"idle", "calibrate", "trim", "judge", "adapt", "set", "count",
                         "train", "pick", "crown", "propose", "rollback"}]

\* A thread has noted a prediction and may still have to adapt the multiplier.
Adapting == {"trim", "judge", "adapt", "set"}

\* Once the threads that noted a prediction are done, a degraded calibration has
\* the degraded multiplier. Only a thread whose reading another one overtook,
\* by closing a trade before the multiplier was set, leaves it wrong.
KellyFollowsCalibration ==
  /\ Degraded(history)
  /\ ~stale
  /\ \A t \in Threads : pc[t] \notin Adapting
  => kelly = KellyMultiplier(TRUE)

\* A champion passed the gate, also when threads judge each other's versions;
\* and as long as no two threads retrain or roll back at once there is one
\* champion, from the first challenger that is accepted on: the last that was.
ChampionsEarned ==
  LET champions == {v \in DOMAIN versions : versions[v].champion}
      accepted  == {v \in DOMAIN versions : versions[v].decision = "ACCEPTED"}
  IN  /\ champions \subseteq accepted /\ \A v \in champions : Passes(versions[v])
      /\ ~overlapped => champions = {v \in accepted : \A w \in accepted : w <= v}

\* The failures that outlive the process, if the next export succeeds where the
\* file is torn: those that a process that starts reads back.
OnRecord == Loaded(IF torn THEN Failing(records) ELSE log)

\* The log is rewritten as a whole at every trade, and yet no failure that has a
\* trade_id is ever lost or moved, whatever exports fail, half way too, and
\* however often the process restarts. Only a process that starts on a torn
\* file, and so with an empty memory, has lost them.
FailureLogKept == [][IsPrefix(OnRecord, OnRecord') \/ (torn' /\ records' = <<>>)]_vars
=============================================================================
