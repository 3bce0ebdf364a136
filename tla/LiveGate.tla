------------------------------- MODULE LiveGate -------------------------------
(***************************************************************************)
(* The way to live trading: the stages that an operator promotes one at a   *)
(* time (live/stages.py), and the gate that judges a policy (live/gate.py), *)
(* which names a stage of its own: whoever puts it together says which      *)
(* (live/policy.py).                                                        *)
(***************************************************************************)
EXTENDS Integers, Sequences

CONSTANTS Checks,      \* the conditions of a policy other than mode, flag and stage
          None,
          MaxHistory   \* the bound of the audited changes

VARIABLES stage,       \* the stage of the manager
          history,     \* its audited changes
          policy,      \* the policy a caller has put together, or None
          approved     \* the policy the gate approved last, or None

gateVars == <<stage, history, policy, approved>>

Stages     == 0 .. 6
LocalPaper == 1        \* where a manager starts
CloudPaper == 2        \* where the one of the stage-2 runtime starts
Live       == {5, 6}

InitGate ==
  /\ stage \in {LocalPaper, CloudPaper}
  /\ history = << >>
  /\ policy = None
  /\ approved = None

-----------------------------------------------------------------------------
(* TradingStageManager.promote *)

Move(target, action) ==
  /\ history' = Append(history, [from |-> stage, to |-> target, action |-> action])
  /\ stage' = target
  /\ UNCHANGED <<policy, approved>>

\* Mutant: the stage after the next one is near enough.
Reachable_Skips(target) == target > stage /\ target <= stage + 2

Reachable(target) == target = stage + 1

\* Up by one stage, by somebody who is named and says why.
Promote(target, operator, evidence) ==
  /\ Reachable(target)
  /\ operator /\ evidence
  /\ Move(target, "promote")

\* Down by any number of stages; nothing is asked.
Demote(target) == target < stage /\ Move(target, "demote")

-----------------------------------------------------------------------------
(* LiveTradingGate.evaluate *)

Passes(p) ==
  /\ p.mode = "live" /\ p.enabled
  /\ p.stage \in Live
  /\ p.failing = {}

\* A caller puts a policy together and keeps it, with the stage it chooses.
PutTogether(mode, enabled, named, failing) ==
  /\ policy' = [mode |-> mode, enabled |-> enabled, stage |-> named, failing |-> failing]
  /\ UNCHANGED <<stage, history, approved>>

Evaluate ==
  /\ policy # None
  /\ approved' = IF Passes(policy) THEN policy ELSE None
  /\ UNCHANGED <<stage, history, policy>>

NextGate ==
  \/ /\ Len(history) < MaxHistory
     /\ \E target \in Stages :
          \/ Demote(target)
          \/ \E operator, evidence \in BOOLEAN : Promote(target, operator, evidence)
  \/ \E mode \in {"paper", "live"}, enabled \in BOOLEAN, named \in Stages,
        failing \in {{}} \cup {{c} : c \in Checks} : PutTogether(mode, enabled, named, failing)
  \/ Evaluate

-----------------------------------------------------------------------------

\* The stage the manager was made with, as its audit shows it.
First == IF history = << >> THEN stage ELSE history[1].from

\* The manager has come the whole way: each stage up to its own is one it was
\* made in or above and never left downwards, or the last change across it was
\* its own promotion. And the promotions came in the order of the stages.
StagesWereEarned ==
  LET changes == DOMAIN history
      Up(s)   == {i \in changes : history[i].to = s /\ history[i].action = "promote"}
      Down(s) == {i \in changes : history[i].to < s /\ history[i].action = "demote"}
  IN  /\ \A s \in 1 .. stage : \/ s <= First /\ Down(s) = {}
                              \/ \E i \in Up(s) : \A j \in Down(s) : j < i
      /\ \A s \in Stages : \A i \in Up(s) : s - 1 <= First \/ \E k \in Up(s - 1) : k < i
=============================================================================
