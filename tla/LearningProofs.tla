--------------------------- MODULE LearningProofs ---------------------------
(***************************************************************************)
(* What learns and what is replayed. First the champion, the Kelly         *)
(* multiplier and the failure log of the learning engine, for every number *)
(* of threads, trades, trainings and versions.                             *)
(*                                                                         *)
(* That a champion was accepted and passed the gate holds however the      *)
(* threads interleave, also of the one that a thread noted to roll back    *)
(* to. That there is one champion, the challenger that was accepted last,  *)
(* needs more: while no two threads have retrained or rolled back at once, *)
(* the thread that does is alone, the version it judges is the newest and  *)
(* not judged yet, and the champion it noted is still the champion. The    *)
(* log holds nothing that is not, after it was read back, at the same      *)
(* place of what the next export writes.                                   *)
(*                                                                         *)
(* Then the replay, for every shape of candle, gap, look-back, fee and     *)
(* lot. Its inductive invariant has three parts: Forward, the times of the *)
(* candles only grow; Shaped, every candle of the series is one of the     *)
(* shapes at some time; BooksSolid, every book keeps its numbers. The rest *)
(* is about the operators in a state that has them: what is closed by a    *)
(* time is the same in a longer series; a stop is at least the unit of     *)
(* price away from its entry; a model that fades a move contradicts none   *)
(* that follows it; and a scan that keeps the current and the longest run  *)
(* ends with the longest of them.                                          *)
(***************************************************************************)
EXTENDS Learning, MCBacktest, FiniteSetTheorems, WellFoundedInduction, SequenceTheorems, TLAPS

Versions == [brier : {MaxBrier, MaxBrier + 1}, champion : BOOLEAN,
             decision : {Absent, "ACCEPTED", "REJECTED"}]

Locals == [outcome : {"WIN", "LOSS", "BREAKEVEN", Absent}, error : 0..100 \cup {Absent},
           degraded : BOOLEAN, challenger : Nat, champion : Nat]

Steps == {"idle", "calibrate", "trim", "judge", "adapt", "set", "count", "train", "pick",
          "crown", "propose", "rollback"}

Typed ==
  /\ versions \in Seq(Versions)
  /\ overlapped \in BOOLEAN
  /\ pc \in [Threads -> Steps]
  /\ local \in [Threads -> Locals]

Champions == {v \in DOMAIN versions : versions[v].champion}
Accepted  == {v \in DOMAIN versions : versions[v].decision = "ACCEPTED"}

\* A thread that picks or crowns has a version to judge.
Registered ==
  \A t \in Threads :
    /\ pc[t] \in {"pick", "crown"} => Len(versions) > 0
    /\ pc[t] = "crown" => local[t].challenger \in DOMAIN versions

Earned == \A v \in Champions : v \in Accepted /\ Passes(versions[v])

\* And so has the version that a thread is about to roll back to.
Remembered ==
  \A t \in Threads : pc[t] = "rollback" /\ local[t].champion # 0 =>
    local[t].champion \in Accepted /\ Passes(versions[local[t].champion])

\* One thread retrains or rolls back at a time.
Alone == \A t, u \in Threads : pc[t] \in Retraining /\ pc[u] \in Retraining => t = u

\* The champion is the challenger that was accepted last.
LatestReigns == Champions = {v \in Accepted : \A w \in Accepted : w <= v}

\* Whoever judges, judges the newest version, for the first time, and knows the
\* champion, as does whoever rolls back.
KnowsItsVersions ==
  \A t \in Threads :
    /\ pc[t] \in {"pick", "crown"} => versions[Len(versions)].decision = Absent
    /\ pc[t] = "crown" => local[t].challenger = Len(versions)
    /\ pc[t] \in {"crown", "rollback"} => local[t].champion = Champion

IInv ==
  /\ Typed
  /\ Registered
  /\ Earned
  /\ Remembered
  /\ ~overlapped => Alone /\ LatestReigns /\ KnowsItsVersions

-----------------------------------------------------------------------------
(* Champions *)

\* Of some versions one is the latest.
LEMMA Latest ==
  ASSUME NEW n \in Nat, NEW T \in SUBSET (1..n), T # {}
  PROVE  \E m \in T : \A w \in T : w <= m
<1> DEFINE Behind == {n - v : v \in T}
<1>1. IsWellFoundedOn(OpToRel(<, Nat), Nat)
  BY NatLessThanWellFounded
<1>2. Behind \in SUBSET Nat /\ Behind # {}
  <2>1. \A v \in T : n - v \in Nat
    OBVIOUS
  <2>2. PICK v \in T : TRUE
    OBVIOUS
  <2>3. n - v \in Behind
    BY <2>2
  <2> QED
    BY <2>1, <2>3
<1>3. PICK b \in Behind : \A c \in Behind : <<c, b>> \notin OpToRel(<, Nat)
  BY <1>1, <1>2, WFMin
<1>4. \A c \in Behind : ~(c < b)
  BY <1>2, <1>3 DEF OpToRel
<1>5. PICK m \in T : b = n - m
  BY <1>3
<1>6. ASSUME NEW w \in T PROVE w <= m
  <2>1. ~(n - w < n - m)
    BY <1>4, <1>5
  <2> QED
    BY <2>1
<1> QED
  BY <1>6

LEMMA ChampionDefined ==
  ASSUME Typed
  PROVE  /\ Champion \in Nat
         /\ Champion = 0 \/ Champion \in Champions
<1>1. Champion = IF Champions = {} THEN 0
                 ELSE CHOOSE v \in Champions : \A w \in Champions : w <= v
  BY DEF Champion, Champions
<1>2. Len(versions) \in Nat /\ Champions \in SUBSET (1..Len(versions))
  BY DEF Typed, Champions
<1>3. Champions # {} => \E m \in Champions : \A w \in Champions : w <= m
  BY <1>2, Latest
<1>4. CASE Champions # {}
  <2>1. Champion \in Champions
    BY <1>1, <1>3, <1>4
  <2> QED
    BY <1>2, <2>1
<1> QED
  BY <1>1, <1>4

\* While the latest accepted reigns there is at most one champion, and the
\* registry names it.
LEMMA OneChampion ==
  ASSUME Typed, LatestReigns
  PROVE  \/ Champions = {} /\ Champion = 0
         \/ Champion \in DOMAIN versions /\ Champions = {Champion}
<1>1. Champion = IF Champions = {} THEN 0
                 ELSE CHOOSE v \in Champions : \A w \in Champions : w <= v
  BY DEF Champion, Champions
<1>2. CASE Champions = {}
  BY <1>1, <1>2
<1>3. CASE Champions # {}
  <2>1. Champions \subseteq Nat /\ Champions \subseteq DOMAIN versions
    BY DEF Typed, Champions
  <2>2. PICK c \in Champions : TRUE
    BY <1>3
  <2>3. \A v, w \in Champions : v <= w
    BY DEF LatestReigns
  <2>4. \A v, w \in Champions : v = w
    BY <2>1, <2>3
  <2>5. Champions = {c}
    BY <2>2, <2>4
  <2>6. Champion = c
    BY <1>1, <2>1, <2>5
  <2> QED
    BY <2>1, <2>2, <2>5, <2>6
<1> QED
  BY <1>2, <1>3

\* What the invariant says of the versions depends on nothing else.
LEMMA SameVersions ==
  ASSUME UNCHANGED versions
  PROVE  /\ Champions' = Champions /\ Accepted' = Accepted /\ Champion' = Champion
         /\ Earned' = Earned /\ LatestReigns' = LatestReigns
  BY DEF Champions, Accepted, Champion, Earned, LatestReigns, Passes

-----------------------------------------------------------------------------
(* The steps *)

\* A thread that neither retrains nor starts to leaves the invariant alone.
LEMMA QuietStep ==
  ASSUME IInv, NEW t \in Threads, UNCHANGED registry,
         NEW s \in Steps \ Retraining, pc' = [pc EXCEPT ![t] = s],
         local' \in [Threads -> Locals],
         \A u \in Threads \ {t} : local'[u] = local[u]
  PROVE  IInv'
<1>1. \A u \in Threads : pc'[u] \in Retraining => u # t /\ pc'[u] = pc[u] /\ local'[u] = local[u]
  BY DEF IInv, Typed
<1>2. Typed'
  BY DEF IInv, Typed, registry
<1>3. Registered'
  BY <1>1 DEF IInv, Registered, registry, Retraining
<1>4. Earned' /\ Remembered'
  BY <1>1, SameVersions DEF IInv, Remembered, Passes, registry, Retraining
<1>5. ASSUME ~overlapped' PROVE Alone' /\ LatestReigns' /\ KnowsItsVersions'
  <2>1. Alone /\ LatestReigns /\ KnowsItsVersions
    BY <1>5 DEF IInv, registry
  <2>2. Alone'
    BY <1>1, <2>1 DEF Alone
  <2>3. KnowsItsVersions'
    BY <1>1, <2>1, SameVersions DEF KnowsItsVersions, registry, Retraining
  <2> QED
    BY <2>1, <2>2, <2>3, SameVersions DEF registry
<1> QED
  BY <1>2, <1>3, <1>4, <1>5 DEF IInv

\* A thread that starts to retrain or to roll back is alone, or the overlap is
\* noted.
LEMMA StartsToRetrain ==
  ASSUME IInv, NEW t \in Threads, UNCHANGED versions, overlapped' = Overlaps(t),
         NEW s \in {"train", "rollback"}, pc' = [pc EXCEPT ![t] = s],
         local' \in [Threads -> Locals],
         \A u \in Threads \ {t} : local'[u] = local[u],
         s = "rollback" => local'[t].champion = Champion
  PROVE  IInv'
<1>1. /\ \A u \in Threads \ {t} : pc'[u] = pc[u] /\ local'[u] = local[u]
      /\ pc'[t] = s
  BY DEF IInv, Typed
<1>2. Typed'
  BY DEF IInv, Typed, Overlaps, Steps
<1>3. Registered'
  BY <1>1 DEF IInv, Registered
<1>4. Earned' /\ Remembered'
  <2>1. \A v \in DOMAIN versions : Passes(versions'[v]) <=> Passes(versions[v])
    BY DEF Passes
  <2>2. Champion # 0 => Champion \in Accepted /\ Passes(versions[Champion])
    BY ChampionDefined DEF IInv, Earned
  <2>3. ASSUME NEW u \in Threads, pc'[u] = "rollback", local'[u].champion # 0
        PROVE  local'[u].champion \in Accepted' /\ Passes(versions'[local'[u].champion])
    <3>1. CASE u = t
      BY <1>1, <2>2, <2>3, <3>1, SameVersions DEF Passes
    <3>2. CASE u # t
      BY <1>1, <2>3, <3>2, SameVersions DEF IInv, Remembered, Passes
    <3> QED
      BY <3>1, <3>2
  <2> QED
    BY <2>3, SameVersions DEF IInv, Remembered
<1>5. ASSUME ~overlapped' PROVE Alone' /\ LatestReigns' /\ KnowsItsVersions'
  <2>1. ~overlapped /\ \A u \in Threads \ {t} : pc[u] \notin Retraining
    BY <1>5 DEF Overlaps
  <2>2. LatestReigns /\ KnowsItsVersions
    BY <2>1 DEF IInv
  <2>3. Alone'
    BY <2>1 DEF IInv, Typed, Alone
  <2>4. KnowsItsVersions'
    BY <1>1, <2>2, SameVersions DEF KnowsItsVersions
  <2> QED
    BY <2>2, <2>3, <2>4, SameVersions
<1> QED
  BY <1>2, <1>3, <1>4, <1>5 DEF IInv

LEMMA TrainStep ==
  ASSUME IInv, NEW t \in Threads, Train(t)
  PROVE  IInv'
<1>1. PICK brier \in {MaxBrier, MaxBrier + 1} :
        versions' = Append(versions, [brier |-> brier, champion |-> FALSE, decision |-> Absent])
  BY DEF Train
<1>2. /\ pc[t] = "train" /\ pc' = [pc EXCEPT ![t] = "pick"]
      /\ UNCHANGED <<overlapped, local>>
  BY DEF Train, At
<1>3. /\ Len(versions') = Len(versions) + 1 /\ Len(versions) \in Nat
      /\ DOMAIN versions = 1..Len(versions) /\ DOMAIN versions' = 1..Len(versions')
      /\ \A v \in DOMAIN versions : versions'[v] = versions[v]
      /\ versions'[Len(versions')]
           = [brier |-> brier, champion |-> FALSE, decision |-> Absent]
      /\ versions' \in Seq(Versions)
  <2>1. [brier |-> brier, champion |-> FALSE, decision |-> Absent] \in Versions
    BY DEF Versions
  <2> QED
    BY <1>1, <2>1 DEF IInv, Typed
<1>4. Champions' = Champions /\ Accepted' = Accepted
  BY <1>3, AbsentAssumption DEF Champions, Accepted
<1>5. Typed'
  BY <1>2, <1>3 DEF IInv, Typed, Steps
<1>6. Registered'
  BY <1>2, <1>3 DEF IInv, Typed, Registered
<1>7. Earned' /\ Remembered'
  <2>1. \A u \in Threads : pc'[u] = "rollback" => pc[u] = "rollback"
    BY <1>2 DEF IInv, Typed
  <2> QED
    BY <1>2, <1>3, <1>4, <2>1 DEF IInv, Earned, Remembered, Passes, Champions, Accepted
<1>8. ASSUME ~overlapped' PROVE Alone' /\ LatestReigns' /\ KnowsItsVersions'
  <2>1. Alone /\ LatestReigns
    BY <1>2, <1>8 DEF IInv
  <2>2. LatestReigns'
    BY <1>4, <2>1 DEF LatestReigns
  <2>3. \A u \in Threads : pc'[u] \in Retraining => u = t
    BY <1>2, <2>1 DEF IInv, Typed, Alone, Retraining
  <2>4. Alone'
    BY <2>3 DEF Alone
  <2>5. KnowsItsVersions'
    BY <1>2, <1>3, <2>3 DEF IInv, Typed, KnowsItsVersions, Retraining
  <2> QED
    BY <2>2, <2>4, <2>5
<1> QED
  BY <1>5, <1>6, <1>7, <1>8 DEF IInv

LEMMA PickStep ==
  ASSUME IInv, NEW t \in Threads, PickChallenger(t)
  PROVE  IInv'
<1>1. /\ pc[t] = "pick" /\ pc' = [pc EXCEPT ![t] = "crown"]
      /\ local' = [local EXCEPT ![t].challenger = Len(versions), ![t].champion = Champion]
      /\ UNCHANGED <<versions, overlapped>>
  BY DEF PickChallenger, At, registry
<1>2. Len(versions) \in Nat \ {0} /\ DOMAIN versions = 1..Len(versions)
  BY <1>1 DEF IInv, Typed, Registered
<1>3. Champion \in Nat
  BY ChampionDefined DEF IInv
<1>4. /\ local' \in [Threads -> Locals]
      /\ local'[t].challenger = Len(versions) /\ local'[t].champion = Champion
      /\ \A u \in Threads \ {t} : local'[u] = local[u]
  <2>1. local \in [Threads -> Locals]
    BY DEF IInv, Typed
  <2>2. local' = [local EXCEPT ![t] = [local[t] EXCEPT !.challenger = Len(versions),
                                                      !.champion = Champion]]
    BY <1>1
  <2>3. PICK new : new = [local[t] EXCEPT !.challenger = Len(versions), !.champion = Champion]
    OBVIOUS
  <2>4. new \in Locals /\ new.challenger = Len(versions) /\ new.champion = Champion
    <3>1. PICK old \in Locals : old = local[t]
      BY <2>1
    <3>2. PICK v \in Nat : v = Len(versions)
      BY <1>2
    <3>3. PICK c \in Nat : c = Champion
      BY <1>3
    <3>4. new = [old EXCEPT !.challenger = v, !.champion = c]
      BY <2>3, <3>1, <3>2, <3>3
    <3>5. new \in Locals /\ new.challenger = v /\ new.champion = c
      BY <3>4 DEF Locals
    <3> QED
      BY <3>2, <3>3, <3>5
  <2> QED
    BY <2>1, <2>2, <2>3, <2>4
<1>5. Typed'
  BY <1>1, <1>4 DEF IInv, Typed, Steps
<1>6. Registered'
  BY <1>1, <1>2, <1>4 DEF IInv, Typed, Registered
<1>7. Earned' /\ Remembered'
  <2>1. \A u \in Threads : pc'[u] = "rollback" => pc[u] = "rollback" /\ local'[u] = local[u]
    BY <1>1, <1>4 DEF IInv, Typed
  <2> QED
    BY <1>1, <2>1, SameVersions DEF IInv, Remembered, Passes
<1>8. ASSUME ~overlapped' PROVE Alone' /\ LatestReigns' /\ KnowsItsVersions'
  <2>1. Alone /\ LatestReigns /\ KnowsItsVersions
    BY <1>1, <1>8 DEF IInv
  <2>2. Alone'
    BY <1>1, <2>1 DEF IInv, Typed, Alone, Retraining
  <2>3. KnowsItsVersions'
    BY <1>1, <1>4, <2>1, SameVersions DEF IInv, Typed, KnowsItsVersions
  <2> QED
    BY <1>1, <2>1, <2>2, <2>3, SameVersions
<1> QED
  BY <1>5, <1>6, <1>7, <1>8 DEF IInv

\* One entry of the registry changes.
LEMMA Replaced ==
  ASSUME NEW list \in Seq(Versions), NEW v \in 1..Len(list), NEW r \in Versions,
         NEW new, new = [list EXCEPT ![v] = r]
  PROVE  /\ new \in Seq(Versions) /\ DOMAIN new = DOMAIN list /\ Len(new) = Len(list)
         /\ \A w \in DOMAIN list : new[w] = IF w = v THEN r ELSE list[w]
  OBVIOUS

\* A version is judged, and it is crowned or demoted.
LEMMA VersionJudged ==
  ASSUME NEW old \in Versions, NEW verdict \in {"ACCEPTED", "REJECTED"},
         NEW new, new = [old EXCEPT !.decision = verdict]
  PROVE  /\ new \in Versions /\ new.decision = verdict
         /\ new.brier = old.brier /\ new.champion = old.champion
  BY DEF Versions

LEMMA Reigning ==
  ASSUME NEW old \in Versions, NEW reigns \in BOOLEAN,
         NEW new, new = [old EXCEPT !.champion = reigns]
  PROVE  /\ new \in Versions /\ new.champion = reigns
         /\ new.brier = old.brier /\ new.decision = old.decision
  BY DEF Versions

LEMMA CrownStep ==
  ASSUME IInv, NEW t \in Threads, Crown(t)
  PROVE  IInv'
<1> DEFINE v == local[t].challenger
           c == local[t].champion
           verdict == IF Passes(versions[v]) THEN "ACCEPTED" ELSE "REJECTED"
           judged == [versions EXCEPT ![v].decision = verdict]
<1>1. /\ pc[t] = "crown" /\ pc' = [pc EXCEPT ![t] = AfterTraining(t)]
      /\ local' = [local EXCEPT ![t].challenger = 0, ![t].champion = 0]
      /\ versions' = IF Passes(versions[v])
                     THEN Demote([judged EXCEPT ![v].champion = TRUE], c)
                     ELSE judged
      /\ overlapped' = overlapped
  BY DEF Crown, At
<1>2. /\ versions \in Seq(Versions) /\ v \in DOMAIN versions /\ c \in Nat
      /\ DOMAIN versions = 1..Len(versions) /\ Len(versions) \in Nat
  BY <1>1 DEF IInv, Typed, Registered, Locals
\* The verdict, the crown and the demotion, version by version.
<1>3. /\ versions' \in Seq(Versions) /\ DOMAIN versions' = DOMAIN versions
      /\ Len(versions') = Len(versions)
      /\ \A w \in DOMAIN versions :
           /\ versions'[w].brier = versions[w].brier
           /\ versions'[w].decision = IF w = v THEN verdict ELSE versions[w].decision
           /\ versions'[w].champion =
                IF Passes(versions[v])
                THEN IF c # 0 /\ w = c THEN FALSE
                     ELSE IF w = v THEN TRUE ELSE versions[w].champion
                ELSE versions[w].champion
  <2>1. /\ judged \in Seq(Versions) /\ DOMAIN judged = DOMAIN versions
        /\ Len(judged) = Len(versions)
        /\ \A w \in DOMAIN versions :
             /\ judged[w].brier = versions[w].brier
             /\ judged[w].decision = IF w = v THEN verdict ELSE versions[w].decision
             /\ judged[w].champion = versions[w].champion
    <3>1. verdict \in {"ACCEPTED", "REJECTED"}
      OBVIOUS
    <3> DEFINE r == [versions[v] EXCEPT !.decision = verdict]
    <3> HIDE DEF v, verdict
    <3>2. /\ r \in Versions /\ r.decision = verdict
          /\ r.brier = versions[v].brier /\ r.champion = versions[v].champion
      BY <1>2, <3>1, VersionJudged
    <3>3. judged = [versions EXCEPT ![v] = r]
      OBVIOUS
    <3> HIDE DEF r, judged
    <3> QED
      BY <1>2, <3>2, <3>3, Replaced
  <2> DEFINE crowned == [judged EXCEPT ![v].champion = TRUE]
  <2> HIDE DEF judged
  <2>2. /\ crowned \in Seq(Versions) /\ DOMAIN crowned = DOMAIN versions
        /\ Len(crowned) = Len(versions)
        /\ \A w \in DOMAIN versions :
             /\ crowned[w].brier = versions[w].brier
             /\ crowned[w].decision = judged[w].decision
             /\ crowned[w].champion = IF w = v THEN TRUE ELSE versions[w].champion
    <3> DEFINE r == [judged[v] EXCEPT !.champion = TRUE]
    <3> HIDE DEF v
    <3>1. /\ r \in Versions /\ r.champion = TRUE
          /\ r.brier = judged[v].brier /\ r.decision = judged[v].decision
      <4>1. judged[v] \in Versions
        BY <1>2, <2>1
      <4> QED
        BY <4>1 DEF Versions
    <3>2. crowned = [judged EXCEPT ![v] = r]
      OBVIOUS
    <3> HIDE DEF r, crowned
    <3>3. /\ crowned \in Seq(Versions) /\ DOMAIN crowned = DOMAIN judged
          /\ Len(crowned) = Len(judged)
          /\ \A w \in DOMAIN judged : crowned[w] = IF w = v THEN r ELSE judged[w]
      BY <1>2, <2>1, <3>1, <3>2, Replaced
    <3> QED
      BY <2>1, <3>1, <3>3
  <2> DEFINE demoted == Demote(crowned, c)
  <2> HIDE DEF crowned
  <2>3. /\ demoted \in Seq(Versions) /\ DOMAIN demoted = DOMAIN versions
        /\ Len(demoted) = Len(versions)
        /\ \A w \in DOMAIN versions :
             /\ demoted[w].brier = crowned[w].brier
             /\ demoted[w].decision = crowned[w].decision
             /\ demoted[w].champion = IF c # 0 /\ w = c THEN FALSE ELSE crowned[w].champion
    <3> DEFINE r == [crowned[c] EXCEPT !.champion = FALSE]
    <3> HIDE DEF c
    <3>1. CASE c \in DOMAIN versions
      <4>1. /\ r \in Versions /\ r.champion = FALSE
            /\ r.brier = crowned[c].brier /\ r.decision = crowned[c].decision
        <5>1. PICK old \in Versions : old = crowned[c]
          BY <2>2, <3>1
        <5>2. r = [old EXCEPT !.champion = FALSE]
          BY <5>1
        <5> HIDE DEF r
        <5>3. /\ r \in Versions /\ r.champion = FALSE
              /\ r.brier = old.brier /\ r.decision = old.decision
          BY <5>2, Reigning
        <5> QED
          BY <5>1, <5>3
      <4>2. demoted = [crowned EXCEPT ![c] = r] /\ c # 0
        BY <1>2, <3>1 DEF Demote
      <4> HIDE DEF r, demoted
      <4>3. /\ demoted \in Seq(Versions) /\ DOMAIN demoted = DOMAIN crowned
            /\ Len(demoted) = Len(crowned)
            /\ \A w \in DOMAIN crowned : demoted[w] = IF w = c THEN r ELSE crowned[w]
        BY <1>2, <2>2, <3>1, <4>1, <4>2, Replaced
      <4> QED
        BY <2>2, <4>1, <4>2, <4>3
    <3>2. CASE c \notin DOMAIN versions
      <4>1. demoted = crowned
        BY <1>2, <2>2, <3>2 DEF Demote
      <4> QED
        BY <2>2, <3>2, <4>1
    <3> QED
      BY <3>1, <3>2
  <2> HIDE DEF demoted, v, c, verdict
  <2>4. versions' = IF Passes(versions[v]) THEN demoted ELSE judged
    BY <1>1 DEF demoted, crowned, judged
  <2> QED
    BY <2>1, <2>2, <2>3, <2>4
<1> HIDE DEF v, c, verdict
<1>4. /\ \A u \in Threads : pc'[u] \in Retraining => u # t /\ pc'[u] = pc[u] /\ local'[u] = local[u]
      /\ Typed'
  <2>1. AfterTraining(t) \in Steps \ Retraining
    BY DEF AfterTraining, Steps, Retraining
  <2>2. /\ pc' \in [Threads -> Steps] /\ pc'[t] = AfterTraining(t)
        /\ \A u \in Threads \ {t} : pc'[u] = pc[u]
    BY <1>1, <2>1 DEF IInv, Typed
  <2>3. /\ local' \in [Threads -> Locals]
        /\ \A u \in Threads \ {t} : local'[u] = local[u]
    <3>1. PICK old \in Locals : old = local[t]
      BY DEF IInv, Typed
    <3>2. [old EXCEPT !.challenger = 0, !.champion = 0] \in Locals
      BY DEF Locals
    <3>3. local' = [local EXCEPT ![t] = [old EXCEPT !.challenger = 0, !.champion = 0]]
      BY <1>1, <3>1
    <3> QED
      BY <3>2, <3>3 DEF IInv, Typed
  <2> QED
    BY <1>1, <1>3, <2>1, <2>2, <2>3 DEF IInv, Typed
<1>5. Registered'
  BY <1>3, <1>4 DEF IInv, Registered, Retraining
<1>6. \A w \in DOMAIN versions : Passes(versions'[w]) <=> Passes(versions[w])
  BY <1>3 DEF Passes
<1>7. Earned' /\ Remembered'
  <2>1. Earned'
    BY <1>3, <1>6 DEF IInv, Earned, Champions, Accepted, verdict
  <2>2. \A w \in Accepted : Passes(versions[w]) => w \in Accepted' /\ Passes(versions'[w])
    BY <1>3, <1>6 DEF Accepted, verdict
  <2>3. \A u \in Threads : pc'[u] = "rollback" => pc[u] = "rollback" /\ local'[u] = local[u]
    BY <1>4 DEF Retraining
  <2> QED
    BY <2>1, <2>2, <2>3 DEF IInv, Remembered
<1>8. ASSUME ~overlapped' PROVE Alone' /\ LatestReigns' /\ KnowsItsVersions'
  <2>1. Alone /\ LatestReigns /\ KnowsItsVersions
    BY <1>1, <1>8 DEF IInv
  <2>2. \A u \in Threads : pc'[u] \notin Retraining
    BY <1>1, <1>4, <2>1 DEF Alone, Retraining
  <2>3. /\ v = Len(versions) /\ versions[v].decision = Absent /\ c = Champion
    BY <1>1, <2>1 DEF KnowsItsVersions, v, c
  <2>4. v \notin Accepted /\ v \notin Champions
    BY <2>1, <2>3, AbsentAssumption DEF LatestReigns, Accepted
  <2>5. CASE Passes(versions[v])
    <3>1. Accepted' = Accepted \cup {v}
      BY <1>2, <1>3, <2>5 DEF Accepted, verdict
    <3>2. Champions' = {v}
      <4>1. \/ Champions = {} /\ c = 0
            \/ c \in DOMAIN versions /\ Champions = {c}
        BY <2>1, <2>3, OneChampion DEF IInv
      <4>2. \A w \in DOMAIN versions :
              versions'[w].champion <=> (~(c # 0 /\ w = c) /\ (w = v \/ w \in Champions))
        BY <1>3, <2>5 DEF Champions
      <4>3. \A w \in DOMAIN versions : versions'[w].champion <=> w = v
        BY <1>2, <2>4, <4>1, <4>2
      <4> QED
        BY <1>2, <1>3, <4>3 DEF Champions
    <3>3. LatestReigns'
      <4>1. \A w \in Accepted : w \in Nat /\ w <= v
        BY <1>2, <2>3 DEF Accepted
      <4> QED
        BY <1>2, <3>1, <3>2, <4>1 DEF LatestReigns
    <3> QED
      BY <2>2, <3>3 DEF Alone, KnowsItsVersions, Retraining
  <2>6. CASE ~Passes(versions[v])
    <3>1. Accepted' = Accepted
      BY <1>3, <2>4, <2>6 DEF Accepted, verdict
    <3>2. Champions' = Champions
      BY <1>3, <2>6 DEF Champions
    <3> QED
      BY <2>1, <2>2, <3>1, <3>2 DEF Alone, LatestReigns, KnowsItsVersions, Retraining
  <2> QED
    BY <2>5, <2>6
<1> QED
  BY <1>4, <1>5, <1>7, <1>8 DEF IInv

LEMMA RollbackStep ==
  ASSUME IInv, NEW t \in Threads, Rollback(t)
  PROVE  IInv'
<1> DEFINE c == local[t].champion
<1>1. /\ pc[t] = "rollback" /\ pc' = [pc EXCEPT ![t] = "idle"]
      /\ versions' = [w \in DOMAIN versions |-> [versions[w] EXCEPT !.champion = (w = c)]]
      /\ local' = [local EXCEPT ![t] = Nothing]
      /\ UNCHANGED overlapped
  BY DEF Rollback, At
<1>2. DOMAIN versions = 1..Len(versions) /\ Len(versions) \in Nat /\ c \in Nat
  BY DEF IInv, Typed, Locals
<1>3. c # 0 => c \in Accepted /\ Passes(versions[c])
  BY <1>1 DEF IInv, Remembered
<1> HIDE DEF c
<1>4. /\ versions' \in Seq(Versions) /\ DOMAIN versions' = DOMAIN versions
      /\ Len(versions') = Len(versions)
      /\ \A w \in DOMAIN versions :
           /\ versions'[w].brier = versions[w].brier
           /\ versions'[w].decision = versions[w].decision
           /\ versions'[w].champion = (w = c)
  <2>1. \A w \in DOMAIN versions :
          [versions[w] EXCEPT !.champion = (w = c)] \in Versions
    <3> SUFFICES ASSUME NEW w \in DOMAIN versions
                 PROVE  [versions[w] EXCEPT !.champion = (w = c)] \in Versions
      OBVIOUS
    <3>1. versions[w] \in Versions
      BY <1>2 DEF IInv, Typed
    <3> QED
      BY <3>1, Reigning
  <2>2. \A w \in DOMAIN versions :
          /\ versions'[w].brier = versions[w].brier
          /\ versions'[w].decision = versions[w].decision
          /\ versions'[w].champion = (w = c)
    <3> SUFFICES ASSUME NEW w \in DOMAIN versions
                 PROVE  /\ versions'[w].brier = versions[w].brier
                        /\ versions'[w].decision = versions[w].decision
                        /\ versions'[w].champion = (w = c)
      OBVIOUS
    <3>1. versions[w] \in Versions
      BY <1>2 DEF IInv, Typed
    <3>2. versions'[w] = [versions[w] EXCEPT !.champion = (w = c)]
      BY <1>1
    <3> QED
      BY <3>1, <3>2, Reigning
  <2> QED
    BY <1>1, <1>2, <2>1, <2>2
<1>5. Champions' = DOMAIN versions \cap {c} /\ Accepted' = Accepted
  BY <1>4 DEF Champions, Accepted
<1>6. \A w \in DOMAIN versions : Passes(versions'[w]) <=> Passes(versions[w])
  BY <1>4 DEF Passes
<1>7. /\ pc' \in [Threads -> Steps] /\ local' \in [Threads -> Locals]
      /\ \A u \in Threads : pc'[u] \in Retraining =>
           u # t /\ pc'[u] = pc[u] /\ local'[u] = local[u]
  <2>1. Nothing \in Locals
    BY DEF Nothing, Locals
  <2> QED
    BY <1>1, <2>1 DEF IInv, Typed, Steps, Retraining
<1>8. Typed'
  BY <1>1, <1>4, <1>7 DEF IInv, Typed
<1>9. Registered'
  BY <1>4, <1>7 DEF IInv, Registered, Retraining
<1>10. Earned'
  BY <1>2, <1>3, <1>5, <1>6 DEF Earned, Champions, Accepted
<1>11. Remembered'
  <2>1. \A w \in Accepted : Passes(versions[w]) => w \in Accepted' /\ Passes(versions'[w])
    BY <1>5, <1>6 DEF Accepted
  <2>2. \A u \in Threads : pc'[u] = "rollback" => pc[u] = "rollback" /\ local'[u] = local[u]
    BY <1>7 DEF Retraining
  <2> QED
    BY <2>1, <2>2 DEF IInv, Remembered
<1>12. ASSUME ~overlapped' PROVE Alone' /\ LatestReigns' /\ KnowsItsVersions'
  <2>1. Alone /\ LatestReigns /\ KnowsItsVersions
    BY <1>1, <1>12 DEF IInv
  <2>2. \A u \in Threads : pc'[u] \notin Retraining
    BY <1>1, <1>7, <2>1 DEF Alone, Retraining
  <2>3. c = Champion
    BY <1>1, <2>1 DEF KnowsItsVersions, c
  <2>4. Champions' = Champions
    BY <1>2, <1>5, <2>1, <2>3, OneChampion DEF IInv
  <2>5. LatestReigns'
    BY <1>5, <2>1, <2>4 DEF LatestReigns
  <2> QED
    BY <2>2, <2>5 DEF Alone, KnowsItsVersions, Retraining
<1> QED
  BY <1>8, <1>9, <1>10, <1>11, <1>12 DEF IInv

LEMMA StartStep ==
  ASSUME IInv, Start
  PROVE  IInv'
<1>1. /\ versions' = <<>> /\ overlapped' = FALSE
      /\ pc' = [t \in Threads |-> "idle"] /\ local' = [t \in Threads |-> Nothing]
  BY DEF Start
<1>2. Typed'
  <2>1. Nothing \in Locals /\ "idle" \in Steps
    BY DEF Nothing, Locals, Steps
  <2>2. <<>> \in Seq(Versions)
    OBVIOUS
  <2>3. pc' \in [Threads -> Steps] /\ local' \in [Threads -> Locals]
    BY <1>1, <2>1
  <2> QED
    BY <1>1, <2>2, <2>3 DEF Typed
<1>3. Champions' = {} /\ Accepted' = {}
  BY <1>1 DEF Champions, Accepted
<1> QED
  BY <1>1, <1>2, <1>3
     DEF IInv, Registered, Earned, Remembered, Alone, LatestReigns, KnowsItsVersions,
         Retraining

-----------------------------------------------------------------------------
(* The invariant *)

LEMMA Initially == Init => IInv
<1> SUFFICES ASSUME Init PROVE IInv
  OBVIOUS
<1>1. Typed
  <2>1. Nothing \in Locals /\ "idle" \in Steps
    BY DEF Nothing, Locals, Steps
  <2>2. <<>> \in Seq(Versions)
    OBVIOUS
  <2>3. pc \in [Threads -> Steps] /\ local \in [Threads -> Locals]
    BY <2>1 DEF Init
  <2> QED
    BY <2>2, <2>3 DEF Init, Typed
<1>2. Champions = {} /\ Accepted = {}
  BY DEF Init, Champions, Accepted
<1> QED
  BY <1>1, <1>2
     DEF Init, IInv, Registered, Earned, Remembered, Alone, LatestReigns, KnowsItsVersions,
         Retraining

LEMMA Inductive == IInv /\ [Next]_vars => IInv'
<1> SUFFICES ASSUME IInv, [Next]_vars PROVE IInv'
  OBVIOUS
<1>1. ASSUME UNCHANGED <<registry, pc, local>> PROVE IInv'
  BY <1>1, SameVersions
     DEF IInv, Typed, Registered, Remembered, Passes, Alone, KnowsItsVersions, registry
<1>2. CASE UNCHANGED vars
  BY <1>1, <1>2 DEF vars
<1>3. ASSUME NEW t \in Threads, ThreadStep(t) PROVE IInv'
  <2>1. pc \in [Threads -> Steps] /\ local \in [Threads -> Locals] /\ Nothing \in Locals
    BY DEF IInv, Typed, Nothing, Locals
  <2>2. ASSUME NEW s \in Steps \ Retraining, pc' = [pc EXCEPT ![t] = s],
               UNCHANGED registry,
               NEW r \in Locals, local' = [local EXCEPT ![t] = r]
        PROVE  IInv'
    BY <2>1, <2>2, QuietStep
  <2>3. local = [local EXCEPT ![t] = local[t]] /\ local[t] \in Locals
    BY <2>1
  <2>4. CASE CloseTrade(t)
    <3>1. PICK c \in Closings :
            local' = [local EXCEPT ![t] =
                        [Nothing EXCEPT !.outcome = c.outcome, !.error = c.error]]
      BY <2>4 DEF CloseTrade
    <3>2. [Nothing EXCEPT !.outcome = c.outcome, !.error = c.error] \in Locals
      <4>1. /\ c.outcome \in {"WIN", "LOSS", "BREAKEVEN"}
            /\ c.error \in 0..100 \cup {Absent}
        BY ClosingsAssumption
      <4> QED
        BY <4>1 DEF Nothing, Locals
    <3>3. UNCHANGED registry /\ pc' = [pc EXCEPT ![t] = "calibrate"]
      BY <2>4 DEF CloseTrade, At
    <3> QED
      BY <2>2, <3>1, <3>2, <3>3 DEF Steps, Retraining
  <2>5. CASE NotePrediction(t)
    <3>1. PICK s \in {"trim", "count"} : pc' = [pc EXCEPT ![t] = s]
      BY <2>5 DEF NotePrediction
    <3>2. /\ UNCHANGED registry
          /\ local' = [local EXCEPT ![t] = [local[t] EXCEPT !["error"] = Absent]]
      BY <2>5 DEF NotePrediction, Hold
    <3>3. [local[t] EXCEPT !["error"] = Absent] \in Locals
      BY <2>3 DEF Locals
    <3> QED
      BY <2>2, <3>1, <3>2, <3>3 DEF Steps, Retraining
  <2>6. CASE TrimWindow(t) \/ JudgeCalibration(t)
    <3>1. PICK s \in {"judge", "adapt", "count"} : pc' = [pc EXCEPT ![t] = s]
      BY <2>6 DEF TrimWindow, JudgeCalibration, At
    <3>2. UNCHANGED <<registry, local>>
      BY <2>6 DEF TrimWindow, JudgeCalibration
    <3> QED
      BY <2>2, <2>3, <3>1, <3>2 DEF Steps, Retraining
  <2>11. CASE AskKelly(t)
    <3>1. /\ UNCHANGED registry /\ pc' = [pc EXCEPT ![t] = "adapt"]
          /\ local' = [local EXCEPT ![t] = Nothing]
      BY <2>11 DEF AskKelly, At
    <3> QED
      BY <2>1, <2>2, <3>1 DEF Steps, Retraining
  <2>12. CASE ReadCalibration(t)
    <3>1. /\ UNCHANGED registry /\ pc' = [pc EXCEPT ![t] = "set"]
          /\ local' = [local EXCEPT ![t] = [local[t] EXCEPT !["degraded"] = Degraded(history)]]
      BY <2>12 DEF ReadCalibration, At, Hold
    <3>2. Degraded(history) \in BOOLEAN
      BY DEF Degraded
    <3>3. [local[t] EXCEPT !["degraded"] = Degraded(history)] \in Locals
      <4>1. PICK d \in BOOLEAN : d = Degraded(history)
        BY <3>2
      <4>2. [local[t] EXCEPT !["degraded"] = d] \in Locals
        BY <2>3 DEF Locals
      <4> QED
        BY <4>1, <4>2
    <3> QED
      BY <2>2, <3>1, <3>3 DEF Steps, Retraining
  <2>13. CASE AdaptKelly(t)
    <3>1. PICK s \in {"idle", "count"} : pc' = [pc EXCEPT ![t] = s]
      BY <2>13 DEF AdaptKelly, At
    <3>2. /\ UNCHANGED registry
          /\ local' = [local EXCEPT ![t] = [local[t] EXCEPT !["degraded"] = FALSE]]
      BY <2>13 DEF AdaptKelly, Hold
    <3>3. [local[t] EXCEPT !["degraded"] = FALSE] \in Locals
      BY <2>3 DEF Locals
    <3> QED
      BY <2>2, <3>1, <3>2, <3>3 DEF Steps, Retraining
  <2>14. CASE StartRollback(t)
    <3>1. /\ UNCHANGED versions /\ overlapped' = Overlaps(t)
          /\ pc' = [pc EXCEPT ![t] = "rollback"]
          /\ local' = [local EXCEPT ![t] = [Nothing EXCEPT !.champion = Champion]]
      BY <2>14 DEF StartRollback, At
    <3>2. /\ [Nothing EXCEPT !.champion = Champion] \in Locals
          /\ [Nothing EXCEPT !.champion = Champion].champion = Champion
      <4>1. PICK c \in Nat : c = Champion
        BY ChampionDefined DEF IInv
      <4>2. /\ [Nothing EXCEPT !.champion = c] \in Locals
            /\ [Nothing EXCEPT !.champion = c].champion = c
        BY DEF Nothing, Locals
      <4> QED
        BY <4>1, <4>2
    <3>3. /\ local' \in [Threads -> Locals] /\ local'[t].champion = Champion
          /\ \A u \in Threads \ {t} : local'[u] = local[u]
      BY <2>1, <3>1, <3>2
    <3> QED
      BY <3>1, <3>3, StartsToRetrain
  <2>7. CASE Count(t)
    <3>1. UNCHANGED <<versions, local>>
      BY <2>7 DEF Count
    <3>2. CASE processed' - lastTrained >= Interval
      <4>1. overlapped' = Overlaps(t) /\ pc' = [pc EXCEPT ![t] = "train"]
        BY <2>7, <3>2 DEF Count
      <4> QED
        BY <2>1, <3>1, <4>1, StartsToRetrain
    <3>3. CASE ~(processed' - lastTrained >= Interval)
      <4>1. UNCHANGED overlapped /\ pc' = [pc EXCEPT ![t] = "propose"]
        BY <2>7, <3>3 DEF Count
      <4> QED
        BY <2>2, <2>3, <3>1, <4>1 DEF Steps, Retraining, registry
    <3> QED
      BY <3>2, <3>3
  <2>8. CASE RunRetraining(t)
    <3>1. /\ UNCHANGED versions /\ overlapped' = Overlaps(t)
          /\ pc' = [pc EXCEPT ![t] = "train"] /\ local' = [local EXCEPT ![t] = Nothing]
      BY <2>8 DEF RunRetraining, At
    <3>2. /\ local' \in [Threads -> Locals]
          /\ \A u \in Threads \ {t} : local'[u] = local[u]
      BY <2>1, <3>1
    <3> QED
      BY <3>1, <3>2, StartsToRetrain
  <2>9. CASE TrainRefused(t)
    <3>1. UNCHANGED <<registry, local>> /\ pc' = [pc EXCEPT ![t] = AfterTraining(t)]
      BY <2>9 DEF TrainRefused, At
    <3>2. AfterTraining(t) \in Steps \ Retraining
      BY DEF AfterTraining, Steps, Retraining
    <3> QED
      BY <2>2, <2>3, <3>1, <3>2
  <2>10. CASE Propose(t)
    <3>1. /\ UNCHANGED registry /\ pc' = [pc EXCEPT ![t] = "idle"]
          /\ local' = [local EXCEPT ![t] = Nothing]
      BY <2>10 DEF Propose, At
    <3> QED
      BY <2>1, <2>2, <3>1 DEF Steps, Retraining
  <2> QED
    BY <1>3, <2>4, <2>5, <2>6, <2>7, <2>8, <2>9, <2>10, <2>11, <2>12, <2>13, <2>14,
       TrainStep, PickStep, CrownStep, RollbackStep DEF ThreadStep
<1>4. CASE Validate
  BY <1>1, <1>4 DEF Validate
<1>5. CASE Restart
  BY <1>5, StartStep DEF Restart
<1>6. CASE DieInExport
  BY <1>6, StartStep DEF DieInExport
<1> QED
  BY <1>2, <1>3, <1>4, <1>5, <1>6 DEF Next

\* Every champion was accepted and passed the gate, however the threads judge
\* each other's versions; and while no two threads retrain at once, there is one
\* champion: the last version that was accepted.
THEOREM ChampionsAreEarned == Spec => []ChampionsEarned
<1>1. IInv => ChampionsEarned
  BY DEF IInv, ChampionsEarned, Earned, LatestReigns, Champions, Accepted
<1> QED
  BY <1>1, Initially, Inductive, PTL DEF Spec

-----------------------------------------------------------------------------
(* The multiplier *)

LEMMA NoErrorsNotDegraded == ~Degraded(<<>>)
  BY DEF Degraded

\* KellyFollowsCalibration of Learning: a calibration that degrades has a thread
\* that will judge it and adapt the multiplier, and a reading that still holds
\* when the multiplier is set (LearningEngine.kelly_adapt) sets the right one.
THEOREM KellyFollows == Spec => []KellyFollowsCalibration
<1> DEFINE KInv == IInv /\ KellyFollowsCalibration
<1>1. Init => KInv
  BY Initially, NoErrorsNotDegraded DEF Init, KellyFollowsCalibration
<1>2. KInv /\ [Next]_vars => KInv'
  <2> SUFFICES ASSUME KInv, [Next]_vars PROVE KellyFollowsCalibration'
    BY Inductive
  <2>1. pc \in [Threads -> Steps]
    BY DEF IInv, Typed
  <2>2. ASSUME UNCHANGED quality,
               \A t \in Threads : pc[t] \in Adapting => pc'[t] \in Adapting
        PROVE  KellyFollowsCalibration'
    BY <2>2 DEF KellyFollowsCalibration, quality
  <2>3. CASE UNCHANGED vars
    BY <2>2, <2>3 DEF vars
  <2>4. ASSUME NEW t \in Threads, ThreadStep(t) PROVE KellyFollowsCalibration'
    <3>1. ASSUME pc'[t] \in Adapting PROVE KellyFollowsCalibration'
      BY <3>1 DEF KellyFollowsCalibration
    <3>2. ASSUME UNCHANGED quality, NEW s, pc[t] \notin Adapting, pc' = [pc EXCEPT ![t] = s]
          PROVE  KellyFollowsCalibration'
      BY <2>1, <2>2, <3>2
    <3>3. CASE NotePrediction(t)
      <4>1. CASE local[t].error = Absent
        BY <3>2, <3>3, <4>1 DEF NotePrediction, quality, Adapting
      <4>2. CASE local[t].error # Absent
        BY <2>1, <3>1, <3>3, <4>2 DEF NotePrediction, Adapting
      <4> QED
        BY <4>1, <4>2
    <3>4. CASE TrimWindow(t) \/ AskKelly(t) \/ ReadCalibration(t)
      BY <2>1, <3>1, <3>4 DEF TrimWindow, AskKelly, ReadCalibration, At, Adapting
    <3>5. CASE JudgeCalibration(t)
      <4>1. CASE Degraded(history)
        BY <2>1, <3>1, <3>5, <4>1 DEF JudgeCalibration, At, Adapting
      <4>2. CASE ~Degraded(history)
        BY <3>5, <4>2 DEF JudgeCalibration, KellyFollowsCalibration, quality, Degraded
      <4> QED
        BY <4>1, <4>2
    <3>6. CASE AdaptKelly(t)
      <4>1. /\ kelly' = KellyMultiplier(local[t].degraded)
            /\ stale' = (local[t].degraded # Degraded(history))
            /\ history' = history
        BY <3>6 DEF AdaptKelly
      <4>2. Degraded(history)' <=> Degraded(history)
        BY <4>1
      <4>3. KellyMultiplier(TRUE)' = KellyMultiplier(TRUE)
        OBVIOUS
      <4>4. local[t].degraded \in BOOLEAN /\ Degraded(history) \in BOOLEAN
        BY DEF IInv, Typed, Locals, Degraded
      <4>5. Degraded(history) /\ ~stale' => local[t].degraded = TRUE
        BY <4>1, <4>4
      <4> QED
        BY <4>1, <4>2, <4>3, <4>5 DEF KellyFollowsCalibration
    <3>7. CASE CloseTrade(t) \/ Count(t) \/ RunRetraining(t)
      BY <3>2, <3>7 DEF CloseTrade, Count, RunRetraining, At, Adapting
    <3>8. CASE TrainRefused(t) \/ Train(t) \/ PickChallenger(t)
      BY <3>2, <3>8 DEF TrainRefused, Train, PickChallenger, At, Adapting
    <3>9. CASE Crown(t) \/ Propose(t) \/ StartRollback(t) \/ Rollback(t)
      BY <3>2, <3>9 DEF Crown, Propose, StartRollback, Rollback, At, Adapting
    <3> QED
      BY <2>4, <3>3, <3>4, <3>5, <3>6, <3>7, <3>8, <3>9 DEF ThreadStep
  <2>5. CASE Validate
    BY <2>2, <2>5 DEF Validate
  <2>6. CASE Restart \/ DieInExport
    <3>1. history' = <<>>
      BY <2>6 DEF Restart, DieInExport, Start
    <3> QED
      BY <3>1, NoErrorsNotDegraded DEF KellyFollowsCalibration
  <2> QED
    BY <2>3, <2>4, <2>5, <2>6 DEF Next
<1>3. KInv => KellyFollowsCalibration
  OBVIOUS
<1> QED
  BY <1>1, <1>2, <1>3, PTL DEF Spec

-----------------------------------------------------------------------------
(* The failure log *)

\* The least of some naturals.
LEMMA First ==
  ASSUME NEW T \in SUBSET Nat, T # {}
  PROVE  \E m \in T : \A n \in T : m <= n
<1>1. PICK m \in T : \A n \in T : <<n, m>> \notin OpToRel(<, Nat)
  BY NatLessThanWellFounded, WFMin
<1>2. \A n \in T : ~(n < m)
  BY <1>1 DEF OpToRel
<1> QED
  BY <1>2

Records == [outcome : {"WIN", "LOSS", "BREAKEVEN"}, failed : BOOLEAN, named : BOOLEAN]
Flags   == {"failed", "named"}

\* The table of the items that have a flag among the first ones, up to m.
Sifts(m, kept, flag, table) ==
  /\ table \in [0..m -> Seq(Records)]
  /\ table[0] = <<>>
  /\ \A i \in 1..m : table[i] = IF kept[i][flag] THEN Append(table[i - 1], kept[i])
                                                 ELSE table[i - 1]

LEMMA SiftExists ==
  ASSUME NEW kept \in Seq(Records), NEW flag
  PROVE  \E table : Sifts(Len(kept), kept, flag, table)
<1> DEFINE N == Len(kept)
           T == {m \in 0..N : ~ \E table : Sifts(m, kept, flag, table)}
<1> SUFFICES ASSUME ~ \E table : Sifts(N, kept, flag, table) PROVE FALSE
  OBVIOUS
<1>1. N \in T /\ N \in Nat /\ T \in SUBSET Nat
  OBVIOUS
<1>2. PICK m \in T : \A n \in T : m <= n
  BY <1>1, First
<1>3. CASE m = 0
  <2>1. <<>> \in Seq(Records)
    OBVIOUS
  <2>2. Sifts(0, kept, flag, [i \in 0..0 |-> <<>>])
    BY <2>1 DEF Sifts
  <2> QED
    BY <2>2, <1>3
<1>4. CASE m # 0
  <2>1. m \in Nat /\ m \in 1..N /\ m - 1 \in 0..N /\ m - 1 \notin T
    BY <1>1, <1>2, <1>4
  <2>2. PICK table : Sifts(m - 1, kept, flag, table)
    BY <2>1
  <2> DEFINE last == IF kept[m][flag] THEN Append(table[m - 1], kept[m]) ELSE table[m - 1]
             longer == [i \in 0..m |-> IF i = m THEN last ELSE table[i]]
  <2>3. table \in [0..(m - 1) -> Seq(Records)] /\ table[0] = <<>>
    BY <2>2 DEF Sifts
  <2>4. kept[m] \in Records
    BY <2>1
  <2>5. table[m - 1] \in Seq(Records) /\ last \in Seq(Records)
    <3>1. m - 1 \in 0..(m - 1)
      BY <2>1
    <3>2. table[m - 1] \in Seq(Records)
      BY <2>3, <3>1
    <3> QED
      BY <2>4, <3>2
  <2> HIDE DEF last
  <2>6. longer \in [0..m -> Seq(Records)] /\ longer[0] = <<>>
    BY <2>1, <2>3, <2>5
  <2>7. ASSUME NEW i \in 1..m
        PROVE  longer[i] = IF kept[i][flag] THEN Append(longer[i - 1], kept[i])
                                             ELSE longer[i - 1]
    <3>1. CASE i = m
      BY <2>1, <3>1 DEF last
    <3>2. CASE i # m
      <4>1. i \in 1..(m - 1) /\ i - 1 \in 0..m /\ i - 1 # m /\ i \in 0..m
        BY <2>1, <3>2
      <4>2. longer[i] = table[i] /\ longer[i - 1] = table[i - 1]
        BY <3>2, <4>1
      <4> QED
        BY <2>2, <4>1, <4>2 DEF Sifts
    <3> QED
      BY <3>1, <3>2
  <2>8. Sifts(m, kept, flag, longer)
    BY <2>6, <2>7 DEF Sifts
  <2> QED
    BY <2>8, <1>2
<1> QED
  BY <1>3, <1>4

\* Sifted is the last entry of such a table.
LEMMA SiftedSifts ==
  ASSUME NEW kept \in Seq(Records), NEW flag
  PROVE  \E table : Sifts(Len(kept), kept, flag, table) /\ Sifted(kept, flag) = table[Len(kept)]
<1> DEFINE E(g) == [i \in 0..Len(kept) |->
                      IF i = 0 THEN <<>>
                      ELSE IF kept[i][flag] THEN Append(g[i - 1], kept[i]) ELSE g[i - 1]]
           F == CHOOSE g : g = E(g)
<1>1. PICK a : Sifts(Len(kept), kept, flag, a)
  BY SiftExists
<1>2. a = E(a)
  <2>1. ASSUME NEW i \in 0..Len(kept) PROVE a[i] = E(a)[i]
    <3>1. i = 0 \/ i \in 1..Len(kept)
      OBVIOUS
    <3>2. CASE i = 0
      BY <1>1, <3>2 DEF Sifts
    <3>3. CASE i \in 1..Len(kept)
      <4>1. i # 0
        BY <3>3
      <4>2. a[i] = IF kept[i][flag] THEN Append(a[i - 1], kept[i]) ELSE a[i - 1]
        BY <1>1, <3>3 DEF Sifts
      <4> QED
        BY <4>1, <4>2
    <3> QED
      BY <3>1, <3>2, <3>3
  <2>2. a = [i \in 0..Len(kept) |-> a[i]] /\ E(a) = [i \in 0..Len(kept) |-> E(a)[i]]
    BY <1>1 DEF Sifts
  <2> HIDE DEF E
  <2> QED
    BY <2>1, <2>2
<1> HIDE DEF E
<1>3. F = E(F)
  BY <1>2
<1>4. Sifted(kept, flag) = F[Len(kept)]
  BY DEF Sifted, E
<1> HIDE DEF F
<1>5. Len(kept) \in Nat
  OBVIOUS
<1>6. /\ F[0] = <<>> /\ DOMAIN F = 0..Len(kept) /\ F = [i \in 0..Len(kept) |-> F[i]]
      /\ \A i \in 1..Len(kept) :
           F[i] = IF kept[i][flag] THEN Append(F[i - 1], kept[i]) ELSE F[i - 1]
  <2>1. DOMAIN F = 0..Len(kept) /\ F = [i \in 0..Len(kept) |-> F[i]]
    BY <1>3 DEF E
  <2>2. F[0] = <<>>
    <3>1. E(F)[0] = <<>>
      BY <1>5 DEF E
    <3> QED
      BY <1>3, <3>1
  <2>3. ASSUME NEW i \in 1..Len(kept)
        PROVE  F[i] = IF kept[i][flag] THEN Append(F[i - 1], kept[i]) ELSE F[i - 1]
    <3>1. E(F)[i] = IF kept[i][flag] THEN Append(F[i - 1], kept[i]) ELSE F[i - 1]
      <4>1. i \in 0..Len(kept) /\ i # 0
        OBVIOUS
      <4> QED
        BY <4>1 DEF E
    <3> QED
      BY <1>3, <3>1
  <2> QED
    BY <2>1, <2>2, <2>3
<1> DEFINE T == {i \in 0..Len(kept) : F[i] # a[i]}
<1>7. T = {}
  <2> SUFFICES ASSUME T # {} PROVE FALSE
    OBVIOUS
  <2>1. PICK m \in T : \A n \in T : m <= n
    BY First, T \in SUBSET Nat
  <2>2. m # 0 /\ m \in Nat /\ m <= Len(kept)
    BY <1>1, <1>6, <2>1 DEF Sifts
  <2>3. m - 1 \in 0..Len(kept) /\ m - 1 \notin T /\ m \in 1..Len(kept)
    BY <1>5, <2>1, <2>2
  <2>4. F[m - 1] = a[m - 1]
    BY <2>3
  <2> QED
    BY <1>1, <1>6, <2>1, <2>3, <2>4 DEF Sifts
<1>8. Sifted(kept, flag) = a[Len(kept)]
  BY <1>4, <1>5, <1>7
<1> QED
  BY <1>1, <1>8

LEMMA SiftedTyped ==
  ASSUME NEW kept \in Seq(Records), NEW flag
  PROVE  Sifted(kept, flag) \in Seq(Records)
<1>1. PICK a : Sifts(Len(kept), kept, flag, a) /\ Sifted(kept, flag) = a[Len(kept)]
  BY SiftedSifts
<1> QED
  BY <1>1 DEF Sifts

\* One more item adds itself or nothing.
LEMMA SiftedAppend ==
  ASSUME NEW kept \in Seq(Records), NEW flag, NEW r \in Records
  PROVE  Sifted(Append(kept, r), flag) = IF r[flag] THEN Append(Sifted(kept, flag), r)
                                                ELSE Sifted(kept, flag)
<1> DEFINE longer == Append(kept, r)
           N == Len(kept)
<1>1. /\ longer \in Seq(Records) /\ Len(longer) = N + 1 /\ N \in Nat /\ longer[N + 1] = r
      /\ \A i \in 1..N : longer[i] = kept[i]
  OBVIOUS
<1>2. PICK a : Sifts(N, kept, flag, a) /\ Sifted(kept, flag) = a[N]
  BY SiftedSifts
<1>3. PICK b : Sifts(N + 1, longer, flag, b) /\ Sifted(longer, flag) = b[N + 1]
  BY <1>1, SiftedSifts
<1> HIDE DEF longer, N
<1> DEFINE T == {i \in 0..N : b[i] # a[i]}
<1>4. T = {}
  <2> SUFFICES ASSUME T # {} PROVE FALSE
    OBVIOUS
  <2>1. PICK m \in T : \A n \in T : m <= n
    BY First, T \in SUBSET Nat
  <2>2. m # 0 /\ m \in Nat /\ m <= N
    BY <1>2, <1>3, <2>1 DEF Sifts
  <2>3. m - 1 \in 0..N /\ m - 1 \notin T /\ m \in 1..N /\ m \in 1..(N + 1)
    BY <1>1, <2>1, <2>2
  <2>4. b[m - 1] = a[m - 1] /\ longer[m] = kept[m]
    BY <1>1, <2>3
  <2> QED
    BY <1>2, <1>3, <2>1, <2>3, <2>4 DEF Sifts
<1>5. b[N] = a[N]
  BY <1>1, <1>4
<1>6. b[N + 1] = IF longer[N + 1][flag] THEN Append(b[N], longer[N + 1]) ELSE b[N]
  <2>1. N + 1 \in 1..(N + 1) /\ (N + 1) - 1 = N
    BY <1>1
  <2> QED
    BY <1>3, <2>1 DEF Sifts
<1> QED
  BY <1>1, <1>2, <1>3, <1>5, <1>6 DEF longer

\* All that is sifted has the flag, and every other flag that all items had.
LEMMA SiftedHas ==
  ASSUME NEW kept \in Seq(Records), NEW flag, NEW other,
         other = flag \/ \A j \in 1..Len(kept) : kept[j][other]
  PROVE  \A j \in 1..Len(Sifted(kept, flag)) : Sifted(kept, flag)[j][other]
<1> DEFINE N == Len(kept)
           Bad(s) == \E j \in 1..Len(s) : ~s[j][other]
<1>1. PICK a : Sifts(N, kept, flag, a) /\ Sifted(kept, flag) = a[N]
  BY SiftedSifts
<1> DEFINE T == {i \in 0..N : Bad(a[i])}
<1>2. T = {}
  <2> SUFFICES ASSUME T # {} PROVE FALSE
    OBVIOUS
  <2>1. PICK m \in T : \A n \in T : m <= n
    BY First, T \in SUBSET Nat
  <2>2. m # 0 /\ m \in Nat /\ m <= N /\ N \in Nat
    <3>1. ~Bad(a[0])
      BY <1>1 DEF Sifts
    <3> QED
      BY <2>1, <3>1
  <2>3. m - 1 \in 0..N /\ m - 1 \notin T /\ m \in 1..N
    BY <2>1, <2>2
  <2>4. a[m - 1] \in Seq(Records) /\ kept[m] \in Records
    BY <1>1, <2>3 DEF Sifts
  <2>5. a[m] = IF kept[m][flag] THEN Append(a[m - 1], kept[m]) ELSE a[m - 1]
    BY <1>1, <2>3 DEF Sifts
  <2>6. ~Bad(a[m - 1]) /\ Bad(a[m])
    BY <2>1, <2>3
  <2> DEFINE old == a[m - 1]
             r == kept[m]
  <2>7. CASE r[flag]
    <3>1. a[m] = Append(old, r) /\ Len(old) \in Nat
      BY <2>4, <2>5, <2>7
    <3>2. PICK j \in 1..Len(a[m]) : ~a[m][j][other]
      BY <2>6
    <3> HIDE DEF old, r
    <3>3. old \in Seq(Records)
      BY <2>4 DEF old
    <3>4. j \in 1..(Len(old) + 1) /\ ~Append(old, r)[j][other]
      BY <3>1, <3>2, <3>3
    <3>5. j # Len(old) + 1
      <4>1. Append(old, r)[Len(old) + 1] = r
        BY <3>3
      <4>2. r[other]
        BY <2>3, <2>7 DEF r
      <4> QED
        BY <3>4, <4>1, <4>2
    <3>6. j \in 1..Len(old) /\ Append(old, r)[j] = old[j]
      BY <3>1, <3>3, <3>4, <3>5
    <3>7. ~Bad(old)
      BY <2>6 DEF old
    <3> QED
      BY <3>4, <3>6, <3>7
  <2>8. CASE ~r[flag]
    BY <2>5, <2>6, <2>8
  <2> QED
    BY <2>7, <2>8
<1> QED
  BY <1>1, <1>2

\* A list whose items all have the flag is left as it is.
LEMMA SiftedIdentity ==
  ASSUME NEW kept \in Seq(Records), NEW flag, \A j \in 1..Len(kept) : kept[j][flag]
  PROVE  Sifted(kept, flag) = kept
<1> DEFINE N == Len(kept)
<1>1. PICK a : Sifts(N, kept, flag, a) /\ Sifted(kept, flag) = a[N]
  BY SiftedSifts
<1> DEFINE T == {i \in 0..N : a[i] # SubSeq(kept, 1, i)}
<1>2. T = {}
  <2> SUFFICES ASSUME T # {} PROVE FALSE
    OBVIOUS
  <2>1. PICK m \in T : \A n \in T : m <= n
    BY First, T \in SUBSET Nat
  <2>2. m # 0 /\ m \in Nat /\ m <= N /\ N \in Nat
    <3>1. a[0] = <<>>
      BY <1>1 DEF Sifts
    <3>2. SubSeq(kept, 1, 0) = <<>>
      OBVIOUS
    <3>3. 0 \notin T
      BY <3>1, <3>2
    <3>4. m \in 0..N /\ N \in Nat
      BY <2>1
    <3> HIDE DEF T, N
    <3> QED
      BY <2>1, <3>3, <3>4
  <2>3. m - 1 \in 0..N /\ m - 1 \notin T /\ m \in 1..N
    BY <2>1, <2>2
  <2>4. a[m - 1] = SubSeq(kept, 1, m - 1)
    BY <2>3
  <2>5. a[m] = Append(a[m - 1], kept[m])
    BY <1>1, <2>3 DEF Sifts
  <2>6. Append(SubSeq(kept, 1, m - 1), kept[m]) = SubSeq(kept, 1, m)
    BY <2>3
  <2> QED
    BY <2>1, <2>4, <2>5, <2>6
<1>3. a[N] = SubSeq(kept, 1, N) /\ SubSeq(kept, 1, N) = kept
  BY <1>2
<1> QED
  BY <1>1, <1>3

\* Prefixes.
LEMMA PrefixReflexive ==
  ASSUME NEW s \in Seq(Records)
  PROVE  IsPrefix(s, s)
BY DEF IsPrefix

LEMMA PrefixAppend ==
  ASSUME NEW s \in Seq(Records), NEW u \in Seq(Records), NEW r \in Records, IsPrefix(s, u)
  PROVE  IsPrefix(s, Append(u, r))
<1>1. Len(s) <= Len(u) /\ \A i \in 1..Len(s) : s[i] = u[i]
  BY DEF IsPrefix
<1>2. /\ Len(Append(u, r)) = Len(u) + 1
      /\ \A i \in 1..Len(u) : Append(u, r)[i] = u[i]
  OBVIOUS
<1>3. Append(u, r) \in Seq(Records) /\ Len(s) \in Nat /\ Len(u) \in Nat
  OBVIOUS
<1>4. Len(s) <= Len(Append(u, r)) /\ \A i \in 1..Len(s) : s[i] = Append(u, r)[i]
  BY <1>1, <1>2, <1>3
<1> QED
  BY <1>3, <1>4 DEF IsPrefix

\* The log holds failures only; it holds none of a file that is torn; and what is
\* read back of it has its place in what the next export will bring back.
LogInv ==
  /\ records \in Seq(Records)
  /\ log \in Seq(Records)
  /\ torn \in BOOLEAN /\ (torn => log = <<>>)
  /\ \A j \in 1..Len(log) : log[j].failed
  /\ IsPrefix(Loaded(log), Loaded(Failing(records)))

LEMMA NothingLoaded == Loaded(<<>>) = <<>> /\ Failing(<<>>) = <<>>
<1>1. <<>> \in Seq(Records) /\ \A flag : \A j \in 1..Len(<<>>) : <<>>[j][flag]
  OBVIOUS
<1> QED
  BY <1>1, SiftedIdentity DEF Loaded, Failing

LEMMA ListsTyped ==
  ASSUME NEW kept \in Seq(Records)
  PROVE  /\ Failing(kept) \in Seq(Records) /\ Loaded(kept) \in Seq(Records)
         /\ \A j \in 1..Len(Failing(kept)) : Failing(kept)[j].failed
<1>1. \A j \in 1..Len(Sifted(kept, "failed")) : Sifted(kept, "failed")[j]["failed"]
  BY SiftedHas
<1> QED
  BY <1>1, SiftedTyped DEF Failing, Loaded

\* What was read back is written and read back again as it is.
LEMMA LoadedAgain ==
  ASSUME NEW list \in Seq(Records), \A j \in 1..Len(list) : list[j].failed
  PROVE  Failing(Loaded(list)) = Loaded(list) /\ Loaded(Loaded(list)) = Loaded(list)
<1> DEFINE back == Sifted(list, "named")
<1>1. back \in Seq(Records)
  BY SiftedTyped
<1>2. \A j \in 1..Len(back) : back[j]["failed"]
  <2>1. \A j \in 1..Len(list) : list[j]["failed"]
    OBVIOUS
  <2> QED
    BY <2>1, SiftedHas
<1>3. \A j \in 1..Len(back) : back[j]["named"]
  BY SiftedHas
<1> HIDE DEF back
<1>4. Sifted(back, "failed") = back /\ Sifted(back, "named") = back
  BY <1>1, <1>2, <1>3, SiftedIdentity
<1> QED
  BY <1>4 DEF Failing, Loaded, back

\* One more trade leaves the failures in their places.
LEMMA OneMoreTrade ==
  ASSUME NEW kept \in Seq(Records), NEW r \in Records, NEW list \in Seq(Records),
         IsPrefix(list, Loaded(Failing(kept)))
  PROVE  IsPrefix(list, Loaded(Failing(Append(kept, r))))
<1> DEFINE f == Failing(kept)
           back == Loaded(f)
<1>1. f \in Seq(Records) /\ back \in Seq(Records)
  BY ListsTyped
<1>2. Failing(Append(kept, r)) = IF r["failed"] THEN Append(f, r) ELSE f
  BY SiftedAppend DEF Failing
<1>3. Loaded(Append(f, r)) = IF r["named"] THEN Append(back, r) ELSE back
  BY <1>1, SiftedAppend DEF Loaded
<1>4. IsPrefix(list, Append(back, r))
  BY <1>1, PrefixAppend
<1> QED
  BY <1>2, <1>3, <1>4

LEMMA ClosedTradeIsRecord ==
  ASSUME NEW c \in Closings
  PROVE  [outcome |-> c.outcome, failed |-> c.failed, named |-> c.named] \in Records
<1>1. c \in [outcome : {"WIN", "LOSS", "BREAKEVEN"}, failed : BOOLEAN, named : BOOLEAN,
             error : 0..100 \cup {Absent}]
  BY ClosingsAssumption
<1>2. c.outcome \in {"WIN", "LOSS", "BREAKEVEN"} /\ c.failed \in BOOLEAN /\ c.named \in BOOLEAN
  BY <1>1
<1> QED
  BY <1>2 DEF Records

LEMMA CloseKeepsLog ==
  ASSUME LogInv, NEW t \in Threads, CloseTrade(t)
  PROVE  LogInv' /\ IsPrefix(OnRecord, OnRecord')
<1> DEFINE now == Loaded(Failing(records))
           next == Loaded(Failing(records'))
<1>1. PICK r \in Records : records' = Append(records, r)
  BY ClosedTradeIsRecord DEF CloseTrade
<1>2. /\ records \in Seq(Records) /\ records' \in Seq(Records) /\ log \in Seq(Records)
      /\ \A j \in 1..Len(log) : log[j].failed
      /\ IsPrefix(Loaded(log), now)
      /\ torn => log = <<>>
  BY <1>1 DEF LogInv
<1>3. /\ now \in Seq(Records) /\ next \in Seq(Records) /\ Loaded(log) \in Seq(Records)
      /\ Failing(records') \in Seq(Records)
      /\ \A j \in 1..Len(Failing(records')) : Failing(records')[j].failed
  BY <1>2, ListsTyped
<1>4. IsPrefix(now, next) /\ IsPrefix(Loaded(log), next)
  BY <1>1, <1>2, <1>3, OneMoreTrade, PrefixReflexive
<1>5. IsPrefix(Loaded(log), Loaded(log)) /\ IsPrefix(next, next) /\ IsPrefix(<<>>, next)
  BY <1>3, PrefixReflexive, <<>> \in Seq(Records) DEF IsPrefix
<1>6. OnRecord = IF torn THEN now ELSE Loaded(log)
  BY DEF OnRecord
<1>7. OnRecord' = IF torn' THEN next ELSE Loaded(log')
  BY DEF OnRecord
<1>8. LogInv' <=> /\ records' \in Seq(Records) /\ log' \in Seq(Records)
                  /\ torn' \in BOOLEAN /\ (torn' => log' = <<>>)
                  /\ \A j \in 1..Len(log') : (log')[j].failed
                  /\ IsPrefix(Loaded(log'), next)
  BY DEF LogInv
<1> HIDE DEF now, next
<1>9. CASE log' = Failing(records') /\ torn' = FALSE
  <2>1. Loaded(log') = next
    BY <1>9 DEF next
  <2>2. LogInv'
    BY <1>2, <1>3, <1>5, <1>8, <1>9, <2>1
  <2> QED
    BY <1>4, <1>6, <1>7, <1>9, <2>1, <2>2
<1>10. CASE UNCHANGED <<log, torn>>
  <2>1. LogInv'
    BY <1>2, <1>4, <1>8, <1>10 DEF LogInv
  <2> QED
    BY <1>4, <1>5, <1>6, <1>7, <1>10, <2>1
<1>11. CASE log' = <<>> /\ torn' = TRUE
  <2>1. LogInv'
    BY <1>2, <1>5, <1>8, <1>11, NothingLoaded
  <2> QED
    BY <1>4, <1>6, <1>7, <1>11, <2>1
<1> QED
  BY <1>9, <1>10, <1>11 DEF CloseTrade

LEMMA StartKeepsLog ==
  ASSUME LogInv, Restart \/ DieInExport
  PROVE  LogInv' /\ (IsPrefix(OnRecord, OnRecord') \/ (torn' /\ records' = <<>>))
<1>1. records' = Loaded(log') /\ (UNCHANGED <<log, torn>> \/ (log' = <<>> /\ torn' = TRUE))
  <2>1. ASSUME Start PROVE records' = Loaded(log')
    BY <2>1 DEF Start
  <2>2. CASE Restart
    BY <2>1, <2>2 DEF Restart
  <2>3. CASE DieInExport
    BY <2>1, <2>3 DEF DieInExport
  <2> QED
    BY <2>2, <2>3
<1>2. /\ log \in Seq(Records) /\ torn \in BOOLEAN /\ (torn => log = <<>>)
      /\ \A j \in 1..Len(log) : log[j].failed
  BY DEF LogInv
<1>3. /\ log' \in Seq(Records) /\ torn' \in BOOLEAN /\ (torn' => log' = <<>>)
      /\ \A j \in 1..Len(log') : (log')[j].failed
  <2>1. CASE UNCHANGED <<log, torn>>
    BY <1>2, <2>1
  <2>2. CASE log' = <<>> /\ torn' = TRUE
    BY <2>2
  <2> QED
    BY <1>1, <2>1, <2>2
<1>4. Loaded(log') \in Seq(Records)
  BY <1>3, ListsTyped
<1>5. Loaded(Failing(records')) = Loaded(log')
  BY <1>1, <1>3, LoadedAgain
<1>6. IsPrefix(Loaded(log'), Loaded(log'))
  BY <1>4, PrefixReflexive
<1>7. LogInv' <=> /\ records' \in Seq(Records) /\ log' \in Seq(Records)
                  /\ torn' \in BOOLEAN /\ (torn' => log' = <<>>)
                  /\ \A j \in 1..Len(log') : (log')[j].failed
                  /\ IsPrefix(Loaded(log'), Loaded(Failing(records')))
  BY DEF LogInv
<1>8. LogInv'
  BY <1>1, <1>3, <1>4, <1>5, <1>6, <1>7
<1>9. CASE torn'
  BY <1>1, <1>3, <1>8, <1>9, NothingLoaded
<1>10. CASE ~torn'
  <2>1. log' = log /\ torn' = torn
    BY <1>1, <1>10
  <2>2. OnRecord' = OnRecord /\ OnRecord = Loaded(log')
    BY <1>10, <2>1 DEF OnRecord
  <2> QED
    BY <1>6, <1>8, <2>2
<1> QED
  BY <1>3, <1>9, <1>10

\* FailureLogKept of Learning: every trade rewrites the whole log
\* (LearningMemory.add), and yet a failure that is in it and has a trade_id stays,
\* at its place, whichever exports fail, before or while they write, and however
\* often the process restarts. Only a process that starts on a torn file has
\* lost them.
THEOREM FailuresAreKept == Spec => FailureLogKept
<1>1. Init => LogInv
  <2> SUFFICES ASSUME Init PROVE LogInv
    OBVIOUS
  <2>1. <<>> \in Seq(Records) /\ \A j \in 1..Len(<<>>) : <<>>[j].failed
    OBVIOUS
  <2>2. IsPrefix(<<>>, <<>>)
    BY <2>1, PrefixReflexive
  <2> QED
    BY <2>1, <2>2, NothingLoaded DEF Init, LogInv
<1>2. ASSUME LogInv, [Next]_vars
      PROVE  LogInv' /\ (IsPrefix(OnRecord, OnRecord') \/ (torn' /\ records' = <<>>))
  <2>1. CASE UNCHANGED memory
    <3>1. LogInv' /\ OnRecord' = OnRecord
      BY <1>2, <2>1 DEF LogInv, memory, OnRecord
    <3>2. OnRecord \in Seq(Records)
      <4>1. log \in Seq(Records) /\ Failing(records) \in Seq(Records)
        BY <1>2, ListsTyped DEF LogInv
      <4> QED
        BY <4>1, ListsTyped DEF OnRecord
    <3> QED
      BY <3>1, <3>2, PrefixReflexive
  <2>2. ASSUME Next PROVE \/ UNCHANGED memory \/ Restart \/ DieInExport
                          \/ \E t \in Threads : CloseTrade(t)
    <3>1. ASSUME NEW t \in Threads, ThreadStep(t), ~CloseTrade(t) PROVE UNCHANGED memory
      BY <3>1 DEF ThreadStep, NotePrediction, TrimWindow, JudgeCalibration, AskKelly,
                  ReadCalibration, AdaptKelly, Count, RunRetraining, TrainRefused, Train,
                  PickChallenger, Crown, Propose, StartRollback, Rollback
    <3>2. ASSUME Validate PROVE UNCHANGED memory
      BY <3>2 DEF Validate
    <3> QED
      BY <2>2, <3>1, <3>2 DEF Next
  <2>3. CASE UNCHANGED vars
    BY <2>1, <2>3 DEF vars
  <2> QED
    BY <1>2, <2>1, <2>2, <2>3, CloseKeepsLog, StartKeepsLog
<1> QED
  BY <1>1, <1>2, PTL DEF Spec, FailureLogKept

-----------------------------------------------------------------------------
(* The labels of a replay *)

Fields == {"cash", "peak", "trades", "side", "qty", "entry", "stop", "target", "trail",
           "breakeven", "partial", "records", "opened", "refused", "curve"}

IsBook(b) == DOMAIN b = Fields /\ b = [f \in Fields |-> b[f]]

\* What the labels depend on is the same in both books.
SameTrades(b, c) ==
  IsBook(c) /\ c.side = b.side /\ c.records = b.records /\ c.opened = b.opened

LEMMA OneField ==
  ASSUME NEW b, IsBook(b), NEW x,
         NEW f \in Fields \ {"side", "records", "opened"}
  PROVE  SameTrades(b, [b EXCEPT ![f] = x])
  BY DEF IsBook, SameTrades, Fields

LEMMA SnapshotSame ==
  ASSUME NEW b, IsBook(b), NEW price
  PROVE  SameTrades(b, Snapshot(b, price))
  BY OneField DEF Snapshot, Fields

LEMMA BreakevenSame ==
  ASSUME NEW b, IsBook(b), NEW price
  PROVE  SameTrades(b, Breakeven(b, price))
  BY OneField DEF Breakeven, Fields, SameTrades

LEMMA TrailedSame ==
  ASSUME NEW b, IsBook(b), NEW price
  PROVE  SameTrades(b, Trailed(b, price))
  BY OneField DEF Trailed, Fields, SameTrades

LEMMA PartialSame ==
  ASSUME NEW b, IsBook(b), NEW price, NEW at
  PROVE  SameTrades(b, Partial(b, price, at))
  BY DEF Partial, Fields, SameTrades, IsBook

IsSequence(q) == \E S : q \in Seq(S)

LEMMA LongerSequence ==
  ASSUME NEW q, IsSequence(q), NEW x
  PROVE  /\ IsSequence(Append(q, x)) /\ Len(q) \in Nat
         /\ Len(Append(q, x)) = Len(q) + 1 /\ Append(q, x)[Len(q) + 1] = x
         /\ \A i \in 1 .. Len(q) : Append(q, x)[i] = q[i]
<1>1. PICK S : q \in Seq(S)
  BY DEF IsSequence
<1> DEFINE T == S \cup {x}
<1>2. q \in Seq(T) /\ x \in T
  BY <1>1
<1> HIDE DEF T
<1>3. Append(q, x) \in Seq(T)
  BY <1>2
<1>4. /\ Len(q) \in Nat /\ Len(Append(q, x)) = Len(q) + 1 /\ Append(q, x)[Len(q) + 1] = x
      /\ \A i \in 1 .. Len(q) : Append(q, x)[i] = q[i]
  BY <1>2
<1> QED
  BY <1>3, <1>4 DEF IsSequence

\* The i-th record closed the i-th position that was opened; one more was opened while
\* one is held, and it has its side.
Labelled(b) ==
  /\ IsBook(b) /\ IsSequence(b.records) /\ IsSequence(b.opened)
  /\ Len(b.opened) = Len(b.records) + (IF b.side = "FLAT" THEN 0 ELSE 1)
  /\ b.side # "FLAT" => b.opened[Len(b.opened)] = b.side
  /\ \A i \in 1 .. Len(b.records) : b.records[i].side = b.opened[i]

LEMMA LabelledBook ==
  ASSUME NEW b, Labelled(b)
  PROVE  IsBook(b) /\ IsSequence(b.records) /\ IsSequence(b.opened)
  BY DEF Labelled

LEMMA SameLabelled ==
  ASSUME NEW b, Labelled(b), NEW c, SameTrades(b, c)
  PROVE  Labelled(c)
  BY DEF Labelled, SameTrades

LEMMA ExitFields ==
  ASSUME NEW b, IsBook(b), NEW price
  PROVE  LET c == Exit(b, price)
         IN  /\ IsBook(c) /\ c.side = "FLAT" /\ c.opened = b.opened
             /\ \E pnl : c.records = Append(b.records, [side |-> b.side, pnl |-> pnl])
<1> DEFINE pnl    == Gain(b, b.qty, price) - Fee(Value(b.qty, price))
           closed == Append(b.records, [side |-> b.side, pnl |-> pnl])
           c      == Exit(b, price)
<1>1. IsBook(c) /\ c.side = "FLAT" /\ c.opened = b.opened /\ c.records = closed
  BY DEF Exit, IsBook, Fields
<1> QED
  BY <1>1

LEMMA ExitLabelled ==
  ASSUME NEW b, Labelled(b), b.side # "FLAT", NEW price
  PROVE  Labelled(Exit(b, price))
<1> DEFINE c == Exit(b, price)
<1>1. IsBook(c) /\ c.side = "FLAT" /\ c.opened = b.opened
  BY ExitFields DEF Labelled
<1>2. PICK pnl : c.records = Append(b.records, [side |-> b.side, pnl |-> pnl])
  BY ExitFields DEF Labelled
<1> HIDE DEF c
<1> DEFINE n == Len(b.records)
           r == [side |-> b.side, pnl |-> pnl]
<1>3. /\ IsSequence(c.records) /\ n \in Nat /\ Len(c.records) = n + 1 /\ c.records[n + 1] = r
      /\ \A i \in 1 .. n : c.records[i] = b.records[i]
  BY <1>2, LongerSequence DEF Labelled
<1>4. /\ Len(b.opened) = n + 1 /\ b.opened[n + 1] = b.side /\ IsSequence(b.opened)
      /\ \A i \in 1 .. n : b.records[i].side = b.opened[i]
  BY DEF Labelled
<1>5. r.side = b.side
  OBVIOUS
<1> HIDE DEF n, r
<1>6. \A i \in 1 .. n + 1 : c.records[i].side = c.opened[i]
  BY <1>1, <1>3, <1>4, <1>5
<1> QED
  BY <1>1, <1>3, <1>4, <1>6 DEF Labelled, c

LEMMA TickLabelled ==
  ASSUME NEW b, Labelled(b), NEW price
  PROVE  Labelled(Tick(b, price))
<1>1. CASE b.side = "FLAT"
  BY <1>1 DEF Tick
<1>2. CASE b.side # "FLAT"
  <2> DEFINE even == Breakeven(b, price)
             kept == Partial(even, price, AtOneR(b, price))
  <2>1. SameTrades(b, even)
    BY BreakevenSame DEF Labelled
  <2>2. Labelled(even) /\ even.side = b.side
    BY <2>1, SameLabelled DEF SameTrades
  <2> HIDE DEF even
  <2>3. SameTrades(even, kept)
    BY <2>2, PartialSame DEF Labelled
  <2>4. Labelled(kept) /\ kept.side # "FLAT"
    BY <1>2, <2>2, <2>3, SameLabelled DEF SameTrades
  <2> HIDE DEF kept
  <2>5. Labelled(Exit(kept, price))
    BY <2>4, ExitLabelled
  <2>6. Labelled(Trailed(kept, price))
    <3>1. IsBook(kept)
      BY <2>4, LabelledBook
    <3>2. SameTrades(kept, Trailed(kept, price))
      BY <3>1, TrailedSame
    <3> QED
      BY <2>4, <3>2, SameLabelled
  <2>7. Tick(b, price) \in {Exit(kept, price), Trailed(kept, price)}
    BY <1>2 DEF Tick, kept, even
  <2> QED
    BY <2>5, <2>6, <2>7
<1> QED
  BY <1>1, <1>2

LEMMA OpenFields ==
  ASSUME NEW b, IsBook(b), NEW strategy, NEW signal, NEW candle
  PROVE  LET c == Open(b, strategy, signal, candle)
         IN  /\ IsBook(c) /\ c.side = signal.side /\ c.records = b.records
             /\ c.opened = Append(b.opened, signal.side)
<1> DEFINE c == Open(b, strategy, signal, candle)
<1> DEFINE qty    == PlanQuantity(signal)
           entry  == Ahead(signal.side, signal.entry, (signal.entry * SlipBps) \div 10000)
           cash   == (IF signal.side = "LONG" THEN b.cash - Value(qty, entry)
                                              ELSE b.cash + Value(qty, entry))
                       - Fee(Value(qty, entry))
           range  == candle.high - candle.low
           trail  == IF strategy = "momentum_breakout"
                     THEN 2 * (IF range = 0 THEN Part(candle.close, 10) ELSE range)
                     ELSE b.trail
           flag   == strategy = "po3_vwap"
           stop   == signal.stop
           target == signal.target
           side   == signal.side
           trades == b.trades + 1
           opened == Append(b.opened, side)
<1>2. c = [b EXCEPT !.cash = cash, !.side = side, !.qty = qty, !.entry = entry,
                    !.stop = stop, !.target = target, !.trades = trades,
                    !.trail = trail, !.breakeven = flag, !.partial = flag,
                    !.opened = opened]
  BY DEF Open
<1> HIDE DEF c, cash, qty, entry, trail, flag, stop, target, side, trades, opened
<1>3. IsBook(c) /\ c.side = side /\ c.records = b.records /\ c.opened = opened
  BY <1>2 DEF IsBook, Fields
<1> QED
  BY <1>3 DEF c, opened, side

LEMMA DecideLabelled ==
  ASSUME NEW b, Labelled(b), NEW strategy, NEW candles, NEW at
  PROVE  Labelled(Decide(b, strategy, candles, at))
<1> DEFINE signal  == SignalForStrategy(strategy, candles, at)
           refused == Refusals(signal, b)
           c       == Open(b, strategy, signal, candles[at])
<1>1. Decide(b, strategy, candles, at) =
        IF signal.side = "FLAT" \/ b.side # "FLAT" THEN b
        ELSE IF refused # {} THEN [b EXCEPT !.refused = refused] ELSE c
  BY DEF Decide
<1> HIDE DEF signal, refused
<1>2. Labelled([b EXCEPT !.refused = refused])
  <2>1. SameTrades(b, [b EXCEPT !["refused"] = refused])
    BY OneField DEF Labelled, Fields
  <2> QED
    BY <2>1, SameLabelled
<1>3. ASSUME signal.side # "FLAT", b.side = "FLAT"
      PROVE  Labelled(c)
  <2>1. /\ IsBook(c) /\ c.side = signal.side /\ c.records = b.records
        /\ c.opened = Append(b.opened, signal.side)
    BY OpenFields DEF Labelled
  <2> HIDE DEF c
  <2>2. /\ IsSequence(c.opened) /\ Len(b.opened) \in Nat /\ Len(c.opened) = Len(b.opened) + 1
        /\ c.opened[Len(b.opened) + 1] = signal.side
        /\ \A i \in 1 .. Len(b.opened) : c.opened[i] = b.opened[i]
    <3>1. IsSequence(b.opened)
      BY LabelledBook
    <3> QED
      BY <2>1, <3>1, LongerSequence
  <2>3. /\ Len(b.opened) = Len(b.records) /\ IsSequence(b.records)
        /\ \A i \in 1 .. Len(b.records) : b.records[i].side = b.opened[i]
    BY <1>3, <2>2, LongerSequence DEF Labelled
  <2> QED
    BY <1>3, <2>1, <2>2, <2>3 DEF Labelled
<1> HIDE DEF c
<1> QED
  BY <1>1, <1>2, <1>3

LEMMA BarLabelled ==
  ASSUME NEW b, Labelled(b), NEW strategy, NEW candles, NEW at
  PROVE  Labelled(AfterBar(b, strategy, candles, at))
<1> DEFINE c       == candles[at]
           ticked  == Tick(Tick(Tick(Tick(b, c.open), c.high), c.low), c.close)
           managed == Snapshot(ticked, c.close)
           decided == IF at <= Warmup THEN managed
                      ELSE Decide(managed, strategy, candles, at)
           looked  == Snapshot(decided, c.close)
           curve   == Append(looked.curve, Equity(decided, c.close))
<1>1. Labelled(ticked)
  BY TickLabelled
<1> HIDE DEF ticked
<1>2. Labelled(managed)
  <2>1. IsBook(ticked)
    BY <1>1, LabelledBook
  <2>2. SameTrades(ticked, managed)
    BY <2>1, SnapshotSame DEF managed
  <2> HIDE DEF managed
  <2> QED
    BY <1>1, <2>2, SameLabelled
<1> HIDE DEF managed
<1>3. Labelled(decided)
  BY <1>2, DecideLabelled
<1> HIDE DEF decided
<1>4. Labelled(looked)
  <2>1. IsBook(decided)
    BY <1>3, LabelledBook
  <2>2. SameTrades(decided, looked)
    BY <2>1, SnapshotSame DEF looked
  <2> HIDE DEF looked
  <2> QED
    BY <1>3, <2>2, SameLabelled
<1> HIDE DEF looked, curve
<1>5. SameTrades(looked, [looked EXCEPT !["curve"] = curve])
  BY <1>4, OneField DEF Labelled, Fields
<1>6. Labelled([looked EXCEPT !.curve = curve])
  BY <1>4, <1>5, SameLabelled
<1>7. AfterBar(b, strategy, candles, at) = [looked EXCEPT !.curve = curve]
  BY DEF AfterBar, looked, curve, decided, managed, ticked
<1> QED
  BY <1>6, <1>7

\* Every closed trade of a replay has the side of the position that was opened for it,
\* in the order they were opened, whatever partial exits, trailing stops and breakeven
\* moves came between (BacktestEngine.run, PaperExchange._record_trade_close).
THEOREM LabelsFollowSides == SpecReplay => []LabelsMatchSides
<1> DEFINE LInv == /\ books = [s \in Strategies |-> books[s]]
                   /\ \A s \in Strategies : Labelled(books[s])
<1>1. InitReplay => LInv
  <2>1. Labelled(NewBook)
    <3>1. IsSequence(<< >>) /\ Len(<< >>) = 0
      BY DEF IsSequence
    <3>2. /\ IsBook(NewBook) /\ NewBook.side = "FLAT"
          /\ NewBook.records = << >> /\ NewBook.opened = << >>
      BY DEF NewBook, IsBook, Fields
    <3> QED
      BY <3>1, <3>2 DEF Labelled
  <2> QED
    BY <2>1 DEF InitReplay
<1>2. LInv /\ [NextReplay]_replayVars => LInv'
  <2> SUFFICES ASSUME LInv, [NextReplay]_replayVars PROVE LInv'
    OBVIOUS
  <2>1. CASE UNCHANGED replayVars
    BY <2>1 DEF replayVars
  <2>2. ASSUME NEW shape \in Shapes, NEW gap \in Gaps, Replay(shape, gap)
        PROVE  LInv'
    <3>1. books' = [s \in Strategies |-> AfterBar(books[s], s, series', index')]
      BY <2>2 DEF Replay
    <3> QED
      BY <3>1, BarLabelled
  <2> QED
    BY <2>1, <2>2 DEF NextReplay
<1>3. LInv => LabelsMatchSides
  <2> SUFFICES ASSUME LInv, NEW s \in Strategies
               PROVE  \A i \in DOMAIN books[s].records :
                        /\ i \in DOMAIN books[s].opened
                        /\ books[s].records[i].side = books[s].opened[i]
    BY DEF LabelsMatchSides
  <2> DEFINE b == books[s]
  <2>1. Labelled(b)
    OBVIOUS
  <2> HIDE DEF b
  <2>2. /\ DOMAIN b.records = 1 .. Len(b.records) /\ DOMAIN b.opened = 1 .. Len(b.opened)
        /\ Len(b.records) \in Nat
    <3>1. PICK S, T : b.records \in Seq(S) /\ b.opened \in Seq(T)
      BY <2>1, LabelledBook DEF IsSequence
    <3> QED
      BY <3>1
  <2>3. \A i \in DOMAIN b.records : i \in DOMAIN b.opened /\ b.records[i].side = b.opened[i]
    <3>1. /\ Len(b.opened) = Len(b.records) + (IF b.side = "FLAT" THEN 0 ELSE 1)
          /\ \A i \in 1 .. Len(b.records) : b.records[i].side = b.opened[i]
      BY <2>1 DEF Labelled
    <3>2. Len(b.opened) \in {Len(b.records), Len(b.records) + 1}
      <4>1. CASE b.side = "FLAT"
        BY <2>2, <3>1, <4>1
      <4>2. CASE b.side # "FLAT"
        BY <2>2, <3>1, <4>2
      <4> QED
        BY <4>1, <4>2
    <3>3. \A i \in 1 .. Len(b.records) : i \in 1 .. Len(b.opened)
      BY <2>2, <3>2
    <3> QED
      BY <2>2, <3>1, <3>3
  <2> QED
    BY <2>3 DEF b
<1> QED
  BY <1>1, <1>2, <1>3, PTL DEF SpecReplay

-----------------------------------------------------------------------------
(* The series *)

\* The replay is one candle behind its series, whose times go forward.
Forward ==
  /\ IsSequence(series)
  /\ index \in Nat /\ Len(series) = index + 1
  /\ \A i \in 1 .. index + 1 : series[i].time \in Nat
  /\ \A i, j \in 1 .. index + 1 : i < j => series[i].time < series[j].time

LEMMA PastKnown ==
  ASSUME Forward, index > 0
  PROVE  /\ IsSequence(Past) /\ Len(Past) = index
         /\ \A i \in 1 .. index : Past[i] = series[i]
         /\ Last(Past) = series[index]
         /\ Closed(series, index) = Past /\ Closed(Past, index) = Past
<1>1. PICK S : series \in Seq(S)
  BY DEF Forward, IsSequence
<1>2. \A i \in 1 .. index : series[i] \in S
  BY <1>1 DEF Forward
<1>3. /\ Past \in Seq(S) /\ Len(Past) = index /\ \A i \in 1 .. index : Past[i] = series[i]
  <2>1. index \in Int /\ 1 <= index /\ index - 1 + 1 = index /\ \A i \in 1 .. index : 1 + i - 1 = i
    BY DEF Forward
  <2> QED
    BY <1>2, <2>1, SubSeqProperties DEF Past
<1>4. Closed(Past, index) = Past
  BY <1>3, SubSeqFull DEF Closed
<1>5. Last(Past) = series[index]
  BY <1>3 DEF Last, Forward
<1> QED
  BY <1>3, <1>4, <1>5 DEF Closed, Past, IsSequence

LEMMA ForwardStart == InitReplay => Forward
<1> SUFFICES ASSUME InitReplay PROVE Forward
  OBVIOUS
<1>1. PICK c \in Shapes : series = <<CandleAt(0, c)>>
  BY DEF InitReplay
<1>2. CandleAt(0, c).time = 0
  BY DEF CandleAt
<1> DEFINE first == CandleAt(0, c)
<1> HIDE DEF first
<1>3. series = <<first>> /\ first.time = 0 /\ index = 0
  BY <1>1, <1>2 DEF first, InitReplay
<1>4. series \in Seq({first}) /\ Len(series) = 1 /\ series[1] = first
  BY <1>3
<1>5. \A i \in 1 .. index + 1 : i = 1 /\ series[i].time = 0
  BY <1>3, <1>4
<1>6. IsSequence(series)
  BY <1>4 DEF IsSequence
<1>7. \A i, j \in 1 .. index + 1 : ~ i < j
  BY <1>5
<1> QED
  BY <1>3, <1>4, <1>5, <1>6, <1>7 DEF Forward

LEMMA ForwardKept == Forward /\ [NextReplay]_replayVars => Forward'
<1> SUFFICES ASSUME Forward, [NextReplay]_replayVars PROVE Forward'
  OBVIOUS
<1>1. CASE UNCHANGED replayVars
  BY <1>1 DEF replayVars, Forward, IsSequence
<1>2. CASE NextReplay
  <2>1. PICK shape \in Shapes, gap \in Gaps : Replay(shape, gap)
    BY <1>2 DEF NextReplay
  <2> DEFINE new == CandleAt(Last(series).time + 1 + gap, shape)
  <2>2. PICK S : series \in Seq(S)
    BY DEF Forward, IsSequence
  <2>3. Last(series) = series[index + 1]
    BY <2>2 DEF Last, Forward
  <2>4. gap \in Nat /\ new.time = series[index + 1].time + 1 + gap
    BY <2>3, GapsAssumption DEF CandleAt
  <2> HIDE DEF new
  <2>5. series' = Append(series, new) /\ index' = index + 1
    BY <2>1 DEF Replay, new
  <2>6. series' \in Seq(S \cup {new}) /\ Len(series') = index' + 1
    BY <2>2, <2>5 DEF Forward
  <2>7. /\ \A i \in 1 .. index + 1 : series'[i] = series[i]
        /\ series'[index' + 1] = new
    BY <2>2, <2>5 DEF Forward
  <2>8. \A i \in 1 .. index' + 1 : i \in 1 .. index + 1 \/ i = index' + 1
    BY <2>5 DEF Forward
  <2>9. new.time \in Nat /\ \A i \in 1 .. index + 1 : series[i].time < new.time
    <3>1. \A i \in 1 .. index + 1 : series[i].time <= series[index + 1].time
      BY DEF Forward
    <3> QED
      BY <2>4, <3>1 DEF Forward
  <2>10. \A i \in 1 .. index' + 1 : series'[i].time \in Nat
    BY <2>7, <2>8, <2>9 DEF Forward
  <2>11. \A i, j \in 1 .. index' + 1 : i < j => series'[i].time < series'[j].time
    <3> TAKE i, j \in 1 .. index' + 1
    <3>1. CASE j = index' + 1
      BY <3>1, <2>5, <2>7, <2>8, <2>9 DEF Forward
    <3>2. CASE j \in 1 .. index + 1
      BY <3>2, <2>5, <2>7, <2>8 DEF Forward
    <3> QED
      BY <3>1, <3>2, <2>8
  <2> QED
    BY <2>5, <2>6, <2>10, <2>11 DEF Forward, IsSequence
<1> QED
  BY <1>1, <1>2

LEMMA TimeGoesForward == SpecReplay => []Forward
<1> QED
  BY ForwardStart, ForwardKept, PTL DEF SpecReplay

-----------------------------------------------------------------------------
(* The folds of a series *)

LEMMA SpanCounted ==
  ASSUME NEW a \in Int, NEW d \in Int, a <= d
  PROVE  /\ Max(a .. d) = d /\ Min(a .. d) = a
         /\ Cardinality(a .. d) = d - a + 1
<1>1. Cardinality(a .. d) = d - a + 1
  BY FS_Interval
<1>2. Max(a .. d) = d
  BY DEF Max
<1>3. Min(a .. d) = a
  BY DEF Min
<1> QED
  BY <1>1, <1>2, <1>3

\* A set of indices without a hole is a span.
LEMMA Span ==
  ASSUME NEW n \in Nat, NEW T \in SUBSET (1 .. n), T # {},
         \A i, k \in T, j \in 1 .. n : i <= j /\ j <= k => j \in T
  PROVE  \E a, d \in 1 .. n : a <= d /\ T = a .. d
<1>1. PICK a \in T : \A i \in T : a <= i
  BY First, T \in SUBSET Nat
<1>2. PICK d \in T : \A i \in T : i <= d
  BY Latest
<1>3. a \in 1 .. n /\ d \in 1 .. n /\ a <= d
  BY <1>1, <1>2
<1>4. ASSUME NEW j \in a .. d PROVE j \in T
  <2>1. j \in 1 .. n /\ a <= j /\ j <= d
    BY <1>3
  <2> QED
    BY <1>1, <1>2, <2>1
<1>5. ASSUME NEW j \in T PROVE j \in a .. d
  <2>1. a <= j /\ j <= d /\ j \in Int
    BY <1>1, <1>2
  <2> QED
    BY <1>3, <2>1
<1>6. T = a .. d
  BY <1>4, <1>5
<1> QED
  BY <1>3, <1>6

\* Three parts that follow each other without a hole.
LEMMA SoundFold ==
  ASSUME NEW n \in Nat, NEW A \in SUBSET (1 .. n), NEW B \in SUBSET (1 .. n),
         NEW C \in SUBSET (1 .. n), A # {}, B # {}, C # {},
         \A a \in A, b \in B, c \in C : a < b /\ b < c,
         \A i, k \in A \cup B \cup C, j \in 1 .. n : i <= j /\ j <= k => j \in A \cup B \cup C
  PROVE  Sound(Fold(A, B, C))
<1> DEFINE all == A \cup B \cup C
<1>1. PICK a, d \in 1 .. n : a <= d /\ all = a .. d
  BY Span, all \in SUBSET (1 .. n), all # {}
<1> HIDE DEF all
<1>2. Cardinality(all) = Max(all) - Min(all) + 1
  <2>1. Max(a .. d) = d /\ Min(a .. d) = a
        /\ Cardinality(a .. d) = d - a + 1
    BY <1>1, SpanCounted
  <2> QED
    BY <1>1, <2>1
<1>3. /\ Fold(A, B, C).train = A /\ Fold(A, B, C).validation = B
      /\ Fold(A, B, C).test = C
  BY DEF Fold
<1> QED
  BY <1>2, <1>3 DEF Sound, all

LEMMA SoundSpans ==
  ASSUME NEW a \in Nat, NEW b \in Nat, NEW c \in Nat, NEW d \in Nat, a < b, b < c, c < d
  PROVE  Sound(Fold(a + 1 .. b, b + 1 .. c, c + 1 .. d))
<1> DEFINE A == a + 1 .. b
           B == b + 1 .. c
           C == c + 1 .. d
<1>1. A \in SUBSET (1 .. d) /\ B \in SUBSET (1 .. d) /\ C \in SUBSET (1 .. d)
  OBVIOUS
<1>2. b \in A /\ c \in B /\ d \in C
  OBVIOUS
<1>3. \A i \in A, j \in B, k \in C : i < j /\ j < k
  OBVIOUS
<1>4. A \cup B \cup C = a + 1 .. d
  OBVIOUS
<1>5. \A i, k \in A \cup B \cup C, j \in 1 .. d : i <= j /\ j <= k => j \in A \cup B \cup C
  BY <1>4
<1> HIDE DEF A, B, C
<1>6. Sound(Fold(A, B, C))
  BY <1>1, <1>2, <1>3, <1>5, SoundFold
<1> QED
  BY <1>6 DEF A, B, C

LEMMA ChronologicalSound ==
  ASSUME NEW n \in Nat, n >= 5
  PROVE  Sound(ChronologicalSplits(n, 60, 20))
<1> DEFINE b == (n * 60) \div 100
           c == (n * 80) \div 100
<1>1. b \in Nat /\ c \in Nat /\ 0 < b /\ b < c /\ c < n
  OBVIOUS
<1>2. ChronologicalSplits(n, 60, 20) = Fold(1 .. b, b + 1 .. c, c + 1 .. n)
  BY DEF ChronologicalSplits
<1> HIDE DEF b, c
<1>3. PICK a \in Nat : a = 0
  OBVIOUS
<1>4. Sound(Fold(a + 1 .. b, b + 1 .. c, c + 1 .. n))
  BY <1>1, <1>3, SoundSpans
<1>5. a + 1 = 1
  BY <1>3
<1> QED
  BY <1>2, <1>4, <1>5

\* Whatever the numbers of bars are.
LEMMA BarsSound ==
  ASSUME NEW n \in Nat, NEW train \in Nat \ {0}, NEW validation \in Nat \ {0},
         NEW test \in Nat \ {0}, NEW step,
         NEW fold \in BarWindows(n, train, validation, test, step)
  PROVE  Sound(fold)
<1>1. PICK i \in 0 .. n - (train + validation + test) :
        fold = Fold(i + 1 .. i + train,
                           i + train + 1 .. i + train + validation,
                           i + train + validation + 1 .. i + train + validation + test)
  BY DEF BarWindows
<1> DEFINE b == i + train
           c == i + train + validation
           d == i + train + validation + test
<1>2. i \in Nat /\ b \in Nat /\ c \in Nat /\ d \in Nat /\ i < b /\ b < c /\ c < d
  OBVIOUS
<1>3. fold = Fold(i + 1 .. b, b + 1 .. c, c + 1 .. d)
  BY <1>1
<1> HIDE DEF b, c, d
<1> QED
  BY <1>2, <1>3, SoundSpans

\* Times that never go back.
Ordered(times) ==
  /\ Len(times) \in Nat \ {0} /\ DOMAIN times = 1 .. Len(times)
  /\ \A i \in 1 .. Len(times) : times[i] \in Int
  /\ \A i, j \in 1 .. Len(times) : i <= j => times[i] <= times[j]

LEMMA Apart ==
  ASSUME NEW k \in Int, NEW train \in Nat, NEW validation \in Nat,
         NEW x \in Int, NEW y \in Int, NEW z \in Int,
         x <= k + train, k + train + 1 <= y, y <= k + train + validation,
         k + train + validation + 1 <= z
  PROVE  x < y /\ y < z
OBVIOUS

LEMMA DaysSound ==
  ASSUME NEW times, Ordered(times), NEW train \in Nat, NEW validation \in Nat,
         NEW test \in Nat, NEW step, NEW least \in Nat, least >= 6,
         NEW fold \in DayWindows(times, train, validation, test, step, least)
  PROVE  Sound(fold)
<1> DEFINE n == Len(times)
           Within(from, to) == {i \in 1 .. n : from <= times[i] /\ times[i] <= to}
           starts == {k \in times[1] .. times[n] - (train + validation + test) :
                        (k - times[1]) % step = 0}
           FoldAt(k) == Fold(Within(k, k + train),
                                    Within(k + train + 1, k + train + validation),
                                    Within(k + train + validation + 1, k + train + validation + test))
           full  == {f \in {FoldAt(k) : k \in starts} :
                       f.train # {} /\ f.validation # {} /\ f.test # {}}
           third == n \div 3
           sixth == n \div 6
           bars  == BarWindows(n, third, sixth, sixth, Max({1, third \div 3}))
<1>1. fold \in IF full = {} /\ n >= least THEN bars ELSE full
  BY DEF DayWindows
<1>2. n \in Nat /\ \A i \in 1 .. n : times[i] \in Int
  BY DEF Ordered
<1>3. CASE fold \in bars /\ n >= least
  <2>1. third \in Nat \ {0} /\ sixth \in Nat \ {0}
    BY <1>2, <1>3
  <2> HIDE DEF third, sixth
  <2> QED
    BY <1>2, <1>3, <2>1, BarsSound
<1>4. CASE fold \in full
  <2>1. PICK k \in starts : fold = FoldAt(k)
    BY <1>4
  <2>2. k \in Int
    BY <1>2, <2>1
  <2> DEFINE A == Within(k, k + train)
             B == Within(k + train + 1, k + train + validation)
             C == Within(k + train + validation + 1, k + train + validation + test)
  <2>3. A \in SUBSET (1 .. n) /\ B \in SUBSET (1 .. n) /\ C \in SUBSET (1 .. n)
    OBVIOUS
  <2>4. fold = Fold(A, B, C) /\ A # {} /\ B # {} /\ C # {}
    BY <1>4, <2>1 DEF Fold
  <2>5. ASSUME NEW a \in A, NEW b \in B, NEW c \in C
        PROVE  a < b /\ b < c
    <3>1. /\ a \in 1 .. n /\ b \in 1 .. n /\ c \in 1 .. n
          /\ times[a] \in Int /\ times[b] \in Int /\ times[c] \in Int
      BY <1>2
    <3>2. times[a] < times[b] /\ times[b] < times[c]
      <4>1. times[a] <= k + train
        OBVIOUS
      <4>2. k + train + 1 <= times[b] /\ times[b] <= k + train + validation
        OBVIOUS
      <4>3. k + train + validation + 1 <= times[c]
        OBVIOUS
      <4> HIDE DEF A, B, C, n, starts, FoldAt, full
      <4> DEFINE x == times[a]
                 y == times[b]
                 z == times[c]
      <4>4. x \in Int /\ y \in Int /\ z \in Int
        BY <3>1
      <4>5. x <= k + train /\ k + train + 1 <= y /\ y <= k + train + validation
            /\ k + train + validation + 1 <= z
        BY <4>1, <4>2, <4>3
      <4> HIDE DEF x, y, z
      <4>6. x < y /\ y < z
        BY <2>2, <4>4, <4>5, Apart
      <4> QED
        BY <4>6 DEF x, y, z
    <3>3. (b <= a => times[b] <= times[a]) /\ (c <= b => times[c] <= times[b])
      BY <3>1 DEF Ordered
    <3> HIDE DEF A, B, C
    <3> QED
      BY <3>1, <3>2, <3>3
  <2>6. A \cup B \cup C = Within(k, k + train + validation + test)
    BY <1>2, <2>2
  <2>7. \A i, j \in Within(k, k + train + validation + test), m \in 1 .. n :
          i <= m /\ m <= j => m \in Within(k, k + train + validation + test)
    BY <1>2, <2>2 DEF Ordered
  <2>8. \A i, j \in A \cup B \cup C, m \in 1 .. n :
          i <= m /\ m <= j => m \in A \cup B \cup C
    BY <2>6, <2>7
  <2> HIDE DEF A, B, C
  <2> QED
    BY <1>2, <2>3, <2>4, <2>5, <2>8, SoundFold
<1> QED
  BY <1>1, <1>3, <1>4

LEMMA ForwardOrdered ==
  ASSUME Forward
  PROVE  Ordered(Field(series, "time"))
<1> DEFINE n == index + 1
           times == Field(series, "time")
<1>1. n \in Nat \ {0} /\ Len(series) = n /\ DOMAIN series = 1 .. n
  BY DEF Forward, IsSequence
<1>2. times = [i \in 1 .. n |-> series[i].time]
  BY <1>1 DEF Field
<1>3. \A i \in 1 .. n : series[i].time \in Nat
  BY DEF Forward
<1>4. \A i, j \in 1 .. n : i <= j => series[i].time <= series[j].time
  <2> TAKE i, j \in 1 .. n
  <2>1. CASE i = j
    BY <1>3, <2>1
  <2>2. CASE i # j
    BY <1>3, <2>2 DEF Forward
  <2> QED
    BY <2>1, <2>2
<1> HIDE DEF n
<1>5. times \in Seq(Nat) /\ Len(times) = n
  BY <1>1, <1>2, <1>3
<1>6. DOMAIN times = 1 .. n /\ \A i \in 1 .. n : times[i] = series[i].time
  BY <1>2
<1> HIDE DEF times
<1>7. Ordered(times)
  BY <1>1, <1>3, <1>4, <1>5, <1>6 DEF Ordered
<1> QED
  BY <1>7 DEF times

LEMMA OrderedFoldsSound ==
  ASSUME Forward
  PROVE  FoldsDoNotLeak
<1> DEFINE n == Len(series)
           times == Field(series, "time")
<1>1. n \in Nat
  BY DEF Forward, IsSequence
<1>2. Ordered(times)
  BY ForwardOrdered
<1> HIDE DEF n, times
<1>3. n >= 5 => Sound(ChronologicalSplits(n, 60, 20))
  BY <1>1, ChronologicalSound
<1>4. \A fold \in BarWindows(n, 2, 1, 1, 1) : Sound(fold)
  BY <1>1, BarsSound
<1>5. \A fold \in DayWindows(times, 1, 1, 1, 1, 6) : Sound(fold)
  BY <1>2, DaysSound
<1> QED
  BY <1>3, <1>4, <1>5 DEF FoldsDoNotLeak, n, times

\* No fold of the walk-forward or chronological splits tests or validates on a bar that
\* its training saw or that comes before it, and no fold skips a bar in between, for
\* every length and every spacing of the series (backtest/splits.py).
THEOREM FoldsNeverLeak == SpecReplay => []FoldsDoNotLeak
<1> QED
  BY OrderedFoldsSound, TimeGoesForward, PTL

-----------------------------------------------------------------------------
(* What a decision reads *)

\* A signal depends on the closed candles only.
LEMMA SignalsAlike ==
  ASSUME Forward, index > 0, NEW s
  PROVE  SignalForStrategy(s, series, index) = SignalForStrategy(s, Past, index)
<1> DEFINE h == Past
<1>1. Closed(series, index) = h /\ Closed(Past, index) = h
  BY PastKnown
<1> HIDE DEF h
<1>2. DonchianBreakoutSignal(series, index) = DonchianBreakoutSignal(Past, index)
  BY <1>1 DEF DonchianBreakoutSignal
<1>3. MeanReversionSignal(series, index) = MeanReversionSignal(Past, index)
  BY <1>1 DEF MeanReversionSignal
<1>4. TrendFollowingSignal(series, index) = TrendFollowingSignal(Past, index)
  BY <1>1 DEF TrendFollowingSignal
<1>5. SmcStructureSignal(series, index) = SmcStructureSignal(Past, index)
  BY <1>1 DEF SmcStructureSignal
<1> QED
  BY <1>2, <1>3, <1>4, <1>5 DEF SignalForStrategy

\* Candles that are closed now are of the past.
LEMMA ClosedArePast ==
  ASSUME Forward, index > 0, NEW c \in Range(series), c.time < Last(Past).time + 1
  PROVE  c \in Range(Past)
<1>1. PICK i \in 1 .. index + 1 : c = series[i]
  BY DEF Range, Forward, IsSequence
<1>2. i <= index
  BY <1>1, PastKnown DEF Forward
<1>3. i \in DOMAIN Past /\ Past[i] = c
  BY <1>1, <1>2, PastKnown DEF IsSequence, Forward
<1> QED
  BY <1>3 DEF Range

LEMMA PastIsOfSeries ==
  ASSUME Forward, index > 0, NEW c \in Range(Past)
  PROVE  c \in Range(series) /\ c.time \in Nat /\ c.time < Last(Past).time + 1
<1>1. PICK i \in 1 .. index : c = Past[i]
  BY PastKnown DEF Range, IsSequence, Forward
<1>2. c = series[i] /\ i \in 1 .. index + 1 /\ i \in DOMAIN series
  BY <1>1, PastKnown DEF Forward, IsSequence
<1>3. c.time <= series[index].time /\ series[index].time \in Nat /\ c.time \in Nat
  BY <1>1, <1>2 DEF Forward
<1> QED
  BY <1>2, <1>3, PastKnown DEF Range

LEMMA InItsBucket ==
  ASSUME NEW n \in Nat \ {0}, NEW t \in Nat
  PROVE  t \div n \in Nat /\ t < n * (t \div n) + n
<1>1. t \div n \in Int /\ n * (t \div n) <= t /\ t < n * (t \div n) + n
  OBVIOUS
<1>2. t \div n >= 0
  OBVIOUS
<1> QED
  BY <1>1, <1>2

\* The longer candles that have closed are made of closed candles.
LEMMA WholeAlike ==
  ASSUME Forward, index > 0, NEW n \in Nat \ {0}
  PROVE  OnlyClosed(Buckets(series, n), Last(Past).time + 1, n)
           = OnlyClosed(Buckets(Past, n), Last(Past).time + 1, n)
<1> DEFINE now == Last(Past).time + 1
           Group(q, k) == {c \in Range(q) : c.time \div n = k}
           Made(q, k) == Longer(ByTime(Group(q, k)), n * k)
           Full(q) == {c \in Buckets(q, n) : c.time + n <= now}
<1>0. now \in Int
  BY PastKnown DEF Forward
<1>1. ASSUME NEW c \in Range(series), n * (c.time \div n) + n <= now
      PROVE  Group(series, c.time \div n) = Group(Past, c.time \div n) /\ c \in Range(Past)
  <2>1. ASSUME NEW d \in Range(series), d.time \div n = c.time \div n
        PROVE  d \in Range(Past)
    <3>1. d.time \in Nat
      BY DEF Range, Forward, IsSequence
    <3>2. d.time < n * (d.time \div n) + n /\ d.time \div n \in Nat
      BY <3>1, InItsBucket
    <3>3. d.time < now
      BY <1>0, <1>1, <2>1, <3>1, <3>2
    <3> QED
      BY <3>3, ClosedArePast
  <2>2. Range(Past) \subseteq Range(series)
    BY PastIsOfSeries
  <2> QED
    BY <2>1, <2>2
<1>2. ASSUME NEW q, NEW c \in Range(q)
      PROVE  Made(q, c.time \div n).time = n * (c.time \div n)
  BY DEF Longer
<1>3. \A q : Buckets(q, n) = {Made(q, k) : k \in {c.time \div n : c \in Range(q)}}
  BY DEF Buckets
<1>4. \A q : \A b : b \in Full(q) <=> \E c \in Range(q) : /\ b = Made(q, c.time \div n)
                                                   /\ n * (c.time \div n) + n <= now
  <2> HIDE DEF Made, now
  <2> QED
    BY <1>2, <1>3
<1>5. Range(Past) \subseteq Range(series)
  BY PastIsOfSeries
<1>6. \A b : b \in Full(series) <=> b \in Full(Past)
  <2>1. \A c \in Range(series) : n * (c.time \div n) + n <= now
           => Made(series, c.time \div n) = Made(Past, c.time \div n) /\ c \in Range(Past)
    <3> HIDE DEF now
    <3> QED BY <1>1
  <2> HIDE DEF Full, Made, now
  <2> QED
    BY <1>4, <1>5, <2>1
<1>7. Full(series) = Full(Past)
  <2>1. Full(series) \subseteq Full(Past)
    BY <1>6
  <2>2. Full(Past) \subseteq Full(series)
    BY <1>6
  <2> HIDE DEF Full
  <2> QED
    BY <2>1, <2>2
<1> QED
  BY <1>7 DEF OnlyClosed

LEMMA FeaturesAlike ==
  ASSUME Forward, index > 0
  PROVE  Features(series, Last(Past).time + 1, FALSE) = Features(Past, Last(Past).time + 1, FALSE)
<1> DEFINE now == Last(Past).time + 1
<1>1. Periods.mid \in Nat \ {0} /\ Periods.high \in Nat \ {0}
  BY PeriodsAssumption
<1>2. OnlyClosed(Buckets(series, Periods.mid), now, Periods.mid)
        = OnlyClosed(Buckets(Past, Periods.mid), now, Periods.mid)
  BY <1>1, WholeAlike
<1>3. OnlyClosed(Buckets(series, Periods.high), now, Periods.high)
        = OnlyClosed(Buckets(Past, Periods.high), now, Periods.high)
  BY <1>1, WholeAlike
<1>4. {c \in Range(series) : c.time + 1 <= now} = {c \in Range(Past) : c.time + 1 <= now}
  <2>0. now \in Int
    BY PastKnown DEF Forward
  <2>1. ASSUME NEW c \in Range(series), c.time + 1 <= now
        PROVE  c \in Range(Past)
    <3>1. c.time \in Nat
      BY DEF Range, Forward, IsSequence
    <3> QED
      BY <2>0, <2>1, <3>1, ClosedArePast
  <2> QED
    BY <2>1, PastIsOfSeries
<1>5. OnlyClosed(Range(series), now, 1) = OnlyClosed(Range(Past), now, 1)
  BY <1>4 DEF OnlyClosed
<1> DEFINE closed == OnlyClosed(Range(Past), now, 1)
           mid    == OnlyClosed(Buckets(Past, Periods.mid), now, Periods.mid)
           high   == OnlyClosed(Buckets(Past, Periods.high), now, Periods.high)
           models == [M1 |-> EvalM1(closed), M2 |-> EvalM2(closed, high),
                      M3 |-> "UNAVAILABLE", M4 |-> EvalM4(closed, mid, high)]
           read   == IF Len(closed) < Periods.leastFeatures
                     THEN [status |-> "UNAVAILABLE", confirmed |-> {}]
                     ELSE [status    |-> "CALCULATED",
                           confirmed |-> {m \in DOMAIN models : models[m] = "CONFIRMED"},
                           available |-> {m \in DOMAIN models : models[m] # "UNAVAILABLE"},
                           close     |-> Last(closed).close,
                           range     |-> Atr(closed, Periods.atr),
                           stopLong  |-> StructuralStop(closed, "LONG"),
                           stopShort |-> StructuralStop(closed, "SHORT")]
<1>6. Features(Past, now, FALSE) = read
  BY DEF Features
<1>7. Features(series, now, FALSE) = read
  BY <1>2, <1>3, <1>5 DEF Features
<1> HIDE DEF read
<1>8. Features(series, now, FALSE) = Features(Past, now, FALSE)
  BY <1>6, <1>7
<1> QED
  BY <1>8 DEF now

\* A decision at the close of a bar is the same whatever the series holds after it: the
\* signals cut the list they are given, and a longer candle that is still forming is
\* dropped (_slice_closed, only_closed_candles), for every series and every look-back.
THEOREM DecisionsReadThePast == SpecReplay => []OnlyThePast
<1>1. Forward => OnlyThePast
  BY SignalsAlike, FeaturesAlike DEF OnlyThePast
<1> QED
  BY <1>1, TimeGoesForward, PTL

-----------------------------------------------------------------------------
(* Sums, and the extremes of windows *)

\* A table that is filled from its first entry on.

Scans(n, first, step, table) ==
  table[0] = first /\ \A i \in 1 .. n : table[i] = step[<<i, table[i - 1]>>]

\* There is one for every step of it.
LEMMA ScanExists ==
  ASSUME NEW n \in Nat, NEW S, NEW first \in S, NEW step \in [(1 .. n) \X S -> S]
  PROVE  \E table \in [0 .. n -> S] : Scans(n, first, step, table)
<1> DEFINE T == {m \in 0 .. n : ~ \E table \in [0 .. m -> S] : Scans(m, first, step, table)}
<1> SUFFICES ASSUME T # {} PROVE FALSE
  OBVIOUS
<1>0. T \in SUBSET Nat
  OBVIOUS
<1>1. PICK m \in T : \A k \in T : m <= k
  BY <1>0, First
<1>2. CASE m = 0
  <2>1. [i \in 0 .. 0 |-> first] \in [0 .. 0 -> S] /\ Scans(0, first, step, [i \in 0 .. 0 |-> first])
    BY DEF Scans
  <2> QED
    BY <1>1, <1>2, <2>1
<1>3. CASE m # 0
  <2>1. m \in 1 .. n /\ m - 1 \in 0 .. n /\ m - 1 \notin T
    BY <1>1, <1>3
  <2>2. PICK table \in [0 .. (m - 1) -> S] : Scans(m - 1, first, step, table)
    BY <2>1
  <2> DEFINE last == step[<<m, table[m - 1]>>]
             longer == [i \in 0 .. m |-> IF i = m THEN last ELSE table[i]]
  <2>3. last \in S
    <3>1. table[m - 1] \in S
      BY <2>1
    <3> QED
      BY <2>1, <3>1
  <2>4. longer \in [0 .. m -> S] /\ longer[0] = first
    BY <2>1, <2>2, <2>3 DEF Scans
  <2>5. ASSUME NEW i \in 1 .. m
        PROVE  longer[i] = step[<<i, longer[i - 1]>>]
    <3>1. CASE i = m
      <4>1. i \in 0 .. m /\ i - 1 \in 0 .. m /\ i - 1 # m
        BY <2>1
      <4>2. longer[i] = last /\ longer[i - 1] = table[i - 1]
        BY <3>1, <4>1
      <4> QED
        BY <3>1, <4>2
    <3>2. CASE i # m
      <4>1. i \in 1 .. (m - 1) /\ i - 1 \in 0 .. m /\ i - 1 # m /\ i \in 0 .. m
        BY <2>1, <3>2
      <4> QED
        BY <2>2, <3>2, <4>1 DEF Scans
    <3> QED
      BY <3>1, <3>2
  <2>6. Scans(m, first, step, longer)
    BY <2>4, <2>5 DEF Scans
  <2> QED
    BY <1>1, <2>4, <2>6
<1> QED
  BY <1>2, <1>3

\* A sum is the last of its running totals.
LEMMA SumUnfolds ==
  ASSUME NEW values \in Seq(Int)
  PROVE  \E table \in [0 .. Len(values) -> Int] :
           /\ table[0] = 0
           /\ \A i \in 1 .. Len(values) : table[i] = table[i - 1] + values[i]
           /\ Sum(values) = table[Len(values)]
<1> DEFINE n == Len(values)
           step == [p \in (1 .. n) \X Int |-> p[2] + values[p[1]]]
           E(g) == [i \in 0 .. n |-> IF i = 0 THEN 0 ELSE g[i - 1] + values[i]]
           F == CHOOSE g : g = E(g)
<1>1. n \in Nat /\ \A i \in 1 .. n : values[i] \in Int
  OBVIOUS
<1>2. step \in [(1 .. n) \X Int -> Int] /\ 0 \in Int
  BY <1>1
<1> HIDE DEF n
<1>3. PICK table \in [0 .. n -> Int] : Scans(n, 0, step, table)
  <2> HIDE DEF step
  <2> QED
    BY <1>1, <1>2, ScanExists
<1>4. table[0] = 0 /\ \A i \in 1 .. n : table[i] = table[i - 1] + values[i]
  <2>1. ASSUME NEW i \in 1 .. n PROVE table[i] = table[i - 1] + values[i]
    <3>1. i - 1 \in 0 .. n
      BY <1>1
    <3>2. table[i] = step[<<i, table[i - 1]>>] /\ table[i - 1] \in Int
      BY <1>3, <3>1 DEF Scans
    <3> QED
      BY <3>2
  <2> QED
    BY <1>3, <2>1 DEF Scans
<1>5. \A g : g \in [0 .. n -> Int] /\ g[0] = 0 /\ (\A i \in 1 .. n : g[i] = g[i - 1] + values[i]) => g = E(g)
  BY <1>1
<1>6. table = E(table)
  BY <1>3, <1>4, <1>5
<1>7. F = E(F)
  <2> HIDE DEF E
  <2> QED
    BY <1>6
<1>8. Sum(values) = F[n]
  BY DEF Sum, n
<1> HIDE DEF F
<1> DEFINE T == {i \in 0 .. n : F[i] # table[i]}
<1>9. T = {}
  <2> SUFFICES ASSUME T # {} PROVE FALSE
    OBVIOUS
  <2>0. T \in SUBSET Nat
    BY <1>1
  <2>1. PICK m \in T : \A k \in T : m <= k
    BY <2>0, First
  <2>2. CASE m = 0
    BY <1>1, <1>4, <1>7, <2>1, <2>2
  <2>3. CASE m # 0
    <3>1. m \in 1 .. n /\ m - 1 \in 0 .. n /\ m - 1 \notin T
      BY <1>1, <2>1, <2>3
    <3>2. F[m] = F[m - 1] + values[m]
      BY <1>7, <3>1
    <3> QED
      BY <1>4, <2>1, <3>1, <3>2
  <2> QED
    BY <2>2, <2>3
<1>10. Sum(values) = table[n]
  BY <1>1, <1>8, <1>9
<1> QED
  BY <1>3, <1>4, <1>10 DEF n

LEMMA SumInteger == ASSUME NEW values \in Seq(Int) PROVE Sum(values) \in Int
  BY SumUnfolds

\* What is counted up is no less than any last part of it.
LEMMA SumNatural ==
  ASSUME NEW values \in Seq(Nat)
  PROVE  Sum(values) \in Nat /\ (Len(values) > 0 => Sum(values) >= values[Len(values)])
<1> DEFINE n == Len(values)
<1>0. values \in Seq(Int) /\ n \in Nat /\ \A i \in 1 .. n : values[i] \in Nat
  OBVIOUS
<1>1. PICK table \in [0 .. n -> Int] :
        /\ table[0] = 0
        /\ \A i \in 1 .. n : table[i] = table[i - 1] + values[i]
        /\ Sum(values) = table[n]
  BY <1>0, SumUnfolds
<1> HIDE DEF n
<1> DEFINE T == {i \in 0 .. n : table[i] \notin Nat}
<1>2. T = {}
  <2> SUFFICES ASSUME T # {} PROVE FALSE
    OBVIOUS
  <2>0. T \in SUBSET Nat
    BY <1>0
  <2>1. PICK m \in T : \A k \in T : m <= k
    BY <2>0, First
  <2>2. m # 0
    BY <1>1, <2>1
  <2>3. m \in 1 .. n /\ m - 1 \in 0 .. n /\ m - 1 \notin T
    BY <1>0, <2>1, <2>2
  <2>4. table[m - 1] \in Nat /\ values[m] \in Nat
    BY <1>0, <2>3
  <2> QED
    BY <1>1, <2>1, <2>3, <2>4
<1>3. Sum(values) \in Nat
  <2>1. n \in 0 .. n
    BY <1>0
  <2>2. table[n] \in Nat
    BY <1>2, <2>1
  <2> QED
    BY <1>1, <2>2
<1>4. ASSUME n > 0 PROVE Sum(values) >= values[n]
  <2>1. n \in 1 .. n /\ n - 1 \in 0 .. n
    BY <1>0, <1>4
  <2>2. table[n - 1] \in Nat /\ values[n] \in Nat /\ Sum(values) = table[n - 1] + values[n]
    BY <1>0, <1>1, <1>2, <2>1
  <2> QED
    BY <2>2
<1> QED
  BY <1>3, <1>4 DEF n

\* Of finitely many numbers one is the greatest,
LEMMA Greatest ==
  ASSUME NEW n \in Nat \ {0}, NEW f, \A i \in 1 .. n : f[i] \in Int
  PROVE  \E m \in 1 .. n : \A i \in 1 .. n : f[i] <= f[m]
<1> DEFINE T == {k \in 1 .. n : ~ \E m \in 1 .. k : \A i \in 1 .. k : f[i] <= f[m]}
<1>1. T = {}
  <2> SUFFICES ASSUME T # {} PROVE FALSE
    OBVIOUS
  <2>0. T \in SUBSET Nat
    OBVIOUS
  <2>1. PICK k \in T : \A j \in T : k <= j
    BY <2>0, First
  <2>2. k # 1
    <3>1. 1 \in 1 .. 1 /\ \A i \in 1 .. 1 : f[i] <= f[1]
      OBVIOUS
    <3> QED
      BY <2>1, <3>1
  <2>3. k \in 1 .. n /\ k - 1 \in 1 .. n /\ k - 1 \notin T
    <3>1. k \in 1 .. n /\ k - 1 \in 1 .. n /\ ~ k <= k - 1
      BY <2>1, <2>2
    <3> QED
      BY <2>1, <3>1
  <2>4. PICK m \in 1 .. (k - 1) : \A i \in 1 .. (k - 1) : f[i] <= f[m]
    BY <2>3
  <2>5. \A i \in 1 .. k : i \in 1 .. (k - 1) \/ i = k
    BY <2>3
  <2>6. m \in 1 .. n /\ m \in 1 .. k /\ k \in 1 .. k /\ f[m] \in Int /\ f[k] \in Int
    BY <2>3
  <2>7. CASE f[k] <= f[m]
    <3>1. \A i \in 1 .. k : f[i] <= f[m]
      BY <2>4, <2>5, <2>7
    <3> QED
      BY <2>1, <2>6, <3>1
  <2>8. CASE f[m] <= f[k]
    <3>1. \A i \in 1 .. (k - 1) : i \in 1 .. n /\ f[i] \in Int
      BY <2>3
    <3>2. \A i \in 1 .. (k - 1) : f[i] <= f[k]
      BY <2>4, <2>6, <2>8, <3>1
    <3>3. ASSUME NEW i \in 1 .. k PROVE f[i] <= f[k]
      <4>1. CASE i = k
        BY <2>6, <4>1
      <4> QED
        BY <2>5, <3>2, <4>1
    <3> QED
      BY <2>1, <2>6, <3>3
  <2> QED
    BY <2>6, <2>7, <2>8
<1>2. \A k \in 1 .. n : \E m \in 1 .. k : \A i \in 1 .. k : f[i] <= f[m]
  BY <1>1
<1>3. n \in 1 .. n
  OBVIOUS
<1> QED
  BY <1>2, <1>3

\* and one the least.
LEMMA Least ==
  ASSUME NEW n \in Nat \ {0}, NEW f, \A i \in 1 .. n : f[i] \in Int
  PROVE  \E m \in 1 .. n : \A i \in 1 .. n : f[m] <= f[i]
<1> DEFINE g == [i \in 1 .. n |-> -f[i]]
<1>1. \A i \in 1 .. n : g[i] = -f[i] /\ g[i] \in Int
  OBVIOUS
<1> HIDE DEF g
<1>2. PICK m \in 1 .. n : \A i \in 1 .. n : g[i] <= g[m]
  BY <1>1, Greatest
<1>3. \A i \in 1 .. n : f[m] <= f[i]
  BY <1>1, <1>2
<1> QED
  BY <1>3

LEMMA MaxIs ==
  ASSUME NEW S \in SUBSET Int, NEW m \in S, \A y \in S : y <= m
  PROVE  Max(S) = m
<1>1. \E x \in S : \A y \in S : x >= y
  OBVIOUS
<1>2. Max(S) \in S /\ \A y \in S : Max(S) >= y
  BY <1>1 DEF Max
<1>3. Max(S) >= m /\ Max(S) <= m /\ Max(S) \in Int /\ m \in Int
  BY <1>2
<1> QED
  BY <1>3

LEMMA MinIs ==
  ASSUME NEW S \in SUBSET Int, NEW m \in S, \A y \in S : m <= y
  PROVE  Min(S) = m
<1>1. \E x \in S : \A y \in S : x =< y
  OBVIOUS
<1>2. Min(S) \in S /\ \A y \in S : Min(S) =< y
  BY <1>1 DEF Min
<1>3. Min(S) <= m /\ m <= Min(S) /\ Min(S) \in Int /\ m \in Int
  BY <1>2
<1> QED
  BY <1>3

LEMMA MaxOfTwo ==
  ASSUME NEW a \in Int, NEW b \in Int
  PROVE  Max({a, b}) = IF a <= b THEN b ELSE a
<1>1. CASE a <= b
  BY <1>1, MaxIs
<1>2. CASE ~ a <= b
  BY <1>2, MaxIs
<1> QED
  BY <1>1, <1>2

LEMMA MinOfTwo ==
  ASSUME NEW a \in Int, NEW b \in Int
  PROVE  Min({a, b}) = IF a <= b THEN a ELSE b
<1>1. CASE a <= b
  BY <1>1, MinIs
<1>2. CASE ~ a <= b
  BY <1>2, MinIs
<1> QED
  BY <1>1, <1>2

LEMMA MaxOfThree ==
  ASSUME NEW a \in Int, NEW b \in Int, NEW c \in Int
  PROVE  /\ Max({a, b, c}) \in Int
         /\ a <= Max({a, b, c}) /\ b <= Max({a, b, c}) /\ c <= Max({a, b, c})
<1>1. \E m \in {a, b, c} : \A y \in {a, b, c} : y <= m
  OBVIOUS
<1>2. PICK m \in {a, b, c} : \A y \in {a, b, c} : y <= m
  BY <1>1
<1>3. Max({a, b, c}) = m
  BY <1>2, MaxIs
<1> QED
  BY <1>2, <1>3

\* The extremes of a window of candles are reached in it.
LEMMA Extremes ==
  ASSUME NEW window, IsSequence(window), Len(window) > 0,
         \A i \in 1 .. Len(window) : window[i].high \in Int /\ window[i].low \in Int
  PROVE  /\ Highest(window) \in Int /\ Lowest(window) \in Int
         /\ \E i \in 1 .. Len(window) : Highest(window) = window[i].high
         /\ \E i \in 1 .. Len(window) : Lowest(window) = window[i].low
         /\ \A i \in 1 .. Len(window) : Lowest(window) <= window[i].low
                                       /\ window[i].high <= Highest(window)
<1> DEFINE n == Len(window)
<1>1. n \in Nat \ {0} /\ DOMAIN window = 1 .. n
  BY DEF IsSequence
<1> DEFINE highs == [i \in 1 .. n |-> window[i].high]
           lows == [i \in 1 .. n |-> window[i].low]
<1>2. PICK h \in 1 .. n : \A i \in 1 .. n : highs[i] <= highs[h]
  <2>1. \A i \in 1 .. n : highs[i] \in Int
    OBVIOUS
  <2> HIDE DEF highs, n
  <2> QED
    BY <1>1, <2>1, Greatest
<1>3. PICK l \in 1 .. n : \A i \in 1 .. n : lows[l] <= lows[i]
  <2>1. \A i \in 1 .. n : lows[i] \in Int
    OBVIOUS
  <2> HIDE DEF lows, n
  <2> QED
    BY <1>1, <2>1, Least
<1>4. Range(window) = {window[i] : i \in 1 .. n}
  BY <1>1 DEF Range
<1> HIDE DEF n
<1>5. Highest(window) = window[h].high
  <2> DEFINE S == {c.high : c \in Range(window)}
  <2>1. S \subseteq Int /\ window[h].high \in S
    BY <1>4 DEF n
  <2>2. \A y \in S : y <= window[h].high
    BY <1>2, <1>4
  <2> HIDE DEF S
  <2>3. Max(S) = window[h].high
    BY <2>1, <2>2, MaxIs
  <2> QED
    BY <2>3 DEF Highest, S
<1>6. Lowest(window) = window[l].low
  <2> DEFINE S == {c.low : c \in Range(window)}
  <2>1. S \subseteq Int /\ window[l].low \in S
    BY <1>4 DEF n
  <2>2. \A y \in S : window[l].low <= y
    BY <1>3, <1>4
  <2> HIDE DEF S
  <2>3. Min(S) = window[l].low
    BY <2>1, <2>2, MinIs
  <2> QED
    BY <2>3 DEF Lowest, S
<1>7. \A i \in 1 .. n : window[l].low <= window[i].low /\ window[i].high <= window[h].high
  BY <1>2, <1>3
<1> QED
  BY <1>5, <1>6, <1>7 DEF n

-----------------------------------------------------------------------------
(* Candles and their channels *)

Prices == UNION {{c.open, c.high, c.low, c.close} : c \in Shapes}

Sensible(c) ==
  /\ c.open \in Nat /\ c.high \in Nat /\ c.low \in Nat /\ c.close \in Nat /\ c.volume \in Nat
  /\ c.low <= c.open /\ c.low <= c.close /\ c.open <= c.high /\ c.close <= c.high
  /\ c.close >= 50
  /\ c.high \in Prices /\ c.low \in Prices /\ c.close \in Prices

\* Every candle of the series has one of the shapes.
Shaped == \A i \in 1 .. index + 1 : \E c \in Shapes : series[i] = CandleAt(series[i].time, c)

LEMMA ShapesSensible == ASSUME NEW c \in Shapes PROVE Sensible(c)
<1>1. c \in [open : Nat, high : Nat, low : Nat, close : Nat, volume : Nat] /\ ValidCandle(c)
  BY ShapesAssumption
<1>2. c.open \in Nat /\ c.high \in Nat /\ c.low \in Nat /\ c.close \in Nat /\ c.volume \in Nat
  BY <1>1
<1>3. c.low <= Min({c.open, c.close}) /\ Max({c.open, c.close}) <= c.high
  BY <1>1 DEF ValidCandle
<1>4. /\ Min({c.open, c.close}) = IF c.open <= c.close THEN c.open ELSE c.close
      /\ Max({c.open, c.close}) = IF c.open <= c.close THEN c.close ELSE c.open
  BY <1>2, MinOfTwo, MaxOfTwo
<1>5. c.low <= c.open /\ c.low <= c.close /\ c.open <= c.high /\ c.close <= c.high
  BY <1>2, <1>3, <1>4
<1>6. c.close >= 50
  BY UnitAssumption
<1>7. {c.open, c.high, c.low, c.close} \subseteq Prices
  BY DEF Prices
<1> QED
  BY <1>2, <1>5, <1>6, <1>7 DEF Sensible

LEMMA SeriesSensible ==
  ASSUME Shaped, NEW i \in 1 .. index + 1
  PROVE  Sensible(series[i])
<1>1. PICK c \in Shapes : series[i] = CandleAt(series[i].time, c)
  BY DEF Shaped
<1>2. /\ series[i].open = c.open /\ series[i].high = c.high /\ series[i].low = c.low
      /\ series[i].close = c.close /\ series[i].volume = c.volume
  BY <1>1 DEF CandleAt
<1>3. Sensible(c)
  BY ShapesSensible
<1> QED
  BY <1>2, <1>3 DEF Sensible

LEMMA PastSensible ==
  ASSUME Forward, Shaped, index > 0
  PROVE  \A i \in 1 .. index : Sensible(Past[i])
<1>1. \A i \in 1 .. index : Past[i] = series[i] /\ i \in 1 .. index + 1
  BY PastKnown DEF Forward
<1> QED
  BY <1>1, SeriesSensible

LEMMA ShapedStart == InitReplay => Shaped
<1> SUFFICES ASSUME InitReplay PROVE Shaped
  OBVIOUS
<1>1. PICK c \in Shapes : series = <<CandleAt(0, c)>>
  BY DEF InitReplay
<1>2. \A i \in 1 .. index + 1 : i = 1
  BY DEF InitReplay
<1>3. series[1] = CandleAt(0, c) /\ CandleAt(0, c).time = 0
  BY <1>1 DEF CandleAt
<1> QED
  BY <1>2, <1>3 DEF Shaped

LEMMA ShapedKept == Forward /\ Shaped /\ [NextReplay]_replayVars => Shaped'
<1> SUFFICES ASSUME Forward, Shaped, [NextReplay]_replayVars PROVE Shaped'
  OBVIOUS
<1>1. CASE UNCHANGED replayVars
  BY <1>1 DEF replayVars, Shaped
<1>2. CASE NextReplay
  <2>1. PICK shape \in Shapes, gap \in Gaps : Replay(shape, gap)
    BY <1>2 DEF NextReplay
  <2> DEFINE new == CandleAt(Last(series).time + 1 + gap, shape)
  <2>2. PICK S : series \in Seq(S)
    BY DEF Forward, IsSequence
  <2>3. new = CandleAt(new.time, shape)
    BY DEF CandleAt
  <2> HIDE DEF new
  <2>4. series' = Append(series, new) /\ index' = index + 1
    BY <2>1 DEF Replay, new
  <2>5. (\A i \in 1 .. index + 1 : series'[i] = series[i]) /\ series'[index' + 1] = new
    BY <2>2, <2>4 DEF Forward
  <2>6. \A i \in 1 .. index' + 1 : i \in 1 .. index + 1 \/ i = index' + 1
    BY <2>4 DEF Forward
  <2> QED
    BY <2>3, <2>5, <2>6 DEF Shaped
<1> QED
  BY <1>1, <1>2

LEMMA ChannelKnown ==
  ASSUME Forward, Shaped, NEW n \in Nat \ {0}, index >= n + 1
  PROVE  LET window == Channel(Past, n)
         IN  /\ IsSequence(window) /\ Len(window) = n
             /\ \A i \in 1 .. n : window[i] = Past[index - n - 1 + i]
             /\ \A i \in 1 .. n : index - n - 1 + i \in 1 .. index - 1
             /\ \A i \in 1 .. n : Sensible(window[i])
<1> DEFINE window == Channel(Past, n)
<1>0. index \in Nat /\ index > 0
  BY DEF Forward
<1>1. PICK S : Past \in Seq(S)
  BY <1>0, PastKnown DEF IsSequence
<1>2. Len(Past) = index
  BY <1>0, PastKnown
<1>3. /\ index - n \in 1 .. index /\ index - 1 \in 1 .. index
      /\ index - 1 - (index - n) + 1 = n /\ index - n <= index - 1 + 1
  BY <1>0
<1>4. \A i \in index - n .. index - 1 : Past[i] \in S
  BY <1>0, <1>1, <1>2
<1>5. /\ window \in Seq(S) /\ Len(window) = n
      /\ \A i \in 1 .. n : window[i] = Past[index - n + i - 1]
  BY <1>0, <1>2, <1>3, <1>4, SubSeqProperties DEF Channel
<1>6. \A i \in 1 .. n : index - n - 1 + i \in 1 .. index - 1 /\ index - n - 1 + i = index - n + i - 1
  BY <1>0
<1>7. \A i \in 1 .. n : Sensible(window[i])
  <2> TAKE i \in 1 .. n
  <2>1. index - n - 1 + i \in 1 .. index
    BY <1>0, <1>6
  <2> QED
    BY <1>0, <1>5, <1>6, <2>1, PastSensible
<1> QED
  BY <1>5, <1>6, <1>7 DEF IsSequence

\* Of the bars before the last, the one before it is in the channel.
LEMMA ChannelBounds ==
  ASSUME Forward, Shaped, NEW n \in Nat \ {0}, index >= n + 1
  PROVE  /\ Highest(Channel(Past, n)) \in Int /\ Lowest(Channel(Past, n)) \in Int
         /\ Lowest(Channel(Past, n)) <= Highest(Channel(Past, n))
         /\ Past[index - 1].high <= Highest(Channel(Past, n))
         /\ Lowest(Channel(Past, n)) <= Past[index - 1].low
<1> DEFINE window == Channel(Past, n)
<1>1. /\ IsSequence(window) /\ Len(window) = n
      /\ \A i \in 1 .. n : window[i] = Past[index - n - 1 + i] /\ Sensible(window[i])
  BY ChannelKnown
<1>2. n \in 1 .. n /\ index - n - 1 + n = index - 1
  BY DEF Forward
<1>3. \A i \in 1 .. n : window[i].high \in Int /\ window[i].low \in Int
  BY <1>1 DEF Sensible
<1>4. window[n] = Past[index - 1] /\ Sensible(window[n])
  BY <1>1, <1>2
<1> HIDE DEF window
<1>5. /\ Highest(window) \in Int /\ Lowest(window) \in Int
      /\ Lowest(window) <= window[n].low /\ window[n].high <= Highest(window)
  BY <1>1, <1>2, <1>3, Extremes
<1>6. window[n].low <= window[n].high /\ window[n].low \in Int /\ window[n].high \in Int
  BY <1>4 DEF Sensible
<1>7. Lowest(window) <= Highest(window)
  BY <1>5, <1>6
<1> QED
  BY <1>4, <1>5, <1>7 DEF window

-----------------------------------------------------------------------------
(* Stops and targets *)

LEMMA Quotient ==
  ASSUME NEW a \in Nat, NEW n \in Nat \ {0}
  PROVE  a \div n \in Nat /\ (a >= n => a \div n >= 1)
<1>1. a \div n \in Int /\ n * (a \div n) <= a /\ a < n * (a \div n) + n
  OBVIOUS
<1>2. a \div n >= 0
  OBVIOUS
<1>3. ASSUME a >= n PROVE a \div n # 0
  BY <1>1, <1>3
<1> QED
  BY <1>1, <1>2, <1>3

\* An average of naturals is one, and is not nothing when the last of them is
\* as great as their number.
LEMMA SmaNatural ==
  ASSUME NEW values \in Seq(Nat), NEW n \in Nat \ {0}, Len(values) >= n
  PROVE  Sma(values, n) \in Nat /\ (values[Len(values)] >= n => Sma(values, n) >= 1)
<1> DEFINE recent == Recent(values, n)
           l == Len(values)
<1>1. /\ l - n + 1 \in 1 .. l + 1 /\ l \in 1 .. l /\ l - (l - n + 1) + 1 = n
      /\ l - n + 1 <= l + 1 /\ l \in Nat
  OBVIOUS
<1>2. \A i \in l - n + 1 .. l : values[i] \in Nat
  BY <1>1
<1>3. /\ recent \in Seq(Nat) /\ Len(recent) = n
      /\ \A i \in 1 .. n : recent[i] = values[l - n + 1 + i - 1]
  BY <1>1, <1>2, SubSeqProperties DEF Recent
<1>4. n \in 1 .. n /\ l - n + 1 + n - 1 = l
  BY <1>1
<1>5. recent[n] = values[l] /\ values[l] \in Nat
  BY <1>1, <1>3, <1>4
<1>6. Sum(recent) \in Nat /\ Sum(recent) >= values[l]
  BY <1>3, <1>5, SumNatural
<1>7. Sma(values, n) = Sum(recent) \div n
  BY <1>1 DEF Sma
<1>8. ASSUME values[l] >= n PROVE Sum(recent) >= n
  BY <1>5, <1>6, <1>8
<1> HIDE DEF recent
<1> QED
  BY <1>6, <1>7, <1>8, Quotient

LEMMA RangeOfBar ==
  ASSUME Forward, Shaped, NEW i \in 1 .. index
  PROVE  /\ TrueRange(Past, i) \in Nat
         /\ i > 1 => /\ Gap(Past[i].high, Past[i - 1].close) <= TrueRange(Past, i)
                     /\ Gap(Past[i].low, Past[i - 1].close) <= TrueRange(Past, i)
<1>0. index \in Nat /\ index > 0
  BY DEF Forward
<1>1. Sensible(Past[i])
  BY <1>0, PastSensible
<1>2. CASE i = 1
  BY <1>1, <1>2 DEF TrueRange, Sensible
<1>3. CASE i > 1
  <2>1. i - 1 \in 1 .. index
    BY <1>0, <1>3
  <2>2. Sensible(Past[i - 1])
    BY <1>0, <2>1, PastSensible
  <2> DEFINE a == Past[i].high - Past[i].low
             b == Gap(Past[i].high, Past[i - 1].close)
             c == Gap(Past[i].low, Past[i - 1].close)
  <2>3. a \in Nat /\ a \in Int /\ b \in Int /\ c \in Int
    BY <1>1, <2>2 DEF Sensible, Gap
  <2>4. TrueRange(Past, i) = Max({a, b, c})
    BY <1>3 DEF TrueRange
  <2> HIDE DEF a, b, c
  <2>5. Max({a, b, c}) \in Int /\ a <= Max({a, b, c}) /\ b <= Max({a, b, c}) /\ c <= Max({a, b, c})
    BY <2>3, MaxOfThree
  <2>6. TrueRange(Past, i) \in Nat /\ b <= TrueRange(Past, i) /\ c <= TrueRange(Past, i)
    BY <2>3, <2>4, <2>5
  <2> QED
    BY <2>6 DEF b, c
<1> QED
  BY <1>0, <1>2, <1>3

\* The average range after a bar that closed beyond the one before it.
LEMMA RangeOfBreakout ==
  ASSUME Forward, Shaped, index > 1,
         Past[index].close > Past[index - 1].high \/ Past[index].close < Past[index - 1].low
  PROVE  Atr(Past, Periods.atr) = None \/ Atr(Past, Periods.atr) \in Nat \ {0}
<1> DEFINE n == Periods.atr
           ranges == [i \in DOMAIN Past |-> TrueRange(Past, i)]
<1>0. index \in Nat /\ index > 0 /\ index - 1 \in 1 .. index /\ index \in 1 .. index
  BY DEF Forward
<1>1. n \in Nat \ {0}
  BY PeriodsAssumption
<1>2. Len(Past) = index /\ DOMAIN Past = 1 .. index
  BY <1>0, PastKnown DEF IsSequence
<1>3. ranges \in Seq(Nat) /\ Len(ranges) = index
  <2>1. \A i \in 1 .. index : TrueRange(Past, i) \in Nat
    BY RangeOfBar
  <2> QED
    BY <1>0, <1>2, <2>1
<1>4. ranges[index] = TrueRange(Past, index)
  BY <1>0, <1>2
<1>5. TrueRange(Past, index) >= n
  <2> DEFINE c == Past[index]
             b == Past[index - 1]
  <2>1. Sensible(c) /\ Sensible(b)
    BY <1>0, PastSensible
  <2>2. /\ Gap(c.high, b.close) <= TrueRange(Past, index)
        /\ Gap(c.low, b.close) <= TrueRange(Past, index) /\ TrueRange(Past, index) \in Nat
    BY <1>0, RangeOfBar
  <2>3. CASE c.close > b.high
    <3>1. c.high # b.close /\ c.high \in Prices /\ b.close \in Prices
      BY <2>1, <2>3 DEF Sensible
    <3>2. Gap(c.high, b.close) >= n
      BY <3>1, UnitAssumption DEF Prices
    <3> QED
      BY <1>1, <2>1, <2>2, <3>2 DEF Gap, Sensible
  <2>4. CASE c.close < b.low
    <3>1. c.low # b.close /\ c.low \in Prices /\ b.close \in Prices
      BY <2>1, <2>4 DEF Sensible
    <3>2. Gap(c.low, b.close) >= n
      BY <3>1, UnitAssumption DEF Prices
    <3> QED
      BY <1>1, <2>1, <2>2, <3>2 DEF Gap, Sensible
  <2> QED
    BY <2>3, <2>4
<1>6. Atr(Past, n) = Sma(ranges, n)
  BY DEF Atr
<1> HIDE DEF ranges, n
<1>7. CASE Len(ranges) < n
  BY <1>6, <1>7 DEF Sma, n
<1>8. CASE Len(ranges) >= n
  <2>1. Sma(ranges, n) \in Nat /\ Sma(ranges, n) >= 1
    BY <1>1, <1>3, <1>4, <1>5, <1>8, SmaNatural
  <2> QED
    BY <1>6, <2>1 DEF n
<1> QED
  BY <1>1, <1>3, <1>7, <1>8

\* A signal to stand aside, or one whose stop and target are on the two sides
\* of its entry.
Placed(signal) ==
  \/ signal = Flat
  \/ /\ signal.entry \in Nat \ {0} /\ signal.stop \in Int
     /\ \/ /\ signal.side = "LONG"
           /\ signal.stop < signal.entry /\ signal.entry < signal.target
        \/ /\ signal.side = "SHORT"
           /\ signal.target < signal.entry /\ signal.entry < signal.stop

LEMMA LongPlaced ==
  ASSUME NEW entry \in Nat \ {0}, NEW stop \in Int, NEW target, stop < entry, entry < target
  PROVE  Placed(Signal("LONG", entry, stop, target))
  BY DEF Placed, Signal

LEMMA ShortPlaced ==
  ASSUME NEW entry \in Nat \ {0}, NEW stop \in Int, NEW target, target < entry, entry < stop
  PROVE  Placed(Signal("SHORT", entry, stop, target))
  BY DEF Placed, Signal

LEMMA LastSensible ==
  ASSUME Forward, Shaped, index > 0
  PROVE  Last(Past) = Past[index] /\ Sensible(Past[index]) /\ Len(Past) = index
         /\ Closed(series, index) = Past
<1>1. index \in 1 .. index
  BY DEF Forward
<1> QED
  BY <1>1, PastKnown, PastSensible

LEMMA TrendPlaced ==
  ASSUME Forward, Shaped, index > 0
  PROVE  Placed(TrendFollowingSignal(series, index))
<1> DEFINE close == Last(Past).close
           signal == TrendFollowingSignal(series, index)
<1>1. close \in Nat /\ close >= 50 /\ Closed(series, index) = Past
  BY LastSensible DEF Sensible
<1>2. \/ signal = Flat
      \/ signal = Signal("LONG", close, Part(close, 970), Part(close, 1090))
      \/ signal = Signal("SHORT", close, Part(close, 1030), Part(close, 910))
  <2> HIDE DEF close
  <2> QED
    BY <1>1 DEF TrendFollowingSignal, close
<1> HIDE DEF close, signal
<1>3. /\ Part(close, 970) < close /\ close < Part(close, 1090)
      /\ Part(close, 910) < close /\ close < Part(close, 1030)
      /\ Part(close, 970) \in Int /\ Part(close, 1030) \in Int /\ close # 0
  BY <1>1 DEF Part
<1>4. Placed(signal)
  BY <1>1, <1>2, <1>3, LongPlaced, ShortPlaced DEF Placed
<1> QED
  BY <1>4 DEF signal

LEMMA ReversionPlaced ==
  ASSUME Forward, Shaped, index > 0
  PROVE  Placed(MeanReversionSignal(series, index))
<1> DEFINE close == Last(Past).close
           values == Field(Past, "close")
           mid == Sma(values, Periods.sma)
           signal == MeanReversionSignal(series, index)
<1>0. index \in Nat
  BY DEF Forward
<1>1. /\ close \in Nat /\ close >= 50 /\ Closed(series, index) = Past /\ Len(Past) = index
  BY LastSensible DEF Sensible
<1>2. Periods.sma \in Nat \ {0}
  BY PeriodsAssumption
<1>3. values \in Seq(Nat) /\ Len(values) = index
  <2>1. DOMAIN Past = 1 .. index
    BY <1>0, <1>1, PastKnown DEF IsSequence
  <2>2. \A i \in 1 .. index : Past[i].close \in Nat
    BY PastSensible DEF Sensible
  <2>3. values = [i \in 1 .. index |-> Past[i].close]
    BY <2>1 DEF Field
  <2> QED
    BY <1>0, <2>2, <2>3
<1>4. CASE index < Periods.sma + 1
  <2>1. signal = Flat
    BY <1>1, <1>4 DEF MeanReversionSignal
  <2> QED
    BY <2>1 DEF Placed
<1>5. CASE index >= Periods.sma + 1
  <2>1. mid \in Nat
    <3> HIDE DEF values
    <3> QED
      BY <1>2, <1>3, <1>5, SmaNatural
  <2>2. \/ signal = Flat
        \/ close < Part(mid, 980) /\ signal = Signal("LONG", close, Part(close, 980), mid)
        \/ close > Part(mid, 1020) /\ signal = Signal("SHORT", close, Part(close, 1020), mid)
    BY <1>0, <1>1, <1>2, <1>5 DEF MeanReversionSignal
  <2> HIDE DEF close, signal, mid
  <2>3. /\ Part(close, 980) < close /\ close < Part(close, 1020)
        /\ Part(mid, 980) <= mid /\ mid <= Part(mid, 1020)
        /\ Part(mid, 980) \in Int /\ Part(mid, 1020) \in Int
        /\ Part(close, 980) \in Int /\ Part(close, 1020) \in Int /\ close \in Nat \ {0}
    BY <1>1, <2>1 DEF Part
  <2>4. Placed(signal)
    <3>1. CASE close < Part(mid, 980) /\ signal = Signal("LONG", close, Part(close, 980), mid)
      <4>1. close < mid
        BY <1>1, <2>1, <2>3, <3>1
      <4> QED
        BY <1>1, <2>3, <3>1, <4>1, LongPlaced
    <3>2. CASE close > Part(mid, 1020) /\ signal = Signal("SHORT", close, Part(close, 1020), mid)
      <4>1. mid < close
        BY <1>1, <2>1, <2>3, <3>2
      <4> QED
        BY <2>3, <3>2, <4>1, ShortPlaced
    <3> QED
      BY <2>2, <3>1, <3>2 DEF Placed
  <2> QED
    BY <2>4 DEF signal
<1> QED
  BY <1>0, <1>2, <1>4, <1>5

\* A breakout closes beyond every bar of its channel.
LEMMA BreakoutMeans ==
  ASSUME Forward, Shaped, NEW n \in Nat \ {0}, index >= n + 1
  PROVE  LET side == Breakout(Past, n)
             close == Last(Past).close
         IN  /\ side \in {"LONG", "SHORT", "FLAT"}
             /\ side = "LONG" => /\ close > Highest(Channel(Past, n))
                                 /\ close > Past[index - 1].high
             /\ side = "SHORT" => /\ close < Lowest(Channel(Past, n))
                                  /\ close < Past[index - 1].low
<1> DEFINE close == Last(Past).close
           high == Highest(Channel(Past, n))
           low == Lowest(Channel(Past, n))
           b == Past[index - 1]
<1>0. index \in Nat /\ index > 0 /\ index - 1 \in 1 .. index
  BY DEF Forward
<1>1. close \in Nat
  BY <1>0, LastSensible DEF Sensible
<1>2. high \in Int /\ low \in Int /\ b.high <= high /\ low <= b.low
  BY ChannelBounds
<1>3. b.high \in Nat /\ b.low \in Nat
  BY <1>0, PastSensible DEF Sensible
<1> DEFINE side == Breakout(Past, n)
<1>4. side = IF close > high THEN "LONG" ELSE IF close < low THEN "SHORT" ELSE "FLAT"
  BY DEF Breakout
<1> HIDE DEF close, high, low, side, b
<1>5. /\ side \in {"LONG", "SHORT", "FLAT"}
      /\ side = "LONG" => close > high
      /\ side = "SHORT" => close < low
  BY <1>4
<1>6. side = "LONG" => close > b.high
  BY <1>1, <1>2, <1>3, <1>5
<1>7. side = "SHORT" => close < b.low
  BY <1>1, <1>2, <1>3, <1>5
<1> QED
  BY <1>5, <1>6, <1>7 DEF close, high, low, side, b

LEMMA StructurePlaced ==
  ASSUME Forward, Shaped, index > 0
  PROVE  Placed(SmcStructureSignal(series, index))
<1> DEFINE n == Periods.lookback
           close == Last(Past).close
           side == Breakout(Past, n)
           high == Highest(Channel(Past, n))
           low == Lowest(Channel(Past, n))
           stop == IF side = "LONG" THEN low ELSE high
           signal == SmcStructureSignal(series, index)
<1>0. n \in Nat \ {0} /\ index \in Nat
  BY PeriodsAssumption DEF Forward
<1>1. /\ close \in Nat \ {0} /\ close \in Nat
      /\ Closed(series, index) = Past /\ Len(Past) = index
  BY LastSensible DEF Sensible
<1>2. signal = IF index < n + 2 \/ side = "FLAT" THEN Flat
               ELSE Signal(side, close, stop, Ahead(side, close, 2 * Gap(close, stop)))
  BY <1>1 DEF SmcStructureSignal
<1> HIDE DEF signal
<1>3. CASE index < n + 2 \/ side = "FLAT"
  BY <1>2, <1>3 DEF signal, Placed
<1>4. CASE ~ (index < n + 2 \/ side = "FLAT")
  <2>1. index >= n + 1
    BY <1>0, <1>4
  <2>2. /\ side \in {"LONG", "SHORT", "FLAT"}
        /\ side = "LONG" => close > high
        /\ side = "SHORT" => close < low
    BY <1>0, <2>1, BreakoutMeans
  <2>3. high \in Int /\ low \in Int /\ low <= high
    BY <1>0, <2>1, ChannelBounds
  <2> HIDE DEF close, high, low, side, n
  <2>4. signal = Signal(side, close, stop, Ahead(side, close, 2 * Gap(close, stop)))
    BY <1>2, <1>4
  <2>5. CASE side = "LONG"
    <3>1. stop = low /\ low < close
      BY <1>1, <2>2, <2>3, <2>5
    <3>2. Ahead(side, close, 2 * Gap(close, stop)) = close + 2 * (close - low)
      BY <1>1, <2>3, <2>5, <3>1 DEF Ahead, Gap
    <3>3. close < Ahead(side, close, 2 * Gap(close, stop))
      BY <1>1, <2>3, <3>1, <3>2
    <3> QED
      BY <1>1, <2>3, <2>4, <2>5, <3>1, <3>3, LongPlaced DEF signal
  <2>6. CASE side = "SHORT"
    <3>1. stop = high /\ close < high
      BY <1>1, <2>2, <2>3, <2>6
    <3>2. Ahead(side, close, 2 * Gap(close, stop)) = close - 2 * (high - close)
      BY <1>1, <2>3, <2>6, <3>1 DEF Ahead, Gap
    <3>3. Ahead(side, close, 2 * Gap(close, stop)) < close
      BY <1>1, <2>3, <3>1, <3>2
    <3> QED
      BY <1>1, <2>3, <2>4, <2>6, <3>1, <3>3, ShortPlaced DEF signal
  <2> QED
    BY <1>4, <2>2, <2>5, <2>6
<1> QED
  BY <1>3, <1>4

LEMMA DonchianPlaced ==
  ASSUME Forward, Shaped, index > 0
  PROVE  Placed(DonchianBreakoutSignal(series, index))
<1> DEFINE n == Periods.lookback
           close == Last(Past).close
           side == Breakout(Past, n)
           range == Atr(Past, Periods.atr)
           distance == 2 * (IF range = None THEN Part(close, 20) ELSE range)
           signal == DonchianBreakoutSignal(series, index)
<1>0. n \in Nat \ {0} /\ index \in Nat
  BY PeriodsAssumption DEF Forward
<1>1. /\ close \in Nat /\ close >= 50 /\ Closed(series, index) = Past /\ Len(Past) = index
      /\ Last(Past) = Past[index]
  BY LastSensible DEF Sensible
<1>2. \/ signal = Flat
      \/ /\ index >= n + 2 /\ side # "FLAT"
         /\ signal = Signal(side, close, Ahead(side, close, -distance), Ahead(side, close, 3 * distance))
  BY <1>0, <1>1 DEF DonchianBreakoutSignal
<1> HIDE DEF signal
<1>3. CASE signal = Flat
  BY <1>3 DEF signal, Placed
<1>4. CASE /\ index >= n + 2 /\ side # "FLAT"
           /\ signal = Signal(side, close, Ahead(side, close, -distance), Ahead(side, close, 3 * distance))
  <2>1. index >= n + 1 /\ index > 1
    BY <1>0, <1>4
  <2>2. /\ side \in {"LONG", "SHORT", "FLAT"}
        /\ side = "LONG" => close > Past[index - 1].high
        /\ side = "SHORT" => close < Past[index - 1].low
    BY <1>0, <2>1, BreakoutMeans
  <2>3. range = None \/ range \in Nat \ {0}
    BY <1>1, <1>4, <2>1, <2>2, RangeOfBreakout
  <2>4. Part(close, 20) \in Nat \ {0}
    BY <1>1 DEF Part
  <2> HIDE DEF close, side, range, n
  <2>5. distance \in Nat /\ distance > 0
    BY <2>3, <2>4
  <2> HIDE DEF distance
  <2>6. CASE side = "LONG"
    <3>1. /\ Ahead(side, close, -distance) < close /\ close < Ahead(side, close, 3 * distance)
          /\ Ahead(side, close, -distance) \in Int /\ close \in Nat \ {0}
      BY <1>1, <2>5, <2>6 DEF Ahead
    <3> QED
      BY <1>4, <2>6, <3>1, LongPlaced DEF signal
  <2>7. CASE side = "SHORT"
    <3>1. /\ Ahead(side, close, 3 * distance) < close /\ close < Ahead(side, close, -distance)
          /\ Ahead(side, close, -distance) \in Int /\ close \in Nat \ {0}
      BY <1>1, <2>5, <2>7 DEF Ahead
    <3> QED
      BY <1>4, <2>7, <3>1, ShortPlaced DEF signal
  <2> QED
    BY <1>4, <2>2, <2>6, <2>7
<1> QED
  BY <1>2, <1>3, <1>4

LEMMA ForwardShaped == SpecReplay => [](Forward /\ Shaped)
<1> QED
  BY ForwardStart, ForwardKept, ShapedStart, ShapedKept, PTL DEF SpecReplay

Directed == index > 0 => \A s : Placed(SignalForStrategy(s, series, index))

LEMMA SignalsPlaced == Forward /\ Shaped => Directed
<1> SUFFICES ASSUME Forward, Shaped, index > 0, NEW s
             PROVE  Placed(SignalForStrategy(s, series, index))
  BY DEF Directed
<1> QED
  BY TrendPlaced, ReversionPlaced, StructurePlaced, DonchianPlaced DEF SignalForStrategy

\* No strategy gives a signal whose stop or target is on the wrong side of its entry,
\* whatever the candles are (backtest/signals.py); the range a breakout stops at is
\* never nothing, because the bar that broke out moved.
THEOREM SignalsAreProtected == SpecReplay => []SignalsProtected
<1>1. ASSUME NEW signal, Placed(signal)
      PROVE  CASE signal.side = "LONG"  -> signal.stop < signal.entry /\ signal.entry < signal.target
               [] signal.side = "SHORT" -> signal.target < signal.entry /\ signal.entry < signal.stop
               [] OTHER                 -> TRUE
  BY <1>1 DEF Placed, Flat, Signal
<1>2. Forward /\ Shaped => SignalsProtected
  BY <1>1, SignalsPlaced DEF SignalsProtected, Directed
<1> QED
  BY <1>2, ForwardShaped, PTL

-----------------------------------------------------------------------------
(* The OKF models *)

LEMMA SweepFades ==
  ASSUME NEW q
  PROVE  /\ M1Po3Sweep(q) = "SHORT" => Last(q).close < Last(q).open
         /\ M1Po3Sweep(q) = "LONG" => Last(q).close > Last(q).open
<1> DEFINE c == Last(q)
           adx == Adx(q, Periods.adx)
           volume == RelativeVolume(q, Periods.volume)
           levels == {PreviousSession(q, Periods.day), PreviousSession(q, Periods.month)} \ {None}
           Above(l) == c.high > l.high /\ c.close < l.high /\ c.close < c.open
           Below(l) == c.low < l.low /\ c.close > l.low /\ c.close > c.open
<1>1. \/ M1Po3Sweep(q) = None
      \/ M1Po3Sweep(q) = "SHORT" /\ \E l \in levels : Above(l)
      \/ M1Po3Sweep(q) = "LONG" /\ \E l \in levels : Below(l)
  <2> DEFINE unknown == \/ Len(q) < Periods.leastM1
                        \/ adx = None \/ volume = None
             weak == adx <= Periods.minAdx \/ volume < 13
  <2>1. M1Po3Sweep(q) = IF unknown THEN None
                        ELSE IF weak THEN None
                        ELSE IF \E l \in levels : Above(l) THEN "SHORT"
                        ELSE IF \E l \in levels : Below(l) THEN "LONG"
                        ELSE None
    BY DEF M1Po3Sweep
  <2> HIDE DEF unknown, weak, levels, Above, Below
  <2> QED
    BY <2>1
<1>2. \A l : (Above(l) => c.close < c.open) /\ (Below(l) => c.close > c.open)
  OBVIOUS
<1> HIDE DEF Above, Below, levels
<1> QED
  BY <1>1, <1>2, NoneAssumption

LEMMA PricesAdded ==
  ASSUME Forward, Shaped, index > 0
  PROVE  Vwap(Past) = None \/ Vwap(Past) \in Int
<1> DEFINE values == [i \in DOMAIN Past |-> (Past[i].high + Past[i].low + Past[i].close) * Past[i].volume]
           volumes == Field(Past, "volume")
<1>0. index \in Nat
  BY DEF Forward
<1>1. DOMAIN Past = 1 .. index
  BY <1>0, PastKnown DEF IsSequence
<1>2. \A i \in 1 .. index : /\ Past[i].high \in Nat /\ Past[i].low \in Nat /\ Past[i].close \in Nat
                            /\ Past[i].volume \in Nat
  BY PastSensible DEF Sensible
<1>3. volumes \in Seq(Nat)
  <2>1. volumes = [i \in 1 .. index |-> Past[i].volume]
    BY <1>1 DEF Field
  <2> QED
    BY <1>0, <1>2, <2>1
<1>4. values \in Seq(Int)
  <2>1. \A i \in 1 .. index : (Past[i].high + Past[i].low + Past[i].close) * Past[i].volume \in Int
    BY <1>2
  <2> QED
    BY <1>0, <1>1, <2>1
<1>5. Vwap(Past) = IF Sum(volumes) = 0 THEN None ELSE Sum(values) \div (3 * Sum(volumes))
  BY DEF Vwap
<1> HIDE DEF values, volumes
<1>6. Sum(values) \in Int /\ Sum(volumes) \in Nat
  BY <1>3, <1>4, SumInteger, SumNatural
<1>7. ASSUME Sum(volumes) # 0 PROVE Sum(values) \div (3 * Sum(volumes)) \in Int
  <2>1. 3 * Sum(volumes) \in Nat \ {0}
    BY <1>6, <1>7
  <2> QED
    BY <1>6, <2>1
<1> QED
  BY <1>5, <1>7

LEMMA ReclaimFollows ==
  ASSUME Forward, Shaped, index > 1, NEW high, Last(Past).open = Past[index - 1].close
  PROVE  /\ M2VwapReclaim(Past, high) = "SHORT" => Last(Past).close < Last(Past).open
         /\ M2VwapReclaim(Past, high) = "LONG" => Last(Past).close > Last(Past).open
<1> DEFINE c == Last(Past)
           before == Past[index - 1].close
           price == Vwap(Past)
           range == Atr(Past, Periods.atr)
<1>0. Len(Past) = index /\ index \in Nat
  BY PastKnown DEF Forward
<1>1. \/ M2VwapReclaim(Past, high) = None
      \/ M2VwapReclaim(Past, high) = "LONG" /\ price # None /\ before < price /\ price <= c.close
      \/ M2VwapReclaim(Past, high) = "SHORT" /\ price # None /\ before > price /\ price >= c.close
  <2> DEFINE short == Len(Past) < Periods.leastM2 \/ Len(high) < 2
             small == range <= 0 \/ 10 * Gap(c.close, c.open) < 3 * range
             up == Bias(high) = "bullish"
             down == Bias(high) = "bearish"
  <2>1. M2VwapReclaim(Past, high) =
          IF short THEN None
          ELSE IF price = None \/ range = None THEN None
          ELSE IF small THEN None
          ELSE IF before < price /\ price <= c.close /\ up THEN "LONG"
          ELSE IF before > price /\ price >= c.close /\ down THEN "SHORT"
          ELSE None
    BY <1>0 DEF M2VwapReclaim
  <2> HIDE DEF short, small, up, down, c, before, price, range
  <2> QED
    BY <2>1
<1>2. c.close \in Nat /\ c.open \in Nat /\ before = c.open
  BY <1>0, LastSensible DEF Sensible
<1>3. price = None \/ price \in Int
  BY <1>0, PricesAdded
<1> HIDE DEF c, before, price, range
<1>4. /\ price # None /\ before < price /\ price <= c.close => c.close > c.open
      /\ price # None /\ before > price /\ price >= c.close => c.close < c.open
  BY <1>2, <1>3
<1> QED
  BY <1>1, <1>4, NoneAssumption DEF c

LEMMA ChannelFollows ==
  ASSUME Forward, Shaped, index > 1, Last(Past).open = Past[index - 1].close
  PROVE  /\ M5DonchianBreakout(Past) # "SHORT"
         /\ M5DonchianBreakout(Past) = "LONG" => Last(Past).close > Last(Past).open
<1> DEFINE n == Periods.lookback
           c == Last(Past)
           high == Highest(Channel(Past, n))
<1>0. /\ Len(Past) = index /\ index \in Nat /\ n \in Nat \ {0} /\ index - 1 \in 1 .. index
      /\ Periods.leastM5 \in Nat /\ n < Periods.leastM5
  <2>1. n \in Nat \ {0} /\ Periods.leastM5 \in Nat /\ n < Periods.leastM5
    BY PeriodsAssumption
  <2>2. Len(Past) = index /\ index \in Nat
    BY PastKnown DEF Forward
  <2>3. index - 1 \in 1 .. index
    BY <2>2
  <2> QED
    BY <2>1, <2>2, <2>3
<1>1. \/ M5DonchianBreakout(Past) = None
      \/ M5DonchianBreakout(Past) = "LONG" /\ ~ index < Periods.leastM5 /\ ~ c.close <= high
  <2> DEFINE volume == Sum(Field(Channel(Past, n), "volume"))
             thin == volume <= 0 \/ 10 * n * Last(Past).volume < 15 * volume
  <2>1. M5DonchianBreakout(Past) =
          IF index < Periods.leastM5 THEN None
          ELSE IF c.close <= high THEN None
          ELSE IF thin THEN None ELSE "LONG"
    BY <1>0 DEF M5DonchianBreakout
  <2> HIDE DEF thin, c, high
  <2> QED
    BY <2>1
<1>2. CASE M5DonchianBreakout(Past) = None
  BY <1>2, NoneAssumption
<1>3. CASE M5DonchianBreakout(Past) = "LONG" /\ ~ index < Periods.leastM5 /\ ~ c.close <= high
  <2>1. index >= n + 1
    BY <1>0, <1>3
  <2>2. high \in Int /\ Past[index - 1].high <= high
    BY <1>0, <2>1, ChannelBounds
  <2>3. Sensible(Past[index - 1]) /\ Sensible(c)
    BY <1>0, PastSensible, LastSensible
  <2>4. Past[index - 1].close <= high
    BY <2>2, <2>3 DEF Sensible
  <2>5. c.close > c.open
    BY <1>3, <2>2, <2>3, <2>4 DEF Sensible
  <2> QED
    BY <1>3, <2>5
<1> QED
  BY <1>1, <1>2, <1>3

LEMMA SwingKnown ==
  ASSUME Forward, Shaped, index > 0, NEW up \in BOOLEAN
  PROVE  LastSwing(Past, up) = None \/ LastSwing(Past, up) \in Int
<1> DEFINE Turns(i) == IF up THEN Past[i].high = Highest(Around(Past, i))
                       ELSE Past[i].low = Lowest(Around(Past, i))
           turns == {i \in 1 + Periods.swing .. Len(Past) - Periods.swing : Turns(i)}
<1>0. Len(Past) = index /\ index \in Nat /\ Periods.swing \in Nat \ {0}
  BY PastKnown, PeriodsAssumption DEF Forward
<1>1. LastSwing(Past, up) = IF turns = {} THEN None
                            ELSE IF up THEN Past[Max(turns)].high ELSE Past[Max(turns)].low
  BY DEF LastSwing
<1>2. turns \in SUBSET (1 .. index)
  BY <1>0
<1> HIDE DEF turns
<1>3. CASE turns # {}
  <2>1. PICK m \in turns : \A w \in turns : w <= m
    BY <1>0, <1>2, <1>3, Latest
  <2>2. turns \in SUBSET Int
    BY <1>2
  <2>3. Max(turns) = m
    BY <2>1, <2>2, MaxIs
  <2>4. Past[m].high \in Int /\ Past[m].low \in Int
    BY <1>2, <2>1, PastSensible DEF Sensible
  <2> QED
    BY <1>1, <1>3, <2>3, <2>4
<1> QED
  BY <1>1, <1>3

LEMMA GapAgainstSwings ==
  ASSUME Forward, Shaped, index > 0, NEW high, M3IctFvg(Past, high) # None
  PROVE  /\ M3IctFvg(Past, high) = "LONG"
         /\ LastSwing(Past, TRUE) < Last(Past).close
         /\ Last(Past).close < LastSwing(Past, FALSE)
<1> DEFINE close == Last(Past).close
           top == LastSwing(Past, TRUE)
           bottom == LastSwing(Past, FALSE)
           gap == LastFairValueGap(Past)
           break == StructureBreak(Past)
           side == IF break = "bullish" THEN "LONG" ELSE "SHORT"
<1>0. index \in Nat
  BY DEF Forward
<1>1. /\ M3IctFvg(Past, high) = side /\ break # "none"
      /\ top # None /\ bottom # None /\ Retraced(side, close, top, bottom)
  <2> DEFINE sweptHigh == LastSwing(high, TRUE)
             sweptLow == LastSwing(high, FALSE)
             swept == \/ sweptHigh # None /\ Last(high).high > sweptHigh
                      \/ sweptLow # None /\ Last(high).low < sweptLow
             short == Len(Past) < Periods.leastM3 \/ Len(high) < Periods.leastM3High
             within == close \in gap.bottom .. gap.top
  <2>1. M3IctFvg(Past, high) =
          IF short THEN None
          ELSE IF ~swept \/ break = "none" THEN None
          ELSE IF gap = None \/ top = None \/ bottom = None THEN None
          ELSE IF Retraced(side, close, top, bottom) /\ within THEN side
          ELSE None
    BY DEF M3IctFvg
  <2> HIDE DEF short, swept, within, gap, top, bottom, break, side, close
  <2> QED
    BY <2>1
<1>2. close \in Nat
  BY LastSensible DEF Sensible
<1>3. top \in Int /\ bottom \in Int
  BY <1>0, <1>1, SwingKnown
<1>4. break = IF close > top THEN "bullish" ELSE IF close < bottom THEN "bearish" ELSE "none"
  BY <1>1 DEF StructureBreak
<1> HIDE DEF close, top, bottom, break, gap
<1>5. CASE close > top
  <2>1. side = "LONG"
    BY <1>4, <1>5
  <2>2. 2 * close <= top + bottom
    BY <1>1, <2>1 DEF Retraced
  <2>3. top < close /\ close < bottom /\ M3IctFvg(Past, high) = "LONG"
    BY <1>1, <1>2, <1>3, <1>5, <2>1, <2>2
  <2> QED
    BY <2>3 DEF close, top, bottom
<1>6. CASE ~ close > top
  <2>1. close < bottom /\ side = "SHORT"
    BY <1>1, <1>4, <1>6
  <2>2. 2 * close >= top + bottom
    BY <1>1, <2>1 DEF Retraced
  <2> QED
    BY <1>2, <1>3, <1>6, <2>1, <2>2
<1> QED
  BY <1>5, <1>6

\* On a bar that opens at the close before it, M1, M2 and M5 never confirm opposite
\* sides, for a SHORT of theirs needs a bar that fell and a LONG one that rose; and M3
\* confirms no SHORT ever (okf/strategies.py).
THEOREM ModelsAgree == SpecReplay => []OKFModelsAgree
<1>1. Forward /\ Shaped => OKFModelsAgree
  <2> SUFFICES ASSUME Forward, Shaped, index > 1, Last(Past).open = Past[index - 1].close
               PROVE  OKFModelsAgree
    BY DEF OKFModelsAgree
  <2> DEFINE high == SynthesizeTimeframe(Past, Periods.high)
             c == Last(Past)
             a == M1Po3Sweep(Past)
             b == M2VwapReclaim(Past, high)
             d == M5DonchianBreakout(Past)
  <2>0. index \in Nat /\ index > 0 /\ c.close \in Nat /\ c.open \in Nat
    BY LastSensible DEF Forward, Sensible
  <2>1. /\ a = "SHORT" => c.close < c.open
        /\ a = "LONG" => c.close > c.open
    BY SweepFades
  <2>2. /\ b = "SHORT" => c.close < c.open
        /\ b = "LONG" => c.close > c.open
    BY ReclaimFollows
  <2>3. d # "SHORT" /\ (d = "LONG" => c.close > c.open)
    BY ChannelFollows
  <2>4. M3IctFvg(Past, high) # None =>
          /\ M3IctFvg(Past, high) = "LONG"
          /\ LastSwing(Past, TRUE) < c.close /\ c.close < LastSwing(Past, FALSE)
    BY <2>0, GapAgainstSwings
  <2>5. ~ {"LONG", "SHORT"} \subseteq {a, b, d}
    <3> HIDE DEF a, b, c, d
    <3> QED
      BY <2>0, <2>1, <2>2, <2>3
  <2> QED
    BY <2>4, <2>5 DEF OKFModelsAgree
<1> QED
  BY <1>1, ForwardShaped, PTL

-----------------------------------------------------------------------------
(* Runs *)

Covers(T, a, b) == \A k \in a .. b : k \in T

\* The length of the longest run of T in the first n bars.
LongestRun(T, n, most) ==
  /\ most \in Nat
  /\ most = 0 \/ \E a, b \in 1 .. n : a <= b /\ Covers(T, a, b) /\ most = b - a + 1
  /\ \A a, b \in 1 .. n : a <= b /\ Covers(T, a, b) => b - a + 1 <= most

LEMMA LongestIs ==
  ASSUME NEW n \in Nat, NEW T, NEW most, LongestRun(T, n, most)
  PROVE  LET runs == {r \in (1 .. n) \X (1 .. n) : r[1] <= r[2] /\ \A k \in r[1] .. r[2] : k \in T}
         IN  Max({0} \cup {r[2] - r[1] + 1 : r \in runs}) = most
<1> DEFINE runs == {r \in (1 .. n) \X (1 .. n) : r[1] <= r[2] /\ \A k \in r[1] .. r[2] : k \in T}
           lengths == {0} \cup {r[2] - r[1] + 1 : r \in runs}
<1>1. lengths \in SUBSET Int
  OBVIOUS
<1>2. most \in lengths
  <2>1. CASE most = 0
    BY <2>1
  <2>2. CASE \E a, b \in 1 .. n : a <= b /\ Covers(T, a, b) /\ most = b - a + 1
    <3>1. PICK a, b \in 1 .. n : a <= b /\ Covers(T, a, b) /\ most = b - a + 1
      BY <2>2
    <3>2. <<a, b>> \in runs
      BY <3>1 DEF Covers
    <3> HIDE DEF runs
    <3> QED
      BY <3>1, <3>2
  <2> QED
    BY <2>1, <2>2 DEF LongestRun
<1>3. \A y \in lengths : y <= most
  <2> TAKE y \in lengths
  <2>1. CASE y = 0
    BY <2>1 DEF LongestRun
  <2>2. CASE y # 0
    <3>1. PICK r \in runs : y = r[2] - r[1] + 1
      BY <2>2
    <3>2. r[1] \in 1 .. n /\ r[2] \in 1 .. n /\ r[1] <= r[2] /\ Covers(T, r[1], r[2])
      BY DEF Covers
    <3> QED
      BY <3>1, <3>2 DEF LongestRun
  <2> QED
    BY <2>1, <2>2
<1> HIDE DEF lengths
<1>4. Max(lengths) = most
  BY <1>1, <1>2, <1>3, MaxIs
<1> QED
  BY <1>4 DEF lengths

\* A count that starts again after every bar that is not in T, and the most it
\* has been.
Counted(T, n, length, most) ==
  /\ length[0] = 0 /\ most[0] = 0
  /\ \A i \in 1 .. n : /\ length[i] = IF i \in T THEN length[i - 1] + 1 ELSE 0
                       /\ most[i] = Max({most[i - 1], length[i]})

EndsRun(T, i, length) ==
  /\ length \in 0 .. i
  /\ Covers(T, i - length + 1, i)
  /\ i - length \in T => length = i

LEMMA RunGrows ==
  ASSUME NEW T, NEW i \in Nat \ {0}, NEW l, EndsRun(T, i - 1, l)
  PROVE  EndsRun(T, i, IF i \in T THEN l + 1 ELSE 0)
<1>1. l \in 0 .. i - 1 /\ Covers(T, i - 1 - l + 1, i - 1) /\ (i - 1 - l \in T => l = i - 1)
  BY DEF EndsRun
<1>2. CASE i \in T
  <2>1. \A k \in i - (l + 1) + 1 .. i : k \in i - 1 - l + 1 .. i - 1 \/ k = i
    BY <1>1
  <2>2. Covers(T, i - (l + 1) + 1, i)
    BY <1>1, <1>2, <2>1 DEF Covers
  <2>3. i - (l + 1) = i - 1 - l
    BY <1>1
  <2> QED
    BY <1>1, <1>2, <2>2, <2>3 DEF EndsRun
<1>3. CASE i \notin T
  BY <1>3 DEF EndsRun, Covers
<1> QED
  BY <1>2, <1>3

\* A run of which the last bar is i is no longer than the one that was counted.
LEMMA RunCounted ==
  ASSUME NEW T, NEW i \in Nat, NEW l, EndsRun(T, i, l),
         NEW a \in 1 .. i, Covers(T, a, i)
  PROVE  i - a + 1 <= l
<1>1. l \in 0 .. i /\ (i - l \in T => l = i)
  BY DEF EndsRun
<1>2. SUFFICES ASSUME a <= i - l PROVE FALSE
  BY <1>1
<1>3. i - l \in a .. i
  BY <1>1, <1>2
<1>4. i - l \in T
  BY <1>3 DEF Covers
<1> QED
  BY <1>1, <1>2, <1>4

LEMMA MostGrows ==
  ASSUME NEW T, NEW i \in Nat \ {0}, NEW l, NEW most,
         LongestRun(T, i - 1, most), EndsRun(T, i, l)
  PROVE  LongestRun(T, i, Max({most, l}))
<1>1. l \in Nat /\ most \in Nat /\ l \in Int /\ most \in Int
  BY DEF EndsRun, LongestRun
<1>2. Max({most, l}) = IF most <= l THEN l ELSE most
  BY <1>1, MaxOfTwo
<1> DEFINE max == Max({most, l})
<1>3. max \in Nat /\ most <= max /\ l <= max /\ (max = most \/ max = l)
  BY <1>1, <1>2
<1> HIDE DEF max
<1> DEFINE Reached == \E a, b \in 1 .. i : a <= b /\ Covers(T, a, b) /\ max = b - a + 1
<1>4. ASSUME max = most PROVE max = 0 \/ Reached
  <2>1. most = 0 \/ \E a, b \in 1 .. i - 1 : a <= b /\ Covers(T, a, b) /\ most = b - a + 1
    BY DEF LongestRun
  <2>2. CASE \E a, b \in 1 .. i - 1 : a <= b /\ Covers(T, a, b) /\ most = b - a + 1
    <3>1. PICK a, b \in 1 .. i - 1 : a <= b /\ Covers(T, a, b) /\ most = b - a + 1
      BY <2>2
    <3>2. a \in 1 .. i /\ b \in 1 .. i
      OBVIOUS
    <3>3. Reached
      BY <1>4, <3>1, <3>2
    <3> QED
      BY <3>3
  <2> QED
    BY <1>4, <2>1, <2>2
<1>5. ASSUME max = l, l # 0 PROVE max = 0 \/ Reached
  <2>1. i - l + 1 \in 1 .. i /\ i \in 1 .. i /\ i - l + 1 <= i /\ l = i - (i - l + 1) + 1
    BY <1>5 DEF EndsRun
  <2>2. Covers(T, i - l + 1, i)
    BY DEF EndsRun
  <2>3. PICK a \in 1 .. i : a = i - l + 1
    BY <2>1
  <2>4. Reached
    BY <1>5, <2>1, <2>2, <2>3
  <2> QED
    BY <2>4
<1>6. max = 0 \/ Reached
  <2> HIDE DEF Reached
  <2> QED
    BY <1>3, <1>4, <1>5
<1>7. ASSUME NEW a \in 1 .. i, NEW b \in 1 .. i, a <= b, Covers(T, a, b)
      PROVE  b - a + 1 <= max
  <2>1. CASE b = i
    <3>1. i - a + 1 <= l
      BY <1>7, <2>1, RunCounted
    <3> QED
      BY <1>1, <1>3, <2>1, <3>1
  <2>2. CASE b # i
    <3>1. a \in 1 .. i - 1 /\ b \in 1 .. i - 1
      BY <1>7, <2>2
    <3>2. b - a + 1 <= most
      BY <1>7, <3>1 DEF LongestRun
    <3> QED
      BY <1>1, <1>3, <3>1, <3>2
  <2> QED
    BY <2>1, <2>2
<1>8. LongestRun(T, i, max)
  BY <1>3, <1>6, <1>7 DEF LongestRun
<1> QED
  BY <1>8 DEF max

LEMMA CountedLongest ==
  ASSUME NEW n \in Nat, NEW T, NEW length, NEW most, Counted(T, n, length, most)
  PROVE  LongestRun(T, n, most[n])
<1> DEFINE Good(i) == EndsRun(T, i, length[i]) /\ LongestRun(T, i, most[i])
           Bad == {i \in 0 .. n : ~ Good(i)}
<1>1. Good(0)
  BY DEF Counted, EndsRun, LongestRun, Covers
<1>2. ASSUME NEW i \in 1 .. n, Good(i - 1)
      PROVE  Good(i)
  <2>1. i \in Nat \ {0}
    OBVIOUS
  <2>2. length[i] = IF i \in T THEN length[i - 1] + 1 ELSE 0
    BY DEF Counted
  <2>3. EndsRun(T, i, length[i])
    BY <1>2, <2>1, <2>2, RunGrows
  <2>4. most[i] = Max({most[i - 1], length[i]})
    BY DEF Counted
  <2>5. LongestRun(T, i, most[i])
    BY <1>2, <2>1, <2>3, <2>4, MostGrows
  <2> QED
    BY <2>3, <2>5
<1> HIDE DEF Good
<1>3. Bad = {}
  <2> SUFFICES ASSUME Bad # {} PROVE FALSE
    OBVIOUS
  <2>0. Bad \in SUBSET Nat
    OBVIOUS
  <2>1. PICK m \in Bad : \A k \in Bad : m <= k
    BY <2>0, First
  <2>2. m \in 1 .. n /\ m - 1 \in 0 .. n /\ ~ m <= m - 1
    BY <1>1, <2>1
  <2>3. Good(m - 1)
    BY <2>1, <2>2
  <2> QED
    BY <1>2, <2>1, <2>2, <2>3
<1>4. n \in 0 .. n
  OBVIOUS
<1>5. Good(n)
  BY <1>3, <1>4
<1> QED
  BY <1>5 DEF Good

\* The streaks of some gains are the longest runs of wins and of losses.
LEMMA StreaksAreRuns ==
  ASSUME NEW pnls \in Seq(Int)
  PROVE  LET n == Len(pnls)
         IN  /\ LongestRun({i \in 1 .. n : pnls[i] > 0}, n, Streaks(pnls).wins)
             /\ LongestRun({i \in 1 .. n : pnls[i] < 0}, n, Streaks(pnls).losses)
<1> DEFINE n == Len(pnls)
           S == [win : Int, loss : Int, wins : Int, losses : Int]
           zero == [win |-> 0, loss |-> 0, wins |-> 0, losses |-> 0]
           win(s, p) == IF p > 0 THEN s.win + 1 ELSE 0
           loss(s, p) == IF p < 0 THEN s.loss + 1 ELSE 0
           Step(s, p) == [win |-> win(s, p), loss |-> loss(s, p),
                          wins |-> Max({s.wins, win(s, p)}), losses |-> Max({s.losses, loss(s, p)})]
           step == [q \in (1 .. n) \X S |-> Step(q[2], pnls[q[1]])]
           E(g) == [i \in 0 .. n |-> IF i = 0 THEN zero ELSE Step(g[i - 1], pnls[i])]
           F == CHOOSE g : g = E(g)
<1>1. n \in Nat /\ \A i \in 1 .. n : pnls[i] \in Int
  OBVIOUS
<1>2. ASSUME NEW s \in S, NEW p \in Int PROVE Step(s, p) \in S
  <2>1. win(s, p) \in Int /\ loss(s, p) \in Int /\ s.wins \in Int /\ s.losses \in Int
    OBVIOUS
  <2> HIDE DEF win, loss
  <2>2. Max({s.wins, win(s, p)}) \in Int /\ Max({s.losses, loss(s, p)}) \in Int
    BY <2>1, MaxOfTwo
  <2> QED
    BY <2>1, <2>2
<1>3. zero \in S
  OBVIOUS
<1> HIDE DEF S, Step, zero
<1>4. step \in [(1 .. n) \X S -> S]
  BY <1>1, <1>2
<1>5. Streaks(pnls) = [wins |-> F[n].wins, losses |-> F[n].losses]
  BY DEF Streaks, Step, zero
<1> HIDE DEF n
<1>6. PICK table \in [0 .. n -> S] : Scans(n, zero, step, table)
  <2> HIDE DEF step
  <2> QED
    BY <1>1, <1>3, <1>4, ScanExists
<1>7. table[0] = zero /\ \A i \in 1 .. n : table[i] = Step(table[i - 1], pnls[i])
  <2>1. ASSUME NEW i \in 1 .. n PROVE table[i] = Step(table[i - 1], pnls[i])
    <3>1. i - 1 \in 0 .. n
      BY <1>1
    <3>2. table[i] = step[<<i, table[i - 1]>>] /\ table[i - 1] \in S
      BY <1>6, <3>1 DEF Scans
    <3> QED
      BY <3>2
  <2> QED
    BY <1>6, <2>1 DEF Scans
<1>8. table = E(table)
  BY <1>1, <1>6, <1>7
<1>9. F = E(F)
  <2> HIDE DEF E
  <2> QED
    BY <1>8
<1> HIDE DEF F
<1>10. F[0] = zero /\ \A i \in 1 .. n : F[i] = Step(F[i - 1], pnls[i])
  <2>1. ASSUME NEW g PROVE /\ E(g)[0] = zero
                           /\ \A i \in 1 .. n : E(g)[i] = Step(g[i - 1], pnls[i])
    BY <1>1
  <2> HIDE DEF E
  <2> QED
    BY <1>9, <2>1
<1> DEFINE W == {i \in 1 .. n : pnls[i] > 0}
           L == {i \in 1 .. n : pnls[i] < 0}
<1>11. Counted(W, n, [i \in 0 .. n |-> F[i].win], [i \in 0 .. n |-> F[i].wins])
  <2> DEFINE a == [i \in 0 .. n |-> F[i].win]
             b == [i \in 0 .. n |-> F[i].wins]
  <2>1. a[0] = 0 /\ b[0] = 0
    BY <1>1, <1>10 DEF zero
  <2>2. ASSUME NEW i \in 1 .. n
        PROVE  a[i] = (IF i \in W THEN a[i - 1] + 1 ELSE 0) /\ b[i] = Max({b[i - 1], a[i]})
    <3>1. i \in 0 .. n /\ i - 1 \in 0 .. n
      BY <1>1
    <3>2. a[i] = F[i].win /\ b[i] = F[i].wins /\ a[i - 1] = F[i - 1].win /\ b[i - 1] = F[i - 1].wins
      BY <3>1
    <3>3. F[i].win = win(F[i - 1], pnls[i]) /\ F[i].wins = Max({F[i - 1].wins, win(F[i - 1], pnls[i])})
      <4> HIDE DEF win, loss
      <4>1. F[i] = Step(F[i - 1], pnls[i])
        BY <1>10
      <4> QED
        BY <4>1 DEF Step
    <3> QED
      BY <3>2, <3>3
  <2> HIDE DEF a, b
  <2>3. Counted(W, n, a, b)
    BY <2>1, <2>2 DEF Counted
  <2> QED
    BY <2>3 DEF a, b
<1>12. Counted(L, n, [i \in 0 .. n |-> F[i].loss], [i \in 0 .. n |-> F[i].losses])
  <2> DEFINE a == [i \in 0 .. n |-> F[i].loss]
             b == [i \in 0 .. n |-> F[i].losses]
  <2>1. a[0] = 0 /\ b[0] = 0
    BY <1>1, <1>10 DEF zero
  <2>2. ASSUME NEW i \in 1 .. n
        PROVE  a[i] = (IF i \in L THEN a[i - 1] + 1 ELSE 0) /\ b[i] = Max({b[i - 1], a[i]})
    <3>1. i \in 0 .. n /\ i - 1 \in 0 .. n
      BY <1>1
    <3>2. a[i] = F[i].loss /\ b[i] = F[i].losses /\ a[i - 1] = F[i - 1].loss /\ b[i - 1] = F[i - 1].losses
      BY <3>1
    <3>3. F[i].loss = loss(F[i - 1], pnls[i]) /\ F[i].losses = Max({F[i - 1].losses, loss(F[i - 1], pnls[i])})
      <4> HIDE DEF win, loss
      <4>1. F[i] = Step(F[i - 1], pnls[i])
        BY <1>10
      <4> QED
        BY <4>1 DEF Step
    <3> QED
      BY <3>2, <3>3
  <2> HIDE DEF a, b
  <2>3. Counted(L, n, a, b)
    BY <2>1, <2>2 DEF Counted
  <2> QED
    BY <2>3 DEF a, b
<1> HIDE DEF W, L
<1>13. LongestRun(W, n, F[n].wins) /\ LongestRun(L, n, F[n].losses)
  <2>1. n \in 0 .. n
    BY <1>1
  <2>2. LongestRun(W, n, [i \in 0 .. n |-> F[i].wins][n])
    BY <1>1, <1>11, CountedLongest
  <2>3. LongestRun(L, n, [i \in 0 .. n |-> F[i].losses][n])
    BY <1>1, <1>12, CountedLongest
  <2> QED
    BY <2>1, <2>2, <2>3
<1>14. Streaks(pnls).wins = F[n].wins /\ Streaks(pnls).losses = F[n].losses
  BY <1>5
<1> QED
  BY <1>13, <1>14 DEF W, L, n

\* The highest of some first bars, and of the capital.
Peak(curve, i) == Max({Capital} \cup {curve[k] : k \in 1 .. i})

LEMMA PeakKnown ==
  ASSUME NEW curve \in Seq(Int), NEW i \in 0 .. Len(curve)
  PROVE  /\ Peak(curve, i) \in {Capital} \cup {curve[k] : k \in 1 .. i}
         /\ Peak(curve, i) \in Int /\ Capital <= Peak(curve, i)
         /\ \A k \in 1 .. i : curve[k] <= Peak(curve, i)
<1> DEFINE S == {Capital} \cup {curve[k] : k \in 1 .. i}
           f == [k \in 1 .. i + 1 |-> IF k = i + 1 THEN Capital ELSE curve[k]]
<1>1. /\ i + 1 \in Nat \ {0} /\ Capital \in Int
      /\ \A k \in 1 .. i : curve[k] \in Int /\ k \in 1 .. i + 1 /\ k # i + 1
      /\ \A k \in 1 .. i + 1 : k = i + 1 \/ k \in 1 .. i
  BY AccountAssumption
<1>2. \A k \in 1 .. i + 1 : f[k] \in S /\ f[k] \in Int
  BY <1>1
<1>3. f[i + 1] = Capital /\ \A k \in 1 .. i : f[k] = curve[k]
  BY <1>1
<1> HIDE DEF f
<1>4. PICK m \in 1 .. i + 1 : \A k \in 1 .. i + 1 : f[k] <= f[m]
  BY <1>1, <1>2, Greatest
<1>5. \A y \in S : y <= f[m]
  <2> TAKE y \in S
  <2>1. CASE y = Capital
    BY <1>1, <1>3, <1>4, <2>1
  <2>2. CASE y # Capital
    <3>1. PICK k \in 1 .. i : y = curve[k]
      BY <2>2
    <3> QED
      BY <1>1, <1>3, <1>4, <3>1
  <2> QED
    BY <2>1, <2>2
<1>6. S \in SUBSET Int /\ f[m] \in S
  BY <1>1, <1>2
<1>7. Capital \in S /\ \A k \in 1 .. i : curve[k] \in S
  OBVIOUS
<1> HIDE DEF S
<1>8. Max(S) = f[m]
  BY <1>5, <1>6, MaxIs
<1>9. Peak(curve, i) = f[m]
  BY <1>8 DEF Peak, S
<1> QED
  BY <1>5, <1>6, <1>7, <1>9 DEF S

LEMMA PeakMoves ==
  ASSUME NEW curve \in Seq(Int), NEW i \in 1 .. Len(curve)
  PROVE  /\ Peak(curve, i) = IF curve[i] >= Peak(curve, i - 1) THEN curve[i] ELSE Peak(curve, i - 1)
         /\ curve[i] < Peak(curve, i) <=> ~ curve[i] >= Peak(curve, i - 1)
<1> DEFINE p == Peak(curve, i - 1)
           q == Peak(curve, i)
<1>1. /\ i - 1 \in 0 .. Len(curve) /\ i \in 0 .. Len(curve) /\ curve[i] \in Int /\ i \in 1 .. i
      /\ \A k \in 1 .. i : k \in 1 .. i - 1 \/ k = i
      /\ \A k \in 1 .. i - 1 : k \in 1 .. i
  OBVIOUS
<1>2. /\ p \in {Capital} \cup {curve[k] : k \in 1 .. i - 1} /\ p \in Int /\ Capital <= p
      /\ \A k \in 1 .. i - 1 : curve[k] <= p
  BY <1>1, PeakKnown
<1>3. /\ q \in {Capital} \cup {curve[k] : k \in 1 .. i} /\ q \in Int /\ Capital <= q
      /\ \A k \in 1 .. i : curve[k] <= q
  BY <1>1, PeakKnown
<1> HIDE DEF p, q
<1>4. p <= q
  BY <1>1, <1>2, <1>3
<1>5. curve[i] <= q
  BY <1>1, <1>3
<1>6. q <= p \/ q = curve[i]
  BY <1>1, <1>2, <1>3
<1>7. q = (IF curve[i] >= p THEN curve[i] ELSE p) /\ (curve[i] < q <=> ~ curve[i] >= p)
  BY <1>1, <1>2, <1>3, <1>4, <1>5, <1>6
<1> QED
  BY <1>7 DEF p, q

LEMMA MaxOfNothing == ASSUME NEW a \in Nat PROVE Max({a, 0}) = a
<1>1. 0 \in Int /\ a \in Int
  OBVIOUS
<1>2. Max({a, 0}) = IF a <= 0 THEN 0 ELSE a
  BY <1>1, MaxOfTwo
<1> QED
  BY <1>2

\* Counting one bar more, or starting again, moves the most a run was.
LEMMA CountGoesOn ==
  ASSUME NEW longest \in Nat, NEW l \in Int
  PROVE  /\ Max({Max({longest, l}), l + 1}) = Max({longest, l + 1})
         /\ Max({Max({longest, l}), 0}) = Max({longest, l})
         /\ Max({longest, l}) \in Nat
<1>1. Max({longest, l}) = IF longest <= l THEN l ELSE longest
  BY MaxOfTwo
<1>2. Max({longest, l}) \in Nat
  BY <1>1
<1>3. Max({longest, l + 1}) = IF longest <= l + 1 THEN l + 1 ELSE longest
  BY MaxOfTwo
<1> DEFINE m == Max({longest, l})
<1> HIDE DEF m
<1>5. m \in Int /\ l + 1 \in Int /\ 0 \in Int /\ m = IF longest <= l THEN l ELSE longest
  BY <1>1, <1>2 DEF m
<1>6. Max({m, l + 1}) = IF m <= l + 1 THEN l + 1 ELSE m
  BY <1>5, MaxOfTwo
<1>7. Max({m, 0}) = IF m <= 0 THEN 0 ELSE m
  BY <1>5, MaxOfTwo
<1>8. Max({m, l + 1}) = Max({longest, l + 1}) /\ Max({m, 0}) = m
  BY <1>3, <1>5, <1>6, <1>7
<1> QED
  BY <1>2, <1>8 DEF m

\* The length of the drawdown is that of the longest run of bars below a peak.
LEMMA DrawdownIsRun ==
  ASSUME NEW curve \in Seq(Int)
  PROVE  LongestRun({i \in 1 .. Len(curve) : curve[i] < Peak(curve, i)}, Len(curve),
                    DrawdownDuration(curve))
<1> DEFINE n == Len(curve)
           T == {i \in 1 .. n : curve[i] < Peak(curve, i)}
           S == [peak : Int, from : Int \cup {None}, longest : Nat]
           zero == [peak |-> Capital, from |-> None, longest |-> 0]
           Step(s, i) ==
             IF curve[i] >= s.peak
             THEN [peak |-> curve[i], from |-> None,
                   longest |-> IF s.from = None THEN s.longest ELSE Max({s.longest, i - s.from})]
             ELSE [s EXCEPT !.from = IF @ = None THEN i ELSE @]
           step == [q \in (1 .. n) \X S |-> Step(q[2], q[1])]
           E(g) == [i \in 0 .. n |-> IF i = 0 THEN zero ELSE Step(g[i - 1], i)]
           F == CHOOSE g : g = E(g)
<1>1. n \in Nat /\ \A i \in 1 .. n : curve[i] \in Int
  OBVIOUS
<1>2. ASSUME NEW s \in S, NEW i \in 1 .. n
      PROVE  /\ Step(s, i) \in S
             /\ curve[i] >= s.peak =>
                  /\ Step(s, i).peak = curve[i] /\ Step(s, i).from = None
                  /\ Step(s, i).longest = IF s.from = None THEN s.longest
                                          ELSE Max({s.longest, i - s.from})
             /\ ~ curve[i] >= s.peak =>
                  /\ Step(s, i).peak = s.peak /\ Step(s, i).longest = s.longest
                  /\ Step(s, i).from = IF s.from = None THEN i ELSE s.from
  <2>1. CASE curve[i] >= s.peak
    <3>1. s.longest \in Nat /\ (s.from # None => i - s.from \in Int /\ s.longest \in Int)
      OBVIOUS
    <3>2. s.from # None => Max({s.longest, i - s.from}) \in Nat
      <4>1. s.from # None => Max({s.longest, i - s.from}) =
                               IF s.longest <= i - s.from THEN i - s.from ELSE s.longest
        BY <3>1, MaxOfTwo
      <4> QED
        BY <3>1, <4>1
    <3> DEFINE l == IF s.from = None THEN s.longest ELSE Max({s.longest, i - s.from})
    <3>3. l \in Nat
      BY <3>1, <3>2
    <3>4. Step(s, i) = [peak |-> curve[i], from |-> None, longest |-> l]
      BY <2>1
    <3> HIDE DEF l, Step
    <3>5. Step(s, i) \in S /\ Step(s, i).peak = curve[i] /\ Step(s, i).from = None
          /\ Step(s, i).longest = l
      BY <1>1, <3>3, <3>4
    <3> QED
      BY <2>1, <3>5 DEF l
  <2>2. CASE ~ curve[i] >= s.peak
    <3>1. Step(s, i) = [s EXCEPT !.from = IF s.from = None THEN i ELSE s.from]
      BY <2>2
    <3> HIDE DEF Step
    <3> QED
      BY <2>2, <3>1
  <2> QED
    BY <2>1, <2>2
<1>3. zero \in S
  BY AccountAssumption
<1>4. DrawdownDuration(curve) =
        IF F[n].from = None THEN F[n].longest ELSE Max({F[n].longest, n + 1 - F[n].from})
  BY DEF DrawdownDuration
<1> HIDE DEF Step
<1>5. step \in [(1 .. n) \X S -> S]
  <2> HIDE DEF S
  <2> QED
    BY <1>1, <1>2
<1> HIDE DEF n
<1>6. PICK table \in [0 .. n -> S] : Scans(n, zero, step, table)
  <2> HIDE DEF step, S, zero
  <2> QED
    BY <1>1, <1>3, <1>5, ScanExists
<1>7. table[0] = zero /\ \A i \in 1 .. n : table[i] = Step(table[i - 1], i)
  <2> HIDE DEF S, zero
  <2>1. ASSUME NEW i \in 1 .. n PROVE table[i] = Step(table[i - 1], i)
    <3>1. i - 1 \in 0 .. n
      BY <1>1
    <3>2. table[i] = step[<<i, table[i - 1]>>] /\ table[i - 1] \in S
      BY <1>6, <3>1 DEF Scans
    <3> QED
      BY <3>2
  <2> QED
    BY <1>6, <2>1 DEF Scans
<1>8. table = E(table)
  <2> HIDE DEF S, zero
  <2> QED
    BY <1>1, <1>6, <1>7
<1>9. F = E(F)
  <2> HIDE DEF E
  <2> QED
    BY <1>8
<1> HIDE DEF F
<1>10. F[0] = zero /\ \A i \in 1 .. n : F[i] = Step(F[i - 1], i)
  <2>1. ASSUME NEW g PROVE /\ E(g)[0] = zero
                           /\ \A i \in 1 .. n : E(g)[i] = Step(g[i - 1], i)
    <3> HIDE DEF zero
    <3> QED
      BY <1>1
  <2> HIDE DEF E, zero
  <2> QED
    BY <1>9, <2>1
<1> DEFINE Good(i) == F[i] \in S /\ F[i].peak = Peak(curve, i) /\ (i = 0 => F[i] = zero)
           Bad == {i \in 0 .. n : ~ Good(i)}
<1>11. Bad = {}
  <2>1. Good(0)
    <3>1. {Capital} \cup {curve[k] : k \in 1 .. 0} = {Capital}
      OBVIOUS
    <3>2. Max({Capital}) = Capital
      <4>1. {Capital} \in SUBSET Int /\ Capital \in {Capital} /\ \A y \in {Capital} : y <= Capital
        BY AccountAssumption
      <4> QED
        BY <4>1, MaxIs
    <3>3. Peak(curve, 0) = Capital
      BY <3>1, <3>2 DEF Peak
    <3> QED
      BY <1>3, <1>10, <3>3
  <2>2. ASSUME NEW i \in 1 .. n, Good(i - 1) PROVE Good(i)
    <3>1. F[i - 1] \in S /\ F[i - 1].peak = Peak(curve, i - 1)
      BY <2>2
    <3>2. F[i] = Step(F[i - 1], i) /\ i # 0
      BY <1>10
    <3>3. Peak(curve, i) = IF curve[i] >= Peak(curve, i - 1) THEN curve[i] ELSE Peak(curve, i - 1)
      BY PeakMoves DEF n
    <3> HIDE DEF S
    <3> DEFINE s == F[i - 1]
    <3> HIDE DEF s
    <3>4. /\ F[i] \in S
          /\ curve[i] >= s.peak => F[i].peak = curve[i]
          /\ ~ curve[i] >= s.peak => F[i].peak = s.peak
      <4>1. s \in S /\ F[i] = Step(s, i)
        BY <3>1, <3>2 DEF s
      <4>2. /\ Step(s, i) \in S
            /\ curve[i] >= s.peak => Step(s, i).peak = curve[i]
            /\ ~ curve[i] >= s.peak => Step(s, i).peak = s.peak
        BY <1>2, <4>1
      <4> QED
        BY <4>1, <4>2
    <3>5. F[i].peak = Peak(curve, i)
      BY <3>1, <3>3, <3>4 DEF s
    <3> QED
      BY <3>2, <3>4, <3>5
  <2> SUFFICES ASSUME Bad # {} PROVE FALSE
    OBVIOUS
  <2> HIDE DEF Good
  <2>0. Bad \in SUBSET Nat
    BY <1>1
  <2>3. PICK m \in Bad : \A k \in Bad : m <= k
    BY <2>0, First
  <2>4. m \in 1 .. n /\ m - 1 \in 0 .. n /\ ~ m <= m - 1
    BY <1>1, <2>1, <2>3
  <2>5. Good(m - 1)
    BY <2>3, <2>4
  <2> QED
    BY <2>2, <2>3, <2>4, <2>5
<1>12. \A i \in 0 .. n : F[i] \in S /\ F[i].peak = Peak(curve, i)
  BY <1>11
<1> DEFINE Length(i) == IF F[i].from = None THEN 0 ELSE i + 1 - F[i].from
           length == [i \in 0 .. n |-> Length(i)]
           most == [i \in 0 .. n |-> Max({F[i].longest, Length(i)})]
<1>13. Counted(T, n, length, most)
  <2>1. length[0] = 0 /\ most[0] = 0
    <3>1. F[0].from = None /\ F[0].longest = 0
      BY <1>10
    <3>2. Max({0, 0}) = 0
      BY MaxOfNothing
    <3>3. Length(0) = 0 /\ Max({F[0].longest, Length(0)}) = 0
      BY <3>1, <3>2
    <3> HIDE DEF Length
    <3> QED
      BY <1>1, <3>3
  <2>2. ASSUME NEW i \in 1 .. n
        PROVE  /\ length[i] = IF i \in T THEN length[i - 1] + 1 ELSE 0
               /\ most[i] = Max({most[i - 1], length[i]})
    <3> DEFINE s == F[i - 1]
               l == Length(i - 1)
    <3>1. i \in 0 .. n /\ i - 1 \in 0 .. n /\ i \in Int
      BY <1>1
    <3>2. s \in S /\ s.peak = Peak(curve, i - 1) /\ F[i] = Step(s, i)
      BY <1>10, <1>12, <3>1
    <3>3. /\ s.longest \in Nat /\ l \in Int
          /\ l = IF s.from = None THEN 0 ELSE i - s.from
      BY <3>1, <3>2
    <3>4. i \in T <=> ~ curve[i] >= s.peak
      BY <3>2, PeakMoves DEF n
    <3>5. /\ length[i] = Length(i) /\ length[i - 1] = l
          /\ most[i] = Max({F[i].longest, Length(i)}) /\ most[i - 1] = Max({s.longest, l})
      <4> HIDE DEF Length
      <4> QED
        BY <3>1
    <3>6. CASE i \in T
      <4>1. F[i].longest = s.longest /\ F[i].from = IF s.from = None THEN i ELSE s.from
        <5> HIDE DEF S, s, T
        <5>1. ~ curve[i] >= s.peak
          BY <3>4, <3>6
        <5>2. Step(s, i).longest = s.longest /\ Step(s, i).from = IF s.from = None THEN i ELSE s.from
          BY <1>2, <3>2, <5>1
        <5> QED
          BY <3>2, <5>2
      <4>2. Length(i) = l + 1
        BY <3>1, <3>2, <3>3, <4>1, NoneAssumption
      <4> HIDE DEF s, l, length, most, Length, T
      <4>3. Max({Max({s.longest, l}), l + 1}) = Max({s.longest, l + 1})
        BY <3>3, CountGoesOn
      <4> QED
        BY <3>5, <3>6, <4>1, <4>2, <4>3
    <3>7. CASE i \notin T
      <4>1. F[i].from = None /\ F[i].longest = IF s.from = None THEN s.longest
                                                ELSE Max({s.longest, i - s.from})
        <5> HIDE DEF S, s, T
        <5>1. curve[i] >= s.peak
          BY <3>4, <3>7
        <5>2. /\ Step(s, i).from = None
              /\ Step(s, i).longest = IF s.from = None THEN s.longest
                                      ELSE Max({s.longest, i - s.from})
          BY <1>2, <3>2, <5>1
        <5> QED
          BY <3>2, <5>2
      <4>2. Length(i) = 0
        BY <4>1
      <4>3. F[i].longest = Max({s.longest, l})
        <5>1. Max({s.longest, 0}) = s.longest
          BY <3>3, MaxOfNothing
        <5> QED
          BY <3>3, <4>1, <5>1
      <4> HIDE DEF s, l, length, most, Length, T
      <4>4. Max({Max({s.longest, l}), 0}) = Max({s.longest, l})
        BY <3>3, CountGoesOn
      <4> QED
        BY <3>5, <3>7, <4>2, <4>3, <4>4
    <3> QED
      BY <3>6, <3>7
  <2> HIDE DEF length, most, T
  <2> QED
    BY <2>1, <2>2 DEF Counted
<1>14. LongestRun(T, n, most[n])
  <2> HIDE DEF length, most, T
  <2> QED
    BY <1>1, <1>13, CountedLongest
<1>15. most[n] = DrawdownDuration(curve)
  <2>1. n \in 0 .. n
    BY <1>1
  <2>2. F[n].longest \in Nat
    BY <1>12, <2>1
  <2>3. Max({F[n].longest, 0}) = F[n].longest
    BY <2>2, MaxOfNothing
  <2>4. most[n] = Max({F[n].longest, Length(n)})
    <3> HIDE DEF Length
    <3> QED
      BY <2>1
  <2> QED
    BY <1>4, <2>3, <2>4
<1> QED
  BY <1>14, <1>15 DEF n

-----------------------------------------------------------------------------
(* The books and their curves *)

\* The numbers of a book, and what they say of each other.
Solid(b) ==
  /\ IsBook(b)
  /\ b.side \in {"FLAT", "LONG", "SHORT"}
  /\ b.cash \in Int /\ b.qty \in Nat /\ b.peak \in Int /\ b.peak >= Capital
  /\ (b.side = "FLAT" <=> b.entry = None) /\ (b.side = "FLAT" <=> b.qty = 0)
  /\ b.curve \in Seq(Int)

\* The numbers are the same in both books.
SameNumbers(b, c) ==
  /\ IsBook(c) /\ c.side = b.side /\ c.cash = b.cash /\ c.qty = b.qty /\ c.peak = b.peak
  /\ c.entry = b.entry /\ c.curve = b.curve

LEMMA OtherField ==
  ASSUME NEW b, IsBook(b), NEW x,
         NEW f \in {"trades", "stop", "target", "trail", "breakeven", "partial", "records",
                    "opened", "refused"}
  PROVE  SameNumbers(b, [b EXCEPT ![f] = x])
  BY DEF IsBook, SameNumbers, Fields

LEMMA SameSolid ==
  ASSUME NEW b, Solid(b), NEW c, SameNumbers(b, c)
  PROVE  Solid(c) /\ c.curve = b.curve
  BY DEF Solid, SameNumbers

LEMMA Traded ==
  ASSUME NEW qty \in Int, NEW price \in Int
  PROVE  Value(qty, price) \in Int /\ Fee(Value(qty, price)) \in Int
<1>1. ASSUME NEW a \in Int, NEW n \in Nat \ {0} PROVE a \div n \in Int
  OBVIOUS
<1>2. qty * price \in Int /\ Lots \in Nat \ {0} /\ FeeBps \in Nat
  BY AccountAssumption
<1>3. Value(qty, price) \in Int
  BY <1>1, <1>2 DEF Value
<1> DEFINE v == Value(qty, price)
<1> HIDE DEF v
<1>4. v * FeeBps \in Int
  BY <1>2, <1>3 DEF v
<1>5. Fee(v) \in Int
  BY <1>1, <1>4 DEF Fee
<1> QED
  BY <1>3, <1>5 DEF v

LEMMA EquityTyped ==
  ASSUME NEW b, Solid(b), NEW price \in Int
  PROVE  Equity(b, price) \in Int
<1>1. Value(b.qty, price) \in Int
  <2>1. b.qty \in Int
    BY DEF Solid
  <2> QED
    BY <2>1, Traded
<1> QED
  BY <1>1 DEF Equity, Solid

LEMMA SnapshotSolid ==
  ASSUME NEW b, Solid(b), NEW price \in Int
  PROVE  Solid(Snapshot(b, price)) /\ Snapshot(b, price).curve = b.curve
<1> DEFINE peak == Max({b.peak, Equity(b, price)})
<1>1. peak \in Int /\ peak >= b.peak
  <2>1. b.peak \in Int /\ Equity(b, price) \in Int
    BY EquityTyped DEF Solid
  <2>2. peak = IF b.peak <= Equity(b, price) THEN Equity(b, price) ELSE b.peak
    BY <2>1, MaxOfTwo
  <2> HIDE DEF peak
  <2> QED
    BY <2>1, <2>2
<1>2. Snapshot(b, price) = [b EXCEPT !.peak = peak]
  BY DEF Snapshot
<1> HIDE DEF peak
<1>3. peak >= Capital
  BY <1>1, AccountAssumption DEF Solid
<1> QED
  BY <1>1, <1>2, <1>3 DEF Solid, IsBook, Fields

LEMMA ExitSolid ==
  ASSUME NEW b, Solid(b), NEW price \in Int
  PROVE  Solid(Exit(b, price)) /\ Exit(b, price).curve = b.curve
<1> DEFINE cash == CashAfter(b, b.qty, price)
           trades == b.trades + 1
           noted == Append(b.records, [side |-> b.side,
                                         pnl |-> Gain(b, b.qty, price) - Fee(Value(b.qty, price))])
<1>1. cash \in Int
  <2>0. b.qty \in Int
    BY DEF Solid
  <2>1. Value(b.qty, price) \in Int /\ Fee(Value(b.qty, price)) \in Int
    BY <2>0, Traded
  <2> QED
    BY <2>1 DEF CashAfter, Solid
<1>2. Exit(b, price) =
        [b EXCEPT !.cash = cash, !.trades = trades, !.side = "FLAT", !.qty = 0, !.entry = None,
                  !.stop = None, !.target = None, !.records = noted]
  BY DEF Exit
<1> HIDE DEF cash, trades, noted
<1>3. LET c == Exit(b, price)
      IN  /\ IsBook(c) /\ c.side = "FLAT" /\ c.cash = cash /\ c.qty = 0 /\ c.entry = None
          /\ c.peak = b.peak /\ c.curve = b.curve
  BY <1>2 DEF Solid, IsBook, Fields
<1> QED
  BY <1>1, <1>3 DEF Solid

LEMMA PartialSolid ==
  ASSUME NEW b, Solid(b), b.side # "FLAT", NEW price \in Int, NEW atOneR
  PROVE  /\ Solid(Partial(b, price, atOneR)) /\ Partial(b, price, atOneR).curve = b.curve
         /\ Partial(b, price, atOneR).side = b.side
<1> DEFINE half == b.qty \div 2
           cash == CashAfter(b, half, price)
           qty == b.qty - half
           trades == b.trades + 1
<1>1. half \in Nat /\ qty \in Nat /\ qty # 0
  BY DEF Solid
<1>2. cash \in Int
  <2> HIDE DEF half
  <2>0. half \in Int
    BY <1>1
  <2>1. Value(half, price) \in Int /\ Fee(Value(half, price)) \in Int
    BY <2>0, Traded
  <2> QED
    BY <2>1 DEF CashAfter, Solid
<1>3. CASE ~ (b.partial /\ atOneR)
  <2>1. Partial(b, price, atOneR) = b
    BY <1>3 DEF Partial
  <2> QED
    BY <2>1
<1>4. CASE b.partial /\ atOneR
  <2>1. Partial(b, price, atOneR) =
          [b EXCEPT !.cash = cash, !.qty = qty, !.trades = trades, !.partial = FALSE]
    BY <1>4 DEF Partial
  <2> HIDE DEF cash, qty, trades
  <2>2. LET c == Partial(b, price, atOneR)
        IN  /\ IsBook(c) /\ c.side = b.side /\ c.cash = cash /\ c.qty = qty /\ c.entry = b.entry
            /\ c.peak = b.peak /\ c.curve = b.curve
    BY <2>1 DEF Solid, IsBook, Fields
  <2> QED
    BY <1>1, <1>2, <2>2 DEF Solid
<1> QED
  BY <1>3, <1>4

LEMMA BreakevenSolid ==
  ASSUME NEW b, Solid(b), NEW price
  PROVE  /\ Solid(Breakeven(b, price)) /\ Breakeven(b, price).curve = b.curve
         /\ Breakeven(b, price).side = b.side
<1>1. Breakeven(b, price) = b \/ Breakeven(b, price) = [b EXCEPT !["stop"] = b.entry]
  BY DEF Breakeven
<1>2. SameNumbers(b, [b EXCEPT !["stop"] = b.entry])
  BY OtherField DEF Solid
<1>3. SameNumbers(b, b)
  BY DEF SameNumbers, Solid
<1>4. SameNumbers(b, Breakeven(b, price))
  BY <1>1, <1>2, <1>3
<1> QED
  BY <1>4, SameSolid DEF SameNumbers

LEMMA TrailedSolid ==
  ASSUME NEW b, Solid(b), NEW price
  PROVE  Solid(Trailed(b, price)) /\ Trailed(b, price).curve = b.curve
<1> DEFINE candidate == Ahead(b.side, price, -b.trail)
<1>1. Trailed(b, price) = b \/ Trailed(b, price) = [b EXCEPT !["stop"] = candidate]
  BY DEF Trailed
<1> HIDE DEF candidate
<1>2. SameNumbers(b, [b EXCEPT !["stop"] = candidate])
  BY OtherField DEF Solid
<1>3. SameNumbers(b, b)
  BY DEF SameNumbers, Solid
<1>4. SameNumbers(b, Trailed(b, price))
  BY <1>1, <1>2, <1>3
<1> QED
  BY <1>4, SameSolid

LEMMA TickSolid ==
  ASSUME NEW b, Solid(b), NEW price \in Int
  PROVE  Solid(Tick(b, price)) /\ Tick(b, price).curve = b.curve
<1>1. CASE b.side = "FLAT"
  BY <1>1 DEF Tick
<1>2. CASE b.side # "FLAT"
  <2> DEFINE even == Breakeven(b, price)
             kept == Partial(even, price, AtOneR(b, price))
  <2>1. Solid(even) /\ even.curve = b.curve /\ even.side # "FLAT"
    BY <1>2, BreakevenSolid
  <2> HIDE DEF even
  <2>2. Solid(kept) /\ kept.curve = b.curve
    BY <2>1, PartialSolid
  <2> HIDE DEF kept
  <2>3. /\ Solid(Exit(kept, price)) /\ Exit(kept, price).curve = b.curve
        /\ Solid(Trailed(kept, price)) /\ Trailed(kept, price).curve = b.curve
    BY <2>2, ExitSolid, TrailedSolid
  <2>4. Tick(b, price) \in {Exit(kept, price), Trailed(kept, price)}
    BY <1>2 DEF Tick, kept, even
  <2> QED
    BY <2>3, <2>4
<1> QED
  BY <1>1, <1>2

LEMMA PlanTyped ==
  ASSUME NEW signal, signal.entry \in Nat \ {0}, signal.stop \in Int
  PROVE  PlanQuantity(signal) \in Nat
<1> DEFINE risk == Gap(signal.entry, signal.stop)
           byRisk == IF risk = 0 THEN 0 ELSE (Part(Capital, 5) * Lots) \div risk
           byValue == (Part(Capital, 20) * Lots) \div signal.entry
<1>1. risk \in Nat
  BY DEF Gap
<1>2. Part(Capital, 5) \in Nat /\ Part(Capital, 20) \in Nat /\ Lots \in Nat
  BY AccountAssumption DEF Part
<1>3. Part(Capital, 5) * Lots \in Nat /\ Part(Capital, 20) * Lots \in Nat
  BY <1>2
<1>4. byRisk \in Nat /\ byValue \in Nat
  <2> DEFINE x == Part(Capital, 5) * Lots
             y == Part(Capital, 20) * Lots
  <2>1. x \in Nat /\ y \in Nat
    BY <1>3
  <2> HIDE DEF x, y, risk
  <2>2. y \div signal.entry \in Nat
    BY <2>1, Quotient
  <2>3. risk # 0 => x \div risk \in Nat
    BY <1>1, <2>1, Quotient
  <2>4. byRisk = (IF risk = 0 THEN 0 ELSE x \div risk) /\ byValue = y \div signal.entry
    BY DEF x, y
  <2> QED
    BY <2>2, <2>3, <2>4
<1>5. PlanQuantity(signal) = Min({byRisk, byValue})
  BY DEF PlanQuantity
<1> HIDE DEF byRisk, byValue
<1>6. byRisk \in Int /\ byValue \in Int
  BY <1>4
<1>7. Min({byRisk, byValue}) = IF byRisk <= byValue THEN byRisk ELSE byValue
  BY <1>6, MinOfTwo
<1> QED
  BY <1>4, <1>5, <1>7

LEMMA OpenSolid ==
  ASSUME NEW b, Solid(b), NEW strategy, NEW signal, NEW candle,
         signal.side \in {"LONG", "SHORT"}, signal.entry \in Nat \ {0}, signal.stop \in Int,
         PlanQuantity(signal) # 0
  PROVE  Solid(Open(b, strategy, signal, candle)) /\ Open(b, strategy, signal, candle).curve = b.curve
<1> DEFINE slip  == (signal.entry * SlipBps) \div 10000
           qty   == PlanQuantity(signal)
           entry == Ahead(signal.side, signal.entry, slip)
           cash  == (IF signal.side = "LONG" THEN b.cash - Value(qty, entry)
                                             ELSE b.cash + Value(qty, entry))
                      - Fee(Value(qty, entry))
           range == candle.high - candle.low
           trail == IF strategy = "momentum_breakout"
                    THEN 2 * (IF range = 0 THEN Part(candle.close, 10) ELSE range)
                    ELSE b.trail
           flag  == strategy = "po3_vwap"
           stop == signal.stop
           target == signal.target
           side == signal.side
           trades == b.trades + 1
           opened == Append(b.opened, side)
           c == Open(b, strategy, signal, candle)
<1>1. c = [b EXCEPT !.cash = cash, !.side = side, !.qty = qty, !.entry = entry,
                    !.stop = stop, !.target = target, !.trades = trades,
                    !.trail = trail, !.breakeven = flag, !.partial = flag, !.opened = opened]
  BY DEF Open
<1>2. qty \in Nat /\ qty # 0 /\ qty \in Int
  BY PlanTyped
<1>3. slip \in Int
  <2>1. signal.entry * SlipBps \in Int
    BY AccountAssumption
  <2> QED
    BY <2>1
<1>4. entry \in Int
  <2> HIDE DEF slip
  <2> QED
    BY <1>3 DEF Ahead
<1>5. cash \in Int
  <2> HIDE DEF qty, entry
  <2>1. Value(qty, entry) \in Int /\ Fee(Value(qty, entry)) \in Int
    BY <1>2, <1>4, Traded
  <2>2. b.cash \in Int
    BY DEF Solid
  <2> QED
    BY <2>1, <2>2
<1> HIDE DEF c, cash, qty, entry, trail, flag, stop, target, side, trades, opened
<1>6. /\ IsBook(c) /\ c.side = side /\ c.cash = cash /\ c.qty = qty /\ c.entry = entry
      /\ c.peak = b.peak /\ c.curve = b.curve
  BY <1>1 DEF IsBook, Fields, Solid
<1>7. side \in {"LONG", "SHORT"} /\ entry # None
  BY <1>4, NoneAssumption DEF side
<1>8. Solid(c)
  BY <1>2, <1>4, <1>5, <1>6, <1>7 DEF Solid
<1> QED
  BY <1>6, <1>8 DEF c

LEMMA DecideSolid ==
  ASSUME NEW b, Solid(b), NEW strategy, NEW candles, NEW at,
         Placed(SignalForStrategy(strategy, candles, at))
  PROVE  /\ Solid(Decide(b, strategy, candles, at))
         /\ Decide(b, strategy, candles, at).curve = b.curve
<1> DEFINE signal == SignalForStrategy(strategy, candles, at)
           refused == Refusals(signal, b)
           c == Open(b, strategy, signal, candles[at])
<1>1. Decide(b, strategy, candles, at) =
        IF signal.side = "FLAT" \/ b.side # "FLAT" THEN b
        ELSE IF refused # {} THEN [b EXCEPT !["refused"] = refused] ELSE c
  BY DEF Decide
<1>2. PlanQuantity(signal) = 0 => refused # {}
  <2> HIDE DEF signal
  <2> QED
    BY DEF Refusals
<1>3. Placed(signal)
  OBVIOUS
<1> HIDE DEF signal, refused
<1>4. Solid([b EXCEPT !["refused"] = refused]) /\ [b EXCEPT !["refused"] = refused].curve = b.curve
  <2>1. SameNumbers(b, [b EXCEPT !["refused"] = refused])
    BY OtherField DEF Solid
  <2> QED
    BY <2>1, SameSolid
<1>5. ASSUME signal.side # "FLAT", refused = {}
      PROVE  Solid(c) /\ c.curve = b.curve
  <2>1. /\ signal.side \in {"LONG", "SHORT"} /\ signal.entry \in Nat \ {0} /\ signal.stop \in Int
    BY <1>3, <1>5 DEF Placed, Flat, Signal
  <2> QED
    BY <1>2, <1>5, <2>1, OpenSolid
<1> HIDE DEF c
<1> QED
  BY <1>1, <1>4, <1>5

LEMMA BarSolid ==
  ASSUME NEW b, Solid(b), NEW strategy, NEW candles, NEW at, Sensible(candles[at]),
         Placed(SignalForStrategy(strategy, candles, at))
  PROVE  /\ Solid(AfterBar(b, strategy, candles, at))
         /\ Len(AfterBar(b, strategy, candles, at).curve) = Len(b.curve) + 1
<1> DEFINE c       == candles[at]
           t1 == Tick(b, c.open)
           t2 == Tick(t1, c.high)
           t3 == Tick(t2, c.low)
           t4 == Tick(t3, c.close)
           managed == Snapshot(t4, c.close)
           decided == IF at <= Warmup THEN managed ELSE Decide(managed, strategy, candles, at)
           looked  == Snapshot(decided, c.close)
           equity  == Equity(decided, c.close)
           curve   == Append(looked.curve, equity)
<1>0. c.open \in Int /\ c.high \in Int /\ c.low \in Int /\ c.close \in Int
  BY DEF Sensible
<1>1. AfterBar(b, strategy, candles, at) = [looked EXCEPT !.curve = curve]
  BY DEF AfterBar
<1> HIDE DEF c
<1>2. Solid(t1) /\ t1.curve = b.curve
  BY <1>0, TickSolid
<1> HIDE DEF t1
<1>3. Solid(t2) /\ t2.curve = b.curve
  BY <1>0, <1>2, TickSolid
<1> HIDE DEF t2
<1>4. Solid(t3) /\ t3.curve = b.curve
  BY <1>0, <1>3, TickSolid
<1> HIDE DEF t3
<1>5. Solid(t4) /\ t4.curve = b.curve
  BY <1>0, <1>4, TickSolid
<1> HIDE DEF t4
<1>6. Solid(managed) /\ managed.curve = b.curve
  BY <1>0, <1>5, SnapshotSolid
<1> HIDE DEF managed
<1>7. Solid(decided) /\ decided.curve = b.curve
  <2>1. Solid(Decide(managed, strategy, candles, at))
        /\ Decide(managed, strategy, candles, at).curve = managed.curve
    BY <1>6, DecideSolid
  <2> QED
    BY <1>6, <2>1
<1> HIDE DEF decided
<1>8. Solid(looked) /\ looked.curve = b.curve
  BY <1>0, <1>7, SnapshotSolid
<1>9. equity \in Int
  BY <1>0, <1>7, EquityTyped
<1> HIDE DEF looked, equity
<1>10. curve \in Seq(Int) /\ Len(curve) = Len(b.curve) + 1
  BY <1>8, <1>9 DEF Solid
<1> HIDE DEF curve
<1> DEFINE d == [looked EXCEPT !.curve = curve]
<1>11. /\ IsBook(d) /\ d.side = looked.side /\ d.cash = looked.cash /\ d.qty = looked.qty
       /\ d.peak = looked.peak /\ d.entry = looked.entry /\ d.curve = curve
  BY <1>8 DEF Solid, IsBook, Fields
<1> HIDE DEF d
<1>12. Solid(d)
  BY <1>8, <1>10, <1>11 DEF Solid
<1> QED
  BY <1>1, <1>10, <1>11, <1>12 DEF d

\* What is known of every book, a strategy's equity being noted once for each bar.
BooksSolid ==
  /\ books = [s \in Strategies |-> books[s]]
  /\ \A s \in Strategies : Solid(books[s]) /\ Len(books[s].curve) = index
  /\ Len(series) <= MaxBars

LEMMA BooksStart == InitReplay => BooksSolid
<1> SUFFICES ASSUME InitReplay PROVE BooksSolid
  OBVIOUS
<1>1. Solid(NewBook) /\ Len(NewBook.curve) = 0
  <2>1. /\ IsBook(NewBook) /\ NewBook.side = "FLAT" /\ NewBook.cash = Capital
        /\ NewBook.peak = Capital /\ NewBook.qty = 0 /\ NewBook.entry = None
        /\ NewBook.curve = << >>
    BY DEF NewBook, IsBook, Fields
  <2>2. << >> \in Seq(Int) /\ Len(<< >>) = 0
    OBVIOUS
  <2> QED
    BY <2>1, <2>2, AccountAssumption DEF Solid
<1>2. Len(series) = 1
  <2>1. PICK c \in Shapes : series = <<CandleAt(0, c)>>
    BY DEF InitReplay
  <2> QED
    BY <2>1
<1>3. books = [s \in Strategies |-> NewBook] /\ index = 0
  BY DEF InitReplay
<1> HIDE DEF NewBook
<1> QED
  BY <1>1, <1>2, <1>3, BarsAssumption DEF BooksSolid

\* A bar that is replayed, and what the signals say of it.
LEMMA BooksKept ==
  /\ Forward /\ Shaped /\ BooksSolid /\ [NextReplay]_replayVars
  /\ Forward' /\ Shaped' /\ Directed'
  => BooksSolid'
<1> SUFFICES ASSUME Forward, Shaped, BooksSolid, [NextReplay]_replayVars, Forward', Shaped',
                    Directed'
             PROVE  BooksSolid'
  OBVIOUS
<1>1. CASE UNCHANGED replayVars
  BY <1>1 DEF replayVars, BooksSolid
<1>2. CASE NextReplay
  <2>1. PICK shape \in Shapes, gap \in Gaps : Replay(shape, gap)
    BY <1>2 DEF NextReplay
  <2>2. /\ index' = index + 1 /\ index \in Nat /\ Len(series) = index + 1
        /\ Len(series') = index' + 1 /\ Len(series) < MaxBars
    BY <2>1 DEF Replay, Forward
  <2>3. books' = [s \in Strategies |-> AfterBar(books[s], s, series', index')]
    BY <2>1 DEF Replay
  <2>4. Sensible(series'[index'])
    <3>1. PICK c \in Shapes : series'[index'] = CandleAt(series'[index'].time, c)
      <4>1. index' \in 1 .. index' + 1
        BY <2>2
      <4> QED
        BY <4>1 DEF Shaped
    <3>2. LET d == series'[index']
          IN  /\ d.open = c.open /\ d.high = c.high /\ d.low = c.low
              /\ d.close = c.close /\ d.volume = c.volume
      BY <3>1 DEF CandleAt
    <3>3. Sensible(c)
      BY ShapesSensible
    <3> QED
      BY <3>2, <3>3 DEF Sensible
  <2>5. ASSUME NEW s \in Strategies
        PROVE  Solid(books'[s]) /\ Len(books'[s].curve) = index'
    <3>1. Placed(SignalForStrategy(s, series', index'))
      BY <2>2 DEF Directed
    <3>2. Solid(books[s]) /\ Len(books[s].curve) = index
      BY DEF BooksSolid
    <3>3. books'[s] = AfterBar(books[s], s, series', index')
      BY <2>3
    <3>4. /\ Solid(AfterBar(books[s], s, series', index'))
          /\ Len(AfterBar(books[s], s, series', index').curve) = Len(books[s].curve) + 1
      BY <2>4, <3>1, <3>2, BarSolid
    <3> QED
      BY <2>2, <3>2, <3>3, <3>4
  <2>6. books' = [s \in Strategies |-> books'[s]]
    BY <2>3
  <2>7. Len(series') <= MaxBars
    BY <2>2, BarsAssumption
  <2> QED
    BY <2>5, <2>6, <2>7 DEF BooksSolid
<1> QED
  BY <1>1, <1>2

LEMMA ReplaySolid == SpecReplay => [](Forward /\ Shaped /\ BooksSolid)
<1> QED
  BY ForwardStart, ForwardKept, ShapedStart, ShapedKept, BooksStart, BooksKept, SignalsPlaced,
     PTL DEF SpecReplay

\* Every book of a replay keeps its types: a position has a quantity and an entry, the
\* peak is never below the capital, and the curve has one equity a bar.
THEOREM ReplayTyped == SpecReplay => []ReplayTypeOK
<1>1. Forward /\ BooksSolid => ReplayTypeOK
  <2> SUFFICES ASSUME Forward, BooksSolid PROVE ReplayTypeOK
    OBVIOUS
  <2>1. index + 1 = Len(series) /\ Len(series) <= MaxBars
    BY DEF Forward, BooksSolid
  <2>2. ASSUME NEW s \in Strategies, NEW b, b = books[s]
        PROVE  /\ b.side \in {"FLAT", "LONG", "SHORT"} /\ b.qty >= 0 /\ b.peak >= Capital
               /\ (b.side = "FLAT") = (b.entry = None) /\ (b.side = "FLAT") = (b.qty = 0)
               /\ Len(b.curve) = index
    <3>1. Solid(b) /\ Len(b.curve) = index
      BY <2>2 DEF BooksSolid
    <3>2. b.side \in {"FLAT", "LONG", "SHORT"} /\ b.qty >= 0 /\ b.peak >= Capital
      BY <3>1 DEF Solid
    <3>3. (b.side = "FLAT") = (b.entry = None) /\ (b.side = "FLAT") = (b.qty = 0)
      BY <3>1 DEF Solid
    <3> QED
      BY <3>1, <3>2, <3>3
  <2> QED
    BY <2>1, <2>2 DEF ReplayTypeOK
<1> QED
  BY <1>1, ReplaySolid, PTL

\* The streaks and the drawdown duration, which the code computes in one pass, are the
\* longest runs that their names promise, on the curve of every book of every replay
\* (_streaks, compute_backtest_metrics).
THEOREM MetricsAreRight == SpecReplay => []MetricsMatchDefinitions
<1>1. BooksSolid => MetricsMatchDefinitions
  <2> SUFFICES ASSUME BooksSolid, NEW s \in Strategies
               PROVE
    LET curve == books[s].curve
        moves == [i \in 1 .. Len(curve) |-> IF i = 1 THEN curve[1] - Capital
                                            ELSE curve[i] - curve[i - 1]]
        Below(i) == curve[i] < Max({Capital} \cup {curve[k] : k \in 1 .. i})
    IN  /\ Streaks(moves).wins = Longest(Len(moves), LAMBDA i : moves[i] > 0)
        /\ Streaks(moves).losses = Longest(Len(moves), LAMBDA i : moves[i] < 0)
        /\ DrawdownDuration(curve) = Longest(Len(curve), Below)
    BY DEF MetricsMatchDefinitions
  <2> DEFINE curve == books[s].curve
             n == Len(curve)
             moves == [i \in 1 .. n |-> IF i = 1 THEN curve[1] - Capital
                                        ELSE curve[i] - curve[i - 1]]
  <2>1. curve \in Seq(Int) /\ n \in Nat
    BY DEF BooksSolid, Solid
  <2> HIDE DEF curve
  <2>2. moves \in Seq(Int) /\ Len(moves) = n
    <3>1. \A i \in 1 .. n : (IF i = 1 THEN curve[1] - Capital ELSE curve[i] - curve[i - 1]) \in Int
      <4>1. \A i \in 1 .. n : curve[i] \in Int
        BY <2>1
      <4>2. \A i \in 1 .. n : i # 1 => i - 1 \in 1 .. n
        BY <2>1
      <4> QED
        BY <4>1, <4>2, AccountAssumption
    <3> QED
      BY <2>1, <3>1
  <2> HIDE DEF moves, n
  <2>3. Streaks(moves).wins = Longest(n, LAMBDA i : moves[i] > 0)
    <3> DEFINE T == {i \in 1 .. n : moves[i] > 0}
               runs == {r \in (1 .. n) \X (1 .. n) : r[1] <= r[2] /\ \A k \in r[1] .. r[2] : k \in T}
               held == {r \in (1 .. n) \X (1 .. n) : r[1] <= r[2] /\ \A k \in r[1] .. r[2] : moves[k] > 0}
    <3>1. LongestRun(T, n, Streaks(moves).wins)
      BY <2>2, StreaksAreRuns
    <3>2. runs = held
      BY <2>1
    <3>3. Max({0} \cup {r[2] - r[1] + 1 : r \in runs}) = Streaks(moves).wins
      <4> HIDE DEF T
      <4> QED
        BY <2>1, <3>1, LongestIs
    <3>4. Longest(n, LAMBDA i : moves[i] > 0) = Max({0} \cup {r[2] - r[1] + 1 : r \in held})
      BY DEF Longest
    <3> HIDE DEF runs, held
    <3> QED
      BY <3>2, <3>3, <3>4
  <2>4. Streaks(moves).losses = Longest(n, LAMBDA i : moves[i] < 0)
    <3> DEFINE T == {i \in 1 .. n : moves[i] < 0}
               runs == {r \in (1 .. n) \X (1 .. n) : r[1] <= r[2] /\ \A k \in r[1] .. r[2] : k \in T}
               held == {r \in (1 .. n) \X (1 .. n) : r[1] <= r[2] /\ \A k \in r[1] .. r[2] : moves[k] < 0}
    <3>1. LongestRun(T, n, Streaks(moves).losses)
      BY <2>2, StreaksAreRuns
    <3>2. runs = held
      BY <2>1
    <3>3. Max({0} \cup {r[2] - r[1] + 1 : r \in runs}) = Streaks(moves).losses
      <4> HIDE DEF T
      <4> QED
        BY <2>1, <3>1, LongestIs
    <3>4. Longest(n, LAMBDA i : moves[i] < 0) = Max({0} \cup {r[2] - r[1] + 1 : r \in held})
      BY DEF Longest
    <3> HIDE DEF runs, held
    <3> QED
      BY <3>2, <3>3, <3>4
  <2>5. DrawdownDuration(curve) = Longest(n, LAMBDA i : curve[i] < Max({Capital} \cup {curve[k] : k \in 1 .. i}))
    <3> DEFINE T == {i \in 1 .. n : curve[i] < Peak(curve, i)}
               runs == {r \in (1 .. n) \X (1 .. n) : r[1] <= r[2] /\ \A k \in r[1] .. r[2] : k \in T}
               held == {r \in (1 .. n) \X (1 .. n) :
                          r[1] <= r[2] /\ \A k \in r[1] .. r[2] : curve[k] < Peak(curve, k)}
    <3>1. LongestRun(T, n, DrawdownDuration(curve))
      BY <2>1, DrawdownIsRun DEF n
    <3>2. runs = held
      BY <2>1
    <3>3. Max({0} \cup {r[2] - r[1] + 1 : r \in runs}) = DrawdownDuration(curve)
      <4> HIDE DEF T
      <4> QED
        BY <2>1, <3>1, LongestIs
    <3>4. Longest(n, LAMBDA i : curve[i] < Max({Capital} \cup {curve[k] : k \in 1 .. i}))
            = Max({0} \cup {r[2] - r[1] + 1 : r \in held})
      BY DEF Longest, Peak
    <3> HIDE DEF runs, held
    <3> QED
      BY <3>2, <3>3, <3>4
  <2> QED
    BY <2>2, <2>3, <2>4, <2>5 DEF moves, n, curve
<1> QED
  BY <1>1, ReplaySolid, PTL
=============================================================================
