------------------------- MODULE PaperExchangeProofs -------------------------
(***************************************************************************)
(* The exchange keeps its books, its orders and its client ids for every   *)
(* set of symbols, prices, orders, fees, slippage and rules.               *)
(*                                                                         *)
(* The inductive invariant Inv joins the properties of PaperExchange with  *)
(* what the loops rely on: while a price update or an end of day is under  *)
(* way, the orders or symbols it has still to visit are as they were when  *)
(* it began.  On it rest the theorems about what a step may do: to the     *)
(* breaker, to the stop of a position, to the trade log, and to the order  *)
(* book, which is a refinement of OrderLifecycle.                          *)
(*                                                                         *)
(* First what the methods of the portfolio preserve: the type, well-formed *)
(* positions and the balance of the books.  It begins with RunningTotal:   *)
(* it is the running total it is named for, and how a total changes when   *)
(* one entry changes or one is appended.  The provers have no induction    *)
(* over data; each fact is proved by looking at the least entry at which   *)
(* it would fail.                                                          *)
(***************************************************************************)
EXTENDS PaperExchange, WellFoundedInduction, SequenceTheorems, TLAPS

(* The portfolio *)

\* A nonempty set of naturals has a least element.
LEMMA Least ==
    ASSUME NEW T \in SUBSET Nat, T # {}
    PROVE  \E m \in T : \A n \in T : m <= n
<1>1. IsWellFoundedOn(OpToRel(<, Nat), Nat)
  BY NatLessThanWellFounded
<1>2. PICK m \in T : \A n \in T : <<n, m>> \notin OpToRel(<, Nat)
  BY <1>1, WFMin
<1>3. \A n \in T : ~(n < m)
  BY <1>2 DEF OpToRel
<1>. QED  BY <1>3

\* a is a table of running totals of f, up to m.
Sums(m, f, a) ==
    /\ a \in [0..m -> Int]
    /\ a[0] = 0
    /\ \A n \in 1..m : a[n] = a[n - 1] + f[n]

\* Every table of integers has a table of running totals.
LEMMA SumsExist ==
    ASSUME NEW N \in Nat, NEW f \in [1..N -> Int]
    PROVE  \E a : Sums(N, f, a)
<1> DEFINE T == {m \in 0..N : ~ \E a : Sums(m, f, a)}
<1>. SUFFICES ASSUME ~ \E a : Sums(N, f, a) PROVE FALSE
  OBVIOUS
<1>1. N \in T
  OBVIOUS
<1>2. PICK m \in T : \A n \in T : m <= n
  BY <1>1, Least, T \in SUBSET Nat
<1>3. CASE m = 0
  <2>1. Sums(0, f, [i \in 0..0 |-> 0])
    BY DEF Sums
  <2>. QED  BY <2>1, <1>3
<1>4. CASE m # 0
  <2>1. m \in Nat /\ m - 1 \in 0..N /\ m - 1 \notin T
    BY <1>2, <1>4
  <2>2. PICK a : Sums(m - 1, f, a)
    BY <2>1
  <2> DEFINE b == [i \in 0..m |-> IF i = m THEN a[m - 1] + f[m] ELSE a[i]]
  <2>3. m \in 1..N
    BY <1>2, <1>4
  <2>4. a \in [0..(m - 1) -> Int] /\ a[0] = 0 /\ a[m - 1] \in Int /\ f[m] \in Int
    BY <2>1, <2>2, <2>3 DEF Sums
  <2>5. b \in [0..m -> Int] /\ b[0] = 0
    BY <2>3, <2>4
  <2>6. ASSUME NEW n \in 1..m PROVE b[n] = b[n - 1] + f[n]
    BY <2>2, <2>3, <2>4, SMTT(30) DEF Sums
  <2>7. Sums(m, f, b)
    BY <2>5, <2>6 DEF Sums
  <2>. QED  BY <2>7, <1>2
<1>. QED  BY <1>3, <1>4

\* Prefix satisfies its recursive equation.
LEMMA RunningTotals ==
    ASSUME NEW N \in Nat, NEW f \in [1..N -> Int]
    PROVE  /\ Prefix(N, f) \in [0..N -> Int]
           /\ Prefix(N, f)[0] = 0
           /\ \A n \in 1..N : Prefix(N, f)[n] = Prefix(N, f)[n - 1] + f[n]
<1> DEFINE E(g) == [m \in 0..N |-> IF m = 0 THEN 0 ELSE g[m - 1] + f[m]]
<1>1. PICK a : Sums(N, f, a)
  BY SumsExist
<1>2. a = E(a)
  BY <1>1 DEF Sums
<1> HIDE DEF E
<1>3. (CHOOSE g : g = E(g)) = E(CHOOSE g : g = E(g))
  BY <1>2
<1>4. Prefix(N, f) = (CHOOSE g : g = E(g))
  BY DEF Prefix, E
<1> DEFINE P == Prefix(N, f)
<1>5. P = E(P)
  BY <1>3, <1>4
<1> HIDE DEF P
<1>6. /\ P[0] = 0 /\ DOMAIN P = 0..N /\ P = [m \in 0..N |-> P[m]]
      /\ \A n \in 1..N : P[n] = P[n - 1] + f[n]
  BY <1>5 DEF E
<1> DEFINE U == {m \in 0..N : P[m] \notin Int}
<1>7. U = {}
  <2>1. SUFFICES ASSUME U # {} PROVE FALSE
    OBVIOUS
  <2>2. PICK m \in U : \A n \in U : m <= n
    BY <2>1, Least, U \in SUBSET Nat
  <2>3. m # 0 /\ m \in Nat /\ m <= N
    BY <1>6, <2>2
  <2>4. m - 1 \in 0..N /\ m - 1 \notin U /\ m \in 1..N
    BY <2>2, <2>3
  <2>5. P[m - 1] \in Int /\ f[m] \in Int /\ P[m] = P[m - 1] + f[m]
    BY <2>4, <1>6
  <2>6. P[m] \in Int
    BY <2>5
  <2>. QED  BY <2>2, <2>6
<1>. QED  BY <1>6, <1>7 DEF P

\* The total of a table of integers is an integer.
LEMMA TotalInt ==
    ASSUME NEW N \in Nat, NEW f \in [1..N -> Int]
    PROVE  Total(N, f) \in Int
  BY RunningTotals DEF Total

\* Tables that agree up to M have the same running total there.
LEMMA PrefixAgree ==
    ASSUME NEW N \in Nat, NEW M \in Nat, M <= N,
           NEW f \in [1..M -> Int], NEW g \in [1..N -> Int],
           \A i \in 1..M : g[i] = f[i]
    PROVE  Prefix(N, g)[M] = Prefix(M, f)[M]
<1> DEFINE F == Prefix(M, f)
           G == Prefix(N, g)
           T == {m \in 0..M : G[m] # F[m]}
<1>1. /\ F[0] = 0 /\ \A n \in 1..M : F[n] = F[n - 1] + f[n]
      /\ G[0] = 0 /\ \A n \in 1..N : G[n] = G[n - 1] + g[n]
  BY RunningTotals
<1> HIDE DEF F, G
<1>2. T = {}
  <2>1. SUFFICES ASSUME T # {} PROVE FALSE
    OBVIOUS
  <2>2. PICK m \in T : \A n \in T : m <= n
    BY <2>1, Least, T \in SUBSET Nat
  <2>3. m # 0 /\ m \in Nat /\ m <= M
    BY <1>1, <2>2
  <2>4. m - 1 \in 0..M /\ m - 1 \notin T /\ m \in 1..M /\ m \in 1..N
    BY <2>2, <2>3
  <2>5. G[m - 1] = F[m - 1] /\ g[m] = f[m]
    BY <2>4
  <2>. QED  BY <2>2, <2>4, <2>5, <1>1
<1>. QED  BY <1>2 DEF F, G

\* Appending an entry adds it to the total.
LEMMA TotalExtend ==
    ASSUME NEW N \in Nat, NEW f \in [1..N -> Int], NEW g \in [1..(N + 1) -> Int],
           \A i \in 1..N : g[i] = f[i]
    PROVE  Total(N + 1, g) = Total(N, f) + g[N + 1]
<1>1. Prefix(N + 1, g)[N] = Prefix(N, f)[N]
  BY PrefixAgree
<1>2. N + 1 \in Nat /\ N + 1 \in 1..(N + 1) /\ (N + 1) - 1 = N
  OBVIOUS
<1>3. Prefix(N + 1, g)[N + 1] = Prefix(N + 1, g)[(N + 1) - 1] + g[N + 1]
  BY <1>2, RunningTotals
<1>. QED  BY <1>1, <1>2, <1>3 DEF Total

\* Changing one entry changes the total by as much.
LEMMA TotalUpdate ==
    ASSUME NEW N \in Nat, NEW f \in [1..N -> Int], NEW g \in [1..N -> Int],
           NEW k \in 1..N, \A i \in 1..N : i # k => g[i] = f[i]
    PROVE  Total(N, g) = Total(N, f) + (g[k] - f[k])
<1> DEFINE F == Prefix(N, f)
           G == Prefix(N, g)
           d == g[k] - f[k]
           T == {m \in 0..N : G[m] # F[m] + (IF k <= m THEN d ELSE 0)}
<1>1. /\ F \in [0..N -> Int] /\ F[0] = 0 /\ \A n \in 1..N : F[n] = F[n - 1] + f[n]
      /\ G \in [0..N -> Int] /\ G[0] = 0 /\ \A n \in 1..N : G[n] = G[n - 1] + g[n]
  BY RunningTotals
<1>2. d \in Int /\ f[k] \in Int /\ g[k] \in Int /\ g[k] = f[k] + d
  OBVIOUS
<1> HIDE DEF F, G, d
<1>3. T = {}
  <2>1. SUFFICES ASSUME T # {} PROVE FALSE
    OBVIOUS
  <2>2. PICK m \in T : \A n \in T : m <= n
    BY <2>1, Least, T \in SUBSET Nat
  <2>3. m # 0 /\ m \in Nat /\ m <= N
    BY <1>1, <2>2
  <2>4. m - 1 \in 0..N /\ m - 1 \notin T /\ m \in 1..N
    BY <2>2, <2>3
  <2>5. G[m - 1] = F[m - 1] + (IF k <= m - 1 THEN d ELSE 0)
    BY <2>4
  <2>6. G[m] = G[m - 1] + g[m] /\ F[m] = F[m - 1] + f[m]
    BY <2>4, <1>1
  <2>7. F[m - 1] \in Int /\ f[m] \in Int /\ g[m] \in Int
    BY <2>4, <1>1
  <2>8. G[m] = F[m] + (IF k <= m THEN d ELSE 0)
    <3>1. CASE m < k
      BY <2>3, <2>4, <2>5, <2>6, <2>7, <3>1
    <3>2. CASE m = k
      BY <2>3, <2>4, <2>5, <2>6, <2>7, <1>2, <3>2
    <3>3. CASE k < m
      BY <2>3, <2>4, <2>5, <2>6, <2>7, <1>2, <3>3
    <3>. QED  BY <3>1, <3>2, <3>3, <2>3
  <2>. QED  BY <2>2, <2>8
<1>4. G[N] = F[N] + d
  BY <1>3
<1>. QED  BY <1>4 DEF Total, F, G, d

\* A table of zeros adds up to zero.
LEMMA TotalZero ==
    ASSUME NEW N \in Nat, NEW f \in [1..N -> Int], \A i \in 1..N : f[i] = 0
    PROVE  Total(N, f) = 0
<1> DEFINE F == Prefix(N, f)
           T == {m \in 0..N : F[m] # 0}
<1>1. F[0] = 0 /\ \A n \in 1..N : F[n] = F[n - 1] + f[n]
  BY RunningTotals
<1> HIDE DEF F
<1>2. T = {}
  <2>1. SUFFICES ASSUME T # {} PROVE FALSE
    OBVIOUS
  <2>2. PICK m \in T : \A n \in T : m <= n
    BY <2>1, Least, T \in SUBSET Nat
  <2>3. m # 0 /\ m \in Nat /\ m <= N
    BY <1>1, <2>2
  <2>4. m - 1 \in 0..N /\ m - 1 \notin T /\ m \in 1..N
    BY <2>2, <2>3
  <2>. QED  BY <2>2, <2>4, <1>1
<1>. QED  BY <1>2 DEF Total, F

-----------------------------------------------------------------------------
(* The portfolio *)

USE PortfolioAssumption DEF Symbols

\* The signed costs of the positions are a table of integers.
LEMMA SignedBasisTyped ==
    ASSUME NEW pos \in Position
    PROVE  SignedBasis(pos) \in Int /\ SignedQty(pos) \in Int
  BY DEF SignedBasis, SignedQty, Position

\* A portfolio with other amounts and another position of one symbol.
Rebooked(p, cash, realized, feesPaid, entryFees, s, pos) ==
    [p EXCEPT !.cash = cash, !.realized = realized, !.feesPaid = feesPaid,
              !.entryFees = entryFees, !.positions[s] = pos]

\* Rebooking changes what it names and nothing else.
LEMMA RebookedTyped ==
    ASSUME NEW p \in PortfolioType, NEW s \in Symbols, NEW pos \in Position,
           NEW cash \in Int, NEW realized \in Int, NEW feesPaid \in Int, NEW entryFees \in Int,
           NEW after, after = Rebooked(p, cash, realized, feesPaid, entryFees, s, pos)
    PROVE  /\ after \in PortfolioType
           /\ after.cash = cash /\ after.realized = realized /\ after.entryFees = entryFees
           /\ after.positions = [p.positions EXCEPT ![s] = pos]
  BY DEF PortfolioType, Rebooked

\* A new account is typed, well formed and balanced.
LEMMA EmptyPortfolioOK ==
    /\ EmptyPortfolio \in PortfolioType
    /\ WellFormed(EmptyPortfolio)
    /\ Balanced(EmptyPortfolio)
<1>1. Flat \in Position
  BY DEF Flat, Position, Level
<1>2. EmptyPortfolio \in PortfolioType
  BY <1>1 DEF EmptyPortfolio, PortfolioType
<1>3. WellFormed(EmptyPortfolio)
  BY DEF EmptyPortfolio, WellFormed, WellFormedPosition, Flat
<1> DEFINE f == [s \in Symbols |-> SignedBasis(EmptyPortfolio.positions[s])]
<1>4. f \in [1..NumSymbols -> Int] /\ \A i \in 1..NumSymbols : f[i] = 0
  BY DEF EmptyPortfolio, SignedBasis, Flat
<1>5. Total(NumSymbols, f) = 0
  <2> HIDE DEF f
  <2>. QED  BY <1>4, TotalZero
<1>6. Balanced(EmptyPortfolio)
  BY <1>5 DEF Balanced, OpenBasis, EmptyPortfolio
<1>. QED  BY <1>2, <1>3, <1>6

(***************************************************************************)
(* The one argument behind every balance proof: replacing the position of  *)
(* one symbol keeps the books balanced when the cash moves by the result   *)
(* less the opening fees less the change in that position's cost.          *)
(***************************************************************************)
LEMMA BalanceStep ==
    ASSUME NEW p \in PortfolioType, NEW after \in PortfolioType, NEW s \in Symbols,
           NEW pos \in Position, Balanced(p),
           after.positions = [p.positions EXCEPT ![s] = pos],
           after.cash - p.cash =
               (after.realized - p.realized) - (after.entryFees - p.entryFees)
               - (SignedBasis(pos) - SignedBasis(p.positions[s]))
    PROVE  Balanced(after)
<1> DEFINE f == [i \in Symbols |-> SignedBasis(p.positions[i])]
           g == [i \in Symbols |-> SignedBasis(after.positions[i])]
<1>1. p.positions \in [Symbols -> Position] /\ after.positions \in [Symbols -> Position]
  BY DEF PortfolioType
<1>2. f \in [1..NumSymbols -> Int] /\ g \in [1..NumSymbols -> Int]
  BY <1>1, SignedBasisTyped
<1>3. after.positions[s] = pos
  BY <1>1
<1>4. g[s] = SignedBasis(pos) /\ f[s] = SignedBasis(p.positions[s])
  BY <1>3
<1>5. \A i \in 1..NumSymbols : i # s => g[i] = f[i]
  BY <1>1
<1> HIDE DEF f, g
<1>6. Total(NumSymbols, g) = Total(NumSymbols, f) + (g[s] - f[s])
  <2>1. NumSymbols \in Nat /\ s \in 1..NumSymbols
    OBVIOUS
  <2>. QED  BY ONLY <2>1, <1>2, <1>5, TotalUpdate
<1>7. Total(NumSymbols, f) \in Int /\ Total(NumSymbols, g) \in Int
  BY <1>2, TotalInt
<1>8. OpenBasis(p) = Total(NumSymbols, f) /\ OpenBasis(after) = Total(NumSymbols, g)
  BY DEF OpenBasis, f, g
<1>9. g[s] \in Int /\ f[s] \in Int
  BY <1>2
<1>10. /\ p.cash \in Int /\ p.realized \in Int /\ p.entryFees \in Int
       /\ after.cash \in Int /\ after.realized \in Int /\ after.entryFees \in Int
  BY DEF PortfolioType
<1>11. p.cash = StartingCash + p.realized - p.entryFees - Total(NumSymbols, f)
  BY <1>8 DEF Balanced
<1>12. after.cash = StartingCash + after.realized - after.entryFees - Total(NumSymbols, g)
  BY <1>4, <1>6, <1>7, <1>9, <1>10, <1>11
<1>. QED  BY <1>8, <1>12 DEF Balanced

\* A portfolio with another stop and target on one position.
Relevelled(p, s, stop, target) ==
    [p EXCEPT !.positions[s] = [p.positions[s] EXCEPT !.stop = stop, !.target = target]]

\* Moving a stop or a target leaves the books alone.
LEMMA LevelsOK ==
    ASSUME NEW p \in PortfolioType, WellFormed(p), Balanced(p), NEW s \in Symbols,
           NEW stop \in Level, NEW target \in Level, p.positions[s].side # "FLAT",
           NEW after, after = Relevelled(p, s, stop, target)
    PROVE  /\ after \in PortfolioType
           /\ WellFormed(after)
           /\ Balanced(after)
           /\ \A i \in Symbols : /\ SignedQty(after.positions[i]) = SignedQty(p.positions[i])
                                 /\ after.positions[i].side = p.positions[i].side
                                 /\ after.positions[i].qty = p.positions[i].qty
                                 /\ i # s => after.positions[i] = p.positions[i]
<1> DEFINE pos == [p.positions[s] EXCEPT !.stop = stop, !.target = target]
<1>1. p.positions \in [Symbols -> Position] /\ p.positions[s] \in Position
  BY DEF PortfolioType
<1>2. /\ pos \in Position /\ pos.side = p.positions[s].side
      /\ pos.qty = p.positions[s].qty /\ pos.basis = p.positions[s].basis
  BY <1>1 DEF Position
<1> HIDE DEF pos
<1>3. /\ after \in PortfolioType /\ after.positions = [p.positions EXCEPT ![s] = pos]
      /\ after.cash = p.cash /\ after.realized = p.realized /\ after.entryFees = p.entryFees
  BY <1>1, <1>2 DEF PortfolioType, Relevelled, pos
<1>4. /\ SignedBasis(pos) = SignedBasis(p.positions[s])
      /\ SignedQty(pos) = SignedQty(p.positions[s])
  BY <1>2 DEF SignedBasis, SignedQty
<1>5. p.cash \in Int /\ p.realized \in Int /\ p.entryFees \in Int /\ SignedBasis(pos) \in Int
  BY <1>2, SignedBasisTyped DEF PortfolioType
<1>6. Balanced(after)
  <2>1. after.cash - p.cash =
           (after.realized - p.realized) - (after.entryFees - p.entryFees)
           - (SignedBasis(pos) - SignedBasis(p.positions[s]))
    BY <1>3, <1>4, <1>5
  <2>. QED  BY ONLY p \in PortfolioType, s \in Symbols, Balanced(p), <1>2, <1>3, <2>1, BalanceStep
<1>7. WellFormed(after)
  BY <1>1, <1>2, <1>3 DEF WellFormed, WellFormedPosition
<1>8. ASSUME NEW i \in Symbols
      PROVE  /\ SignedQty(after.positions[i]) = SignedQty(p.positions[i])
             /\ after.positions[i].side = p.positions[i].side
             /\ after.positions[i].qty = p.positions[i].qty
             /\ i # s => after.positions[i] = p.positions[i]
  <2>1. CASE i = s
    BY <2>1, <1>1, <1>2, <1>3, <1>4
  <2>2. CASE i # s
    BY <2>2, <1>1, <1>3
  <2>. QED  BY <2>1, <2>2
<1>. QED  BY <1>3, <1>6, <1>7, <1>8

-----------------------------------------------------------------------------
(* open_position *)

\* Opening or adding to a position keeps the portfolio typed, well formed and
\* balanced, and changes only that position, by the signed quantity.
LEMMA OpenOK ==
    ASSUME NEW p \in PortfolioType, WellFormed(p), Balanced(p), NEW s \in Symbols,
           NEW side \in {"LONG", "SHORT"}, NEW q \in Int, NEW px \in Int, NEW fee \in Int,
           NEW sl \in Level, NEW tp \in Level,
           CanOpen(p, s, side, q, px, fee),
           NEW after, after = OpenPosition(p, s, side, q, px, fee, sl, tp)
    PROVE  /\ after \in PortfolioType
           /\ WellFormed(after)
           /\ Balanced(after)
           /\ after.positions[s].side = side
           /\ SignedQty(after.positions[s]) =
                  SignedQty(p.positions[s]) + (IF side = "LONG" THEN q ELSE -q)
           /\ \A i \in Symbols \ {s} : after.positions[i] = p.positions[i]
<1> DEFINE notional == q * px
           pos0 == p.positions[s]
           pos  == Grown(pos0, side, q, notional, sl, tp)
<1>1. q > 0 /\ px > 0 /\ pos0.side \in {"FLAT", side}
  BY DEF CanOpen
<1>2. notional \in Int /\ notional >= 0
  BY <1>1
<1>3. p.positions \in [Symbols -> Position] /\ pos0 \in Position
  BY DEF PortfolioType
<1>4. pos0.side = "FLAT" \/ (pos0.qty > 0 /\ pos0.basis >= 0)
  BY DEF WellFormed, WellFormedPosition
<1> HIDE DEF notional, pos0
<1>5. /\ pos \in Position /\ pos.side = side /\ pos.qty > 0 /\ pos.basis >= 0
      /\ SignedBasis(pos) = SignedBasis(pos0) + (IF side = "LONG" THEN notional ELSE -notional)
      /\ SignedQty(pos) = SignedQty(pos0) + (IF side = "LONG" THEN q ELSE -q)
  <2>1. CASE pos0.side = side
    <3>1. pos = [pos0 EXCEPT !.qty = pos0.qty + q, !.basis = pos0.basis + notional]
      BY <1>2, <1>3, <2>1 DEF Grown, Position
    <3>2. pos0.qty \in Nat /\ pos0.basis \in Int /\ pos0.qty + q \in Nat
      BY <1>1, <1>3, <1>4, <2>1 DEF Position
    <3>3. pos \in Position /\ pos.side = side /\ pos.qty = pos0.qty + q
          /\ pos.basis = pos0.basis + notional
      <4> DEFINE n == pos0.qty + q
                 b == pos0.basis + notional
      <4>1. n \in Nat /\ b \in Int /\ pos = [pos0 EXCEPT !.qty = n, !.basis = b]
        BY <3>1, <3>2, <1>2
      <4> HIDE DEF n, b, pos
      <4>2. pos \in Position /\ pos.side = pos0.side /\ pos.qty = n /\ pos.basis = b
        BY <4>1, <1>3 DEF Position
      <4>. QED  BY <4>2, <2>1 DEF n, b
    <3> HIDE DEF pos
    <3>. QED  BY <3>2, <3>3, <1>1, <1>2, <1>4, <2>1 DEF SignedBasis, SignedQty
  <2>2. CASE pos0.side = "FLAT"
    <3>1. pos = [side |-> side, qty |-> q, basis |-> notional, stop |-> sl, target |-> tp]
      BY <2>2 DEF Grown
    <3> HIDE DEF pos
    <3>2. pos \in Position
      BY <3>1, <1>1, <1>2 DEF Position
    <3>. QED  BY <3>1, <3>2, <1>1, <1>2, <2>2 DEF SignedBasis, SignedQty
  <2>. QED  BY <1>1, <2>1, <2>2
<1> DEFINE flow == OpenCashFlow(side, notional, fee)
<1>6. flow \in Int /\ flow = (IF side = "LONG" THEN -(notional + fee) ELSE notional - fee)
  BY <1>2 DEF OpenCashFlow
<1>7. after = [p EXCEPT !.cash = @ + flow, !.feesPaid = @ + fee, !.entryFees = @ + fee,
                        !.positions[s] = pos]
  BY DEF OpenPosition, notional, pos0
<1> HIDE DEF pos, flow
<1>8. /\ p.cash \in Int /\ p.realized \in Int /\ p.entryFees \in Int /\ p.feesPaid \in Int
      /\ SignedBasis(pos0) \in Int /\ SignedBasis(pos) \in Int
  BY <1>3, <1>5, SignedBasisTyped DEF PortfolioType
<1>9. /\ after.positions = [p.positions EXCEPT ![s] = pos]
      /\ after.cash = p.cash + flow /\ after.realized = p.realized
      /\ after.entryFees = p.entryFees + fee
      /\ after \in PortfolioType
  <2>1. after = Rebooked(p, p.cash + flow, p.realized, p.feesPaid + fee,
                         p.entryFees + fee, s, pos)
    BY <1>6, <1>7 DEF PortfolioType, Rebooked
  <2>2. p.cash + flow \in Int /\ p.feesPaid + fee \in Int /\ p.entryFees + fee \in Int
    BY <1>6, <1>8
  <2>. QED
    BY ONLY p \in PortfolioType, s \in Symbols, <1>5, <1>8, <2>1, <2>2, RebookedTyped
<1>10. Balanced(after)
  <2>1. after.cash - p.cash =
           (after.realized - p.realized) - (after.entryFees - p.entryFees)
           - (SignedBasis(pos) - SignedBasis(p.positions[s]))
    BY <1>2, <1>5, <1>6, <1>8, <1>9 DEF pos0
  <2>. QED
    BY ONLY p \in PortfolioType, s \in Symbols, Balanced(p), <1>5, <1>9, <2>1, BalanceStep
<1>11. after.positions[s] = pos /\ \A i \in Symbols \ {s} : after.positions[i] = p.positions[i]
  BY <1>3, <1>9
<1>12. WellFormed(after)
  BY <1>5, <1>11 DEF WellFormed, WellFormedPosition
<1>. QED  BY <1>5, <1>9, <1>10, <1>11, <1>12 DEF pos0

-----------------------------------------------------------------------------
(* close_position *)

\* The released share of a cost is between nothing and the whole.
LEMMA ReleasedShare ==
    ASSUME NEW b \in Nat, NEW n \in Nat, NEW q \in Nat, q <= n, n > 0
    PROVE  (b * q) \div n \in 0..b
<1> DEFINE d == (b * q) \div n
<1>1. b * q \in Nat /\ b * n \in Nat /\ b * q <= b * n
  OBVIOUS
<1>2. d \in Int /\ n * d <= b * q /\ b * q < n * d + n
  BY <1>1
<1>3. d >= 0
  BY <1>1, <1>2
<1>4. d <= b
  BY <1>1, <1>2
<1>. QED  BY <1>2, <1>3, <1>4

\* The result of a close is an integer.
LEMMA ClosePnlTyped ==
    ASSUME NEW p \in PortfolioType, WellFormed(p), NEW s \in Symbols,
           NEW q \in Int, NEW px \in Int, NEW fee \in Int, CanClose(p, s, q)
    PROVE  ClosePnl(p.positions[s], q, px, fee) \in Int
<1> DEFINE pos == p.positions[s]
<1>1. pos.qty \in Nat /\ pos.basis \in Int /\ 0 < q /\ q <= pos.qty
  BY DEF CanClose, PortfolioType, Position
<1>2. ReleasedBasis(pos, q) \in Int
  <2>1. (pos.basis * q) \div pos.qty \in Int
    BY <1>1
  <2>. QED  BY <1>1, <2>1 DEF ReleasedBasis
<1>3. q * px \in Int
  OBVIOUS
<1>. QED  BY <1>2, <1>3 DEF ClosePnl

\* Closing all or part of a position keeps the portfolio typed, well formed
\* and balanced, and changes only that position, towards zero.
LEMMA CloseOK ==
    ASSUME NEW p \in PortfolioType, WellFormed(p), Balanced(p), NEW s \in Symbols,
           NEW q \in Int, NEW px \in Int, NEW fee \in Int,
           CanClose(p, s, q),
           NEW after, after = ClosePosition(p, s, q, px, fee)
    PROVE  /\ after \in PortfolioType
           /\ WellFormed(after)
           /\ Balanced(after)
           /\ after.positions[s].side \in {"FLAT", p.positions[s].side}
           /\ SignedQty(after.positions[s]) =
                  SignedQty(p.positions[s]) - (IF p.positions[s].side = "LONG" THEN q ELSE -q)
           /\ \A i \in Symbols \ {s} : after.positions[i] = p.positions[i]
           /\ q = p.positions[s].qty => after.positions[s] = Flat
<1> DEFINE proceeds == q * px
           pos0 == p.positions[s]
           part == ReleasedBasis(pos0, q)
           pos  == Shrunk(pos0, q)
           pnl  == ClosePnl(pos0, q, px, fee)
           flow == CloseCashFlow(pos0, q, px, fee)
<1>1. q > 0 /\ q <= pos0.qty /\ pos0.side # "FLAT"
  BY DEF CanClose
<1>2. p.positions \in [Symbols -> Position] /\ pos0 \in Position
  BY DEF PortfolioType
<1>3. pos0.qty \in Nat /\ pos0.basis \in Nat /\ pos0.side \in {"LONG", "SHORT"}
  BY <1>1, <1>2 DEF WellFormed, WellFormedPosition, Position
<1>4. part \in Int /\ 0 <= part /\ part <= pos0.basis
  <2>1. CASE q = pos0.qty
    BY <2>1, <1>3 DEF ReleasedBasis
  <2>2. CASE q # pos0.qty
    <3>1. q \in Nat /\ pos0.qty > 0
      BY <1>1, <1>3
    <3>2. part = (pos0.basis * q) \div pos0.qty
      BY <2>2 DEF ReleasedBasis
    <3>3. (pos0.basis * q) \div pos0.qty \in 0..pos0.basis
      BY ONLY <1>1, <1>3, <3>1, ReleasedShare
    <3>. QED  BY <3>2, <3>3, <1>3
  <2>. QED  BY <2>1, <2>2
<1>5. proceeds \in Int
  OBVIOUS
<1>6. /\ pnl = IF pos0.side = "LONG" THEN proceeds - part - fee ELSE part - proceeds - fee
      /\ flow = IF pos0.side = "LONG" THEN proceeds - fee ELSE -(proceeds + fee)
  BY DEF ClosePnl, CloseCashFlow
<1>7. after = [p EXCEPT !.cash = @ + flow, !.realized = @ + pnl, !.feesPaid = @ + fee,
                        !.positions[s] = pos]
  BY DEF ClosePosition
<1>8. q = pos0.qty => pos = Flat /\ part = pos0.basis
  BY DEF Shrunk, ReleasedBasis
<1>9. q # pos0.qty => pos = [pos0 EXCEPT !.qty = pos0.qty - q, !.basis = pos0.basis - part]
  BY <1>2 DEF Shrunk, Position
<1> HIDE DEF proceeds, pos0, part, pos, pnl, flow
<1>10. /\ pos \in Position /\ pos.side \in {"FLAT", pos0.side} /\ WellFormedPosition(pos)
       /\ SignedBasis(pos) = SignedBasis(pos0) - (IF pos0.side = "LONG" THEN part ELSE -part)
       /\ SignedQty(pos) = SignedQty(pos0) - (IF pos0.side = "LONG" THEN q ELSE -q)
  <2>1. CASE q = pos0.qty
    <3>1. pos = Flat /\ part = pos0.basis
      BY <1>8, <2>1
    <3>2. Flat \in Position
      BY DEF Flat, Position, Level
    <3>. QED  BY <3>1, <3>2, <2>1, <1>3
           DEF WellFormedPosition, SignedBasis, SignedQty, Flat
  <2>2. CASE q # pos0.qty
    <3>1. /\ pos \in Position /\ pos.side = pos0.side
          /\ pos.qty = pos0.qty - q /\ pos.basis = pos0.basis - part
      <4> DEFINE n == pos0.qty - q
                 b == pos0.basis - part
      <4>1. n \in Nat /\ b \in Int
        BY <1>1, <1>3, <1>4
      <4>2. pos = [pos0 EXCEPT !.qty = n, !.basis = b]
        BY <1>9, <2>2
      <4> HIDE DEF n, b
      <4>3. pos \in Position /\ pos.side = pos0.side /\ pos.qty = n /\ pos.basis = b
        BY <4>1, <4>2, <1>2 DEF Position
      <4>. QED  BY <4>3 DEF n, b
    <3>2. pos.qty > 0 /\ pos.basis >= 0 /\ pos.side # "FLAT"
      BY <3>1, <2>2, <1>1, <1>3, <1>4
    <3>. QED  BY <3>1, <3>2, <1>3, <1>4 DEF WellFormedPosition, SignedBasis, SignedQty
  <2>. QED  BY <2>1, <2>2
<1>11. flow \in Int /\ pnl \in Int
  BY <1>3, <1>4, <1>5, <1>6
<1>12. /\ p.cash \in Int /\ p.realized \in Int /\ p.entryFees \in Int /\ p.feesPaid \in Int
       /\ SignedBasis(pos0) \in Int /\ SignedBasis(pos) \in Int
  BY <1>2, <1>10, SignedBasisTyped DEF PortfolioType
<1>13. /\ after.positions = [p.positions EXCEPT ![s] = pos]
       /\ after.cash = p.cash + flow /\ after.realized = p.realized + pnl
       /\ after.entryFees = p.entryFees
       /\ after \in PortfolioType
  <2>1. after = Rebooked(p, p.cash + flow, p.realized + pnl, p.feesPaid + fee,
                         p.entryFees, s, pos)
    BY <1>7, <1>11 DEF PortfolioType, Rebooked
  <2>2. p.cash + flow \in Int /\ p.feesPaid + fee \in Int /\ p.realized + pnl \in Int
    BY <1>11, <1>12
  <2>. QED
    BY ONLY p \in PortfolioType, s \in Symbols, <1>10, <1>12, <2>1, <2>2, RebookedTyped
<1>14. Balanced(after)
  <2>1. after.cash - p.cash =
           (after.realized - p.realized) - (after.entryFees - p.entryFees)
           - (SignedBasis(pos) - SignedBasis(p.positions[s]))
    BY <1>3, <1>4, <1>5, <1>6, <1>10, <1>11, <1>12, <1>13 DEF pos0
  <2>. QED
    BY ONLY p \in PortfolioType, s \in Symbols, Balanced(p), <1>10, <1>13, <2>1, BalanceStep
<1>15. after.positions[s] = pos /\ \A i \in Symbols \ {s} : after.positions[i] = p.positions[i]
  BY <1>2, <1>13
<1>16. WellFormed(after)
  BY <1>10, <1>15 DEF WellFormed
<1>. QED  BY <1>8, <1>10, <1>13, <1>14, <1>15, <1>16 DEF pos0

HIDE PortfolioAssumption DEF Symbols
-----------------------------------------------------------------------------
(* The exchange *)

\* A symbol with a position has a price, so that it can always be closed.
PricesKnown ==
    \A s \in Symbols : portfolio.positions[s].side # "FLAT" => prices[s] # NoPrice

\* What is left to visit is still as it was when the loop began.
CallConsistent ==
    /\ call.op = "tick" =>
          /\ call.price # NoPrice
          /\ prices[call.symbol] = call.price
          /\ \A i \in call.todo : /\ i \in OrderIds
                                  /\ orders[i].status \in OpenStates
                                  /\ orders[i].req.symbol = call.symbol
    /\ call.op = "eod" => call.todo \subseteq Held

Inv ==
    /\ TypeOK
    /\ PositionsWellFormed
    /\ CashExplained
    /\ FillsExplainPositions
    /\ StatusMatchesFills
    /\ PricesKnown
    /\ CallConsistent

-----------------------------------------------------------------------------
(* Orders *)

\* What an order filled on a symbol is an integer.
LEMMA FilledOnTyped ==
    ASSUME NEW o \in OrderType, NEW s
    PROVE  FilledOn(s, o) \in Int
  BY DEF FilledOn, SignedFill, OrderType

\* An order fills its own symbol only.
LEMMA FilledElsewhere ==
    ASSUME NEW o \in OrderType, NEW s, s # o.req.symbol
    PROVE  FilledOn(s, o) = 0
  BY DEF FilledOn

\* What the orders filled on a symbol is an integer.
LEMMA NetFilledTyped ==
    ASSUME NEW os \in Seq(OrderType), NEW s
    PROVE  NetFilled(s, os) \in Int
<1> DEFINE n == Len(os)
           f == [i \in 1..n |-> FilledOn(s, os[i])]
<1>1. n \in Nat /\ \A i \in 1..n : os[i] \in OrderType
  BY ElementOfSeq, LenProperties
<1>2. f \in [1..n -> Int]
  BY <1>1, FilledOnTyped
<1> HIDE DEF f
<1>3. Total(n, f) \in Int
  BY <1>1, <1>2, TotalInt
<1>. QED  BY <1>3 DEF NetFilled, f

\* Appending an order adds what it filled.
LEMMA NetFilledAppend ==
    ASSUME NEW os \in Seq(OrderType), NEW o \in OrderType, NEW s
    PROVE  NetFilled(s, Append(os, o)) = NetFilled(s, os) + FilledOn(s, o)
<1> DEFINE n  == Len(os)
           os2 == Append(os, o)
           f  == [i \in 1..n |-> FilledOn(s, os[i])]
           g  == [i \in 1..(n + 1) |-> FilledOn(s, os2[i])]
<1>1. /\ n \in Nat /\ Len(os2) = n + 1 /\ os2[n + 1] = o
      /\ \A i \in 1..n : os2[i] = os[i] /\ os[i] \in OrderType
  BY AppendProperties, ElementOfSeq, LenProperties
<1>2. f \in [1..n -> Int]
  BY <1>1, FilledOnTyped
<1>3. g \in [1..(n + 1) -> Int]
  <2>1. \A i \in 1..(n + 1) : os2[i] \in OrderType
    BY <1>1
  <2>. QED  BY <2>1, FilledOnTyped
<1>4. \A i \in 1..n : g[i] = f[i]
  BY <1>1
<1>5. g[n + 1] = FilledOn(s, o)
  BY <1>1
<1>6. NetFilled(s, os2) = Total(n + 1, g) /\ NetFilled(s, os) = Total(n, f)
  BY <1>1 DEF NetFilled
<1> HIDE DEF n, os2, f, g
<1>7. Total(n + 1, g) = Total(n, f) + g[n + 1]
  BY <1>1, <1>2, <1>3, <1>4, TotalExtend
<1>. QED  BY <1>5, <1>6, <1>7 DEF os2

\* Replacing an order replaces what it filled.
LEMMA NetFilledUpdate ==
    ASSUME NEW os \in Seq(OrderType), NEW k \in 1..Len(os), NEW o \in OrderType, NEW s
    PROVE  NetFilled(s, [os EXCEPT ![k] = o]) =
               NetFilled(s, os) + (FilledOn(s, o) - FilledOn(s, os[k]))
<1> DEFINE n  == Len(os)
           os2 == [os EXCEPT ![k] = o]
           f  == [i \in 1..n |-> FilledOn(s, os[i])]
           g  == [i \in 1..n |-> FilledOn(s, os2[i])]
<1>1. /\ n \in Nat /\ Len(os2) = n /\ os2[k] = o /\ k \in 1..n
      /\ \A i \in 1..n : os[i] \in OrderType /\ (i # k => os2[i] = os[i])
  BY ExceptSeq, ElementOfSeq, LenProperties
<1>2. f \in [1..n -> Int]
  BY <1>1, FilledOnTyped
<1>3. g \in [1..n -> Int]
  <2>1. \A i \in 1..n : os2[i] \in OrderType
    BY <1>1
  <2>. QED  BY <2>1, FilledOnTyped
<1>4. \A i \in 1..n : i # k => g[i] = f[i]
  BY <1>1
<1>5. g[k] = FilledOn(s, o) /\ f[k] = FilledOn(s, os[k])
  BY <1>1
<1>6. NetFilled(s, os2) = Total(n, g) /\ NetFilled(s, os) = Total(n, f)
  BY <1>1 DEF NetFilled
<1> HIDE DEF n, os2, f, g
<1>7. Total(n, g) = Total(n, f) + (g[k] - f[k])
  BY <1>1, <1>2, <1>3, <1>4, TotalUpdate
<1>. QED  BY <1>5, <1>6, <1>7 DEF os2

\* An open order fills by what remains or less, and its status follows.
LEMMA AfterFillOK ==
    ASSUME NEW o \in OrderType, o.status \in OpenStates, StatusMatches(o),
           FillQty(o) > 0
    PROVE  /\ FillQty(o) \in Int
           /\ FillQty(o) <= o.req.qty - o.filled
           /\ AfterFill(o, FillQty(o)) \in OrderType
           /\ AfterFill(o, FillQty(o)).req = o.req
           /\ AfterFill(o, FillQty(o)).filled = o.filled + FillQty(o)
           /\ StatusMatches(AfterFill(o, FillQty(o)))
<1>1. o.req.qty \in Int /\ o.filled \in Int /\ o.filled >= 0
  BY DEF OrderType, RequestType, StatusMatches, OpenStates
<1> DEFINE q == FillQty(o)
<1>2. q \in Int /\ q <= o.req.qty - o.filled
  BY <1>1 DEF FillQty
<1> HIDE DEF q
<1> DEFINE after == AfterFill(o, q)
<1>3. q > 0
  BY DEF q
<1>4. /\ after \in OrderType /\ after.req = o.req /\ after.filled = o.filled + q
      /\ after.status = IF o.filled + q >= o.req.qty THEN "FILLED" ELSE "PARTIALLY_FILLED"
  <2> DEFINE st == IF o.filled + q >= o.req.qty THEN "FILLED" ELSE "PARTIALLY_FILLED"
             f  == o.filled + q
  <2>1. f \in Int /\ st \in Terminal \cup OpenStates
    BY <1>1, <1>2 DEF Terminal, OpenStates
  <2>2. after = [o EXCEPT !.filled = f, !.status = st]
    BY DEF AfterFill, OrderType
  <2> HIDE DEF f, st, after
  <2>3. after \in OrderType /\ after.req = o.req /\ after.filled = f /\ after.status = st
    BY <2>1, <2>2 DEF OrderType
  <2>. QED  BY <2>3 DEF f, st
<1> HIDE DEF after
<1>5. StatusMatches(after)
  BY <1>1, <1>2, <1>3, <1>4 DEF StatusMatches
<1>. QED  BY <1>2, <1>4, <1>5 DEF q, after

-----------------------------------------------------------------------------
(* Fills *)

\* A price can be computed with when it is there.
LEMMA PriceTyped ==
    /\ Price \subseteq Level
    /\ \A px \in Price : px # NoPrice => px \in Int /\ px > 0
    /\ Prices \subseteq Price
  BY ExchangeAssumption, PortfolioAssumption DEF Price, Level

\* A fee is an integer.
LEMMA FeeTyped ==
    ASSUME NEW n \in Int
    PROVE  Fee(n) \in Int
  BY ExchangeAssumption DEF Fee

\* Slippage keeps a price an integer.
LEMMA SlippedTyped ==
    ASSUME NEW px \in Int, NEW side
    PROVE  Slipped(side, px) \in Int
<1>1. (px * SlipBps) \div 10000 \in Int
  BY ExchangeAssumption
<1>. QED  BY <1>1 DEF Slipped

\* Filling at a known price gives a known price.
LEMMA FillPriceTyped ==
    ASSUME NEW o \in OrderType, NEW px \in Price, px # NoPrice,
           o.req.type = "LIMIT" => o.req.limit # NoPrice
    PROVE  FillPrice(o, px) \in Int
<1>1. px \in Int /\ o.req.limit \in Price
  BY PriceTyped DEF OrderType, RequestType
<1>2. o.req.limit # NoPrice => o.req.limit \in Int
  BY <1>1, PriceTyped
<1>. QED  BY <1>1, <1>2, SlippedTyped DEF FillPrice

\* What a booked fill does to the portfolio.
LEMMA BookedOK ==
    ASSUME NEW p \in PortfolioType, WellFormed(p), Balanced(p),
           NEW o \in OrderType, NEW q \in Int, NEW px \in Int,
           CanBook(p, o, q, px),
           NEW after, after = Protected(Booked(p, o, q, px), o)
    PROVE  /\ q > 0
           /\ after \in PortfolioType
           /\ WellFormed(after)
           /\ Balanced(after)
           /\ SignedQty(after.positions[o.req.symbol]) =
                  SignedQty(p.positions[o.req.symbol])
                  + (IF o.req.side = "BUY" THEN q ELSE -q)
           /\ \A i \in Symbols \ {o.req.symbol} : after.positions[i] = p.positions[i]
<1> DEFINE s   == o.req.symbol
           fee == Fee(q * px)
           b   == Booked(p, o, q, px)
<1>1. s \in Symbols /\ o.req.side \in {"BUY", "SELL"} /\ o.req.sl \in Level /\ o.req.tp \in Level
  BY PriceTyped DEF OrderType, RequestType
<1>2. fee \in Int
  BY FeeTyped
<1>3. p.positions[s] \in Position
  BY <1>1 DEF PortfolioType
<1>4. /\ q > 0 /\ b \in PortfolioType /\ WellFormed(b) /\ Balanced(b)
      /\ SignedQty(b.positions[s]) =
             SignedQty(p.positions[s]) + (IF o.req.side = "BUY" THEN q ELSE -q)
      /\ \A i \in Symbols \ {s} : b.positions[i] = p.positions[i]
  <2>1. CASE Reduces(p, o)
    <3>1. CanClose(p, s, q) /\ b = ClosePosition(p, s, q, px, fee)
      BY <2>1 DEF CanBook, Booked
    <3>2. p.positions[s].side = IF o.req.side = "BUY" THEN "SHORT" ELSE "LONG"
      BY <2>1 DEF Reduces
    <3>3. q > 0
      BY <3>1 DEF CanClose
    <3> HIDE DEF b, fee, s
    <3>4. /\ b \in PortfolioType /\ WellFormed(b) /\ Balanced(b)
          /\ SignedQty(b.positions[s]) =
                 SignedQty(p.positions[s]) - (IF p.positions[s].side = "LONG" THEN q ELSE -q)
          /\ \A i \in Symbols \ {s} : b.positions[i] = p.positions[i]
      BY <1>1, <1>2, <3>1, CloseOK
    <3>5. SignedQty(p.positions[s]) \in Int
      BY <1>3, SignedBasisTyped
    <3>. QED  BY <1>1, <3>2, <3>3, <3>4, <3>5
  <2>2. CASE ~Reduces(p, o)
    <3> DEFINE side == PositionSide(o)
    <3>1. /\ CanOpen(p, s, side, q, px, fee)
          /\ b = OpenPosition(p, s, side, q, px, fee, o.req.sl, o.req.tp)
      BY <2>2 DEF CanBook, Booked
    <3>2. side \in {"LONG", "SHORT"} /\ (side = "LONG" <=> o.req.side = "BUY")
      BY DEF PositionSide
    <3>3. q > 0
      BY <3>1 DEF CanOpen
    <3> HIDE DEF b, fee, s, side
    <3>4. /\ b \in PortfolioType /\ WellFormed(b) /\ Balanced(b)
          /\ SignedQty(b.positions[s]) =
                 SignedQty(p.positions[s]) + (IF side = "LONG" THEN q ELSE -q)
          /\ \A i \in Symbols \ {s} : b.positions[i] = p.positions[i]
      BY <1>1, <1>2, <3>1, <3>2, OpenOK
    <3>. QED  BY <3>2, <3>3, <3>4
  <2>. QED  BY <2>1, <2>2
<1> DEFINE pos    == b.positions[s]
           stop   == IF o.req.sl # NoPrice THEN o.req.sl ELSE pos.stop
           target == IF o.req.tp # NoPrice THEN o.req.tp ELSE pos.target
<1>5. CASE pos.side = "FLAT"
  <2>1. after = b
    BY <1>5 DEF Protected
  <2>. QED  BY <2>1, <1>4
<1>6. CASE pos.side # "FLAT"
  <2>1. pos \in Position /\ stop \in Level /\ target \in Level
    BY <1>1, <1>4 DEF PortfolioType, Position
  <2>2. after = Relevelled(b, s, stop, target)
    BY <1>6, <2>1 DEF Protected, Position, Relevelled
  <2> HIDE DEF b, stop, target, s
  <2>3. /\ after \in PortfolioType /\ WellFormed(after) /\ Balanced(after)
        /\ \A i \in Symbols : /\ SignedQty(after.positions[i]) = SignedQty(b.positions[i])
                              /\ i # s => after.positions[i] = b.positions[i]
    BY <1>1, <1>4, <1>6, <2>1, <2>2, LevelsOK
  <2>. QED  BY <1>1, <1>4, <2>3 DEF s
<1>. QED  BY <1>5, <1>6

-----------------------------------------------------------------------------
(* The order book *)

\* Appending an order that is sound keeps the book sound.
LEMMA AppendOrder ==
    ASSUME Inv, NEW o \in OrderType, StatusMatches(o), orders' = Append(orders, o)
    PROVE  /\ orders' \in Seq(OrderType)
           /\ StatusMatchesFills'
           /\ \A s : /\ NetFilled(s, orders) \in Int
                     /\ NetFilled(s, orders') = NetFilled(s, orders) + FilledOn(s, o)
<1>1. orders \in Seq(OrderType) /\ \A i \in 1..Len(orders) : StatusMatches(orders[i])
  BY DEF Inv, TypeOK, StatusMatchesFills, OrderIds
<1>2. /\ orders' \in Seq(OrderType) /\ Len(orders') = Len(orders) + 1
      /\ \A i \in 1..Len(orders) : orders'[i] = orders[i]
      /\ orders'[Len(orders) + 1] = o
  BY <1>1, AppendProperties
<1>3. \A i \in 1..Len(orders') : StatusMatches(orders'[i])
  BY <1>1, <1>2
<1>4. \A s : /\ NetFilled(s, orders) \in Int
            /\ NetFilled(s, orders') = NetFilled(s, orders) + FilledOn(s, o)
  BY <1>1, NetFilledAppend, NetFilledTyped
<1>. QED  BY <1>2, <1>3, <1>4 DEF StatusMatchesFills, OrderIds, StatusMatches

\* Replacing an order by one that is sound keeps the book sound.
LEMMA UpdateOrder ==
    ASSUME Inv, NEW k \in OrderIds, NEW o \in OrderType, StatusMatches(o),
           orders' = [orders EXCEPT ![k] = o]
    PROVE  /\ orders' \in Seq(OrderType)
           /\ OrderIds' = OrderIds
           /\ \A i \in OrderIds : i # k => orders'[i] = orders[i]
           /\ StatusMatchesFills'
           /\ \A s : /\ NetFilled(s, orders) \in Int
                     /\ NetFilled(s, orders') =
                            NetFilled(s, orders) + (FilledOn(s, o) - FilledOn(s, orders[k]))
<1>1. orders \in Seq(OrderType) /\ \A i \in 1..Len(orders) : StatusMatches(orders[i])
  BY DEF Inv, TypeOK, StatusMatchesFills, OrderIds
<1>2. /\ orders' \in Seq(OrderType) /\ Len(orders') = Len(orders)
      /\ \A i \in 1..Len(orders) : orders'[i] = IF i = k THEN o ELSE orders[i]
  BY <1>1, ExceptSeq, LenProperties DEF OrderIds
<1>3. \A i \in 1..Len(orders') : StatusMatches(orders'[i])
  BY <1>1, <1>2
<1>4. \A s : /\ NetFilled(s, orders) \in Int
            /\ NetFilled(s, orders') =
                   NetFilled(s, orders) + (FilledOn(s, o) - FilledOn(s, orders[k]))
  BY <1>1, NetFilledUpdate, NetFilledTyped DEF OrderIds
<1>. QED  BY <1>2, <1>3, <1>4 DEF StatusMatchesFills, OrderIds, StatusMatches

\* NewOrder has the type of an order, and filled nothing.
LEMMA NewOrderTyped ==
    ASSUME NEW r \in Requests, NEW status \in {"SUBMITTED", "REJECTED"}
    PROVE  /\ NewOrder(r, status) \in OrderType
           /\ NewOrder(r, status).req = r
           /\ NewOrder(r, status).filled = 0
           /\ NewOrder(r, status).status = status
           /\ \A s : FilledOn(s, NewOrder(r, status)) = 0
           /\ status = "REJECTED" \/ r.qty > 0 => StatusMatches(NewOrder(r, status))
<1>1. r \in RequestType
  BY ExchangeAssumption
<1> DEFINE o == NewOrder(r, status)
<1>2. o \in OrderType /\ o.req = r /\ o.filled = 0 /\ o.status = status
  BY <1>1 DEF NewOrder, OrderType, Terminal, OpenStates
<1> HIDE DEF o
<1>3. \A s : FilledOn(s, o) = 0
  <2>1. SignedFill(o) = 0
    BY <1>2 DEF SignedFill
  <2>. QED  BY <2>1 DEF FilledOn
<1>4. status = "REJECTED" \/ r.qty > 0 => StatusMatches(o)
  BY <1>2 DEF StatusMatches
<1>. QED  BY <1>2, <1>3, <1>4 DEF o

\* An order that is not refused has a quantity and a known price.
LEMMA AcceptedOrder ==
    ASSUME NEW r \in Requests, ~Refused(r)
    PROVE  r.qty > 0 /\ prices[r.symbol] # NoPrice
<1>1. r \in RequestType
  BY ExchangeAssumption
<1>2. r.qty \in Int
  BY <1>1 DEF RequestType
<1>. QED  BY <1>2 DEF Refused

-----------------------------------------------------------------------------
(* The invariant holds initially *)

\* A new exchange satisfies the invariant.
LEMMA InitInv == Init => Inv
<1> SUFFICES ASSUME Init PROVE Inv
  OBVIOUS
<1>1. orders \in Seq(OrderType) /\ Len(orders) = 0 /\ OrderIds = {}
  BY EmptySeq DEF Init, OrderIds
<1>2. 1 \in Symbols
  BY PortfolioAssumption DEF Symbols
<1>3. /\ portfolio \in PortfolioType /\ PositionsWellFormed /\ CashExplained
  BY EmptyPortfolioOK DEF Init, PositionsWellFormed, CashExplained
<1>4. TypeOK
  <2>1. NoRules \in RuleState /\ NoPrice \in Price
    BY DEF NoRules, RuleState, Price
  <2>2. rules \in [Symbols -> RuleState] /\ prices \in [Symbols -> Price]
    BY <2>1 DEF Init
  <2>3. call \in [op : {"idle", "tick", "eod"}, symbol : Symbols, price : Price,
                  todo : SUBSET Nat]
    BY <1>2, <2>1 DEF Init, Idle
  <2>4. exited \in [Symbols -> Int] /\ tradesPnl \in Int
    BY DEF Init
  <2>5. /\ seenClientIds \subseteq ClientIds /\ stale \subseteq Symbols
        /\ failureMode \in FailureModes
    BY DEF Init, FailureModes
  <2>6. apiFailures \in Nat /\ halted \in BOOLEAN /\ raised \in BOOLEAN
    BY DEF Init
  <2>. QED  BY <1>1, <1>3, <2>2, <2>3, <2>4, <2>5, <2>6 DEF TypeOK
<1>5. \A s \in Symbols : SignedQty(portfolio.positions[s]) = 0 /\ exited[s] = 0
  BY DEF Init, EmptyPortfolio, SignedQty, Flat
<1>6. ASSUME NEW s PROVE NetFilled(s, orders) = 0
  <2> DEFINE f == [i \in 1..Len(orders) |-> FilledOn(s, orders[i])]
  <2>1. f \in [1..0 -> Int] /\ \A i \in 1..0 : f[i] = 0
    BY <1>1
  <2> HIDE DEF f
  <2>2. Total(0, f) = 0
    BY <2>1, TotalZero
  <2>. QED  BY <2>2, <1>1 DEF NetFilled, f
<1>7. FillsExplainPositions
  BY <1>5, <1>6 DEF FillsExplainPositions
<1>8. StatusMatchesFills
  BY <1>1 DEF StatusMatchesFills
<1>9. PricesKnown
  BY DEF Init, PricesKnown, EmptyPortfolio, Flat
<1>10. CallConsistent
  BY DEF Init, CallConsistent, Idle
<1>. QED  BY <1>3, <1>4, <1>7, <1>8, <1>9, <1>10 DEF Inv

-----------------------------------------------------------------------------
(* create_order keeps the invariant *)

\* Submitting an order records a client id that callers use.
LEMMA SubmittingTyped ==
    ASSUME Inv, NEW r \in Requests, Submitting(r)
    PROVE  seenClientIds' \subseteq ClientIds /\ call = Idle
<1>1. r.client \in ClientIds \cup {NoClient}
  BY ExchangeAssumption DEF RequestType
<1>. QED  BY <1>1 DEF Inv, TypeOK, Submitting

\* An order that is created and fills nothing keeps the invariant.
LEMMA QuietAppend ==
    ASSUME Inv, NEW r \in Requests, NEW status \in {"SUBMITTED", "REJECTED"},
           status = "REJECTED" \/ r.qty > 0,
           Submitting(r), orders' = Append(orders, NewOrder(r, status)),
           apiFailures' \in Nat, halted' \in BOOLEAN,
           UNCHANGED <<portfolio, prices, stale, failureMode, rules, tradesPnl, exited,
                       call, raised>>
    PROVE  Inv'
<1> DEFINE o == NewOrder(r, status)
<1>1. o \in OrderType /\ StatusMatches(o) /\ \A s : FilledOn(s, o) = 0
  BY NewOrderTyped
<1>2. orders' = Append(orders, o)
  OBVIOUS
<1> HIDE DEF o
<1>3. /\ orders' \in Seq(OrderType) /\ StatusMatchesFills'
      /\ \A s : NetFilled(s, orders) \in Int /\ NetFilled(s, orders') = NetFilled(s, orders) + 0
  BY <1>1, <1>2, AppendOrder
<1>4. seenClientIds' \subseteq ClientIds /\ call = Idle
  BY SubmittingTyped
<1>5. TypeOK'
  BY <1>3, <1>4 DEF Inv, TypeOK
<1>6. PositionsWellFormed' /\ CashExplained'
  BY DEF Inv, PositionsWellFormed, CashExplained
<1>7. FillsExplainPositions'
  BY <1>3 DEF Inv, TypeOK, FillsExplainPositions
<1>8. PricesKnown'
  BY DEF Inv, PricesKnown
<1>9. CallConsistent'
  BY <1>4 DEF CallConsistent, Idle
<1>. QED  BY <1>3, <1>5, <1>6, <1>7, <1>8, <1>9 DEF Inv

\* A refused order leaves nothing but its client id behind.
LEMMA RefuseOrderInv ==
    ASSUME Inv, NEW r \in Requests, RefuseOrder(r)
    PROVE  Inv'
<1>1. apiFailures' \in Nat /\ halted' \in BOOLEAN
  <2>1. CASE MeetsOutage(r)
    BY <2>1 DEF Inv, TypeOK, RefuseOrder, RecordApiFailure
  <2>2. CASE ~MeetsOutage(r)
    BY <2>2 DEF Inv, TypeOK, RefuseOrder
  <2>. QED  BY <2>1, <2>2
<1>. QED  BY <1>1, QuietAppend DEF RefuseOrder

\* An order that rests has filled nothing.
LEMMA RestOrderInv ==
    ASSUME Inv, NEW r \in Requests, RestOrder(r)
    PROVE  Inv'
<1>1. apiFailures' \in Nat /\ halted' \in BOOLEAN
  BY DEF Inv, TypeOK, RestOrder
<1>. QED  BY <1>1, AcceptedOrder, QuietAppend DEF RestOrder

\* A new order that the portfolio refuses is REJECTED with nothing filled.
LEMMA RejectUnbookableInv ==
    ASSUME Inv, NEW r \in Requests, RejectUnbookable(r)
    PROVE  Inv'
<1>1. apiFailures' \in Nat /\ halted' \in BOOLEAN
  BY DEF Inv, TypeOK, RejectUnbookable
<1>. QED  BY <1>1, QuietAppend DEF RejectUnbookable

\* What booking a fill of an open order does to the books.
LEMMA BookFillOK ==
    ASSUME Inv, NEW o \in OrderType, o.status \in OpenStates, StatusMatches(o),
           NEW px \in Int, BookFill(o, px)
    PROVE  /\ portfolio' \in PortfolioType /\ PositionsWellFormed' /\ CashExplained'
           /\ tradesPnl' \in Int
           /\ FillQty(o) \in Int /\ FillQty(o) > 0
           /\ SignedQty(portfolio'.positions[o.req.symbol]) =
                  SignedQty(portfolio.positions[o.req.symbol])
                  + (IF o.req.side = "BUY" THEN FillQty(o) ELSE -FillQty(o))
           /\ \A i \in Symbols \ {o.req.symbol} :
                  portfolio'.positions[i] = portfolio.positions[i]
<1> DEFINE q == FillQty(o)
<1>1. q \in Int
  BY DEF FillQty, OrderType, RequestType
<1>2. portfolio \in PortfolioType /\ WellFormed(portfolio) /\ Balanced(portfolio)
      /\ tradesPnl \in Int
  BY DEF Inv, TypeOK, PositionsWellFormed, CashExplained
<1>3. CanBook(portfolio, o, q, px) /\ portfolio' = Protected(Booked(portfolio, o, q, px), o)
  BY DEF BookFill
<1>4. tradesPnl' = tradesPnl + RecordedPnl(portfolio, o, q, px)
  BY DEF BookFill
<1> HIDE DEF q
<1>5. /\ q > 0 /\ portfolio' \in PortfolioType /\ WellFormed(portfolio') /\ Balanced(portfolio')
      /\ SignedQty(portfolio'.positions[o.req.symbol]) =
             SignedQty(portfolio.positions[o.req.symbol])
             + (IF o.req.side = "BUY" THEN q ELSE -q)
      /\ \A i \in Symbols \ {o.req.symbol} : portfolio'.positions[i] = portfolio.positions[i]
  BY <1>1, <1>2, <1>3, BookedOK
<1>6. RecordedPnl(portfolio, o, q, px) \in Int
  <2>1. CASE Reduces(portfolio, o) /\ o.req.side = "SELL"
    <3> DEFINE pos == portfolio.positions[o.req.symbol]
               fee == Fee(q * px)
    <3>1. o.req.symbol \in Symbols
      BY DEF OrderType, RequestType
    <3>2. CanClose(portfolio, o.req.symbol, q)
      BY <2>1, <1>3 DEF CanBook
    <3>3. fee \in Int
      BY <1>1, FeeTyped
    <3> HIDE DEF fee
    <3>4. ClosePnl(pos, q, px, fee) \in Int
      BY <1>1, <1>2, <3>1, <3>2, <3>3, ClosePnlTyped
    <3>. QED  BY <2>1, <3>4 DEF RecordedPnl, fee
  <2>2. CASE ~(Reduces(portfolio, o) /\ o.req.side = "SELL")
    BY <2>2 DEF RecordedPnl
  <2>. QED  BY <2>1, <2>2
<1>7. tradesPnl' \in Int
  BY <1>2, <1>4, <1>6
<1>. QED  BY <1>1, <1>5, <1>7 DEF PositionsWellFormed, CashExplained, q

\* A new order that fills at once moves the portfolio by what it filled.
LEMMA FillNewOrderInv ==
    ASSUME Inv, NEW r \in Requests, FillNewOrder(r)
    PROVE  Inv'
<1> DEFINE o  == NewOrder(r, "SUBMITTED")
           px == FillPrice(o, prices[r.symbol])
           o2 == AfterFill(o, FillQty(o))
           q  == FillQty(o)
<1>1. Submitting(r) /\ ~Refused(r) /\ FillsAtOnce(r) /\ BookFill(o, px)
      /\ orders' = Append(orders, o2)
  BY DEF FillNewOrder
<1>2. r.qty > 0 /\ prices[r.symbol] # NoPrice
  BY <1>1, AcceptedOrder
<1>3. /\ o \in OrderType /\ StatusMatches(o) /\ o.req = r /\ o.status = "SUBMITTED"
      /\ o.filled = 0
  BY <1>2, NewOrderTyped
<1>4. r.symbol \in Symbols /\ r.side \in {"BUY", "SELL"} /\ prices[r.symbol] \in Price
  BY ExchangeAssumption DEF RequestType, Inv, TypeOK
<1>5. r.type = "LIMIT" => r.limit # NoPrice
  BY <1>1, <1>3 DEF FillsAtOnce, Triggered
<1> HIDE DEF o
<1>6. px \in Int
  BY <1>2, <1>3, <1>4, <1>5, FillPriceTyped
<1> HIDE DEF px
<1>7. /\ portfolio' \in PortfolioType /\ PositionsWellFormed' /\ CashExplained'
      /\ tradesPnl' \in Int /\ q \in Int /\ q > 0
      /\ SignedQty(portfolio'.positions[r.symbol]) =
             SignedQty(portfolio.positions[r.symbol]) + (IF r.side = "BUY" THEN q ELSE -q)
      /\ \A i \in Symbols \ {r.symbol} : portfolio'.positions[i] = portfolio.positions[i]
  BY <1>1, <1>3, <1>6, BookFillOK DEF OpenStates
<1>8. o2 \in OrderType /\ StatusMatches(o2) /\ o2.req = r /\ o2.filled = q
  BY <1>3, <1>7, AfterFillOK DEF OpenStates
<1> HIDE DEF o2
<1>9. /\ orders' \in Seq(OrderType) /\ StatusMatchesFills'
      /\ \A s : /\ NetFilled(s, orders) \in Int
                /\ NetFilled(s, orders') = NetFilled(s, orders) + FilledOn(s, o2)
  BY <1>1, <1>8, AppendOrder
<1>10. seenClientIds' \subseteq ClientIds /\ call = Idle
  BY <1>1, SubmittingTyped
<1>11. TypeOK'
  BY <1>7, <1>9, <1>10 DEF Inv, TypeOK, FillNewOrder
<1>12. FillsExplainPositions'
  <2> SUFFICES ASSUME NEW s \in Symbols
               PROVE  SignedQty(portfolio'.positions[s]) + exited'[s] = NetFilled(s, orders')
    BY DEF FillsExplainPositions
  <2>1. SignedQty(portfolio.positions[s]) + exited[s] = NetFilled(s, orders)
    BY DEF Inv, FillsExplainPositions
  <2>2. exited' = exited /\ exited[s] \in Int /\ SignedQty(portfolio.positions[s]) \in Int
    BY SignedBasisTyped DEF FillNewOrder, Inv, TypeOK, PortfolioType
  <2>3. CASE s = r.symbol
    <3>1. FilledOn(s, o2) = IF r.side = "BUY" THEN q ELSE -q
      BY <1>7, <1>8, <2>3 DEF FilledOn, SignedFill
    <3>. QED  BY <1>7, <1>9, <2>1, <2>2, <2>3, <3>1
  <2>4. CASE s # r.symbol
    <3>1. FilledOn(s, o2) = 0
      BY <1>8, <2>4, FilledElsewhere
    <3>. QED  BY <1>7, <1>9, <2>1, <2>2, <2>4, <3>1
  <2>. QED  BY <2>3, <2>4
<1>13. PricesKnown'
  BY <1>2, <1>7 DEF Inv, PricesKnown, FillNewOrder
<1>14. CallConsistent'
  BY <1>10 DEF FillNewOrder, CallConsistent, Idle
<1>. QED  BY <1>7, <1>9, <1>11, <1>12, <1>13, <1>14 DEF Inv

-----------------------------------------------------------------------------
(* Calls that leave the orders and the portfolio alone *)

\* A call between loops that touches neither orders nor portfolio.
LEMMA QuietCall ==
    ASSUME Inv, call = Idle, UNCHANGED <<orders, portfolio, exited, call>>,
           TypeOK', PricesKnown'
    PROVE  Inv'
<1>1. PositionsWellFormed' /\ CashExplained' /\ FillsExplainPositions'
  BY DEF Inv, PositionsWellFormed, CashExplained, FillsExplainPositions
<1>2. StatusMatchesFills'
  BY DEF Inv, StatusMatchesFills, OrderIds, StatusMatches
<1>3. CallConsistent'
  BY DEF CallConsistent, Idle
<1>. QED  BY <1>1, <1>2, <1>3 DEF Inv

\* set_price moves neither orders nor portfolio.
LEMMA SetPriceInv ==
    ASSUME Inv, NEW s \in Symbols, NEW px \in Prices, SetPrice(s, px)
    PROVE  Inv'
<1>1. px \in Price /\ px # NoPrice
  BY ExchangeAssumption, PortfolioAssumption DEF Price
<1>2. prices' \in [Symbols -> Price]
  BY <1>1 DEF Inv, TypeOK, SetPrice
<1>3. TypeOK'
  BY <1>2 DEF Inv, TypeOK, SetPrice
<1>4. PricesKnown'
  BY <1>1 DEF Inv, TypeOK, SetPrice, PricesKnown
<1>. QED  BY <1>3, <1>4, QuietCall DEF SetPrice

\* mark_stale moves neither orders nor portfolio.
LEMMA MarkStaleInv ==
    ASSUME Inv, NEW s \in Symbols, MarkStale(s)
    PROVE  Inv'
<1>1. TypeOK' /\ PricesKnown'
  BY DEF Inv, TypeOK, MarkStale, PricesKnown
<1>. QED  BY <1>1, QuietCall DEF MarkStale

\* simulate_failure changes the failure mode, and the breaker at most.
LEMMA SimulateFailureInv ==
    ASSUME Inv, NEW mode \in SimulatedModes, SimulateFailure(mode)
    PROVE  Inv'
<1>1. mode \in FailureModes
  BY ExchangeAssumption DEF FailureModes, OutageModes
<1>2. apiFailures' \in Nat /\ halted' \in BOOLEAN
  <2>1. CASE mode \in OutageModes \cup {"stale_market_data"}
    BY <2>1 DEF Inv, TypeOK, SimulateFailure, RecordApiFailure
  <2>2. CASE mode \notin OutageModes \cup {"stale_market_data"}
    BY <2>2 DEF Inv, TypeOK, SimulateFailure
  <2>. QED  BY <2>1, <2>2
<1>3. TypeOK' /\ PricesKnown'
  BY <1>1, <1>2 DEF Inv, TypeOK, SimulateFailure, PricesKnown
<1>. QED  BY <1>3, QuietCall DEF SimulateFailure

\* clear_failure resets the failure mode and the failure counter.
LEMMA ClearFailureInv ==
    ASSUME Inv, ClearFailure
    PROVE  Inv'
<1>1. TypeOK' /\ PricesKnown'
  BY DEF Inv, TypeOK, ClearFailure, PricesKnown, FailureModes
<1>. QED  BY <1>1, QuietCall DEF ClearFailure

\* halt sets the halt and nothing else.
LEMMA HaltInv ==
    ASSUME Inv, Halt
    PROVE  Inv'
<1>1. TypeOK' /\ PricesKnown'
  BY DEF Inv, TypeOK, Halt, PricesKnown
<1>. QED  BY <1>1, QuietCall DEF Halt

\* reset_halt clears the halt and the failure counter.
LEMMA ResetHaltInv ==
    ASSUME Inv, ResetHalt
    PROVE  Inv'
<1>1. TypeOK' /\ PricesKnown'
  BY DEF Inv, TypeOK, ResetHalt, PricesKnown, FailureModes
<1>. QED  BY <1>1, QuietCall DEF ResetHalt

\* configure_position_rules replaces the rules of one symbol.
LEMMA ConfigureRulesInv ==
    ASSUME Inv, NEW s \in Symbols, NEW r \in RuleSets, ConfigureRules(s, r)
    PROVE  Inv'
<1> DEFINE now == [be      |-> r.be,
                   partial |-> IF r.partial THEN "armed" ELSE rules[s].partial,
                   trail   |-> IF r.trail # NoPrice THEN r.trail ELSE rules[s].trail,
                   widen   |-> IF r.trail # NoPrice THEN r.widen ELSE rules[s].widen,
                   sma     |-> IF r.sma # NoPrice THEN r.sma ELSE rules[s].sma]
<1>1. r \in RuleType /\ rules \in [Symbols -> RuleState] /\ rules[s] \in RuleState
  BY ExchangeAssumption DEF Inv, TypeOK
<1>2. now \in RuleState
  BY <1>1 DEF RuleType, RuleState
<1>3. rules' = [rules EXCEPT ![s] = now]
  BY DEF ConfigureRules
<1> HIDE DEF now
<1>4. rules' \in [Symbols -> RuleState]
  BY <1>1, <1>2, <1>3
<1>5. TypeOK' /\ PricesKnown'
  BY <1>4 DEF Inv, TypeOK, ConfigureRules, PricesKnown
<1>. QED  BY <1>5, QuietCall DEF ConfigureRules

-----------------------------------------------------------------------------
(* Orders that end *)

\* Ending an open order keeps the book sound and what it filled.
LEMMA StatusChange ==
    ASSUME Inv, NEW k \in OrderIds, orders[k].status \in OpenStates,
           NEW status,
           \/ status \in {"CANCELLED", "EXPIRED"}
           \/ status = "REJECTED" /\ orders[k].status = "SUBMITTED",
           SetStatus(k, status)
    PROVE  /\ orders' \in Seq(OrderType)
           /\ OrderIds' = OrderIds
           /\ \A i \in OrderIds : i # k => orders'[i] = orders[i]
           /\ StatusMatchesFills'
           /\ \A s : NetFilled(s, orders') = NetFilled(s, orders)
<1> DEFINE o == [orders[k] EXCEPT !.status = status]
<1>1. orders[k] \in OrderType /\ StatusMatches(orders[k])
  BY ElementOfSeq DEF Inv, TypeOK, StatusMatchesFills, OrderIds
<1>2. /\ o \in OrderType /\ o.req = orders[k].req /\ o.filled = orders[k].filled
      /\ o.status = status
  BY <1>1 DEF OrderType, Terminal
<1>3. orders' = [orders EXCEPT ![k] = o]
  BY <1>1 DEF SetStatus, OrderType
<1> HIDE DEF o
<1>4. orders[k].filled \in Int /\ orders[k].req.qty \in Int
  BY <1>1 DEF OrderType, RequestType
<1>5. StatusMatches(o)
  BY <1>1, <1>2, <1>4 DEF StatusMatches, OpenStates
<1>6. \A s : FilledOn(s, o) = FilledOn(s, orders[k]) /\ FilledOn(s, o) \in Int
  BY <1>1, <1>2, FilledOnTyped DEF FilledOn, SignedFill
<1>7. /\ orders' \in Seq(OrderType)
      /\ OrderIds' = OrderIds
      /\ \A i \in OrderIds : i # k => orders'[i] = orders[i]
      /\ StatusMatchesFills'
      /\ \A s : /\ NetFilled(s, orders) \in Int
                /\ NetFilled(s, orders') =
                       NetFilled(s, orders) + (FilledOn(s, o) - FilledOn(s, orders[k]))
  BY <1>2, <1>3, <1>5, UpdateOrder
<1>. QED  BY <1>6, <1>7

\* A cancelled or expired order keeps what it filled.
LEMMA EndOrderInv ==
    ASSUME Inv, NEW k \in OrderIds, NEW status \in {"CANCELLED", "EXPIRED"},
           EndOrder(k, status)
    PROVE  Inv'
<1>1. /\ orders' \in Seq(OrderType) /\ StatusMatchesFills'
      /\ \A s : NetFilled(s, orders') = NetFilled(s, orders)
  BY StatusChange DEF EndOrder
<1>2. TypeOK'
  BY <1>1 DEF Inv, TypeOK, EndOrder
<1>3. PositionsWellFormed' /\ CashExplained' /\ FillsExplainPositions' /\ PricesKnown'
  BY <1>1 DEF Inv, EndOrder, PositionsWellFormed, CashExplained, FillsExplainPositions,
              PricesKnown
<1>4. CallConsistent'
  BY DEF EndOrder, CallConsistent, Idle
<1>. QED  BY <1>1, <1>2, <1>3, <1>4 DEF Inv

\* The end of day cancels what is open; what the orders filled stays.
LEMMA EndOfDayInv ==
    ASSUME Inv, EndOfDay
    PROVE  Inv'
<1> DEFINE now(i) == IF orders[i].status \in OpenStates
                     THEN [orders[i] EXCEPT !.status = "CANCELLED"]
                     ELSE orders[i]
<1>1. /\ orders \in Seq(OrderType) /\ Len(orders) \in Nat
      /\ \A i \in 1..Len(orders) : orders[i] \in OrderType /\ StatusMatches(orders[i])
  BY ElementOfSeq, LenProperties DEF Inv, TypeOK, StatusMatchesFills, OrderIds
<1>2. ASSUME NEW i \in 1..Len(orders)
      PROVE  /\ now(i) \in OrderType /\ StatusMatches(now(i))
             /\ now(i).req = orders[i].req /\ now(i).filled = orders[i].filled
  <2>1. orders[i] \in OrderType /\ StatusMatches(orders[i])
    BY <1>1
  <2>2. CASE orders[i].status \notin OpenStates
    BY <2>1, <2>2
  <2>3. CASE orders[i].status \in OpenStates
    <3> DEFINE o == [orders[i] EXCEPT !.status = "CANCELLED"]
    <3>1. /\ o \in OrderType /\ o.req = orders[i].req /\ o.filled = orders[i].filled
          /\ o.status = "CANCELLED"
      BY <2>1 DEF OrderType, Terminal
    <3>2. now(i) = o
      BY <2>3
    <3> HIDE DEF o, now
    <3>3. orders[i].filled \in Int /\ orders[i].req.qty \in Int
      BY <2>1 DEF OrderType, RequestType
    <3>4. StatusMatches(o)
      BY <2>1, <2>3, <3>1, <3>3 DEF StatusMatches, OpenStates
    <3>. QED  BY <3>1, <3>2, <3>4
  <2>. QED  BY <2>2, <2>3
<1>3. orders' = [i \in 1..Len(orders) |-> now(i)]
  BY DEF EndOfDay, OrderIds
<1> HIDE DEF now
<1>4. orders' \in Seq(OrderType) /\ Len(orders') = Len(orders)
      /\ \A i \in 1..Len(orders) : orders'[i] = now(i)
  BY <1>1, <1>2, <1>3
<1>5. StatusMatchesFills'
  <2>1. \A i \in 1..Len(orders') : StatusMatches(orders'[i])
    BY <1>2, <1>4
  <2>. QED  BY <2>1 DEF StatusMatchesFills, OrderIds, StatusMatches
<1>6. \A s : NetFilled(s, orders') = NetFilled(s, orders)
  <2> TAKE s
  <2>1. \A i \in 1..Len(orders) : FilledOn(s, orders'[i]) = FilledOn(s, orders[i])
    BY <1>2, <1>4 DEF FilledOn, SignedFill
  <2>. QED  BY <1>4, <2>1 DEF NetFilled
<1>7. /\ call' \in [op : {"idle", "tick", "eod"}, symbol : Symbols, price : Price,
                    todo : SUBSET Nat]
      /\ call'.op = "eod" => call'.todo = Held
      /\ call'.op # "tick"
  <2>1. Held \subseteq Nat /\ 1 \in Symbols /\ NoPrice \in Price
    BY PortfolioAssumption DEF Held, Symbols, Price
  <2> HIDE DEF Held
  <2>2. CASE FlattenAtEod /\ Held # {}
    <3>1. call' = [op |-> "eod", symbol |-> 1, price |-> NoPrice, todo |-> Held]
      BY <2>2 DEF EndOfDay, Idle
    <3>. QED  BY <2>1, <3>1
  <2>3. CASE ~(FlattenAtEod /\ Held # {})
    <3>1. call' = [op |-> "idle", symbol |-> 1, price |-> NoPrice, todo |-> {}]
      BY <2>3 DEF EndOfDay, Idle
    <3>. QED  BY <2>1, <3>1
  <2>. QED  BY <2>2, <2>3
<1>8. TypeOK'
  BY <1>4, <1>7 DEF Inv, TypeOK, EndOfDay
<1>9. PositionsWellFormed' /\ CashExplained' /\ FillsExplainPositions' /\ PricesKnown'
  BY <1>6 DEF Inv, EndOfDay, PositionsWellFormed, CashExplained, FillsExplainPositions,
              PricesKnown
<1>10. Held' = Held
  BY DEF EndOfDay, Held
<1>11. CallConsistent'
  BY <1>7, <1>10 DEF CallConsistent
<1>. QED  BY <1>5, <1>8, <1>9, <1>11 DEF Inv

-----------------------------------------------------------------------------
(* A price update and the orders it walks *)

\* A price update begins with the orders of the symbol that are open.
LEMMA PriceUpdateInv ==
    ASSUME Inv, NEW s \in Symbols, NEW px \in Prices, PriceUpdate(s, px)
    PROVE  Inv'
<1>1. px \in Price /\ px # NoPrice
  BY ExchangeAssumption, PortfolioAssumption DEF Price
<1>2. prices' \in [Symbols -> Price] /\ prices'[s] = px
  BY <1>1 DEF Inv, TypeOK, PriceUpdate
<1>3. OpenOrders(s) \subseteq OrderIds /\ OrderIds \subseteq Nat
  BY DEF OpenOrders, OrderIds
<1>4. call' = [op |-> "tick", symbol |-> s, price |-> px, todo |-> OpenOrders(s)]
  BY DEF PriceUpdate
<1>5. TypeOK'
  <2>1. call' \in [op : {"idle", "tick", "eod"}, symbol : Symbols, price : Price,
                  todo : SUBSET Nat]
    BY <1>1, <1>3, <1>4
  <2>2. stale' \subseteq Symbols
    BY DEF Inv, TypeOK, PriceUpdate
  <2>3. UNCHANGED <<orders, seenClientIds, portfolio, apiFailures, halted, failureMode,
                    rules, tradesPnl, exited, raised>>
    BY DEF PriceUpdate
  <2>. QED  BY <1>2, <2>1, <2>2, <2>3 DEF Inv, TypeOK
<1>6. PositionsWellFormed' /\ CashExplained' /\ FillsExplainPositions'
  BY DEF Inv, PriceUpdate, PositionsWellFormed, CashExplained, FillsExplainPositions
<1>7. StatusMatchesFills' /\ OrderIds' = OrderIds
  BY DEF Inv, PriceUpdate, StatusMatchesFills, OrderIds, StatusMatches
<1>8. PricesKnown'
  BY <1>1 DEF Inv, TypeOK, PriceUpdate, PricesKnown
<1>9. CallConsistent'
  BY <1>1, <1>2, <1>4, <1>7 DEF CallConsistent, OpenOrders, PriceUpdate
<1>. QED  BY <1>5, <1>6, <1>7, <1>8, <1>9 DEF Inv

\* The order a price update visits is open and of its symbol.
LEMMA VisitedOrder ==
    ASSUME Inv, NEW i, NextInTick(i)
    PROVE  /\ i \in OrderIds /\ orders[i] \in OrderType /\ StatusMatches(orders[i])
           /\ orders[i].status \in OpenStates /\ orders[i].req.symbol = call.symbol
           /\ call.symbol \in Symbols /\ call.price \in Price /\ call.price # NoPrice
           /\ prices[call.symbol] = call.price
<1>1. i \in call.todo /\ call.op = "tick"
  BY DEF NextInTick
<1>2. i \in OrderIds
  BY <1>1 DEF Inv, CallConsistent
<1>3. orders[i] \in OrderType /\ StatusMatches(orders[i])
  BY <1>2, ElementOfSeq DEF Inv, TypeOK, StatusMatchesFills, OrderIds
<1>. QED  BY <1>1, <1>2, <1>3 DEF Inv, TypeOK, CallConsistent

\* Moving on to the next order leaves what is still to visit as it was.
LEMMA MovedOn ==
    ASSUME Inv, NEW i, NextInTick(i), DoneWith(i), prices' = prices, OrderIds' = OrderIds,
           \A j \in OrderIds : j # i => orders'[j] = orders[j]
    PROVE  /\ call' \in [op : {"idle", "tick", "eod"}, symbol : Symbols, price : Price,
                         todo : SUBSET Nat]
           /\ CallConsistent'
<1>1. call \in [op : {"idle", "tick", "eod"}, symbol : Symbols, price : Price,
                todo : SUBSET Nat]
  BY DEF Inv, TypeOK
<1>2. call.op = "tick"
  BY DEF NextInTick
<1> DEFINE rest == call.todo \ {i}
<1>3. call' = [call EXCEPT !.todo = rest] /\ rest \in SUBSET Nat
  BY <1>1 DEF DoneWith
<1>3a. \A j \in rest : j \in call.todo /\ j # i
  OBVIOUS
<1> HIDE DEF rest
<1>4. /\ call' \in [op : {"idle", "tick", "eod"}, symbol : Symbols, price : Price,
                    todo : SUBSET Nat]
      /\ call'.op = "tick" /\ call'.symbol = call.symbol /\ call'.price = call.price
      /\ call'.todo = rest
  BY <1>1, <1>2, <1>3
<1>5. CallConsistent'
  BY <1>2, <1>3a, <1>4 DEF Inv, CallConsistent
<1>. QED  BY <1>4, <1>5

\* An order that does not trigger is passed over.
LEMMA TickSkipInv ==
    ASSUME Inv, NEW i, TickSkip(i)
    PROVE  Inv'
<1>1. OrderIds' = OrderIds /\ \A j \in OrderIds : orders'[j] = orders[j]
  BY DEF TickSkip, OrderIds
<1>2. /\ call' \in [op : {"idle", "tick", "eod"}, symbol : Symbols, price : Price,
                    todo : SUBSET Nat]
      /\ CallConsistent'
  BY <1>1, MovedOn DEF TickSkip
<1>3. TypeOK'
  BY <1>2 DEF Inv, TypeOK, TickSkip
<1>4. PositionsWellFormed' /\ CashExplained' /\ FillsExplainPositions' /\ PricesKnown'
  BY DEF Inv, TickSkip, PositionsWellFormed, CashExplained, FillsExplainPositions,
         PricesKnown
<1>5. StatusMatchesFills'
  BY DEF Inv, TickSkip, StatusMatchesFills, OrderIds, StatusMatches
<1>. QED  BY <1>2, <1>3, <1>4, <1>5 DEF Inv

\* A refused fill of an order that filled nothing ends the order.
LEMMA TickRejectInv ==
    ASSUME Inv, NEW i, TickReject(i)
    PROVE  Inv'
<1>1. i \in OrderIds /\ orders[i].status \in OpenStates
  BY VisitedOrder DEF TickReject
<1>2. /\ orders' \in Seq(OrderType) /\ OrderIds' = OrderIds
      /\ \A j \in OrderIds : j # i => orders'[j] = orders[j]
      /\ StatusMatchesFills' /\ \A s : NetFilled(s, orders') = NetFilled(s, orders)
  BY <1>1, StatusChange DEF TickReject
<1>3. /\ call' \in [op : {"idle", "tick", "eod"}, symbol : Symbols, price : Price,
                    todo : SUBSET Nat]
      /\ CallConsistent'
  BY <1>2, MovedOn DEF TickReject
<1>4. TypeOK'
  BY <1>2, <1>3 DEF Inv, TypeOK, TickReject
<1>5. PositionsWellFormed' /\ CashExplained' /\ FillsExplainPositions' /\ PricesKnown'
  BY <1>2 DEF Inv, TickReject, PositionsWellFormed, CashExplained, FillsExplainPositions,
              PricesKnown
<1>. QED  BY <1>2, <1>3, <1>4, <1>5 DEF Inv

\* An update that raises leaves the orders and the portfolio alone.
LEMMA TickRaiseInv ==
    ASSUME Inv, NEW i, TickRaise(i)
    PROVE  Inv'
<1>1. call' = [op |-> "idle", symbol |-> 1, price |-> NoPrice, todo |-> {}]
  BY DEF TickRaise, Idle
<1>2. 1 \in Symbols /\ NoPrice \in Price
  BY PortfolioAssumption DEF Symbols, Price
<1>3. TypeOK'
  BY <1>1, <1>2 DEF Inv, TypeOK, TickRaise
<1>4. PositionsWellFormed' /\ CashExplained' /\ FillsExplainPositions' /\ PricesKnown'
  BY DEF Inv, TickRaise, PositionsWellFormed, CashExplained, FillsExplainPositions,
         PricesKnown
<1>5. StatusMatchesFills'
  BY DEF Inv, TickRaise, StatusMatchesFills, OrderIds, StatusMatches
<1>6. CallConsistent'
  BY <1>1 DEF CallConsistent
<1>. QED  BY <1>3, <1>4, <1>5, <1>6 DEF Inv

\* A resting order that fills is booked like a new one.
LEMMA TickFillInv ==
    ASSUME Inv, NEW i, TickFill(i)
    PROVE  Inv'
<1> DEFINE o  == orders[i]
           px == FillPrice(o, call.price)
           o2 == AfterFill(o, FillQty(o))
           q  == FillQty(o)
           r  == o.req
<1>1. /\ NextInTick(i) /\ Triggered(o, call.price) /\ BookFill(o, px) /\ DoneWith(i)
      /\ orders' = [orders EXCEPT ![i] = o2]
      /\ UNCHANGED <<seenClientIds, prices, stale, apiFailures, halted, failureMode, rules,
                     exited, raised>>
  BY DEF TickFill
<1>2. /\ i \in OrderIds /\ o \in OrderType /\ StatusMatches(o) /\ o.status \in OpenStates
      /\ r.symbol = call.symbol /\ call.symbol \in Symbols
      /\ call.price \in Price /\ call.price # NoPrice /\ prices[call.symbol] = call.price
  BY <1>1, VisitedOrder
<1>3. r.type = "LIMIT" => r.limit # NoPrice
  BY <1>1 DEF Triggered
<1>4. r.symbol \in Symbols /\ r.side \in {"BUY", "SELL"} /\ o.filled \in Int
  BY <1>2 DEF OrderType, RequestType
<1> HIDE DEF o
<1>5. px \in Int
  BY <1>2, <1>3, FillPriceTyped
<1> HIDE DEF px
<1>6. /\ portfolio' \in PortfolioType /\ PositionsWellFormed' /\ CashExplained'
      /\ tradesPnl' \in Int /\ q \in Int /\ q > 0
      /\ SignedQty(portfolio'.positions[r.symbol]) =
             SignedQty(portfolio.positions[r.symbol]) + (IF r.side = "BUY" THEN q ELSE -q)
      /\ \A s \in Symbols \ {r.symbol} : portfolio'.positions[s] = portfolio.positions[s]
  BY <1>1, <1>2, <1>5, BookFillOK
<1>7. o2 \in OrderType /\ StatusMatches(o2) /\ o2.req = r /\ o2.filled = o.filled + q
  BY <1>2, <1>6, AfterFillOK
<1> HIDE DEF o2
<1>8. /\ orders' \in Seq(OrderType) /\ OrderIds' = OrderIds
      /\ \A j \in OrderIds : j # i => orders'[j] = orders[j]
      /\ StatusMatchesFills'
      /\ \A s : /\ NetFilled(s, orders) \in Int
                /\ NetFilled(s, orders') =
                       NetFilled(s, orders) + (FilledOn(s, o2) - FilledOn(s, o))
  BY <1>1, <1>2, <1>7, UpdateOrder DEF o
<1>9. /\ call' \in [op : {"idle", "tick", "eod"}, symbol : Symbols, price : Price,
                    todo : SUBSET Nat]
      /\ CallConsistent'
  BY <1>1, <1>8, MovedOn
<1>10. TypeOK'
  BY <1>1, <1>6, <1>8, <1>9 DEF Inv, TypeOK
<1>11. FillsExplainPositions'
  <2> SUFFICES ASSUME NEW s \in Symbols
               PROVE  SignedQty(portfolio'.positions[s]) + exited'[s] = NetFilled(s, orders')
    BY DEF FillsExplainPositions
  <2>1. SignedQty(portfolio.positions[s]) + exited[s] = NetFilled(s, orders)
    BY DEF Inv, FillsExplainPositions
  <2>2. exited' = exited /\ exited[s] \in Int /\ SignedQty(portfolio.positions[s]) \in Int
    BY <1>1, SignedBasisTyped DEF Inv, TypeOK, PortfolioType
  <2>3. CASE s = r.symbol
    <3>1. /\ FilledOn(s, o2) = IF r.side = "BUY" THEN o.filled + q ELSE 0 - (o.filled + q)
          /\ FilledOn(s, o) = IF r.side = "BUY" THEN o.filled ELSE 0 - o.filled
      BY <1>7, <2>3 DEF FilledOn, SignedFill
    <3>2. FilledOn(s, o2) - FilledOn(s, o) = IF r.side = "BUY" THEN q ELSE -q
      BY <1>4, <1>6, <3>1
    <3>3. NetFilled(s, orders') = NetFilled(s, orders) + (IF r.side = "BUY" THEN q ELSE -q)
      BY <1>8, <3>2
    <3>. QED  BY <1>6, <1>8, <2>1, <2>2, <2>3, <3>3
  <2>4. CASE s # r.symbol
    <3>1. FilledOn(s, o2) = 0 /\ FilledOn(s, o) = 0
      BY <1>2, <1>7, <2>4, FilledElsewhere
    <3>. QED  BY <1>6, <1>8, <2>1, <2>2, <2>4, <3>1
  <2>. QED  BY <2>3, <2>4
<1>12. PricesKnown'
  BY <1>1, <1>2, <1>6 DEF Inv, PricesKnown
<1>. QED  BY <1>6, <1>8, <1>9, <1>10, <1>11, <1>12 DEF Inv

-----------------------------------------------------------------------------
(* Managing a position *)

\* The entry price of a held position is an integer.
LEMMA EntryTyped ==
    ASSUME NEW pos \in Position
    PROVE  Entry(pos) \in Level
<1>1. pos.qty \in Nat /\ pos.basis \in Int
  BY DEF Position
<1>. QED  BY <1>1 DEF Entry, Level

\* A partial take profit closes at least one unit and at most all of them.
LEMMA PartialQtyOK ==
    ASSUME NEW pos \in Position, pos.qty > 0
    PROVE  PartialQty(pos) \in Int /\ 0 < PartialQty(pos) /\ PartialQty(pos) <= pos.qty
<1> DEFINE n == pos.qty
           m == n * PartialPct
           q == (m + 99) \div 100
<1>1. n \in Nat /\ n > 0 /\ PartialPct \in 1..100
  BY ExchangeAssumption DEF Position
<1>2. m \in Int /\ m >= 1 /\ m <= 100 * n
  <2>1. n * PartialPct >= n * 1 /\ n * PartialPct <= n * 100
    BY <1>1
  <2>. QED  BY <1>1, <2>1
<1> HIDE DEF m
<1>3. q \in Int /\ 100 * q <= m + 99 /\ m + 99 < 100 * q + 100
  BY <1>2
<1> HIDE DEF q, n
<1>4. 0 < q /\ q <= n
  BY <1>1, <1>2, <1>3
<1>. QED  BY <1>3, <1>4 DEF PartialQty, q, m, n

\* Breakeven and the partial take profit keep the books, and the side unless
\* the whole position is closed.
LEMMA AfterPartialOK ==
    ASSUME NEW p \in PortfolioType, WellFormed(p), Balanced(p), NEW s \in Symbols,
           p.positions[s].side # "FLAT", NEW px \in Int, NEW r,
           NEW after, after = AfterPartial(p, s, px, r)
    PROVE  /\ after \in PortfolioType /\ WellFormed(after) /\ Balanced(after)
           /\ after.positions[s].side \in {"FLAT", p.positions[s].side}
           /\ \A i \in Symbols \ {s} : after.positions[i] = p.positions[i]
<1> DEFINE pos == p.positions[s]
           be  == [p EXCEPT !.positions[s] = AfterBreakeven(pos, px, r)]
           q   == PartialQty(pos)
           fee == Fee(q * px)
<1>1. p.positions \in [Symbols -> Position] /\ pos \in Position
  BY DEF PortfolioType
<1>2. pos.qty > 0
  BY DEF WellFormed, WellFormedPosition
<1>3. /\ be \in PortfolioType /\ WellFormed(be) /\ Balanced(be)
      /\ be.positions[s].side = pos.side /\ be.positions[s].qty = pos.qty
      /\ \A i \in Symbols \ {s} : be.positions[i] = p.positions[i]
  <2> DEFINE moved == AfterBreakeven(pos, px, r) # pos
  <2>1. CASE ~moved
    <3>1. be = p
      BY <1>1, <2>1 DEF PortfolioType
    <3>. QED  BY <3>1
  <2>2. CASE moved
    <3>1. AfterBreakeven(pos, px, r) = [pos EXCEPT !.stop = Entry(pos)]
      BY <2>2 DEF AfterBreakeven
    <3>2. [pos EXCEPT !.stop = Entry(pos)] =
              [pos EXCEPT !.stop = Entry(pos), !.target = pos.target]
      BY <1>1 DEF Position
    <3>3. be = Relevelled(p, s, Entry(pos), pos.target)
      BY <3>1, <3>2 DEF Relevelled
    <3>4. Entry(pos) \in Level /\ pos.target \in Level
      BY <1>1, EntryTyped DEF Position
    <3> HIDE DEF be
    <3>. QED  BY <3>3, <3>4, LevelsOK
  <2>. QED  BY <2>1, <2>2
<1>4. q \in Int /\ 0 < q /\ q <= pos.qty
  BY <1>1, <1>2, PartialQtyOK
<1>5. fee \in Int
  BY <1>4, FeeTyped
<1>6. after = IF TakesPartial(pos, px, r) THEN ClosePosition(be, s, q, px, fee) ELSE be
  BY DEF AfterPartial
<1> HIDE DEF be, q, fee, pos
<1>7. CanClose(be, s, q)
  BY <1>3, <1>4 DEF CanClose, pos
<1>8. CASE TakesPartial(pos, px, r)
  <2>1. after = ClosePosition(be, s, q, px, fee)
    BY <1>6, <1>8
  <2>2. /\ after \in PortfolioType /\ WellFormed(after) /\ Balanced(after)
        /\ after.positions[s].side \in {"FLAT", be.positions[s].side}
        /\ \A i \in Symbols \ {s} : after.positions[i] = be.positions[i]
    BY <1>3, <1>4, <1>5, <1>7, <2>1, CloseOK
  <2>. QED  BY <1>3, <2>2 DEF pos
<1>9. CASE ~TakesPartial(pos, px, r)
  BY <1>3, <1>6, <1>9 DEF pos
<1>. QED  BY <1>8, <1>9

\* The method in progress is over.
LEMMA CallOver ==
    ASSUME call' = Idle
    PROVE  /\ call' \in [op : {"idle", "tick", "eod"}, symbol : Symbols, price : Price,
                         todo : SUBSET Nat]
           /\ CallConsistent'
<1>1. 1 \in Symbols /\ NoPrice \in Price
  BY PortfolioAssumption DEF Symbols, Price
<1>. QED  BY <1>1 DEF Idle, CallConsistent

\* A price update of a symbol without a position ends at once.
LEMMA ManageNothingInv ==
    ASSUME Inv, ManageNothing
    PROVE  Inv'
<1>1. /\ call' \in [op : {"idle", "tick", "eod"}, symbol : Symbols, price : Price,
                    todo : SUBSET Nat]
      /\ CallConsistent'
  BY CallOver DEF ManageNothing
<1>2. TypeOK'
  BY <1>1 DEF Inv, TypeOK, ManageNothing
<1>3. PositionsWellFormed' /\ CashExplained' /\ FillsExplainPositions' /\ PricesKnown'
  BY DEF Inv, ManageNothing, PositionsWellFormed, CashExplained, FillsExplainPositions,
         PricesKnown
<1>4. StatusMatchesFills'
  BY DEF Inv, ManageNothing, StatusMatchesFills, OrderIds, StatusMatches
<1>. QED  BY <1>1, <1>2, <1>3, <1>4 DEF Inv

\* A step that takes something off the position of one symbol, or only moves
\* its stop, and counts what it takes off as exited, keeps the invariant.
LEMMA ExitStep ==
    ASSUME Inv, NEW s \in Symbols, portfolio.positions[s].side # "FLAT",
           portfolio' \in PortfolioType, WellFormed(portfolio'), Balanced(portfolio'),
           portfolio'.positions[s].side \in {"FLAT", portfolio.positions[s].side},
           \A i \in Symbols \ {s} : portfolio'.positions[i] = portfolio.positions[i],
           exited' = [exited EXCEPT ![s] =
                         @ + SignedQty(portfolio.positions[s])
                           - SignedQty(portfolio'.positions[s])],
           tradesPnl' \in Int, rules' \in [Symbols -> RuleState],
           call' \in [op : {"idle", "tick", "eod"}, symbol : Symbols, price : Price,
                     todo : SUBSET Nat],
           CallConsistent',
           UNCHANGED <<orders, seenClientIds, prices, stale, apiFailures, halted,
                       failureMode, raised>>
    PROVE  Inv'
<1>1. PositionsWellFormed' /\ CashExplained'
  BY DEF PositionsWellFormed, CashExplained
<1>2. StatusMatchesFills'
  BY DEF Inv, StatusMatchesFills, OrderIds, StatusMatches
<1>3. /\ exited \in [Symbols -> Int]
      /\ \A i \in Symbols : /\ SignedQty(portfolio.positions[i]) \in Int
                            /\ SignedQty(portfolio'.positions[i]) \in Int
  BY SignedBasisTyped DEF Inv, TypeOK, PortfolioType
<1>4. exited' \in [Symbols -> Int]
  BY <1>3
<1>5. TypeOK'
  BY <1>4 DEF Inv, TypeOK
<1>6. FillsExplainPositions'
  <2> SUFFICES ASSUME NEW i \in Symbols
               PROVE  SignedQty(portfolio'.positions[i]) + exited'[i] = NetFilled(i, orders)
    BY DEF FillsExplainPositions
  <2>1. SignedQty(portfolio.positions[i]) + exited[i] = NetFilled(i, orders)
    BY DEF Inv, FillsExplainPositions
  <2>2. exited[i] \in Int /\ SignedQty(portfolio.positions[i]) \in Int
        /\ SignedQty(portfolio'.positions[i]) \in Int
    BY <1>3
  <2>3. CASE i = s
    <3>1. exited'[i] = exited[i] + SignedQty(portfolio.positions[i])
                         - SignedQty(portfolio'.positions[i])
      BY <1>3, <2>3
    <3>. QED  BY <2>1, <2>2, <3>1
  <2>4. CASE i # s
    BY <1>3, <2>1, <2>4
  <2>. QED  BY <2>3, <2>4
<1>7. PricesKnown'
  BY DEF Inv, PricesKnown
<1>. QED  BY <1>1, <1>2, <1>5, <1>6, <1>7 DEF Inv

\* Breakeven, the partial take profit, the protective exits and trailing keep
\* the invariant, in whatever combination they apply.
LEMMA ManagePositionInv ==
    ASSUME Inv, ManagePosition
    PROVE  Inv'
<1> DEFINE s    == call.symbol
           px   == call.price
           r    == rules[s]
           pos0 == portfolio.positions[s]
           p1   == AfterPartial(portfolio, s, px, r)
           pos1 == p1.positions[s]
           fee  == ExitFee(pos1, px)
<1>1. s \in Symbols /\ px \in Int /\ pos0.side # "FLAT"
  BY PriceTyped DEF Inv, TypeOK, CallConsistent, ManagePosition
<1>2. /\ portfolio \in PortfolioType /\ WellFormed(portfolio) /\ Balanced(portfolio)
      /\ tradesPnl \in Int /\ rules \in [Symbols -> RuleState]
  BY DEF Inv, TypeOK, PositionsWellFormed, CashExplained
<1> HIDE DEF p1
<1>3. /\ p1 \in PortfolioType /\ WellFormed(p1) /\ Balanced(p1)
      /\ pos1.side \in {"FLAT", pos0.side}
      /\ \A i \in Symbols \ {s} : p1.positions[i] = portfolio.positions[i]
  BY <1>1, <1>2, AfterPartialOK DEF p1
<1>4. pos1 \in Position
  BY <1>1, <1>3 DEF PortfolioType
<1>5. /\ portfolio' \in PortfolioType /\ WellFormed(portfolio') /\ Balanced(portfolio')
      /\ portfolio'.positions[s].side \in {"FLAT", pos0.side}
      /\ \A i \in Symbols \ {s} : portfolio'.positions[i] = portfolio.positions[i]
      /\ tradesPnl' \in Int
  <2>1. CASE MustExit(pos1, px, r)
    <3>1. /\ portfolio' = ClosePosition(p1, s, pos1.qty, px, fee)
          /\ tradesPnl' = tradesPnl + ClosePnl(pos1, pos1.qty, px, fee)
      BY <2>1 DEF ManagePosition, p1
    <3>2. pos1.side # "FLAT"
      BY <2>1 DEF MustExit
    <3>3. pos1.qty \in Int /\ CanClose(p1, s, pos1.qty)
      BY <1>1, <1>3, <1>4, <3>2 DEF CanClose, WellFormed, WellFormedPosition, Position
    <3>4. fee \in Int
      BY <1>1, <3>3, FeeTyped DEF ExitFee
    <3> HIDE DEF fee
    <3>5. ClosePnl(pos1, pos1.qty, px, fee) \in Int
      BY <1>1, <1>3, <3>3, <3>4, ClosePnlTyped
    <3>6. /\ portfolio' \in PortfolioType /\ WellFormed(portfolio') /\ Balanced(portfolio')
          /\ portfolio'.positions[s].side \in {"FLAT", pos1.side}
          /\ \A i \in Symbols \ {s} : portfolio'.positions[i] = p1.positions[i]
      BY <1>1, <1>3, <3>1, <3>3, <3>4, CloseOK
    <3>. QED  BY <1>2, <1>3, <3>1, <3>5, <3>6
  <2>2. CASE ~MustExit(pos1, px, r) /\ pos1.side = "FLAT"
    <3>1. portfolio' = p1 /\ tradesPnl' = tradesPnl
      BY <2>2 DEF ManagePosition, p1
    <3>. QED  BY <1>2, <1>3, <3>1
  <2>3. CASE ~MustExit(pos1, px, r) /\ pos1.side # "FLAT"
    <3> DEFINE stop == Trailed(pos1, px, r)
    <3>1. portfolio' = [p1 EXCEPT !.positions[s].stop = stop] /\ tradesPnl' = tradesPnl
      BY <2>3 DEF ManagePosition, p1
    <3>2. stop \in Level /\ pos1.target \in Level
      <4>1. pos1.stop \in Level /\ pos1.target \in Level
        BY <1>4 DEF Position
      <4>2. r.trail # NoPrice => TrailCandidate(pos1, px, r) \in Level
        <5>1. r.trail \in Price
          BY <1>1, <1>2 DEF RuleState
        <5>2. r.trail # NoPrice => r.trail \in Int
          BY ONLY <5>1, PriceTyped
        <5> HIDE DEF r, px, pos1
        <5>. QED  BY ONLY <5>2, <1>1 DEF TrailCandidate, Level
      <4> HIDE DEF pos1, px, r
      <4>. QED  BY ONLY <4>1, <4>2 DEF Trailed, KeepsStop, stop
    <3> HIDE DEF stop
    <3>3. portfolio' = Relevelled(p1, s, stop, pos1.target)
      BY <1>3, <1>4, <3>1 DEF Relevelled, PortfolioType, Position
    <3>4. /\ portfolio' \in PortfolioType /\ WellFormed(portfolio') /\ Balanced(portfolio')
          /\ \A i \in Symbols : /\ portfolio'.positions[i].side = p1.positions[i].side
                                /\ i # s => portfolio'.positions[i] = p1.positions[i]
      BY <1>1, <1>3, <2>3, <3>2, <3>3, LevelsOK
    <3>. QED  BY <1>1, <1>2, <1>3, <3>1, <3>4
  <2>. QED  BY <2>1, <2>2, <2>3
<1>6. rules' \in [Symbols -> RuleState]
  <2>1. rules' = [rules EXCEPT ![s] = [r EXCEPT !.partial =
                     IF TakesPartial(pos0, px, r) THEN "done" ELSE r.partial]]
    BY <1>1, <1>2 DEF ManagePosition, RuleState
  <2>2. [r EXCEPT !.partial = IF TakesPartial(pos0, px, r) THEN "done" ELSE r.partial]
            \in RuleState
    BY <1>1, <1>2 DEF RuleState
  <2>. QED  BY <1>1, <1>2, <2>1, <2>2
<1>7. /\ call' \in [op : {"idle", "tick", "eod"}, symbol : Symbols, price : Price,
                    todo : SUBSET Nat]
      /\ CallConsistent'
  BY CallOver DEF ManagePosition
<1>8. exited' = [exited EXCEPT ![s] = @ + SignedQty(pos0) - SignedQty(portfolio'.positions[s])]
      /\ UNCHANGED <<orders, seenClientIds, prices, stale, apiFailures, halted,
                     failureMode, raised>>
  BY DEF ManagePosition
<1>. QED  BY <1>1, <1>5, <1>6, <1>7, <1>8, ExitStep

-----------------------------------------------------------------------------
(* Flattening at the end of the day *)

\* Flattening a position at the last price keeps the invariant.
LEMMA EodFlattenInv ==
    ASSUME Inv, NEW s \in Symbols, EodFlatten(s)
    PROVE  Inv'
<1> DEFINE pos == portfolio.positions[s]
           px  == prices[s]
           fee == ExitFee(pos, px)
<1>1. /\ call.op = "eod" /\ s \in call.todo
      /\ portfolio' = ClosePosition(portfolio, s, pos.qty, px, fee)
      /\ tradesPnl' = tradesPnl + ClosePnl(pos, pos.qty, px, fee)
      /\ exited' = [exited EXCEPT ![s] = @ + SignedQty(pos)]
      /\ UNCHANGED <<orders, seenClientIds, prices, stale, apiFailures, halted,
                     failureMode, rules, raised>>
  BY DEF EodFlatten
<1>2. /\ portfolio \in PortfolioType /\ WellFormed(portfolio) /\ Balanced(portfolio)
      /\ tradesPnl \in Int /\ rules \in [Symbols -> RuleState]
      /\ exited \in [Symbols -> Int]
  BY <1>1 DEF Inv, TypeOK, PositionsWellFormed, CashExplained
<1>3. pos.side # "FLAT" /\ pos \in Position
  BY <1>1, <1>2 DEF Inv, CallConsistent, Held, PortfolioType
<1>4. px \in Int
  BY <1>3, PriceTyped DEF Inv, TypeOK, PricesKnown
<1>5. pos.qty \in Int /\ CanClose(portfolio, s, pos.qty)
  BY <1>2, <1>3 DEF CanClose, WellFormed, WellFormedPosition, Position
<1>6. fee \in Int
  BY <1>4, <1>5, FeeTyped DEF ExitFee
<1> HIDE DEF fee
<1>7. ClosePnl(pos, pos.qty, px, fee) \in Int
  BY <1>2, <1>4, <1>5, <1>6, ClosePnlTyped
<1>8. /\ portfolio' \in PortfolioType /\ WellFormed(portfolio') /\ Balanced(portfolio')
      /\ portfolio'.positions[s] = Flat
      /\ \A i \in Symbols \ {s} : portfolio'.positions[i] = portfolio.positions[i]
  BY <1>1, <1>2, <1>4, <1>5, <1>6, CloseOK
<1>9. portfolio'.positions[s].side = "FLAT" /\ SignedQty(portfolio'.positions[s]) = 0
  BY <1>8 DEF Flat, SignedQty
<1>10. exited' = [exited EXCEPT ![s] =
                     @ + SignedQty(pos) - SignedQty(portfolio'.positions[s])]
  <2>1. SignedQty(pos) \in Int /\ exited[s] \in Int
    BY <1>2, <1>3, SignedBasisTyped
  <2>2. exited[s] + SignedQty(pos) - SignedQty(portfolio'.positions[s]) =
            exited[s] + SignedQty(pos)
    BY ONLY <1>9, <2>1
  <2>. QED  BY ONLY <1>1, <2>2
<1>11. /\ call' \in [op : {"idle", "tick", "eod"}, symbol : Symbols, price : Price,
                     todo : SUBSET Nat]
       /\ CallConsistent'
  <2>1. CASE call.todo = {s}
    BY <2>1, CallOver DEF EodFlatten
  <2>2. CASE call.todo # {s}
    <3> DEFINE rest == call.todo \ {s}
    <3>1. call' = [call EXCEPT !.todo = rest]
      BY <2>2 DEF EodFlatten, Inv, TypeOK
    <3>2. call \in [op : {"idle", "tick", "eod"}, symbol : Symbols, price : Price,
                    todo : SUBSET Nat]
      BY DEF Inv, TypeOK
    <3>3. rest \in SUBSET Nat
      BY <3>2
    <3>4. rest \subseteq Held'
      BY <1>1, <1>8 DEF Inv, CallConsistent, Held
    <3> HIDE DEF rest
    <3>5. /\ call' \in [op : {"idle", "tick", "eod"}, symbol : Symbols, price : Price,
                        todo : SUBSET Nat]
          /\ call'.op = "eod" /\ call'.todo = rest
      BY <1>1, <3>1, <3>2, <3>3
    <3>. QED  BY <3>4, <3>5 DEF CallConsistent
  <2>. QED  BY <2>1, <2>2
<1>12. tradesPnl' \in Int
  BY <1>1, <1>2, <1>7
<1>. QED  BY <1>1, <1>2, <1>3, <1>8, <1>9, <1>10, <1>11, <1>12, ExitStep

-----------------------------------------------------------------------------
(* The theorems *)

\* A step that changes nothing keeps the invariant.
LEMMA StutterInv == Inv /\ UNCHANGED vars => Inv'
<1> SUFFICES ASSUME Inv, UNCHANGED vars PROVE Inv'
  OBVIOUS
<1>1. TypeOK' /\ PositionsWellFormed' /\ CashExplained' /\ FillsExplainPositions'
  BY DEF Inv, vars, TypeOK, PositionsWellFormed, CashExplained, FillsExplainPositions
<1>2. StatusMatchesFills'
  BY DEF Inv, vars, StatusMatchesFills, OrderIds, StatusMatches
<1>3. PricesKnown' /\ CallConsistent'
  BY DEF Inv, vars, PricesKnown, CallConsistent, OrderIds, Held
<1>. QED  BY <1>1, <1>2, <1>3 DEF Inv

\* Every step of the exchange keeps the invariant.
LEMMA NextInv == Inv /\ [Next]_vars => Inv'
<1> SUFFICES ASSUME Inv, [Next]_vars PROVE Inv'
  OBVIOUS
<1>1. CASE OrderCalls
  <2>1. ASSUME NEW r \in Requests, CreateOrder(r) PROVE Inv'
    BY <2>1, RefuseOrderInv, RestOrderInv, FillNewOrderInv, RejectUnbookableInv
       DEF CreateOrder
  <2>2. ASSUME NEW i \in OrderIds, CancelOrder(i) \/ ExpireOrder(i) PROVE Inv'
    BY <2>2, EndOrderInv DEF CancelOrder, ExpireOrder
  <2>. QED  BY <1>1, <2>1, <2>2 DEF OrderCalls
<1>2. CASE MarketCalls
  BY <1>2, SetPriceInv, PriceUpdateInv, MarkStaleInv DEF MarketCalls
<1>3. CASE GuardCalls
  BY <1>3, SimulateFailureInv, ClearFailureInv, HaltInv, ResetHaltInv, ConfigureRulesInv,
     EndOfDayInv DEF GuardCalls
<1>4. CASE TickSteps
  BY <1>4, TickSkipInv, TickFillInv, TickRejectInv, TickRaiseInv, ManageNothingInv,
     ManagePositionInv DEF TickSteps
<1>5. CASE \E s \in Symbols : EodFlatten(s)
  BY <1>5, EodFlattenInv
<1>6. CASE UNCHANGED vars
  BY <1>6, StutterInv
<1>. QED  BY <1>1, <1>2, <1>3, <1>4, <1>5, <1>6 DEF Next

\* The invariant holds in every reachable state.
THEOREM Invariant == Spec => []Inv
<1>. QED  BY InitInv, NextInv, PTL DEF Spec

\* Every variable keeps its type.
THEOREM TypeCorrect == Spec => []TypeOK
<1>1. Inv => TypeOK
  BY DEF Inv
<1>. QED  BY Invariant, <1>1, PTL

\* The books of the exchange always balance: cash is explained by what was
\* realised, the fees and the cost of what is held.
THEOREM BooksBalance == Spec => []CashExplained
<1>1. Inv => CashExplained
  BY DEF Inv
<1>. QED  BY Invariant, <1>1, PTL

\* Positions stay well formed through every mix of fills and exits.
THEOREM PositionsStayWellFormed == Spec => []PositionsWellFormed
<1>1. Inv => PositionsWellFormed
  BY DEF Inv
<1>. QED  BY Invariant, <1>1, PTL

\* What the orders filled, less what exits took off, is what is held.
THEOREM NoFillLost == Spec => []FillsExplainPositions
<1>1. Inv => FillsExplainPositions
  BY DEF Inv
<1>. QED  BY Invariant, <1>1, PTL

\* The status of an order always says what it filled.
THEOREM StatusTellsFills == Spec => []StatusMatchesFills
<1>1. Inv => StatusMatchesFills
  BY DEF Inv
<1>. QED  BY Invariant, <1>1, PTL

-----------------------------------------------------------------------------
(* The breaker *)

\* Counting one more failure trips the breaker when the limit is reached.
LEMMA FailureRecorded ==
    ASSUME Inv, BreakerLatched, RecordApiFailure
    PROVE  BreakerLatched'
  BY ExchangeAssumption DEF Inv, TypeOK, BreakerLatched, RecordApiFailure

\* No step lets the counted failures reach the limit without a halt.
LEMMA BreakerStep == Inv /\ BreakerLatched /\ [Next]_vars => BreakerLatched'
<1> SUFFICES ASSUME Inv, BreakerLatched, [Next]_vars PROVE BreakerLatched'
  OBVIOUS
<1>1. MaxApiFailures \in Nat \ {0} /\ apiFailures \in Nat
  BY ExchangeAssumption DEF Inv, TypeOK
<1>2. ASSUME UNCHANGED <<apiFailures, halted>> PROVE BreakerLatched'
  BY <1>2 DEF BreakerLatched
<1>3. CASE OrderCalls
  <2>1. ASSUME NEW r \in Requests, RefuseOrder(r) PROVE BreakerLatched'
    BY <1>2, <2>1, FailureRecorded DEF RefuseOrder
  <2>2. ASSUME NEW r \in Requests, RestOrder(r) \/ FillNewOrder(r) \/ RejectUnbookable(r)
        PROVE  BreakerLatched'
    BY <1>2, <2>2 DEF RestOrder, FillNewOrder, RejectUnbookable
  <2>3. ASSUME NEW i \in OrderIds, CancelOrder(i) \/ ExpireOrder(i) PROVE BreakerLatched'
    BY <1>2, <2>3 DEF CancelOrder, ExpireOrder, EndOrder
  <2>. QED  BY <1>3, <2>1, <2>2, <2>3 DEF OrderCalls, CreateOrder
<1>4. CASE MarketCalls
  BY <1>2, <1>4 DEF MarketCalls, SetPrice, PriceUpdate, MarkStale
<1>5. CASE GuardCalls
  <2>1. ASSUME NEW mode \in SimulatedModes, SimulateFailure(mode) PROVE BreakerLatched'
    BY <1>2, <2>1, FailureRecorded DEF SimulateFailure
  <2>2. CASE ClearFailure \/ Halt \/ ResetHalt
    BY <1>1, <2>2 DEF ClearFailure, Halt, ResetHalt, BreakerLatched
  <2>3. CASE EndOfDay \/ \E s \in Symbols, r \in RuleSets : ConfigureRules(s, r)
    BY <1>2, <2>3 DEF EndOfDay, ConfigureRules
  <2>. QED  BY <1>5, <2>1, <2>2, <2>3 DEF GuardCalls
<1>6. CASE TickSteps
  BY <1>2, <1>6 DEF TickSteps, TickSkip, TickFill, TickReject, TickRaise, ManageNothing,
                    ManagePosition
<1>7. CASE \E s \in Symbols : EodFlatten(s)
  BY <1>2, <1>7 DEF EodFlatten
<1>8. CASE UNCHANGED vars
  BY <1>2, <1>8 DEF vars
<1>. QED  BY <1>3, <1>4, <1>5, <1>6, <1>7, <1>8 DEF Next

\* As long as the counted failures reach the limit the exchange is halted: the two
\* paths that count one and the three that clear or set the halt agree.
THEOREM BreakerStaysLatched == Spec => []BreakerLatched
<1>1. Init => BreakerLatched
  BY ExchangeAssumption DEF Init, BreakerLatched
<1>. QED  BY <1>1, Invariant, BreakerStep, PTL DEF Spec

-----------------------------------------------------------------------------
(* Managing a position: the rules of the stop *)

\* A level that is there can be compared with itself.
LEMMA NotLooserThanItself ==
    ASSUME NEW pos, NEW level \in Level, level # NoPrice
    PROVE  ~Looser(pos, level, level)
  BY DEF Looser, Level

\* What breakeven and the partial take profit leave of a position: its side, its
\* target, and a stop that is as it was or moved to the entry in favour.
LEMMA AfterPartialLevels ==
    ASSUME NEW p \in PortfolioType, NEW s \in Symbols, NEW px \in Int, NEW r,
           NEW pos, pos = AfterPartial(p, s, px, r).positions[s],
           pos.side # "FLAT"
    PROVE  /\ pos.side = p.positions[s].side
           /\ pos.target = p.positions[s].target
           /\ \/ pos.stop = p.positions[s].stop
              \/ /\ pos.stop = Entry(p.positions[s])
                 /\ Looser(p.positions[s], p.positions[s].stop, pos.stop)
                 /\ AtOneR(p.positions[s], px)
<1> DEFINE pos0 == p.positions[s]
           bePos == AfterBreakeven(pos0, px, r)
           be  == [p EXCEPT !.positions[s] = bePos]
           q   == PartialQty(pos0)
           fee == Fee(q * px)
<1>1. p.positions \in [Symbols -> Position] /\ pos0 \in Position
  BY DEF PortfolioType
<1>2. /\ bePos.side = pos0.side /\ bePos.target = pos0.target
      /\ \/ bePos.stop = pos0.stop
         \/ /\ bePos.stop = Entry(pos0) /\ Looser(pos0, pos0.stop, bePos.stop)
            /\ AtOneR(pos0, px)
  BY <1>1 DEF AfterBreakeven, Position
<1>3. be.positions[s] = bePos
  BY <1>1 DEF PortfolioType
<1> HIDE DEF bePos
<1>4. pos = IF TakesPartial(pos0, px, r) THEN Shrunk(bePos, q) ELSE bePos
  <2>1. CASE TakesPartial(pos0, px, r)
    <3>1. pos = ClosePosition(be, s, q, px, fee).positions[s]
      BY <2>1 DEF AfterPartial, bePos
    <3>2. be.positions \in [Symbols -> {be.positions[t] : t \in Symbols}]
      BY <1>1 DEF PortfolioType
    <3>. QED  BY <1>3, <2>1, <3>1, <3>2 DEF ClosePosition, PortfolioType
  <2>2. CASE ~TakesPartial(pos0, px, r)
    BY <1>3, <2>2 DEF AfterPartial, bePos
  <2>. QED  BY <2>1, <2>2
<1>5. Shrunk(bePos, q).side # "FLAT" =>
          /\ Shrunk(bePos, q).side = bePos.side
          /\ Shrunk(bePos, q).stop = bePos.stop
          /\ Shrunk(bePos, q).target = bePos.target
  BY DEF Shrunk, Flat
<1>. QED  BY <1>2, <1>4, <1>5

\* What managing a held position leaves of it: nothing, or what breakeven and the
\* partial take profit left, with the stop the trailing rule decides and the price
\* on the safe side of both its levels.
LEMMA ManagedPosition ==
    ASSUME Inv, ManagePosition
    PROVE  LET s   == call.symbol
               px  == call.price
               pos == AfterPartial(portfolio, s, px, rules[s]).positions[s]
               end == portfolio'.positions[s]
           IN  /\ s \in Symbols /\ px \in Int /\ portfolio \in PortfolioType
               /\ \A i \in Symbols \ {s} : portfolio'.positions[i] = portfolio.positions[i]
               /\ \/ end.side = "FLAT"
                  \/ /\ end = [pos EXCEPT !.stop = Trailed(pos, px, rules[s])]
                     /\ pos \in Position /\ pos.side # "FLAT"
                     /\ ~MustExit(pos, px, rules[s])
<1> DEFINE s   == call.symbol
           px  == call.price
           r   == rules[s]
           p1  == AfterPartial(portfolio, s, px, r)
           pos == p1.positions[s]
<1>1. /\ s \in Symbols /\ px \in Int /\ portfolio.positions[s].side # "FLAT"
      /\ portfolio \in PortfolioType /\ WellFormed(portfolio) /\ Balanced(portfolio)
  BY PriceTyped DEF Inv, TypeOK, CallConsistent, ManagePosition, PositionsWellFormed,
                    CashExplained
<1> HIDE DEF p1
<1>2. /\ p1 \in PortfolioType /\ WellFormed(p1) /\ Balanced(p1)
      /\ \A i \in Symbols \ {s} : p1.positions[i] = portfolio.positions[i]
  BY <1>1, AfterPartialOK DEF p1
<1>3. pos \in Position
  BY <1>1, <1>2 DEF PortfolioType
<1>4. CASE MustExit(pos, px, r)
  <2> DEFINE fee == ExitFee(pos, px)
  <2>1. portfolio' = ClosePosition(p1, s, pos.qty, px, fee)
    BY <1>4 DEF ManagePosition, p1
  <2>2. portfolio'.positions = [p1.positions EXCEPT ![s] = Shrunk(@, pos.qty)]
    BY <1>2, <2>1 DEF ClosePosition, PortfolioType
  <2>3. portfolio'.positions[s] = Flat
    BY <1>1, <1>2, <2>2 DEF Shrunk, PortfolioType
  <2>. QED  BY <1>1, <1>2, <2>2, <2>3 DEF Flat, PortfolioType
<1>5. CASE ~MustExit(pos, px, r) /\ pos.side = "FLAT"
  <2>1. portfolio' = p1
    BY <1>5 DEF ManagePosition, p1
  <2>. QED  BY <1>1, <1>2, <1>5, <2>1
<1>6. CASE ~MustExit(pos, px, r) /\ pos.side # "FLAT"
  <2>1. portfolio' = [p1 EXCEPT !.positions[s].stop = Trailed(pos, px, r)]
    BY <1>6 DEF ManagePosition, p1
  <2>2. portfolio'.positions = [p1.positions EXCEPT ![s] =
                                   [pos EXCEPT !.stop = Trailed(pos, px, r)]]
    BY <1>1, <1>2, <2>1 DEF PortfolioType
  <2>3. portfolio'.positions[s] = [pos EXCEPT !.stop = Trailed(pos, px, r)]
    BY <1>1, <1>2, <2>2 DEF PortfolioType
  <2>. QED  BY <1>1, <1>2, <1>3, <1>6, <2>2, <2>3 DEF p1, PortfolioType
<1>. QED  BY <1>4, <1>5, <1>6 DEF p1

\* A price update that has visited its orders goes on with the position and with
\* nothing else.
LEMMA LastOfTick ==
    ASSUME Inv, [Next]_vars, call.op = "tick", call.todo = {}
    PROVE  ManageNothing \/ ManagePosition \/ UNCHANGED vars
<1>1. call # Idle
  BY DEF Idle
<1>2. ~OrderCalls
  BY <1>1 DEF OrderCalls, CreateOrder, RefuseOrder, RestOrder, FillNewOrder,
              RejectUnbookable, Submitting, CancelOrder, ExpireOrder, EndOrder
<1>3. ~MarketCalls /\ ~GuardCalls
  BY <1>1 DEF MarketCalls, SetPrice, PriceUpdate, MarkStale, GuardCalls, SimulateFailure,
              ClearFailure, Halt, ResetHalt, ConfigureRules, EndOfDay
<1>4. \A i : ~TickSkip(i) /\ ~TickFill(i) /\ ~TickReject(i) /\ ~TickRaise(i)
  BY DEF TickSkip, TickFill, TickReject, TickRaise, NextInTick
<1>5. \A s \in Symbols : ~EodFlatten(s)
  BY DEF EodFlatten
<1>. QED  BY <1>2, <1>3, <1>4, <1>5 DEF Next, TickSteps

\* The stop the trailing rule decides is not looser than the one before, unless it
\* may widen, and it keeps a distance from the price if it moves.
LEMMA TrailedOK ==
    ASSUME NEW pos \in Position, NEW px \in Int, NEW r \in RuleState
    PROVE  LET stop == Trailed(pos, px, r) IN
           /\ ~r.widen /\ pos.stop # NoPrice => stop # NoPrice /\ ~Looser(pos, stop, pos.stop)
           /\ stop # pos.stop =>
                  /\ stop \in Int
                  /\ IF pos.side = "LONG" THEN stop < px ELSE stop > px
<1>1. pos.stop \in Level /\ r.trail \in Price /\ r.widen \in BOOLEAN
  BY DEF Position, RuleState
<1>2. CASE KeepsStop(pos, px, r)
  BY <1>1, <1>2, NotLooserThanItself DEF Trailed
<1>3. CASE ~KeepsStop(pos, px, r)
  <2> DEFINE stop == TrailCandidate(pos, px, r)
  <2>1. r.trail \in Nat /\ r.trail > 0
    BY <1>1, <1>3 DEF KeepsStop, Price
  <2>2. stop \in Int /\ IF pos.side = "LONG" THEN stop < px ELSE stop > px
    BY <2>1 DEF TrailCandidate
  <2>3. ~r.widen /\ pos.stop # NoPrice => Looser(pos, pos.stop, stop)
    BY <1>3 DEF KeepsStop
  <2>4. stop # NoPrice
    BY <2>2, PortfolioAssumption
  <2> HIDE DEF stop
  <2>5. ~r.widen /\ pos.stop # NoPrice => ~Looser(pos, stop, pos.stop)
    BY <1>1, <2>2, <2>3 DEF Looser, Level
  <2>. QED  BY <1>3, <2>2, <2>4, <2>5 DEF Trailed, stop
<1>. QED  BY <1>2, <1>3

\* A step that manages a position does not loosen its stop.
LEMMA ManagedNeverLooser ==
    ASSUME Inv, ManagePosition
    PROVE  NeverLooser(call.symbol)
<1> DEFINE s   == call.symbol
           px  == call.price
           r   == rules[s]
           pos0 == portfolio.positions[s]
           pos == AfterPartial(portfolio, s, px, r).positions[s]
           end == portfolio'.positions[s]
<1> SUFFICES ASSUME pos0.stop # NoPrice, end.side = pos0.side, ~r.widen
             PROVE  end.stop # NoPrice /\ ~Looser(pos0, end.stop, pos0.stop)
  BY DEF NeverLooser
<1>1. /\ s \in Symbols /\ px \in Int /\ portfolio \in PortfolioType
      /\ \/ end.side = "FLAT"
         \/ /\ end = [pos EXCEPT !.stop = Trailed(pos, px, r)]
            /\ pos \in Position /\ pos.side # "FLAT"
  BY ManagedPosition
<1>2. pos0.side # "FLAT" /\ r \in RuleState
  BY <1>1 DEF ManagePosition, Inv, TypeOK
<1> HIDE DEF pos
<1>3. /\ pos \in Position /\ pos.side = pos0.side
      /\ end.stop = Trailed(pos, px, r)
      /\ \/ pos.stop = pos0.stop
         \/ pos.stop = Entry(pos0) /\ Looser(pos0, pos0.stop, pos.stop) /\ AtOneR(pos0, px)
  <2>1. pos \in Position /\ pos.side # "FLAT" /\ end = [pos EXCEPT !.stop = Trailed(pos, px, r)]
    BY <1>1, <1>2
  <2>2. end.stop = Trailed(pos, px, r)
    BY <2>1 DEF Position
  <2>. QED  BY <1>1, <2>1, <2>2, AfterPartialLevels DEF pos
<1>4. pos0 \in Position
  BY <1>1 DEF PortfolioType
<1>5. /\ pos0.stop \in Int
      /\ pos.stop \in Int
      /\ ~Looser(pos0, pos.stop, pos0.stop)
  <2>1. pos0.stop \in Int
    BY <1>4 DEF Position, Level
  <2>2. pos0.qty # 0
    BY <1>1, <1>2 DEF Inv, PositionsWellFormed, WellFormed, WellFormedPosition
  <2>3. Entry(pos0) \in Int
    BY <1>4, <2>2 DEF Entry, Position
  <2>. QED  BY <1>3, <2>1, <2>3 DEF Looser
<1>6. pos.stop # NoPrice
  BY <1>5, PortfolioAssumption
<1>7. end.stop # NoPrice /\ ~Looser(pos, end.stop, pos.stop)
  BY <1>1, <1>2, <1>3, <1>6, TrailedOK
<1>8. end.stop \in Int
  <2>1. end.stop = pos.stop \/ end.stop \in Int
    BY <1>1, <1>2, <1>3, TrailedOK
  <2>. QED  BY <1>5, <2>1
<1> HIDE DEF pos0, end
<1>. QED  BY <1>3, <1>5, <1>7, <1>8 DEF Looser

\* Whatever mix of breakeven, partial exit and trailing is configured, managing a
\* position on a price never loosens the stop it has, unless its rule may widen it.
THEOREM StopsOnlyTighten == Spec => StopsNeverLoosen
<1>1. ASSUME Inv, [Next]_vars, NEW s \in Symbols
      PROVE  NeverLooser(s)
  <2> SUFFICES ASSUME call.op = "tick", call.todo = {}, call.symbol = s
               PROVE  NeverLooser(s)
    BY DEF NeverLooser
  <2>1. CASE ManagePosition
    BY <1>1, <2>1, ManagedNeverLooser
  <2>2. CASE UNCHANGED portfolio
    <3>1. portfolio.positions[s].stop \in Level
      BY <1>1 DEF Inv, TypeOK, PortfolioType, Position
    <3>. QED  BY <2>2, <3>1, NotLooserThanItself DEF NeverLooser
  <2>. QED  BY <1>1, <2>1, <2>2, LastOfTick DEF ManageNothing, vars
<1>2. Inv /\ [Next]_vars => [\A s \in Symbols : NeverLooser(s)]_vars
  BY <1>1
<1>. QED  BY <1>2, Invariant, PTL DEF Spec, StopsNeverLoosen

\* A price update leaves no position on the wrong side of its own stop or target:
\* what must exit exits, and a stop that trails stays behind the price.
THEOREM NoneSurvivesItsStop == Spec => StopsHonoured
<1> DEFINE Honoured ==
               TickEnds =>
                   LET pos == portfolio'.positions[call.symbol]
                   IN  pos.side # "FLAT" =>
                           ~StopHit(pos, call.price) /\ ~TargetHit(pos, call.price)
<1>1. ASSUME Inv, [Next]_vars, TickEnds
      PROVE  LET pos == portfolio'.positions[call.symbol]
             IN  pos.side # "FLAT" =>
                     ~StopHit(pos, call.price) /\ ~TargetHit(pos, call.price)
  <2>1. ManageNothing \/ ManagePosition
    <3>1. call # Idle
      BY <1>1 DEF TickEnds, Idle
    <3>. QED  BY <1>1, <3>1, LastOfTick DEF TickEnds, vars
  <2>2. CASE ManageNothing
    BY <2>2 DEF ManageNothing
  <2>3. CASE ManagePosition
    <3> DEFINE s   == call.symbol
               px  == call.price
               r   == rules[s]
               pos == AfterPartial(portfolio, s, px, r).positions[s]
               end == portfolio'.positions[s]
    <3> SUFFICES ASSUME end.side # "FLAT"
                 PROVE  ~StopHit(end, px) /\ ~TargetHit(end, px)
      OBVIOUS
    <3>1. /\ s \in Symbols /\ px \in Int /\ pos \in Position /\ pos.side # "FLAT"
          /\ end = [pos EXCEPT !.stop = Trailed(pos, px, r)]
          /\ ~MustExit(pos, px, r)
      BY <1>1, <2>3, ManagedPosition
    <3>2. r \in RuleState
      BY <1>1, <3>1 DEF Inv, TypeOK
    <3> HIDE DEF pos
    <3>3. /\ end.side = pos.side /\ end.target = pos.target
          /\ end.stop = Trailed(pos, px, r)
      BY <3>1 DEF Position
    <3>4. ~StopHit(pos, px) /\ ~TargetHit(pos, px)
      BY <3>1 DEF MustExit
    <3>5. ~TargetHit(end, px)
      BY <3>3, <3>4 DEF TargetHit
    <3>6. \/ end.stop = pos.stop
          \/ end.stop \in Int /\ IF pos.side = "LONG" THEN end.stop < px ELSE end.stop > px
      BY <3>1, <3>2, <3>3, TrailedOK
    <3>7. ~StopHit(end, px)
      BY <3>1, <3>3, <3>4, <3>6 DEF StopHit
    <3>. QED  BY <3>5, <3>7
  <2>. QED  BY <2>1, <2>2, <2>3
<1>2. Inv /\ [Next]_vars => [Honoured]_vars
  BY <1>1
<1> HIDE DEF Honoured
<1>3. [][Next]_vars /\ []Inv => [][Honoured]_vars
  BY <1>2, PTL
<1>. QED  BY <1>3, Invariant DEF Spec, StopsHonoured, Honoured

-----------------------------------------------------------------------------
(* The trade log *)

\* The results that the portfolio realises and the log records, from one state to
\* the next.
SameResult == portfolio'.realized - portfolio.realized = tradesPnl' - tradesPnl

\* A fill logs what it realises, unless it buys back a SHORT.
LEMMA BookFillLogged ==
    ASSUME Inv, NEW o \in OrderType, o.status \in OpenStates, StatusMatches(o),
           NEW px \in Int, BookFill(o, px), UNCHANGED exited
    PROVE  SameResult \/ BuysBack
<1> DEFINE q   == FillQty(o)
           s   == o.req.symbol
           pos == portfolio.positions[s]
           fee == Fee(q * px)
           p1  == Booked(portfolio, o, q, px)
<1>1. /\ q \in Int /\ s \in Symbols /\ o.req.side \in {"BUY", "SELL"}
      /\ portfolio \in PortfolioType /\ WellFormed(portfolio) /\ tradesPnl \in Int
      /\ pos \in Position
  BY DEF FillQty, OrderType, RequestType, Inv, TypeOK, PositionsWellFormed, PortfolioType
<1>2. /\ CanBook(portfolio, o, q, px) /\ portfolio' = Protected(p1, o)
      /\ tradesPnl' = tradesPnl + RecordedPnl(portfolio, o, q, px)
  BY DEF BookFill
<1> HIDE DEF q, p1
<1>3. fee \in Int
  BY <1>1, FeeTyped
<1> HIDE DEF fee
<1>4. p1.realized = portfolio'.realized
  BY <1>2 DEF Protected
<1>5. CASE ~Reduces(portfolio, o)
  <2>1. p1.realized = portfolio.realized
    BY <1>1, <1>5 DEF p1, Booked, OpenPosition, PortfolioType
  <2>2. tradesPnl' = tradesPnl + 0
    BY <1>2, <1>5 DEF RecordedPnl
  <2>. QED  BY <1>1, <1>4, <2>1, <2>2 DEF SameResult, PortfolioType
<1>6. CASE Reduces(portfolio, o) /\ o.req.side = "SELL"
  <2>1. CanClose(portfolio, s, q)
    BY <1>2, <1>6 DEF CanBook
  <2>2. ClosePnl(pos, q, px, fee) \in Int
    BY <1>1, <1>3, <2>1, ClosePnlTyped
  <2>3. p1.realized = portfolio.realized + ClosePnl(pos, q, px, fee)
    BY <1>1, <1>6 DEF p1, Booked, ClosePosition, PortfolioType, fee
  <2>4. tradesPnl' = tradesPnl + ClosePnl(pos, q, px, fee)
    BY <1>2, <1>6 DEF RecordedPnl, fee
  <2>5. portfolio.realized \in Int
    BY <1>1 DEF PortfolioType
  <2>. QED  BY <1>1, <1>4, <2>2, <2>3, <2>4, <2>5 DEF SameResult
<1>7. CASE Reduces(portfolio, o) /\ o.req.side = "BUY"
  <2>1. pos.side = "SHORT"
    BY <1>7 DEF Reduces
  <2>2. /\ q > 0
        /\ SignedQty(portfolio'.positions[s]) = SignedQty(pos) + q
    BY <1>7, BookFillOK DEF q
  <2>3. SignedQty(pos) \in Int
    BY <1>1, SignedBasisTyped
  <2>4. portfolio'.positions[s] # pos
    BY <1>1, <2>2, <2>3
  <2>. QED  BY <1>1, <2>1, <2>4 DEF BuysBack
<1>. QED  BY <1>1, <1>5, <1>6, <1>7

\* Managing a position logs what it realises, unless it takes a partial profit.
LEMMA ManageLogged ==
    ASSUME Inv, ManagePosition
    PROVE  SameResult \/ PartialExit
<1> DEFINE s   == call.symbol
           px  == call.price
           r   == rules[s]
           pos0 == portfolio.positions[s]
           p1  == AfterPartial(portfolio, s, px, r)
           pos == p1.positions[s]
           fee == ExitFee(pos, px)
<1>1. /\ s \in Symbols /\ px \in Int /\ portfolio.positions[s].side # "FLAT"
      /\ portfolio \in PortfolioType /\ WellFormed(portfolio) /\ Balanced(portfolio)
      /\ tradesPnl \in Int /\ rules \in [Symbols -> RuleState]
  BY PriceTyped DEF Inv, TypeOK, CallConsistent, ManagePosition, PositionsWellFormed,
                    CashExplained
<1>2. CASE TakesPartial(pos0, px, r)
  <2>1. rules[s].partial = "armed"
    BY <1>2 DEF TakesPartial
  <2>2. rules' = [rules EXCEPT ![s].partial = "done"]
    BY <1>2 DEF ManagePosition
  <2>3. rules'[s].partial = "done"
    BY <1>1, <2>2 DEF RuleState
  <2>. QED  BY <1>1, <2>1, <2>3 DEF PartialExit
<1>3. CASE ~TakesPartial(pos0, px, r)
  <2>1. p1.realized = portfolio.realized
    BY <1>1, <1>3 DEF AfterPartial, PortfolioType
  <2> HIDE DEF p1
  <2>2. p1 \in PortfolioType /\ WellFormed(p1) /\ pos \in Position
    BY <1>1, AfterPartialOK DEF p1, PortfolioType
  <2>3. CASE MustExit(pos, px, r)
    <3>1. /\ portfolio' = ClosePosition(p1, s, pos.qty, px, fee)
          /\ tradesPnl' = tradesPnl + ClosePnl(pos, pos.qty, px, fee)
      BY <2>3 DEF ManagePosition, p1
    <3>2. CanClose(p1, s, pos.qty) /\ pos.qty \in Int
      BY <1>1, <2>2, <2>3 DEF MustExit, CanClose, WellFormed, WellFormedPosition, Position
    <3>3. fee \in Int
      BY <1>1, <3>2, FeeTyped DEF ExitFee
    <3> HIDE DEF fee
    <3>4. ClosePnl(pos, pos.qty, px, fee) \in Int
      BY <1>1, <2>2, <3>2, <3>3, ClosePnlTyped
    <3>5. portfolio'.realized = p1.realized + ClosePnl(pos, pos.qty, px, fee)
      BY <2>2, <3>1 DEF ClosePosition, PortfolioType
    <3>6. p1.realized \in Int
      BY <2>2 DEF PortfolioType
    <3>. QED  BY <1>1, <2>1, <3>1, <3>4, <3>5, <3>6 DEF SameResult
  <2>4. CASE ~MustExit(pos, px, r)
    <3>1. tradesPnl' = tradesPnl
      BY <2>4 DEF ManagePosition, p1
    <3>1a. \/ portfolio' = p1
          \/ portfolio' = [p1 EXCEPT !.positions[s].stop = Trailed(pos, px, r)]
      BY <2>4 DEF ManagePosition, p1
    <3>1b. portfolio'.realized = p1.realized
      BY <2>2, <3>1a DEF PortfolioType
    <3>2. portfolio.realized \in Int
      BY <1>1 DEF PortfolioType
    <3>. QED  BY <1>1, <2>1, <3>1, <3>1b, <3>2 DEF SameResult
  <2>. QED  BY <2>3, <2>4
<1>. QED  BY <1>2, <1>3

\* Flattening at the end of the day logs what it realises.
LEMMA FlattenLogged ==
    ASSUME Inv, NEW s \in Symbols, EodFlatten(s)
    PROVE  SameResult
<1> DEFINE pos == portfolio.positions[s]
           fee == ExitFee(pos, prices[s])
<1>1. /\ portfolio \in PortfolioType /\ WellFormed(portfolio) /\ tradesPnl \in Int
      /\ pos \in Position /\ pos.side # "FLAT" /\ prices[s] \in Int
  BY PriceTyped DEF Inv, TypeOK, PositionsWellFormed, CallConsistent, EodFlatten, Held,
                    PricesKnown, PortfolioType
<1>2. CanClose(portfolio, s, pos.qty) /\ pos.qty \in Int
  BY <1>1 DEF CanClose, WellFormed, WellFormedPosition, Position
<1>3. fee \in Int
  BY <1>1, <1>2, FeeTyped DEF ExitFee
<1>4. /\ portfolio' = ClosePosition(portfolio, s, pos.qty, prices[s], fee)
      /\ tradesPnl' = tradesPnl + ClosePnl(pos, pos.qty, prices[s], fee)
  BY DEF EodFlatten
<1> HIDE DEF fee
<1>5. ClosePnl(pos, pos.qty, prices[s], fee) \in Int
  BY <1>1, <1>2, <1>3, ClosePnlTyped
<1>6. portfolio'.realized = portfolio.realized + ClosePnl(pos, pos.qty, prices[s], fee)
  BY <1>1, <1>4 DEF ClosePosition, PortfolioType
<1>7. portfolio.realized \in Int
  BY <1>1 DEF PortfolioType
<1>. QED  BY <1>1, <1>4, <1>5, <1>6, <1>7 DEF SameResult

\* The order that a new order fills as, and the price it fills at.
LEMMA NewFill ==
    ASSUME Inv, NEW r \in Requests, FillNewOrder(r)
    PROVE  LET o  == NewOrder(r, "SUBMITTED")
               px == FillPrice(o, prices[r.symbol])
           IN  /\ o \in OrderType /\ o.req = r /\ o.filled = 0
               /\ o.status \in OpenStates /\ StatusMatches(o)
               /\ px \in Int /\ BookFill(o, px)
               /\ orders' = Append(orders, AfterFill(o, FillQty(o)))
<1> DEFINE o  == NewOrder(r, "SUBMITTED")
           px == FillPrice(o, prices[r.symbol])
<1>1. ~Refused(r) /\ FillsAtOnce(r) /\ BookFill(o, px)
      /\ orders' = Append(orders, AfterFill(o, FillQty(o)))
  BY DEF FillNewOrder
<1>2. r.qty > 0 /\ prices[r.symbol] \in Price /\ prices[r.symbol] # NoPrice
  <2>1. r.symbol \in Symbols
    BY ExchangeAssumption DEF RequestType
  <2>. QED  BY <1>1, <2>1, AcceptedOrder DEF Inv, TypeOK
<1>3. /\ o \in OrderType /\ o.req = r /\ o.filled = 0
      /\ o.status \in OpenStates /\ StatusMatches(o)
  BY <1>2, NewOrderTyped DEF OpenStates
<1>4. r.type = "LIMIT" => r.limit # NoPrice
  BY <1>1, <1>3 DEF FillsAtOnce, Triggered
<1> HIDE DEF o
<1>5. px \in Int
  BY <1>2, <1>3, <1>4, FillPriceTyped
<1>. QED  BY <1>1, <1>3, <1>5 DEF o

\* The order that a price update fills, and the price it fills at.
LEMMA TickedFill ==
    ASSUME Inv, NEW i, TickFill(i)
    PROVE  LET o  == orders[i]
               px == FillPrice(o, call.price)
           IN  /\ i \in OrderIds /\ o \in OrderType
               /\ o.status \in OpenStates /\ StatusMatches(o)
               /\ px \in Int /\ BookFill(o, px)
               /\ orders' = [orders EXCEPT ![i] = AfterFill(o, FillQty(o))]
<1> DEFINE o  == orders[i]
           px == FillPrice(o, call.price)
<1>1. NextInTick(i) /\ Triggered(o, call.price) /\ BookFill(o, px)
      /\ orders' = [orders EXCEPT ![i] = AfterFill(o, FillQty(o))]
  BY DEF TickFill
<1>2. /\ i \in OrderIds /\ o \in OrderType /\ o.status \in OpenStates /\ StatusMatches(o)
      /\ call.price \in Price /\ call.price # NoPrice
  BY <1>1, VisitedOrder
<1>3. o.req.type = "LIMIT" => o.req.limit # NoPrice
  BY <1>1 DEF Triggered
<1> HIDE DEF o
<1>4. px \in Int
  BY <1>2, <1>3, FillPriceTyped
<1>. QED  BY <1>1, <1>2, <1>4 DEF o

\* The trade log agrees with the portfolio, but for orders that buy back a SHORT and
\* for partial take profits.
THEOREM ResultsAreLogged == Spec => ResultsLogged
<1> DEFINE Logged == \/ portfolio'.realized - portfolio.realized = tradesPnl' - tradesPnl
                     \/ BuysBack
                     \/ PartialExit
<1>1. ASSUME Inv, [Next]_vars PROVE Logged
  <2>1. CASE UNCHANGED <<portfolio, tradesPnl>>
    <3>1. portfolio.realized \in Int /\ tradesPnl \in Int
      BY <1>1 DEF Inv, TypeOK, PortfolioType
    <3>. QED  BY <2>1, <3>1
  <2>2. ASSUME NEW r \in Requests, FillNewOrder(r) PROVE Logged
    <3>1. UNCHANGED exited
      BY <2>2 DEF FillNewOrder
    <3>. QED  BY <1>1, <2>2, <3>1, NewFill, BookFillLogged DEF SameResult
  <2>3. ASSUME NEW i, TickFill(i) PROVE Logged
    <3>1. UNCHANGED exited
      BY <2>3 DEF TickFill
    <3>. QED  BY <1>1, <2>3, <3>1, TickedFill, BookFillLogged DEF SameResult
  <2>4. CASE OrderCalls
    <3>1. ASSUME NEW r \in Requests, RefuseOrder(r) \/ RestOrder(r) \/ RejectUnbookable(r)
          PROVE  Logged
      BY <2>1, <3>1 DEF RefuseOrder, RestOrder, RejectUnbookable
    <3>2. ASSUME NEW i \in OrderIds, CancelOrder(i) \/ ExpireOrder(i) PROVE Logged
      BY <2>1, <3>2 DEF CancelOrder, ExpireOrder, EndOrder
    <3>. QED  BY <2>2, <2>4, <3>1, <3>2 DEF OrderCalls, CreateOrder
  <2>5. CASE MarketCalls
    BY <2>1, <2>5 DEF MarketCalls, SetPrice, PriceUpdate, MarkStale
  <2>6. CASE GuardCalls
    BY <2>1, <2>6 DEF GuardCalls, SimulateFailure, ClearFailure, Halt, ResetHalt,
                      ConfigureRules, EndOfDay
  <2>7. CASE TickSteps
    <3>1. ASSUME NEW i, TickSkip(i) \/ TickReject(i) \/ TickRaise(i) PROVE Logged
      BY <2>1, <3>1 DEF TickSkip, TickReject, TickRaise
    <3>2. CASE ManageNothing
      BY <2>1, <3>2 DEF ManageNothing
    <3>3. CASE ManagePosition
      BY <1>1, <3>3, ManageLogged DEF SameResult
    <3>. QED  BY <2>3, <2>7, <3>1, <3>2, <3>3 DEF TickSteps
  <2>8. CASE \E s \in Symbols : EodFlatten(s)
    BY <1>1, <2>8, FlattenLogged DEF SameResult
  <2>9. CASE UNCHANGED vars
    BY <2>1, <2>9 DEF vars
  <2> HIDE DEF Logged
  <2>. QED  BY <1>1, <2>4, <2>5, <2>6, <2>7, <2>8, <2>9 DEF Next
<1>2. Inv /\ [Next]_vars => [Logged]_vars
  BY <1>1
<1> HIDE DEF Logged
<1>3. [][Next]_vars /\ []Inv => [][Logged]_vars
  BY <1>2, PTL
<1>. QED  BY <1>3, Invariant DEF Spec, ResultsLogged, Logged

-----------------------------------------------------------------------------
(* The order book: what one step may do to an order, and which orders are added *)

\* An order stays, fills by some of what remains, or ends.
Progresses(o, after) ==
    \/ after = o
    \/ /\ o.status \in OpenStates
       /\ \E q \in 1..(o.req.qty - o.filled) : after = AfterFill(o, q)
    \/ /\ o.status \in OpenStates
       /\ \E status \in {"CANCELLED", "EXPIRED"} : after = [o EXCEPT !.status = status]
    \/ /\ o.status \in OpenStates
       /\ o.filled = 0
       /\ after = [o EXCEPT !.status = "REJECTED"]

\* A request becomes a rejected order, or a new one that rests or fills.
Created(r, o) ==
    \/ o = NewOrder(r, "REJECTED")
    \/ /\ ~IsDuplicate(r)
       /\ r.qty > 0
       /\ \/ o = NewOrder(r, "SUBMITTED")
          \/ \E q \in 1..r.qty : o = AfterFill(NewOrder(r, "SUBMITTED"), q)

OrdersProgress ==
    /\ orders' \in Seq(OrderType)
    /\ Len(orders') = Len(orders)
    /\ \A i \in OrderIds : Progresses(orders[i], orders'[i])
    /\ seenClientIds' = seenClientIds

OrderAdded ==
    \E r \in Requests, o \in OrderType :
        /\ Created(r, o)
        /\ orders' = Append(orders, o)
        /\ seenClientIds' = seenClientIds \cup ({r.client} \ {NoClient})

\* A step that leaves the orders alone.
LEMMA OrdersStay ==
    ASSUME Inv, UNCHANGED <<orders, seenClientIds>>
    PROVE  OrdersProgress
  BY DEF Inv, TypeOK, OrdersProgress, Progresses

\* A step that changes one order.
LEMMA OneProgresses ==
    ASSUME Inv, NEW k \in OrderIds, NEW o \in OrderType, Progresses(orders[k], o),
           orders' = [orders EXCEPT ![k] = o], UNCHANGED seenClientIds
    PROVE  OrdersProgress
<1>1. orders \in Seq(OrderType)
  BY DEF Inv, TypeOK
<1>2. /\ orders' \in Seq(OrderType) /\ Len(orders') = Len(orders)
      /\ \A i \in OrderIds : orders'[i] = IF i = k THEN o ELSE orders[i]
  BY <1>1, ExceptSeq DEF OrderIds
<1>3. \A i \in OrderIds : Progresses(orders[i], orders'[i])
  BY <1>2 DEF Progresses
<1>. QED  BY <1>2, <1>3 DEF OrdersProgress

\* What an order looks like whose status is set.
LEMMA StatusSet ==
    ASSUME Inv, NEW i \in OrderIds, NEW status \in Terminal
    PROVE  [orders EXCEPT ![i].status = status] =
               [orders EXCEPT ![i] = [orders[i] EXCEPT !.status = status]]
           /\ [orders[i] EXCEPT !.status = status] \in OrderType
<1>1. orders[i] \in OrderType
  BY ElementOfSeq DEF Inv, TypeOK, OrderIds
<1>. QED  BY <1>1 DEF OrderType

\* create_order adds one order.
LEMMA CreateAdds ==
    ASSUME Inv, NEW r \in Requests, CreateOrder(r)
    PROVE  OrderAdded
<1>1. /\ NewOrder(r, "REJECTED") \in OrderType /\ NewOrder(r, "SUBMITTED") \in OrderType
      /\ NewOrder(r, "SUBMITTED").req = r /\ NewOrder(r, "SUBMITTED").filled = 0
  BY NewOrderTyped
<1>2. CASE RefuseOrder(r) \/ RejectUnbookable(r)
  BY <1>1, <1>2 DEF RefuseOrder, RejectUnbookable, Submitting, OrderAdded, Created
<1>3. ~Refused(r) => ~IsDuplicate(r) /\ r.qty > 0
  BY AcceptedOrder DEF Refused
<1>4. CASE RestOrder(r)
  BY <1>1, <1>3, <1>4 DEF RestOrder, Submitting, OrderAdded, Created
<1>5. CASE FillNewOrder(r)
  <2> DEFINE o == NewOrder(r, "SUBMITTED")
             q == FillQty(o)
  <2>1. ~Refused(r) /\ seenClientIds' = seenClientIds \cup ({r.client} \ {NoClient})
    BY <1>5 DEF FillNewOrder, Submitting
  <2>2. PICK px \in Int : BookFill(o, px)
    BY <1>5, NewFill
  <2>3. o \in OrderType /\ o.status \in OpenStates /\ StatusMatches(o)
        /\ orders' = Append(orders, AfterFill(o, q))
    BY <1>5, NewFill
  <2>4. q \in Int /\ q > 0
    BY <2>2, <2>3, BookFillOK
  <2>5. AfterFill(o, q) \in OrderType /\ q <= r.qty - 0
    BY <1>1, <2>3, <2>4, AfterFillOK
  <2>6. r.qty \in Int
    BY ExchangeAssumption DEF RequestType
  <2> HIDE DEF q
  <2>7. q \in 1..r.qty
    BY <2>4, <2>5, <2>6
  <2>8. Created(r, AfterFill(o, q))
    BY <1>3, <2>1, <2>7 DEF Created
  <2>. QED  BY <2>1, <2>3, <2>5, <2>8 DEF OrderAdded, q
<1>. QED  BY <1>2, <1>4, <1>5 DEF CreateOrder

\* Every step of the exchange adds one order, or lets some progress.
LEMMA BookStep ==
    ASSUME Inv, [Next]_vars
    PROVE  OrdersProgress \/ OrderAdded
<1>1. ASSUME NEW i \in OrderIds, CancelOrder(i) \/ ExpireOrder(i) PROVE OrdersProgress
  <2>1. PICK status \in {"CANCELLED", "EXPIRED"} : EndOrder(i, status)
    BY <1>1 DEF CancelOrder, ExpireOrder
  <2>2. /\ orders' = [orders EXCEPT ![i] = [orders[i] EXCEPT !.status = status]]
        /\ [orders[i] EXCEPT !.status = status] \in OrderType
    BY <2>1, StatusSet DEF EndOrder, SetStatus, Terminal
  <2>3. Progresses(orders[i], [orders[i] EXCEPT !.status = status])
    BY <2>1 DEF EndOrder, Progresses
  <2>. QED  BY <1>1, <2>1, <2>2, <2>3, OneProgresses DEF EndOrder
<1>2. CASE OrderCalls
  BY <1>1, <1>2, CreateAdds DEF OrderCalls
<1>3. CASE MarketCalls
  BY <1>3, OrdersStay DEF MarketCalls, SetPrice, PriceUpdate, MarkStale
<1>4. CASE EndOfDay
  <2>1. orders' \in Seq(OrderType)
    BY <1>4, EndOfDayInv DEF Inv, TypeOK
  <2>2. orders' = [i \in OrderIds |->
                      IF orders[i].status \in OpenStates
                      THEN [orders[i] EXCEPT !.status = "CANCELLED"]
                      ELSE orders[i]]
        /\ seenClientIds' = seenClientIds
    BY <1>4 DEF EndOfDay
  <2>3. Len(orders') = Len(orders)
    <3>1. Len(orders) \in Nat /\ Len(orders') \in Nat /\ DOMAIN orders' = 1..Len(orders')
      BY <2>1, LenProperties DEF Inv, TypeOK
    <3>2. DOMAIN orders' = 1..Len(orders)
      BY <2>2 DEF OrderIds
    <3>. QED  BY <3>1, <3>2
  <2>4. \A i \in OrderIds : Progresses(orders[i], orders'[i])
    BY <2>2 DEF Progresses
  <2>. QED  BY <2>1, <2>2, <2>3, <2>4 DEF OrdersProgress
<1>5. CASE GuardCalls
  BY <1>4, <1>5, OrdersStay DEF GuardCalls, SimulateFailure, ClearFailure, Halt, ResetHalt,
                                ConfigureRules
<1>6. ASSUME NEW i, TickFill(i) PROVE OrdersProgress
  <2> DEFINE o == orders[i]
             q == FillQty(o)
  <2>1. /\ i \in OrderIds /\ o \in OrderType /\ o.status \in OpenStates /\ StatusMatches(o)
        /\ orders' = [orders EXCEPT ![i] = AfterFill(o, q)]
        /\ \E px \in Int : BookFill(o, px)
    BY <1>6, TickedFill
  <2>2. q \in Int /\ q > 0
    BY <2>1, BookFillOK
  <2>3. AfterFill(o, q) \in OrderType /\ q <= o.req.qty - o.filled
    BY <2>1, <2>2, AfterFillOK
  <2>4. o.req.qty \in Int /\ o.filled \in Int
    BY <2>1 DEF OrderType, RequestType
  <2> HIDE DEF q
  <2>5. Progresses(o, AfterFill(o, q))
    BY <2>1, <2>2, <2>3, <2>4 DEF Progresses
  <2>. QED  BY <1>6, <2>1, <2>3, <2>5, OneProgresses DEF TickFill
<1>7. ASSUME NEW i, TickReject(i) PROVE OrdersProgress
  <2>1. i \in OrderIds /\ StatusMatches(orders[i]) /\ orders[i].status \in OpenStates
    BY <1>7, VisitedOrder DEF TickReject
  <2>2. /\ orders' = [orders EXCEPT ![i] = [orders[i] EXCEPT !.status = "REJECTED"]]
        /\ [orders[i] EXCEPT !.status = "REJECTED"] \in OrderType
    BY <1>7, <2>1, StatusSet DEF TickReject, SetStatus, Terminal
  <2>3. orders[i].filled = 0
    BY <1>7, <2>1 DEF TickReject, StatusMatches
  <2>4. Progresses(orders[i], [orders[i] EXCEPT !.status = "REJECTED"])
    BY <2>1, <2>3 DEF Progresses
  <2>. QED  BY <1>7, <2>1, <2>2, <2>4, OneProgresses DEF TickReject
<1>8. CASE TickSteps
  <2>1. ASSUME NEW i, TickSkip(i) \/ TickRaise(i) PROVE OrdersProgress
    BY <2>1, OrdersStay DEF TickSkip, TickRaise
  <2>2. CASE ManageNothing \/ ManagePosition
    BY <2>2, OrdersStay DEF ManageNothing, ManagePosition
  <2>. QED  BY <1>6, <1>7, <1>8, <2>1, <2>2 DEF TickSteps
<1>9. CASE \E s \in Symbols : EodFlatten(s)
  BY <1>9, OrdersStay DEF EodFlatten
<1>10. CASE UNCHANGED vars
  BY <1>10, OrdersStay DEF vars
<1>. QED  BY <1>2, <1>3, <1>5, <1>8, <1>9, <1>10 DEF Next

-----------------------------------------------------------------------------
(* Client ids *)

\* The client id of every order was seen.
ClientsSeen ==
    \A i \in OrderIds :
        orders[i].req.client # NoClient => orders[i].req.client \in seenClientIds

ClientInv == ClientIdAcceptedOnce /\ ClientsSeen

\* An order keeps its request, and a rejection is final.
LEMMA ProgressKeeps ==
    ASSUME NEW o \in OrderType, NEW after, Progresses(o, after)
    PROVE  /\ after.req = o.req
           /\ o.status = "REJECTED" => after.status = "REJECTED"
<1>1. o.status \in OpenStates => o.status # "REJECTED"
  BY DEF OpenStates
<1>. QED  BY <1>1 DEF Progresses, AfterFill, OrderType

\* No step accepts a second order with a client id.
LEMMA ClientStep == Inv /\ ClientInv /\ [Next]_vars => ClientInv'
<1> SUFFICES ASSUME Inv, ClientInv, [Next]_vars PROVE ClientInv'
  OBVIOUS
<1>1. orders \in Seq(OrderType) /\ Len(orders) \in Nat
      /\ \A i \in OrderIds : orders[i] \in OrderType
  BY ElementOfSeq, LenProperties DEF Inv, TypeOK, OrderIds
<1>2. CASE OrdersProgress
  <2>1. OrderIds' = OrderIds /\ seenClientIds' = seenClientIds
    BY <1>2 DEF OrdersProgress, OrderIds
  <2>2. \A i \in OrderIds :
            /\ orders'[i].req = orders[i].req
            /\ orders[i].status = "REJECTED" => orders'[i].status = "REJECTED"
    BY <1>1, <1>2, ProgressKeeps DEF OrdersProgress
  <2>. QED  BY <2>1, <2>2 DEF ClientInv, ClientIdAcceptedOnce, ClientsSeen
<1>3. CASE OrderAdded
  <2>1. PICK r \in Requests, o \in OrderType :
            /\ Created(r, o)
            /\ orders' = Append(orders, o)
            /\ seenClientIds' = seenClientIds \cup ({r.client} \ {NoClient})
    BY <1>3 DEF OrderAdded
  <2> DEFINE n == Len(orders)
  <2>2. /\ Len(orders') = n + 1
        /\ \A i \in OrderIds : orders'[i] = orders[i]
        /\ orders'[n + 1] = o
    BY <1>1, <2>1, AppendProperties DEF OrderIds
  <2>3. OrderIds' = OrderIds \cup {n + 1} /\ n + 1 \notin OrderIds
    BY <1>1, <2>2 DEF OrderIds
  <2>4. o.req = r /\ (o.status # "REJECTED" => r.client \notin seenClientIds)
    <3>1. /\ NewOrder(r, "SUBMITTED").req = r
          /\ NewOrder(r, "REJECTED").req = r /\ NewOrder(r, "REJECTED").status = "REJECTED"
      BY DEF NewOrder
    <3>2. \A q : AfterFill(NewOrder(r, "SUBMITTED"), q).req = r
      BY <3>1 DEF AfterFill, NewOrder
    <3>. QED  BY <2>1, <3>1, <3>2 DEF Created, IsDuplicate
  <2>5. ClientsSeen'
    BY <2>1, <2>2, <2>3, <2>4 DEF ClientInv, ClientsSeen
  <2>6. ASSUME NEW j \in OrderIds, orders[j].req.client = o.req.client,
               o.req.client # NoClient
        PROVE  o.status = "REJECTED"
    BY <2>4, <2>6 DEF ClientInv, ClientsSeen
  <2>7. ClientIdAcceptedOnce'
    <3> SUFFICES ASSUME NEW i \in OrderIds', NEW j \in OrderIds', i # j,
                        orders'[i].req.client = orders'[j].req.client,
                        orders'[i].req.client # NoClient
                 PROVE  "REJECTED" \in {orders'[i].status, orders'[j].status}
      BY DEF ClientIdAcceptedOnce
    <3>1. CASE i \in OrderIds /\ j \in OrderIds
      BY <2>2, <3>1 DEF ClientInv, ClientIdAcceptedOnce
    <3>2. CASE i = n + 1 \/ j = n + 1
      BY <2>2, <2>3, <2>6, <3>2
    <3>. QED  BY <2>3, <3>1, <3>2
  <2>. QED  BY <2>5, <2>7 DEF ClientInv
<1>. QED  BY <1>2, <1>3, BookStep

\* A client order id is accepted once: of the orders that carry it all but one were
\* rejected, however often a caller repeats it and whatever became of the first.
THEOREM ClientIdsAcceptedOnce == Spec => []ClientIdAcceptedOnce
<1>1. Init => ClientInv
  <2>1. Len(<<>>) = 0
    BY EmptySeq
  <2>. QED  BY <2>1 DEF Init, ClientInv, ClientIdAcceptedOnce, ClientsSeen, OrderIds
<1>2. ClientInv => ClientIdAcceptedOnce
  BY DEF ClientInv
<1>. QED  BY <1>1, <1>2, Invariant, ClientStep, PTL DEF Spec

-----------------------------------------------------------------------------
(* The life cycle of an order *)

\* What the abstract book shows of an order.
Shown(o) == [qty |-> o.req.qty, filled |-> o.filled, status |-> o.status]

Book(os) == [i \in 1..Len(os) |-> Shown(os[i])]

\* The book is a sequence as long as the orders.
LEMMA BookTyped ==
    ASSUME NEW os \in Seq(OrderType)
    PROVE  /\ Book(os) \in Seq(Lifecycle!BookedOrder)
           /\ Len(Book(os)) = Len(os)
           /\ DOMAIN Book(os) = 1..Len(os)
<1>1. Len(os) \in Nat /\ \A i \in 1..Len(os) : os[i] \in OrderType
  BY ElementOfSeq, LenProperties
<1>2. \A i \in 1..Len(os) : Shown(os[i]) \in Lifecycle!BookedOrder
  BY <1>1 DEF Shown, OrderType, RequestType, Lifecycle!BookedOrder, Terminal, OpenStates,
              Lifecycle!Terminal, Lifecycle!OpenStates
<1> HIDE DEF Shown
<1>3. Book(os) \in [1..Len(os) -> Lifecycle!BookedOrder]
  BY <1>2 DEF Book
<1>4. Book(os) \in Seq(Lifecycle!BookedOrder)
  BY <1>1, <1>3
<1>5. Len(Book(os)) \in Nat /\ DOMAIN Book(os) = 1..Len(Book(os))
  BY <1>4, LenProperties
<1>6. DOMAIN Book(os) = 1..Len(os)
  BY DEF Book
<1>7. Len(Book(os)) = Len(os)
  BY <1>1, <1>5, <1>6
<1>. QED  BY <1>4, <1>6, <1>7

\* A fill of an order is a fill in the book.
LEMMA FillShown ==
    ASSUME NEW o \in OrderType, NEW q \in 1..(o.req.qty - o.filled)
    PROVE  Shown(AfterFill(o, q)) = Lifecycle!FilledBy(Shown(o), q)
<1>1. o.filled \in Int /\ o.req.qty \in Int
  BY DEF OrderType, RequestType
<1> DEFINE after == AfterFill(o, q)
<1>2. /\ after.req = o.req /\ after.filled = o.filled + q
      /\ after.status = IF o.filled + q = o.req.qty THEN "FILLED" ELSE "PARTIALLY_FILLED"
  BY <1>1 DEF AfterFill, OrderType
<1> HIDE DEF after
<1>3. Shown(after) = [qty    |-> o.req.qty, filled |-> o.filled + q,
                      status |-> IF o.filled + q = o.req.qty THEN "FILLED"
                                                             ELSE "PARTIALLY_FILLED"]
  BY <1>2 DEF Shown
<1>4. Lifecycle!FilledBy(Shown(o), q) =
          [qty    |-> o.req.qty, filled |-> o.filled + q,
           status |-> IF o.filled + q = o.req.qty THEN "FILLED" ELSE "PARTIALLY_FILLED"]
  <2> DEFINE shown == Shown(o)
             status == IF o.filled + q = o.req.qty THEN "FILLED" ELSE "PARTIALLY_FILLED"
  <2>1. /\ shown = [qty |-> shown.qty, filled |-> shown.filled, status |-> shown.status]
        /\ shown.filled = o.filled /\ shown.qty = o.req.qty
    BY DEF Shown
  <2> HIDE DEF shown
  <2>2. Lifecycle!FilledBy(shown, q) =
            [shown EXCEPT !.filled = o.filled + q, !.status = status]
    BY <2>1 DEF Lifecycle!FilledBy
  <2> HIDE DEF status
  <2>3. Lifecycle!FilledBy(shown, q) =
            [qty |-> o.req.qty, filled |-> o.filled + q, status |-> status]
    BY <2>1, <2>2
  <2>. QED  BY <2>3 DEF shown, status
<1>. QED  BY <1>3, <1>4 DEF after

\* An order that progresses does so in the book.
LEMMA ProgressShown ==
    ASSUME NEW o \in OrderType, NEW after, Progresses(o, after)
    PROVE  \/ Shown(after) = Shown(o)
           \/ Lifecycle!Fills(Shown(o), Shown(after))
           \/ Lifecycle!Ends(Shown(o), Shown(after))
<1>1. /\ Shown(o).status = o.status /\ Shown(o).filled = o.filled /\ Shown(o).qty = o.req.qty
      /\ OpenStates = Lifecycle!OpenStates
  BY DEF Shown, OpenStates, Lifecycle!OpenStates
<1>2. CASE after = o
  BY <1>2
<1>3. CASE o.status \in OpenStates /\ \E q \in 1..(o.req.qty - o.filled) : after = AfterFill(o, q)
  BY <1>1, <1>3, FillShown DEF Lifecycle!Fills
<1>4. ASSUME NEW status, after = [o EXCEPT !.status = status]
      PROVE  Shown(after) = [Shown(o) EXCEPT !.status = status]
  BY <1>4 DEF Shown, OrderType
<1>. QED  BY <1>1, <1>2, <1>3, <1>4 DEF Progresses, Lifecycle!Ends

\* An order that is created is placed in the book.
LEMMA CreationShown ==
    ASSUME NEW r \in Requests, NEW o, Created(r, o)
    PROVE  Lifecycle!Placed(Shown(o))
<1>1. r.qty \in Int
  BY ExchangeAssumption DEF RequestType
<1>2. /\ NewOrder(r, "SUBMITTED") \in OrderType
      /\ NewOrder(r, "SUBMITTED").req = r /\ NewOrder(r, "SUBMITTED").filled = 0
  BY NewOrderTyped
<1>3. \A status : Shown(NewOrder(r, status)) =
                      [Lifecycle!Submitted(r.qty) EXCEPT !.status = status]
  BY DEF Shown, NewOrder, Lifecycle!Submitted
<1>4. Shown(NewOrder(r, "SUBMITTED")) = Lifecycle!Submitted(r.qty)
  BY DEF Shown, NewOrder, Lifecycle!Submitted
<1>5. Shown(NewOrder(r, "REJECTED")).qty = r.qty /\ Lifecycle!Submitted(r.qty).qty = r.qty
  BY DEF Shown, NewOrder, Lifecycle!Submitted
<1>6. CASE o = NewOrder(r, "REJECTED")
  BY <1>1, <1>3, <1>5, <1>6 DEF Lifecycle!Placed
<1>7. CASE r.qty > 0 /\ o = NewOrder(r, "SUBMITTED")
  BY <1>1, <1>4, <1>5, <1>7 DEF Lifecycle!Placed
<1>8. ASSUME NEW q \in 1..r.qty, o = AfterFill(NewOrder(r, "SUBMITTED"), q)
      PROVE  Lifecycle!Placed(Shown(o))
  <2>1. r.qty - 0 = r.qty
    BY <1>1
  <2>2. Shown(o) = Lifecycle!FilledBy(Lifecycle!Submitted(r.qty), q)
    BY <1>2, <1>4, <1>8, <2>1, FillShown
  <2>3. Shown(o).qty = r.qty
    BY <2>2 DEF Lifecycle!FilledBy, Lifecycle!Submitted
  <2>4. /\ Lifecycle!Submitted(r.qty).status \in Lifecycle!OpenStates
        /\ q \in 1..(Lifecycle!Submitted(r.qty).qty - Lifecycle!Submitted(r.qty).filled)
    BY <1>1, <2>1 DEF Lifecycle!Submitted, Lifecycle!OpenStates
  <2>5. Lifecycle!Fills(Lifecycle!Submitted(r.qty), Shown(o))
    BY <2>2, <2>4 DEF Lifecycle!Fills
  <2>. QED  BY <1>1, <2>3, <2>5 DEF Lifecycle!Placed
<1>. QED  BY <1>6, <1>7, <1>8 DEF Created

\* The orders whose progress is a step of the book, or none.
LEMMA ProgressWorks ==
    ASSUME Inv, OrdersProgress
    PROVE  /\ Book(orders') = [i \in DOMAIN Book(orders) |-> Book(orders')[i]]
           /\ \A i \in DOMAIN Book(orders) :
                  \/ Book(orders')[i] = Book(orders)[i]
                  \/ Lifecycle!Fills(Book(orders)[i], Book(orders')[i])
                  \/ Lifecycle!Ends(Book(orders)[i], Book(orders')[i])
<1>1. orders \in Seq(OrderType) /\ orders' \in Seq(OrderType) /\ Len(orders') = Len(orders)
  BY DEF Inv, TypeOK, OrdersProgress
<1>2. DOMAIN Book(orders) = 1..Len(orders) /\ DOMAIN Book(orders') = 1..Len(orders)
  BY <1>1, BookTyped
<1>3. Book(orders') = [i \in DOMAIN Book(orders) |-> Book(orders')[i]]
  BY <1>1, <1>2 DEF Book
<1>4. ASSUME NEW i \in 1..Len(orders)
      PROVE  \/ Book(orders')[i] = Book(orders)[i]
             \/ Lifecycle!Fills(Book(orders)[i], Book(orders')[i])
             \/ Lifecycle!Ends(Book(orders)[i], Book(orders')[i])
  <2>1. orders[i] \in OrderType /\ Progresses(orders[i], orders'[i])
    BY <1>1, ElementOfSeq DEF OrdersProgress, OrderIds
  <2>2. Book(orders)[i] = Shown(orders[i]) /\ Book(orders')[i] = Shown(orders'[i])
    BY <1>1 DEF Book
  <2>. QED  BY <2>1, <2>2, ProgressShown
<1>. QED  BY <1>2, <1>3, <1>4

\* An order that is added is appended to the book.
LEMMA AdditionPlaces ==
    ASSUME Inv, OrderAdded
    PROVE  LET o == Book(orders')[Len(Book(orders'))]
           IN  /\ Len(Book(orders')) = Len(Book(orders)) + 1
               /\ Book(orders') = Append(Book(orders), o)
               /\ Lifecycle!Placed(o)
<1>1. PICK r \in Requests, o \in OrderType : Created(r, o) /\ orders' = Append(orders, o)
  BY DEF OrderAdded
<1> DEFINE n == Len(orders)
<1>2. /\ orders \in Seq(OrderType) /\ orders' \in Seq(OrderType) /\ n \in Nat
      /\ Len(orders') = n + 1 /\ orders'[n + 1] = o
      /\ \A i \in 1..n : orders'[i] = orders[i]
  BY <1>1, AppendProperties, LenProperties DEF Inv, TypeOK
<1>3. /\ Book(orders) \in Seq(Lifecycle!BookedOrder) /\ Len(Book(orders)) = n
      /\ Book(orders') \in Seq(Lifecycle!BookedOrder) /\ Len(Book(orders')) = n + 1
  BY <1>2, BookTyped
<1>4. /\ Book(orders')[n + 1] = Shown(o)
      /\ \A i \in 1..n : Book(orders')[i] = Book(orders)[i]
  BY <1>2 DEF Book
<1>5. Shown(o) \in Lifecycle!BookedOrder
  <2>1. n + 1 \in 1..Len(Book(orders'))
    BY <1>2, <1>3
  <2>. QED  BY <1>3, <1>4, <2>1, ElementOfSeq
<1>6. Book(orders') = Append(Book(orders), Shown(o))
  <2> DEFINE app == Append(Book(orders), Shown(o))
  <2>1. /\ app \in Seq(Lifecycle!BookedOrder) /\ Len(app) = n + 1 /\ app[n + 1] = Shown(o)
        /\ \A i \in 1..n : app[i] = Book(orders)[i]
    BY <1>3, <1>5, AppendProperties
  <2>2. \A i \in 1..(n + 1) : Book(orders')[i] = app[i]
    BY <1>2, <1>4, <2>1
  <2> HIDE DEF app
  <2>3. Book(orders') = app
    BY <1>3, <2>1, <2>2, SeqEqual
  <2>. QED  BY <2>3 DEF app
<1>. QED  BY <1>1, <1>3, <1>4, <1>6, CreationShown

\* Whatever mix of fills, rejections, cancels, expiries and sweeps happens, the
\* exchange keeps what the life cycle of an order promises, step by step.
THEOREM ExchangeImplementsLifecycle == Spec => ImplementsLifecycle
<1> DEFINE mapped == [i \in OrderIds |-> [qty    |-> orders[i].req.qty,
                                         filled |-> orders[i].filled,
                                         status |-> orders[i].status]]
<1>1. Init => Lifecycle!Init
  <2> SUFFICES ASSUME Init PROVE mapped = <<>>
    BY DEF Lifecycle!Init
  <2>1. Len(orders) = 0
    BY EmptySeq DEF Init
  <2>2. OrderIds = {}
    BY <2>1 DEF OrderIds
  <2>. QED  BY <2>2
<1>2. mapped = Book(orders) /\ mapped' = Book(orders')
  BY DEF Book, Shown, OrderIds
<1>3. ASSUME Inv, [Next]_vars PROVE Lifecycle!Next
  <2>1. CASE OrdersProgress
    <3>1. Lifecycle!Work
      BY <1>2, <1>3, <2>1, ProgressWorks DEF Lifecycle!Work
    <3>. QED  BY <3>1 DEF Lifecycle!Next
  <2>2. CASE OrderAdded
    <3>1. Lifecycle!Place
      BY <1>2, <1>3, <2>2, AdditionPlaces DEF Lifecycle!Place
    <3>. QED  BY <3>1 DEF Lifecycle!Next
  <2>. QED  BY <1>3, <2>1, <2>2, BookStep
<1>4. Inv /\ [Next]_vars => [Lifecycle!Next]_mapped
  BY <1>3
<1>. QED  BY <1>1, <1>4, Invariant, PTL DEF Spec, ImplementsLifecycle, Lifecycle!Spec
=============================================================================
