-------------------------- MODULE TerminalCashProofs --------------------------
(***************************************************************************)
(* Theorems about TerminalCash: the inductive invariant for any portfolios, *)
(* calls, requests and amounts, that no money is spent twice, that cash     *)
(* stays within two cents an order of its ledger, that the coins are backed *)
(* and the florins conserved, and that the whole implements OneEffect.      *)
(***************************************************************************)
EXTENDS TerminalCash, FiniteSetTheorems, WellFoundedInduction, TLAPS

-----------------------------------------------------------------------------
(* Arithmetic of fees and cents. *)

\* A fee is a part of the gross value.
LEMMA FeeIsPart ==
    ASSUME NEW n \in Nat
    PROVE  Fee(n) \in Nat /\ Fee(n) <= n
  BY TerminalAssumption, SMT DEF Fee

\* Rounding a column moves a value by half a cent at most, and not below zero.
LEMMA RoundedIsNear ==
    ASSUME NEW n \in Nat
    PROVE  /\ Rounded(n) \in Nat
           /\ 2 * Rounded(n) <= 2 * n + Cent
           /\ 2 * n - Cent <= 2 * Rounded(n)
<1> DEFINE q == (2 * n + Cent) \div (2 * Cent)
<1>1. Cent \in Nat /\ Cent > 0
  BY TerminalAssumption
<1>2. q \in Nat
  BY <1>1, SMT
<1>3. (2 * Cent) * q <= 2 * n + Cent /\ 2 * n + Cent < (2 * Cent) * q + 2 * Cent
  BY <1>1, SMT
<1>4. Rounded(n) = q * Cent
  BY DEF Rounded
<1>5. q * Cent \in Nat /\ (2 * Cent) * q = 2 * (q * Cent)
  BY <1>1, <1>2, SMT
<1> HIDE DEF q
<1> QED
  BY <1>1, <1>3, <1>4, <1>5

\* Rounding down takes less than a cent, and not below zero.
LEMMA RoundedDownIsNear ==
    ASSUME NEW n \in Nat
    PROVE  RoundedDown(n) \in Nat /\ RoundedDown(n) <= n /\ n - Cent <= RoundedDown(n)
<1> DEFINE q == n \div Cent
<1>1. Cent \in Nat /\ Cent > 0
  BY TerminalAssumption
<1>2. q \in Nat /\ Cent * q <= n /\ n < Cent * q + Cent
  BY <1>1, SMT
<1>3. q * Cent \in Nat /\ Cent * q = q * Cent
  BY <1>1, <1>2, SMT
<1>4. RoundedDown(n) = q * Cent
  BY DEF RoundedDown
<1> HIDE DEF q
<1> QED
  BY <1>1, <1>2, <1>3, <1>4

LEMMA PayoutIsPart ==
    ASSUME NEW n \in Nat
    PROVE  /\ Payout(n) \in Nat /\ Payout(n) <= n - Fee(n) /\ n - Fee(n) - Cent <= Payout(n)
<1>1. n - Fee(n) \in Nat
  BY FeeIsPart
<1> QED
  BY <1>1, RoundedDownIsNear DEF Payout

-----------------------------------------------------------------------------
(* Sums.  A nonempty set of numbers has a least one, which is what induction
   over the size of a finite set comes down to. *)

Below == {s \in Nat \X Nat : s[1] < s[2]}

LEMMA LeastNumber ==
    ASSUME NEW N \in SUBSET Nat, N # {}
    PROVE  \E n \in N : \A m \in N : n <= m
<1>1. IsWellFoundedOn(Below, Nat)
  BY NatLessThanWellFounded DEF OpToRel, Below
<1>2. PICK n \in N : \A m \in N : <<m, n>> \notin Below
  BY <1>1, WFMin
<1>3. \A m \in N : ~(m < n)
  BY <1>2 DEF Below
<1>4. \A m \in N : m \in Nat
  OBVIOUS
<1> QED
  BY <1>3, <1>4

Some(S) == CHOOSE x \in S : TRUE

\* g gives for each set of indices the sum of f over it.
Sums(f, g) == g = [S \in SUBSET DOMAIN f |->
                     IF S = {} THEN 0 ELSE f[Some(S)] + g[S \ {Some(S)}]]

LEMMA TotalIsSum ==
    ASSUME NEW f
    PROVE  Total(f) = (CHOOSE g : Sums(f, g))[DOMAIN f]
  BY DEF Total, FoldFunction, FoldFunctionOnSet, MapThenFoldSet, Sums, Some

LEMMA SomeRemoved ==
    ASSUME NEW D, IsFiniteSet(D), NEW S \in SUBSET D, S # {}
    PROVE  /\ Some(S) \in S /\ Some(S) \in D
           /\ S \ {Some(S)} \in SUBSET D
           /\ Cardinality(S) \in Nat /\ Cardinality(S) > 0
           /\ Cardinality(S \ {Some(S)}) = Cardinality(S) - 1
<1>1. Some(S) \in S
  BY DEF Some
<1>2. IsFiniteSet(S)
  BY FS_Subset
<1>3. Cardinality(S) \in Nat /\ Cardinality(S) # 0
  BY <1>2, FS_CardinalityType, FS_EmptySet
<1>4. Cardinality(S \ {Some(S)}) = Cardinality(S) - 1
  BY <1>1, <1>2, FS_RemoveElement
<1> QED
  BY <1>1, <1>3, <1>4

\* There is one such g: two of them would differ on a smallest set.
LEMMA SumsAgree ==
    ASSUME NEW f, IsFiniteSet(DOMAIN f), NEW g, NEW h, Sums(f, g), Sums(f, h)
    PROVE  g = h
<1> DEFINE D == DOMAIN f
<1>1. /\ DOMAIN g = SUBSET D /\ DOMAIN h = SUBSET D
      /\ g = [S \in SUBSET D |-> g[S]] /\ h = [S \in SUBSET D |-> h[S]]
      /\ \A S \in SUBSET D :
            /\ g[S] = IF S = {} THEN 0 ELSE f[Some(S)] + g[S \ {Some(S)}]
            /\ h[S] = IF S = {} THEN 0 ELSE f[Some(S)] + h[S \ {Some(S)}]
  BY DEF Sums
<1> DEFINE Apart == {S \in SUBSET D : g[S] # h[S]}
           Sizes == {Cardinality(S) : S \in Apart}
<1>2. Apart = {}
  <2> SUFFICES ASSUME Apart # {} PROVE FALSE
    OBVIOUS
  <2>1. Sizes \in SUBSET Nat /\ Sizes # {}
    BY FS_Subset, FS_CardinalityType
  <2>2. PICK n \in Sizes : \A m \in Sizes : n <= m
    BY <2>1, LeastNumber
  <2>3. PICK S \in Apart : n = Cardinality(S)
    BY <2>2
  <2>4. S # {} /\ S \in SUBSET D
    BY <1>1, <2>3
  <2>5. /\ S \ {Some(S)} \in SUBSET D
        /\ Cardinality(S \ {Some(S)}) = Cardinality(S) - 1 /\ Cardinality(S) \in Nat
    BY <2>4, SomeRemoved
  <2>6. S \ {Some(S)} \notin Apart
    <3>1. S \ {Some(S)} \in Apart => Cardinality(S) <= Cardinality(S) - 1
      BY <2>2, <2>3, <2>5
    <3> QED
      BY <2>5, <3>1
  <2>7. g[S \ {Some(S)}] = h[S \ {Some(S)}]
    BY <2>5, <2>6
  <2>8. g[S] = h[S]
    BY <1>1, <2>4, <2>7
  <2> QED
    BY <2>3, <2>8
<1>3. \A S \in SUBSET D : g[S] = h[S]
  BY <1>2
<1> QED
  BY <1>1, <1>3

\* And there is one at all, built from the smaller sets to the larger ones.
Small(D, n) == {S \in SUBSET D : Cardinality(S) <= n}

SumsTo(f, n, g) == /\ g \in [Small(DOMAIN f, n) -> Int]
                   /\ \A S \in Small(DOMAIN f, n) :
                        g[S] = IF S = {} THEN 0 ELSE f[Some(S)] + g[S \ {Some(S)}]

LEMMA SumsToAll ==
    ASSUME NEW D, IsFiniteSet(D), NEW f \in [D -> Int], NEW n \in Nat
    PROVE  \E g : SumsTo(f, n, g)
<1> DEFINE Without == {m \in Nat : ~ \E g : SumsTo(f, m, g)}
<1> SUFFICES ASSUME Without # {} PROVE FALSE
  OBVIOUS
<1>0. DOMAIN f = D
  OBVIOUS
<1>1. PICK m \in Without : \A k \in Without : m <= k
  <2>1. Without \in SUBSET Nat
    OBVIOUS
  <2> QED
    BY <2>1, LeastNumber
<1>2. m \in Nat /\ ~ \E g : SumsTo(f, m, g)
  BY <1>1
<1>3. CASE m = 0
  <2>1. \A S \in Small(D, 0) : S = {}
    <3> SUFFICES ASSUME NEW S \in SUBSET D, Cardinality(S) <= 0, S # {} PROVE FALSE
      BY DEF Small
    <3>1. Cardinality(S) \in Nat /\ Cardinality(S) > 0
      BY SomeRemoved
    <3> QED
      BY <3>1
  <2>2. SumsTo(f, 0, [S \in Small(D, 0) |-> 0])
    BY <1>0, <2>1 DEF SumsTo
  <2> QED
    BY <1>2, <1>3, <2>2
<1>4. CASE m # 0
  <2>1. m - 1 \in Nat /\ m - 1 \notin Without
    BY <1>1, <1>2, <1>4
  <2>2. PICK g : SumsTo(f, m - 1, g)
    BY <2>1
  <2> DEFINE h == [S \in Small(D, m) |->
                     IF S = {} THEN 0 ELSE f[Some(S)] + g[S \ {Some(S)}]]
  <2>3. ASSUME NEW S \in Small(D, m), S # {}
        PROVE  S \ {Some(S)} \in Small(D, m - 1) /\ Some(S) \in D
    <3>1. S \in SUBSET D /\ Cardinality(S) <= m
      BY <2>3 DEF Small
    <3>2. /\ Some(S) \in D /\ S \ {Some(S)} \in SUBSET D
          /\ Cardinality(S) \in Nat /\ Cardinality(S \ {Some(S)}) = Cardinality(S) - 1
      BY <2>3, <3>1, SomeRemoved
    <3> QED
      BY <1>2, <3>1, <3>2 DEF Small
  <2>4. \A S \in Small(D, m - 1) : S \in Small(D, m)
    <3> SUFFICES ASSUME NEW S \in SUBSET D, Cardinality(S) <= m - 1 PROVE Cardinality(S) <= m
      BY DEF Small
    <3>1. Cardinality(S) \in Nat
      BY FS_Subset, FS_CardinalityType
    <3> QED
      BY <1>2, <3>1
  <2>5. /\ g \in [Small(D, m - 1) -> Int]
        /\ \A S \in Small(D, m - 1) :
              g[S] = IF S = {} THEN 0 ELSE f[Some(S)] + g[S \ {Some(S)}]
    BY <1>0, <2>2 DEF SumsTo
  <2>6. h \in [Small(D, m) -> Int]
    BY <2>3, <2>5
  <2>7. \A S \in Small(D, m - 1) : h[S] = g[S]
    BY <2>4, <2>5
  <2>8. \A S \in Small(D, m) : h[S] = IF S = {} THEN 0 ELSE f[Some(S)] + h[S \ {Some(S)}]
    <3> SUFFICES ASSUME NEW S \in Small(D, m)
                 PROVE  h[S] = IF S = {} THEN 0 ELSE f[Some(S)] + h[S \ {Some(S)}]
      OBVIOUS
    <3>1. h[S] = IF S = {} THEN 0 ELSE f[Some(S)] + g[S \ {Some(S)}]
      OBVIOUS
    <3>2. S # {} => h[S \ {Some(S)}] = g[S \ {Some(S)}]
      BY <2>3, <2>7
    <3> HIDE DEF h
    <3> QED
      BY <3>1, <3>2
  <2> HIDE DEF h
  <2>9. SumsTo(f, m, h)
    BY <1>0, <2>6, <2>8 DEF SumsTo
  <2> QED
    BY <1>2, <2>9
<1> QED
  BY <1>3, <1>4

LEMMA SumsExist ==
    ASSUME NEW D, IsFiniteSet(D), NEW f \in [D -> Int]
    PROVE  \E g \in [SUBSET D -> Int] : Sums(f, g)
<1>1. Cardinality(D) \in Nat
  BY FS_CardinalityType
<1>2. PICK g : SumsTo(f, Cardinality(D), g)
  BY <1>1, SumsToAll
<1>3. Small(D, Cardinality(D)) = SUBSET D
  BY FS_Subset DEF Small
<1>4. /\ g \in [SUBSET D -> Int] /\ DOMAIN f = D
      /\ \A S \in SUBSET D : g[S] = IF S = {} THEN 0 ELSE f[Some(S)] + g[S \ {Some(S)}]
  BY <1>2, <1>3 DEF SumsTo
<1>5. Sums(f, g)
  BY <1>4 DEF Sums
<1> QED
  BY <1>4, <1>5

\* The total is what any such g gives for all indices together.
LEMMA TotalOf ==
    ASSUME NEW D, IsFiniteSet(D), NEW f, DOMAIN f = D, NEW g, Sums(f, g)
    PROVE  Total(f) = g[D]
<1>1. Sums(f, CHOOSE h : Sums(f, h))
  OBVIOUS
<1>2. (CHOOSE h : Sums(f, h)) = g
  BY <1>1, SumsAgree
<1> QED
  BY <1>2, TotalIsSum

LEMMA TotalTyped ==
    ASSUME NEW D, IsFiniteSet(D), NEW f \in [D -> Int]
    PROVE  Total(f) \in Int
<1>1. PICK g \in [SUBSET D -> Int] : Sums(f, g)
  BY SumsExist
<1>2. Total(f) = g[D]
  BY <1>1, TotalOf
<1> QED
  BY <1>2

\* The total changes with one value by as much as the value does.
LEMMA TotalUpdate ==
    ASSUME NEW D, IsFiniteSet(D), NEW f \in [D -> Int], NEW p \in D, NEW v \in Int
    PROVE  Total([f EXCEPT ![p] = v]) = Total(f) + v - f[p]
<1> DEFINE e == [f EXCEPT ![p] = v]
<1>1. PICK g \in [SUBSET D -> Int] : Sums(f, g)
  BY SumsExist
<1>2. \A S \in SUBSET D : g[S] = IF S = {} THEN 0 ELSE f[Some(S)] + g[S \ {Some(S)}]
  BY <1>1 DEF Sums
<1> DEFINE d == v - f[p]
           h == [S \in SUBSET D |-> IF p \in S THEN g[S] + d ELSE g[S]]
<1>3. /\ e \in [D -> Int] /\ DOMAIN e = D /\ e[p] = v
      /\ \A x \in D : x # p => e[x] = f[x]
  OBVIOUS
<1>4. \A S \in SUBSET D : h[S] = IF S = {} THEN 0 ELSE e[Some(S)] + h[S \ {Some(S)}]
  <2> SUFFICES ASSUME NEW S \in SUBSET D
               PROVE  h[S] = IF S = {} THEN 0 ELSE e[Some(S)] + h[S \ {Some(S)}]
    OBVIOUS
  <2>1. CASE S = {}
    BY <1>2, <2>1
  <2>2. CASE S # {}
    <3>1. PICK x \in D : x = Some(S) /\ x \in S /\ S \ {x} \in SUBSET D
      BY <2>2, SomeRemoved
    <3>2. g[S] = f[x] + g[S \ {x}]
      BY <1>2, <2>2, <3>1
    <3>3. g[S] \in Int /\ g[S \ {x}] \in Int /\ f[x] \in Int /\ f[p] \in Int
      BY <1>1, <3>1
    <3>4. h[S] = e[x] + h[S \ {x}]
      <4>1. /\ h[S] = IF p \in S THEN g[S] + d ELSE g[S]
            /\ h[S \ {x}] = IF p \in S \ {x} THEN g[S \ {x}] + d ELSE g[S \ {x}]
        BY <3>1
      <4> HIDE DEF h, e
      <4>2. CASE x = p
        <5>1. h[S] = g[S] + d /\ h[S \ {x}] = g[S \ {x}] /\ e[x] = v
          BY <1>3, <3>1, <4>1, <4>2
        <5> QED
          BY <3>2, <3>3, <4>2, <5>1
      <4>3. CASE x # p
        <5>1. e[x] = f[x] /\ (p \in S \ {x} <=> p \in S)
          BY <1>3, <4>3
        <5> QED
          BY <3>2, <3>3, <4>1, <5>1
      <4> QED
        BY <4>2, <4>3
    <3> QED
      BY <2>2, <3>1, <3>4
  <2> QED
    BY <2>1, <2>2
<1>5. DOMAIN h = SUBSET D /\ h = [S \in SUBSET D |-> h[S]] /\ h[D] = g[D] + d
  OBVIOUS
<1> HIDE DEF h, e
<1>6. Sums(e, h)
  BY <1>3, <1>4, <1>5 DEF Sums
<1>7. Total(e) = g[D] + d /\ Total(f) = g[D]
  BY <1>1, <1>3, <1>5, <1>6, TotalOf
<1> QED
  BY <1>1, <1>7 DEF e

\* Equal values add up to a multiple.
LEMMA TotalOfEqual ==
    ASSUME NEW D, IsFiniteSet(D), NEW v \in Nat
    PROVE  Total([x \in D |-> v]) = v * Cardinality(D)
<1> DEFINE f == [x \in D |-> v]
           h == [S \in SUBSET D |-> v * Cardinality(S)]
<1>1. \A S \in SUBSET D : h[S] = IF S = {} THEN 0 ELSE f[Some(S)] + h[S \ {Some(S)}]
  <2> SUFFICES ASSUME NEW S \in SUBSET D
               PROVE  h[S] = IF S = {} THEN 0 ELSE f[Some(S)] + h[S \ {Some(S)}]
    OBVIOUS
  <2>1. CASE S = {}
    <3>1. Cardinality(S) = 0
      BY <2>1, FS_EmptySet
    <3> QED
      BY <2>1, <3>1
  <2>2. CASE S # {}
    <3>1. PICK k \in Nat : /\ k = Cardinality(S) /\ Cardinality(S \ {Some(S)}) = k - 1
                           /\ S \ {Some(S)} \in SUBSET D /\ Some(S) \in D
      BY <2>2, SomeRemoved
    <3>2. v * k = v + v * (k - 1)
      BY SMT
    <3>3. h[S] = v * k /\ h[S \ {Some(S)}] = v * (k - 1) /\ f[Some(S)] = v
      BY <3>1
    <3> HIDE DEF h, f
    <3> QED
      BY <2>2, <3>2, <3>3
  <2> QED
    BY <2>1, <2>2
<1>2. DOMAIN f = D /\ h = [S \in SUBSET D |-> h[S]] /\ h[D] = v * Cardinality(D)
  OBVIOUS
<1> HIDE DEF h, f
<1>3. Sums(f, h)
  BY <1>1, <1>2 DEF Sums
<1> QED
  BY <1>2, <1>3, TotalOf DEF f

-----------------------------------------------------------------------------
(* Paths and locks. *)

LEMMA Operations ==
    ASSUME NEW r \in Requests
    PROVE  /\ r.op \in Fundings \cup Sides \cup Desk
           /\ r.portfolio \in Portfolios /\ r.amount \in Nat /\ r.amount > 0
  BY TerminalAssumption

LEMMA PathFacts ==
    ASSUME NEW r \in Requests
    PROVE  /\ r.op \in Fundings => Path[r] = <<Bank, Cash(r.portfolio)>>
           /\ r.op \in Sides => Path[r] = <<Portfolio(r.portfolio), Cash(r.portfolio), Market>>
           /\ r.op = "SWEEP" => Path[r] = <<Market, Cash(r.portfolio)>>
           /\ r.op = "CONTRIBUTE" => Path[r] = <<Market>>
           /\ Len(Path[r]) \in Nat /\ Len(Path[r]) > 0
  BY Operations DEF Path, Fundings, Sides, Desk

\* The rows that a transaction for r writes to, beside its own.
WrittenBy(r) == CASE r.op \in Fundings -> {Bank, Cash(r.portfolio)}
                  [] r.op \in Sides -> {Portfolio(r.portfolio), Cash(r.portfolio), Market}
                  [] r.op = "SWEEP" -> {Market, Cash(r.portfolio)}
                  [] OTHER -> {Market}

LEMMA WrittenFacts ==
    ASSUME NEW r \in Requests
    PROVE  /\ r.op \in Fundings => Bank \in WrittenBy(r)
           /\ r.op \notin Fundings => Market \in WrittenBy(r)
           /\ r.op # "CONTRIBUTE" => Cash(r.portfolio) \in WrittenBy(r)
  BY Operations DEF WrittenBy, Fundings, Sides, Desk

LEMMA PathIsWritten ==
    ASSUME NEW r \in Requests
    PROVE  {Path[r][i] : i \in 1..Len(Path[r])} = WrittenBy(r)
<1>1. CASE r.op \in Fundings
  BY <1>1, PathFacts DEF WrittenBy, Fundings, Sides
<1>2. CASE r.op \in Sides
  BY <1>2, PathFacts DEF WrittenBy, Fundings, Sides
<1>3. CASE r.op = "SWEEP"
  BY <1>3, PathFacts DEF WrittenBy, Fundings, Sides
<1>4. CASE r.op = "CONTRIBUTE"
  BY <1>4, PathFacts DEF WrittenBy, Fundings, Sides
<1> QED
  BY <1>1, <1>2, <1>3, <1>4, Operations DEF Desk

LEMMA CallTypes ==
    ASSUME TypeOK, NEW c \in Calls
    PROVE  /\ calls[c].step = "idle" => calls[c] = Idle
           /\ calls[c].step = "lock" => calls[c] \in Locking
           /\ calls[c].step \in {"write", "record"} => calls[c] \in Writing
           /\ calls[c].step \in {"idle", "lock", "write", "record"}
  BY DEF TypeOK, Locking, Writing, Idle

\* A call that writes holds everything it writes to.
LEMMA WritersHold ==
    ASSUME TypeOK, PathsAreFollowed, NEW c \in Calls, calls[c].step = "write"
    PROVE  Holds(c) = WrittenBy(calls[c].request)
<1>1. calls[c].request \in Requests
  BY CallTypes DEF Writing
<1>2. calls[c].locked = Len(Path[calls[c].request])
  BY DEF PathsAreFollowed
<1> QED
  BY <1>1, <1>2, PathIsWritten DEF Holds

\* Two calls that write share no row.
LEMMA WritersAreApart ==
    ASSUME TypeOK, PathsAreFollowed, LocksAreExclusive,
           NEW c \in Calls, NEW d \in Calls, c # d,
           calls[c].step = "write", calls[d].step = "write"
    PROVE  WrittenBy(calls[c].request) \cap WrittenBy(calls[d].request) = {}
  BY WritersHold DEF LocksAreExclusive

-----------------------------------------------------------------------------
(* What a step does to calls. *)

Enters(c) == /\ calls[c].step = "idle"
             /\ \E r \in Requests, q \in Nat :
                   Goto(c, [step |-> "lock", request |-> r, quote |-> q, locked |-> 0])

Acquires(c) == /\ calls[c].step = "lock" /\ ~Blocked(c)
               /\ calls[c].locked + 1 < Len(Path[calls[c].request])
               /\ Goto(c, [calls[c] EXCEPT !.locked = calls[c].locked + 1])

BeginsToWrite(c) ==
    /\ calls[c].step = "lock" /\ ~Blocked(c)
    /\ calls[c].locked + 1 = Len(Path[calls[c].request])
    /\ Goto(c, [step |-> "write", request |-> calls[c].request, quote |-> calls[c].quote,
                locked |-> calls[c].locked + 1, read |-> Snapshot(calls[c].request)])

\* The order exists already.
Repeats(c) == /\ calls[c].step = "write" /\ calls[c].request \in Rows(calls[c].request)
              /\ Advance(c, "record")

Moves(c) == Enters(c) \/ Acquires(c) \/ BeginsToWrite(c) \/ Repeats(c) \/ Return(c)

\* A commit that changes money writes only what its call has locked.
Spends(c) ==
    LET r == calls[c].request
    IN /\ calls[c].step = "write" /\ Rows(r) = {} /\ Made(c)
       /\ bank' # bank => r.op \in Fundings
       /\ market' # market => r.op \notin Fundings
       /\ \A p \in Portfolios : cash'[p] # cash[p] => r.op # "CONTRIBUTE" /\ p = r.portfolio
       /\ \A p \in Portfolios : holding'[p] # holding[p] => r.op \in Sides /\ p = r.portfolio

Rests == UNCHANGED <<money, made>>

\* The operations whose commit moves money.
Operates(c) == /\ Fund(c) \/ Buy(c) \/ Sell(c) \/ Sweep(c) \/ Contribute(c)
               /\ ~Refuse(c)

\* A commit writes only what its call has locked.
LEMMA OperationsSpend ==
    ASSUME TypeOK, NEW c \in Calls, Operates(c)
    PROVE  Spends(c)
<1> DEFINE r == calls[c].request
<1>1. cash \in [Portfolios -> Int] /\ holding \in [Portfolios -> Int]
  BY DEF TypeOK
<1>2. CASE Fund(c) /\ ~Refuse(c)
  <2>1. Made(c) /\ Rows(r) = {} /\ calls[c].step = "write" /\ r.op \in Fundings
        /\ UNCHANGED <<holding, market>>
    BY <1>2 DEF Fund, Writes
  <2>2. \A p \in Portfolios : cash'[p] # cash[p] => p = r.portfolio
    BY <1>1, <1>2 DEF Fund
  <2> QED
    BY <2>1, <2>2 DEF Spends, Fundings
<1>3. CASE Buy(c) /\ ~Refuse(c)
  <2>1. Made(c) /\ Rows(r) = {} /\ calls[c].step = "write" /\ r.op = "BUY"
        /\ UNCHANGED bank
    BY <1>3 DEF Buy, Writes
  <2>2. \A p \in Portfolios : /\ cash'[p] # cash[p] => p = r.portfolio
                              /\ holding'[p] # holding[p] => p = r.portfolio
    BY <1>1, <1>3 DEF Buy
  <2> QED
    BY <2>1, <2>2 DEF Spends, Fundings, Sides
<1>4. CASE Sell(c) /\ ~Refuse(c)
  <2>1. Made(c) /\ Rows(r) = {} /\ calls[c].step = "write" /\ r.op = "SELL"
        /\ UNCHANGED bank
    BY <1>4 DEF Sell, Writes
  <2>2. \A p \in Portfolios : /\ cash'[p] # cash[p] => p = r.portfolio
                              /\ holding'[p] # holding[p] => p = r.portfolio
    BY <1>1, <1>4 DEF Sell
  <2> QED
    BY <2>1, <2>2 DEF Spends, Fundings, Sides
<1>5. CASE Sweep(c) /\ ~Refuse(c)
  <2>1. Made(c) /\ Rows(r) = {} /\ calls[c].step = "write" /\ r.op = "SWEEP"
        /\ UNCHANGED <<bank, holding>>
    BY <1>5 DEF Sweep, Writes
  <2>2. \A p \in Portfolios : cash'[p] # cash[p] => p = r.portfolio
    BY <1>1, <1>5 DEF Sweep
  <2> QED
    BY <2>1, <2>2 DEF Spends, Fundings, Sides
<1>6. CASE Contribute(c) /\ ~Refuse(c)
  <2>1. Made(c) /\ Rows(r) = {} /\ calls[c].step = "write" /\ r.op = "CONTRIBUTE"
        /\ UNCHANGED <<bank, cash, ledger, holding>>
    BY <1>6 DEF Contribute, Writes
  <2> QED
    BY <2>1 DEF Spends, Fundings, Sides
<1> QED
  BY <1>2, <1>3, <1>4, <1>5, <1>6 DEF Operates

\* Money moves with the commit of one call, and nothing else moves it.
LEMMA StepsSpendOrRest ==
    ASSUME TypeOK, [Next]_vars
    PROVE  \/ \E c \in Calls : Spends(c)
           \/ Rests /\ UNCHANGED calls
           \/ Rests /\ \E c \in Calls : Moves(c)
<1>1. ASSUME NEW c \in Calls, NEW r \in Requests, Submit(c, r)
      PROVE  Rests /\ Moves(c)
  <2>1. Rests
    BY <1>1 DEF Submit, Rests
  <2>2. CASE Return(c)
    BY <2>1, <2>2 DEF Moves
  <2>3. CASE \E seen \in IF r.op \in Fundings THEN {0} ELSE 0..market.version :
                Goto(c, [step |-> "lock", request |-> r, quote |-> seen, locked |-> 0])
    <3>1. market.version \in Nat
      BY DEF TypeOK, MarketRow
    <3>2. PICK seen \in IF r.op \in Fundings THEN {0} ELSE 0..market.version :
                Goto(c, [step |-> "lock", request |-> r, quote |-> seen, locked |-> 0])
      BY <2>3
    <3>3. seen \in Nat
      BY <3>1, <3>2
    <3>4. calls[c].step = "idle"
      BY <1>1 DEF Submit
    <3>5. Enters(c)
      BY <3>2, <3>3, <3>4 DEF Enters
    <3> QED
      BY <2>1, <3>5 DEF Moves
  <2> QED
    BY <1>1, <2>2, <2>3 DEF Submit, Answer
<1>2. ASSUME NEW c \in Calls, Lock(c)
      PROVE  Rests /\ Moves(c)
  BY <1>2 DEF Lock, Rests, Moves, Acquires, BeginsToWrite
<1>3. ASSUME NEW c \in Calls, Operates(c)
      PROVE  Spends(c)
  BY <1>3, OperationsSpend
<1>4. ASSUME NEW c \in Calls, Refuse(c)
      PROVE  Rests /\ Moves(c)
  BY <1>4 DEF Refuse, Rests, Moves
<1>5. ASSUME NEW c \in Calls, ReplayOrder(c)
      PROVE  Rests /\ Moves(c)
  BY <1>5 DEF ReplayOrder, Writes, Refuse, Rests, Moves, Repeats
<1>6. ASSUME NEW c \in Calls, Record(c)
      PROVE  Rests /\ Moves(c)
  BY <1>6 DEF Record, Answer, Rests, Moves
<1>7. ASSUME NEW c \in Calls, Crash(c)
      PROVE  Rests /\ Moves(c)
  BY <1>7 DEF Crash, Rests, Moves
<1>8. ASSUME NEW c \in Calls, AbortDeadlocked(c)
      PROVE  Rests /\ Moves(c)
  BY <1>4, <1>8 DEF AbortDeadlocked
<1>9. ASSUME NEW s, TransitionAsset(s)
      PROVE  Rests /\ UNCHANGED calls
  BY <1>9 DEF TransitionAsset, Rests
<1>10. CASE UNCHANGED vars
  BY <1>10 DEF vars, Rests, money
<1> QED
  BY <1>1, <1>2, <1>3, <1>4, <1>5, <1>6, <1>7, <1>8, <1>9, <1>10 DEF Next, Step, Operates

LEMMA StepsOperateOrRest ==
    ASSUME TypeOK, [Next]_vars
    PROVE  Rests \/ \E c \in Calls : Operates(c)
<1>1. CASE UNCHANGED vars
  BY <1>1 DEF vars, Rests, money
<1>2. ASSUME NEW c \in Calls, Step(c), ~Operates(c)
      PROVE  Rests
  <2>1. CASE Refuse(c)
    BY <2>1 DEF Refuse, Rests
  <2>2. CASE Lock(c) \/ ReplayOrder(c) \/ Record(c)
    BY <2>1, <2>2 DEF Lock, ReplayOrder, Record, Rests
  <2> QED
    BY <1>2, <2>1, <2>2 DEF Step, Operates
<1>3. ASSUME Next
      PROVE  Rests \/ \E c \in Calls : Operates(c)
  BY <1>2, <1>3 DEF Next, Submit, Crash, AbortDeadlocked, Refuse, TransitionAsset, Rests
<1> QED
  BY <1>1, <1>3

-----------------------------------------------------------------------------
(* Locks stay exclusive, paths are followed, and what was read stays true. *)

LEMMA PathsPreserved ==
    ASSUME TypeOK, PathsAreFollowed, [Next]_vars
    PROVE  PathsAreFollowed'
<1> SUFFICES ASSUME NEW d \in Calls
             PROVE  /\ calls'[d].step = "lock" =>
                          calls'[d].locked < Len(Path[calls'[d].request])
                    /\ calls'[d].step = "write" =>
                          calls'[d].locked = Len(Path[calls'[d].request])
  BY DEF PathsAreFollowed
<1>1. DOMAIN calls = Calls
  BY DEF TypeOK
<1>2. CASE UNCHANGED calls
  BY <1>2 DEF PathsAreFollowed
<1>3. ASSUME NEW c \in Calls, Moves(c) \/ Spends(c)
      PROVE  /\ calls'[d].step = "lock" =>
                    calls'[d].locked < Len(Path[calls'[d].request])
             /\ calls'[d].step = "write" =>
                    calls'[d].locked = Len(Path[calls'[d].request])
  <2>1. CASE c # d
    <3>1. calls'[d] = calls[d]
      BY <1>1, <1>3, <2>1 DEF Moves, Enters, Acquires, BeginsToWrite, Repeats, Return,
         Spends, Made, Advance, Goto
    <3> QED
      BY <3>1 DEF PathsAreFollowed
  <2>2. CASE c = d
    <3>1. CASE Enters(c)
      BY <1>1, <2>2, <3>1, PathFacts DEF Enters, Goto
    <3>2. CASE Acquires(c)
      <4>1. calls[c] \in Locking
        BY <3>2, CallTypes DEF Acquires
      <4> QED
        BY <1>1, <2>2, <3>2, <4>1 DEF Acquires, Goto, Locking
    <3>3. CASE BeginsToWrite(c)
      BY <1>1, <2>2, <3>3 DEF BeginsToWrite, Goto
    <3>4. CASE Repeats(c) \/ Spends(c)
      <4>1. calls[c] \in Writing
        BY <3>4, CallTypes DEF Repeats, Spends
      <4> QED
        BY <1>1, <2>2, <3>4, <4>1 DEF Repeats, Spends, Made, Advance, Goto, Writing
    <3>5. CASE Return(c)
      BY <1>1, <2>2, <3>5 DEF Return, Goto, Idle
    <3> QED
      BY <1>3, <3>1, <3>2, <3>3, <3>4, <3>5 DEF Moves
  <2> QED
    BY <2>1, <2>2
<1> QED
  BY <1>2, <1>3, StepsSpendOrRest

\* A step gives at most one call at most one row, and one that nobody holds.
LEMMA LocksGrow ==
    ASSUME TypeOK, NEW c \in Calls, Moves(c) \/ Spends(c)
    PROVE  /\ \A d \in Calls \ {c} : Holds(d)' = Holds(d)
           /\ \A d \in Calls \ {c} : Holds(c)' \cap Holds(d) \subseteq Holds(c)
<1>1. DOMAIN calls = Calls
  BY DEF TypeOK
<1>2. \A d \in Calls \ {c} : Holds(d)' = Holds(d)
  <2>1. \A d \in Calls \ {c} : calls'[d] = calls[d]
    BY <1>1 DEF Moves, Enters, Acquires, BeginsToWrite, Repeats, Return, Spends, Made,
       Advance, Goto
  <2> QED
    BY <2>1 DEF Holds
<1>3. CASE Enters(c)
  <2>1. calls'[c].step = "lock" /\ calls'[c].locked = 0
    BY <1>1, <1>3 DEF Enters, Goto
  <2>2. Holds(c)' = {}
    BY <2>1 DEF Holds
  <2> QED
    BY <1>2, <2>2
<1>4. CASE Acquires(c) \/ BeginsToWrite(c)
  <2> DEFINE r == calls[c].request
             n == calls[c].locked + 1
  <2>1. calls[c] \in Locking /\ calls[c].step = "lock" /\ ~Blocked(c)
    BY <1>4, CallTypes DEF Acquires, BeginsToWrite
  <2>2. n \in Nat /\ n > 0 /\ calls[c].locked = n - 1
    BY <2>1 DEF Locking
  <2>3. /\ calls'[c].step \in {"lock", "write"}
        /\ calls'[c].request = r /\ calls'[c].locked = n
    BY <1>1, <1>4, <2>1 DEF Acquires, BeginsToWrite, Goto, Locking
  <2>4. Holds(c) = {Path[r][i] : i \in 1..(n - 1)}
    BY <2>1, <2>2 DEF Holds
  <2>5. Holds(c)' = {Path[r][i] : i \in 1..n}
    BY <2>3 DEF Holds
  <2>6. Holds(c)' \subseteq Holds(c) \cup {Path[r][n]}
    <3>1. 1..n = 1..(n - 1) \cup {n}
      BY <2>2
    <3> QED
      BY <2>4, <2>5, <3>1
  <2>7. \A d \in Calls \ {c} : Path[r][n] \notin Holds(d)
    <3>1. Needs(c) = {Path[r][n]}
      BY <2>1 DEF Needs
    <3> QED
      BY <2>1, <3>1 DEF Blocked, WaitsFor
  <2> QED
    BY <1>2, <2>6, <2>7
<1>5. CASE Repeats(c) \/ Spends(c) \/ Return(c)
  <2>1. calls[c].step \in {"idle", "lock", "write", "record"}
    BY CallTypes
  <2>2. CASE Return(c)
    <3>1. calls'[c].step = "idle"
      BY <1>1, <2>2 DEF Return, Goto, Idle
    <3>2. Holds(c)' = {}
      BY <3>1 DEF Holds
    <3> QED
      BY <1>2, <3>2
  <2>3. CASE Repeats(c) \/ Spends(c)
    <3>1. calls[c] \in Writing
      BY <2>3, CallTypes DEF Repeats, Spends
    <3>2. calls'[c].step = "record"
      BY <1>1, <2>3, <3>1 DEF Repeats, Spends, Made, Advance, Goto, Writing
    <3>3. Holds(c)' = {}
      BY <3>2 DEF Holds
    <3> QED
      BY <1>2, <3>3
  <2> QED
    BY <1>5, <2>2, <2>3
<1> QED
  BY <1>3, <1>4, <1>5 DEF Moves

LEMMA LocksPreserved ==
    ASSUME TypeOK, LocksAreExclusive, [Next]_vars
    PROVE  LocksAreExclusive'
<1>1. CASE UNCHANGED calls
  <2>1. \A c \in Calls : Holds(c)' = Holds(c)
    BY <1>1 DEF Holds
  <2> QED
    BY <2>1 DEF LocksAreExclusive
<1>2. ASSUME NEW c \in Calls, Moves(c) \/ Spends(c)
      PROVE  LocksAreExclusive'
  <2> SUFFICES ASSUME NEW a \in Calls, NEW b \in Calls, a # b
               PROVE  Holds(a)' \cap Holds(b)' = {}
    BY DEF LocksAreExclusive
  <2>1. Holds(a) \cap Holds(b) = {}
    BY DEF LocksAreExclusive
  <2>2. /\ \A d \in Calls \ {c} : Holds(d)' = Holds(d)
        /\ \A d \in Calls \ {c} : Holds(c)' \cap Holds(d) \subseteq Holds(c)
    BY <1>2, LocksGrow
  <2>3. CASE a = c
    BY <2>1, <2>2, <2>3
  <2>4. CASE b = c
    BY <2>1, <2>2, <2>4
  <2>5. CASE a # c /\ b # c
    BY <2>1, <2>2, <2>5
  <2> QED
    BY <2>3, <2>4, <2>5
<1> QED
  BY <1>1, <1>2, StepsSpendOrRest

LEMMA ReadsPreserved ==
    ASSUME TypeOK, PathsAreFollowed, LocksAreExclusive, ReadsAreCurrent, [Next]_vars
    PROVE  ReadsAreCurrent'
<1> SUFFICES ASSUME NEW d \in Calls, calls'[d].step = "write"
             PROVE  LET r == calls'[d].request
                        read == calls'[d].read
                    IN /\ r.op \in Fundings => read.bank = bank'
                       /\ r.op # "CONTRIBUTE" => read.cash = cash'[r.portfolio]
                       /\ r.op \in Sides => read.holding = holding'[r.portfolio]
                       /\ r.op \notin Fundings => read.market = market'
  BY DEF ReadsAreCurrent
<1> DEFINE r == calls[d].request
<1>1. DOMAIN calls = Calls
  BY DEF TypeOK
<1>2. CASE Rests /\ UNCHANGED calls
  BY <1>2 DEF Rests, money, ReadsAreCurrent
<1>3. ASSUME NEW c \in Calls, Moves(c) \/ Spends(c), c # d
      PROVE  calls'[d] = calls[d]
  BY <1>1, <1>3 DEF Moves, Enters, Acquires, BeginsToWrite, Repeats, Return, Spends, Made,
     Advance, Goto
<1>4. ASSUME NEW c \in Calls, Moves(c), Rests
      PROVE  LET q == calls'[d].request
                 read == calls'[d].read
             IN /\ q.op \in Fundings => read.bank = bank'
                /\ q.op # "CONTRIBUTE" => read.cash = cash'[q.portfolio]
                /\ q.op \in Sides => read.holding = holding'[q.portfolio]
                /\ q.op \notin Fundings => read.market = market'
  <2>1. CASE c # d
    BY <1>3, <1>4, <2>1 DEF Rests, money, ReadsAreCurrent
  <2>2. CASE c = d
    <3>1. CASE BeginsToWrite(c)
      <4>1. calls'[d].request = r /\ calls'[d].read = Snapshot(r)
        BY <1>1, <2>2, <3>1 DEF BeginsToWrite, Goto
      <4> QED
        BY <1>4, <4>1 DEF Snapshot, Rests, money
    <3>2. CASE Enters(c) \/ Return(c)
      BY <1>1, <2>2, <3>2 DEF Enters, Return, Goto, Idle
    <3>3. CASE Acquires(c)
      <4>1. calls[c] \in Locking
        BY <3>3, CallTypes DEF Acquires
      <4> QED
        BY <1>1, <2>2, <3>3, <4>1 DEF Acquires, Goto, Locking
    <3>4. CASE Repeats(c)
      <4>1. calls[c] \in Writing
        BY <3>4, CallTypes DEF Repeats
      <4> QED
        BY <1>1, <2>2, <3>4, <4>1 DEF Repeats, Advance, Goto, Writing
    <3> QED
      BY <1>4, <3>1, <3>2, <3>3, <3>4 DEF Moves
  <2> QED
    BY <2>1, <2>2
<1>5. ASSUME NEW c \in Calls, Spends(c)
      PROVE  LET q == calls'[d].request
                 read == calls'[d].read
             IN /\ q.op \in Fundings => read.bank = bank'
                /\ q.op # "CONTRIBUTE" => read.cash = cash'[q.portfolio]
                /\ q.op \in Sides => read.holding = holding'[q.portfolio]
                /\ q.op \notin Fundings => read.market = market'
  <2> DEFINE w == calls[c].request
  <2>1. c # d
    <3>1. calls[c] \in Writing
      BY <1>5, CallTypes DEF Spends
    <3> QED
      BY <1>1, <1>5, <3>1 DEF Spends, Made, Advance, Goto, Writing
  <2>2. calls'[d] = calls[d] /\ calls[d].step = "write"
    BY <1>3, <1>5, <2>1
  <2>3. r \in Requests /\ w \in Requests
    BY <1>5, <2>2, CallTypes DEF Writing, Spends
  <2>4. WrittenBy(w) \cap WrittenBy(r) = {}
    BY <1>5, <2>1, <2>2, WritersAreApart DEF Spends
  <2>5. r.op \in Fundings => w.op \notin Fundings
    BY <2>3, <2>4, WrittenFacts
  <2>6. r.op \notin Fundings => w.op \in Fundings
    BY <2>3, <2>4, WrittenFacts
  <2>7. r.op # "CONTRIBUTE" /\ w.op # "CONTRIBUTE" => w.portfolio # r.portfolio
    BY <2>3, <2>4, WrittenFacts
  <2>8. r.op \in Sides => w.op \notin Sides \/ w.portfolio # r.portfolio
    BY <2>7 DEF Sides
  <2>9. r.portfolio \in Portfolios
    BY <2>3, Operations
  <2> QED
    BY <1>5, <2>2, <2>5, <2>6, <2>7, <2>8, <2>9 DEF Spends, ReadsAreCurrent
<1> QED
  BY <1>2, <1>4, <1>5, StepsSpendOrRest

-----------------------------------------------------------------------------
(* Types. *)

LEMMA CallsTyped ==
    ASSUME TypeOK, [Next]_vars
    PROVE  calls' \in [Calls -> Locking \cup Writing \cup {Idle}]
<1>1. CASE UNCHANGED calls
  BY <1>1 DEF TypeOK
<1>2. ASSUME NEW c \in Calls, Moves(c) \/ Spends(c)
      PROVE  calls' \in [Calls -> Locking \cup Writing \cup {Idle}]
  <2> SUFFICES ASSUME NEW call \in Locking \cup Writing \cup {Idle}, Goto(c, call)
               PROVE  calls' \in [Calls -> Locking \cup Writing \cup {Idle}]
    <3>1. CASE Enters(c)
      <4>1. PICK r \in Requests, q \in Nat :
               Goto(c, [step |-> "lock", request |-> r, quote |-> q, locked |-> 0])
        BY <3>1 DEF Enters
      <4>2. [step |-> "lock", request |-> r, quote |-> q, locked |-> 0] \in Locking
        BY DEF Locking
      <4> QED
        BY <4>1, <4>2
    <3>2. CASE Acquires(c)
      <4>1. calls[c] \in Locking
        BY <3>2, CallTypes DEF Acquires
      <4>2. [calls[c] EXCEPT !.locked = calls[c].locked + 1] \in Locking
        BY <4>1 DEF Locking
      <4> QED
        BY <3>2, <4>2 DEF Acquires
    <3>3. CASE BeginsToWrite(c)
      <4>1. calls[c] \in Locking
        BY <3>3, CallTypes DEF BeginsToWrite
      <4>2. calls[c].request \in Requests /\ calls[c].quote \in Nat /\ calls[c].locked + 1 \in Nat
        BY <4>1 DEF Locking
      <4>3. Snapshot(calls[c].request) \in Read
        BY <4>2, Operations DEF Snapshot, Read, TypeOK
      <4>4. [step |-> "write", request |-> calls[c].request, quote |-> calls[c].quote,
             locked |-> calls[c].locked + 1, read |-> Snapshot(calls[c].request)] \in Writing
        BY <4>2, <4>3 DEF Writing
      <4> QED
        BY <3>3, <4>4 DEF BeginsToWrite
    <3>4. CASE Repeats(c) \/ Spends(c)
      <4>1. calls[c] \in Writing
        BY <3>4, CallTypes DEF Repeats, Spends
      <4>2. [calls[c] EXCEPT !.step = "record"] \in Writing
        BY <4>1 DEF Writing
      <4> QED
        BY <3>4, <4>2 DEF Repeats, Spends, Made, Advance
    <3>5. CASE Return(c)
      BY <3>5 DEF Return
    <3> QED
      BY <1>2, <3>1, <3>2, <3>3, <3>4, <3>5 DEF Moves
  <2> QED
    BY DEF Goto, TypeOK
<1> QED
  BY <1>1, <1>2, StepsSpendOrRest

\* The values that an order, a sweep or a contribution writes are typed.
LEMMA BoughtTyped ==
    ASSUME NEW n \in Nat, NEW m \in MarketRow
    PROVE  Bought(n, m) \in MarketRow /\ Sold(n, m) \in MarketRow
<1>1. Fee(n) \in Nat /\ Payout(n) \in Nat
  BY FeeIsPart, PayoutIsPart
<1>2. /\ m.supply + n - Fee(n) \in Int /\ m.reserve + n - Fee(n) \in Int
      /\ m.supply - n \in Int /\ m.reserve - Payout(n) - Fee(n) \in Int
      /\ m.revenue + Fee(n) \in Int /\ m.version + 1 \in Nat
  BY <1>1 DEF MarketRow
<1>3. Bought(n, m) \in MarketRow
  BY <1>2 DEF Bought, MarketRow
<1>4. Sold(n, m) \in MarketRow
  BY <1>2 DEF Sold, MarketRow
<1> QED
  BY <1>3, <1>4

LEMMA RoundedTyped ==
    ASSUME NEW n \in Int
    PROVE  Rounded(n) \in Int
<1>1. Cent \in Nat /\ Cent > 0
  BY TerminalAssumption
<1>2. (2 * n + Cent) \div (2 * Cent) \in Int
  BY <1>1, SMT
<1> QED
  BY <1>1, <1>2 DEF Rounded

LEMMA TypesPreserved ==
    ASSUME TypeOK, [Next]_vars
    PROVE  TypeOK'
<1> DEFINE Money == /\ bank' \in Int /\ market' \in MarketRow
                    /\ cash' \in [Portfolios -> Int] /\ ledger' \in [Portfolios -> Int]
                    /\ holding' \in [Portfolios -> Int]
           Rest == /\ status' \in {"ACTIVE", "HALTED", "REDEMPTION_ONLY", "CLOSED"}
                   /\ made' \in [Requests -> Nat]
                   /\ records' \in [Keys -> Requests \cup {NoRequest}]
                   /\ receipts' \subseteq Requests \X Requests
                   /\ starts' \in Nat /\ faults' \in Nat /\ moves' \in Nat
<1>1. calls' \in [Calls -> Locking \cup Writing \cup {Idle}]
  BY CallsTyped
<1>2. ASSUME NEW c \in Calls, calls[c].step = "write"
      PROVE  /\ calls[c].request \in Requests
             /\ calls[c].request.amount \in Nat /\ calls[c].request.portfolio \in Portfolios
             /\ calls[c].read.bank \in Int /\ calls[c].read.cash \in Int
             /\ calls[c].read.holding \in Int /\ calls[c].read.market \in MarketRow
  <2>1. calls[c] \in Writing
    BY <1>2, CallTypes
  <2>2. calls[c].request \in Requests /\ calls[c].read \in Read
    BY <2>1 DEF Writing
  <2> QED
    BY <2>2, Operations DEF Read
<1>3. ASSUME NEW c \in Calls, Made(c), calls[c].request \in Requests
      PROVE  Rest
  BY <1>3 DEF Made, TypeOK
<1>4. ASSUME NEW c \in Calls, Refuse(c)
      PROVE  Money /\ Rest
  BY <1>4 DEF Refuse, money, TypeOK
<1>5. ASSUME NEW c \in Calls, NEW r \in Requests, Submit(c, r)
      PROVE  Money /\ Rest
  BY <1>5 DEF Submit, Answer, Rows, money, TypeOK
<1>6. ASSUME NEW c \in Calls, Lock(c)
      PROVE  Money /\ Rest
  BY <1>6 DEF Lock, money, TypeOK
<1>7. ASSUME NEW c \in Calls, Fund(c)
      PROVE  Money /\ Rest
  <2>1. CASE ~Refuse(c)
    <3>1. Rest
      BY <1>2, <1>3, <1>7, <2>1 DEF Fund, Writes
    <3>2. Money
      BY <1>2, <1>7, <2>1 DEF Fund, Writes, TypeOK
    <3> QED
      BY <3>1, <3>2
  <2> QED
    BY <1>4, <2>1
<1>8. ASSUME NEW c \in Calls, Buy(c)
      PROVE  Money /\ Rest
  <2> DEFINE n == calls[c].request.amount
  <2>1. CASE ~Refuse(c)
    <3>1. Rest
      BY <1>2, <1>3, <1>8, <2>1 DEF Buy, Writes
    <3>2. calls[c].step = "write" /\ n \in Nat /\ Fee(n) \in Nat /\ Fee(n) <= n
      BY <1>2, <1>8, FeeIsPart DEF Buy, Writes
    <3>3. /\ Rounded(calls[c].read.cash - n) \in Int
          /\ Rounded(Fee(n)) \in Int /\ Rounded(n - Fee(n)) \in Int
      BY <1>2, <3>2, RoundedTyped
    <3>4. Bought(n, calls[c].read.market) \in MarketRow
      BY <1>2, <3>2, BoughtTyped
    <3>5. Money
      BY <1>2, <1>8, <2>1, <3>2, <3>3, <3>4 DEF Buy, TypeOK
    <3> QED
      BY <3>1, <3>5
  <2> QED
    BY <1>4, <2>1
<1>9. ASSUME NEW c \in Calls, Sell(c)
      PROVE  Money /\ Rest
  <2> DEFINE n == calls[c].request.amount
  <2>1. CASE ~Refuse(c)
    <3>1. Rest
      BY <1>2, <1>3, <1>9, <2>1 DEF Sell, Writes
    <3>2. calls[c].step = "write" /\ n \in Nat /\ Fee(n) \in Nat /\ Payout(n) \in Nat
      BY <1>2, <1>9, FeeIsPart, PayoutIsPart DEF Sell, Writes
    <3>3. Rounded(Fee(n)) \in Int /\ Rounded(n) \in Int
      BY <3>2, RoundedTyped
    <3>4. Sold(n, calls[c].read.market) \in MarketRow
      BY <1>2, <3>2, BoughtTyped
    <3>5. Money
      BY <1>2, <1>9, <2>1, <3>2, <3>3, <3>4 DEF Sell, TypeOK
    <3> QED
      BY <3>1, <3>5
  <2> QED
    BY <1>4, <2>1
<1>10. ASSUME NEW c \in Calls, ReplayOrder(c)
       PROVE  Money /\ Rest
  BY <1>4, <1>10 DEF ReplayOrder, money, TypeOK
<1>11. ASSUME NEW c \in Calls, Sweep(c)
       PROVE  Money /\ Rest
  <2>1. CASE ~Refuse(c)
    <3>1. Rest
      BY <1>2, <1>3, <1>11, <2>1 DEF Sweep, Writes
    <3>2. /\ calls[c].read.market.revenue - calls[c].request.amount \in Int
          /\ market \in MarketRow /\ market.version + 1 \in Nat
      BY <1>2, <1>11 DEF Sweep, Writes, TypeOK, MarketRow
    <3>3. market' \in MarketRow
      BY <1>11, <2>1, <3>2 DEF Sweep, MarketRow
    <3>4. Money
      BY <1>2, <1>11, <2>1, <3>3 DEF Sweep, Writes, TypeOK
    <3> QED
      BY <3>1, <3>4
  <2> QED
    BY <1>4, <2>1
<1>12. ASSUME NEW c \in Calls, Contribute(c)
       PROVE  Money /\ Rest
  <2>1. CASE ~Refuse(c)
    <3>1. Rest
      BY <1>2, <1>3, <1>12, <2>1 DEF Contribute, Writes
    <3>2. /\ calls[c].read.market.stabilization + calls[c].request.amount \in Int
          /\ calls[c].read.market.revenue - calls[c].request.amount \in Int
          /\ market \in MarketRow /\ market.version + 1 \in Nat
      BY <1>2, <1>12 DEF Contribute, Writes, TypeOK, MarketRow
    <3>3. market' \in MarketRow
      BY <1>12, <2>1, <3>2 DEF Contribute, MarketRow
    <3>4. Money
      BY <1>2, <1>12, <2>1, <3>3 DEF Contribute, Writes, TypeOK
    <3> QED
      BY <3>1, <3>4
  <2> QED
    BY <1>4, <2>1
<1>13. ASSUME NEW c \in Calls, Record(c)
       PROVE  Money /\ Rest
  <2>1. calls[c].request \in Requests
    BY <1>13, CallTypes DEF Record, Writing
  <2> QED
    BY <1>13, <2>1 DEF Record, Answer, money, TypeOK
<1>14. ASSUME NEW c \in Calls, Crash(c)
       PROVE  Money /\ Rest
  BY <1>14 DEF Crash, money, TypeOK
<1>15. ASSUME NEW c \in Calls, AbortDeadlocked(c)
       PROVE  Money /\ Rest
  BY <1>4, <1>15 DEF AbortDeadlocked
<1>16. ASSUME NEW s \in {"ACTIVE", "HALTED", "REDEMPTION_ONLY", "CLOSED"}, TransitionAsset(s)
       PROVE  Money /\ Rest
  BY <1>16 DEF TransitionAsset, money, TypeOK
<1>17. ASSUME UNCHANGED vars
       PROVE  Money /\ Rest
  BY <1>17 DEF vars, TypeOK
<1> HIDE DEF Money, Rest
<1>18. ASSUME NEW c \in Calls, Step(c)
       PROVE  Money /\ Rest
  BY <1>6, <1>7, <1>8, <1>9, <1>10, <1>11, <1>12, <1>13, <1>18 DEF Step
<1>19. ASSUME Next
       PROVE  Money /\ Rest
  BY <1>5, <1>14, <1>15, <1>16, <1>18, <1>19 DEF Next
<1>20. Money /\ Rest
  BY <1>17, <1>19
<1> QED
  BY <1>1, <1>20 DEF TypeOK, Money, Rest

-----------------------------------------------------------------------------
(* One effect for each key. *)

LEMMA Spent ==
    ASSUME TypeOK, OncePerKey, NEW c \in Calls, Spends(c)
    PROVE  LET r == calls[c].request
           IN /\ r \in Requests
              /\ made' = [made EXCEPT ![r] = 1]
              /\ \A q \in Requests : Key[q] = Key[r] => made[q] = 0
              /\ UNCHANGED receipts
<1> DEFINE r == calls[c].request
<1>1. r \in Requests
  BY CallTypes DEF Spends, Writing
<1>2. \A q \in Requests : Key[q] = Key[r] => made[q] = 0
  <2>1. \A q \in Requests : made[q] \in Nat
    BY DEF TypeOK
  <2>2. Rows(r) = {}
    BY DEF Spends
  <2> QED
    BY <2>1, <2>2 DEF Rows
<1>3. made[r] = 0
  BY <1>1, <1>2
<1>4. made' = [made EXCEPT ![r] = 1] /\ UNCHANGED receipts
  BY <1>1, <1>3 DEF Spends, Made, TypeOK
<1> QED
  BY <1>1, <1>2, <1>4

LEMMA OncePreserved ==
    ASSUME TypeOK, OncePerKey, [Next]_vars
    PROVE  OncePerKey'
<1>1. CASE Rests
  BY <1>1 DEF Rests, OncePerKey
<1>2. ASSUME NEW c \in Calls, Spends(c)
      PROVE  OncePerKey'
  <2> DEFINE w == calls[c].request
  <2>1. /\ w \in Requests /\ made' = [made EXCEPT ![w] = 1]
        /\ \A q \in Requests : Key[q] = Key[w] => made[q] = 0
    BY <1>2, Spent
  <2>2. \A q \in Requests : made'[q] = IF q = w THEN 1 ELSE made[q]
    BY <2>1 DEF TypeOK
  <2> HIDE DEF w
  <2> QED
    BY <2>1, <2>2 DEF OncePerKey
<1> QED
  BY <1>1, <1>2, StepsSpendOrRest

\* What has been made stays made.
LEMMA MadeStays ==
    ASSUME TypeOK, OncePerKey, [Next]_vars, NEW q \in Requests, made[q] = 1
    PROVE  made'[q] = 1
<1>1. CASE Rests
  BY <1>1 DEF Rests
<1>2. ASSUME NEW c \in Calls, Spends(c)
      PROVE  made'[q] = 1
  BY <1>2, Spent DEF TypeOK
<1> QED
  BY <1>1, <1>2, StepsSpendOrRest

\* Only Record stores a result, and a call stores one that has been made.
LEMMA ResultsPreserved ==
    ASSUME TypeOK, OncePerKey, ResultsAreMade, [Next]_vars
    PROVE  ResultsAreMade'
<1>1. NoRequest \notin Requests
  BY Operations DEF NoRequest, Fundings, Sides, Desk
<1>2. \A k \in Keys : records'[k] = records[k] \/
                      \E c \in Calls : /\ calls[c].step = "record"
                                       /\ records'[k] = calls[c].request
  <2>1. CASE UNCHANGED records
    BY <2>1
  <2>2. ASSUME NEW c \in Calls, Record(c)
        PROVE  \A k \in Keys : records'[k] = records[k] \/
                      \E d \in Calls : /\ calls[d].step = "record"
                                       /\ records'[k] = calls[d].request
    BY <2>2 DEF Record, TypeOK
  <2>3. UNCHANGED records \/ \E c \in Calls : Record(c)
    BY ZenonT(30) DEF Next, vars, Step, Submit, Lock, Fund, Buy, Sell, ReplayOrder, Sweep, Contribute,
       Refuse, Made, Crash, AbortDeadlocked, TransitionAsset
  <2> QED
    BY <2>1, <2>2, <2>3
<1>3. ASSUME NEW k \in Keys, records'[k] # NoRequest
      PROVE  made'[records'[k]] = 1
  <2>1. records[k] \in Requests \cup {NoRequest}
    BY <1>3 DEF TypeOK
  <2>2. CASE records'[k] = records[k]
    BY <1>3, <2>1, <2>2, MadeStays DEF ResultsAreMade
  <2>3. ASSUME NEW c \in Calls, calls[c].step = "record", records'[k] = calls[c].request
        PROVE  made'[records'[k]] = 1
    <3>1. calls[c].request \in Requests
      BY <2>3, CallTypes DEF Writing
    <3> QED
      BY <2>3, <3>1, MadeStays DEF ResultsAreMade
  <2> QED
    BY <1>2, <1>3, <2>2, <2>3
<1>4. ASSUME NEW d \in Calls, calls'[d].step = "record"
      PROVE  made'[calls'[d].request] = 1
  <2>1. DOMAIN calls = Calls
    BY DEF TypeOK
  <2>2. CASE calls'[d] = calls[d]
    <3>1. calls[d].request \in Requests
      BY <1>4, <2>2, CallTypes DEF Writing
    <3> QED
      BY <1>4, <2>2, <3>1, MadeStays DEF ResultsAreMade
  <2>3. CASE Spends(d)
    <3>1. calls[d] \in Writing
      BY <2>3, CallTypes DEF Spends
    <3>2. calls'[d].request = calls[d].request
      BY <2>1, <2>3, <3>1 DEF Spends, Made, Advance, Goto, Writing
    <3> QED
      BY <2>3, <3>2, Spent DEF TypeOK
  <2>4. CASE Repeats(d)
    <3>1. calls[d] \in Writing /\ calls[d].request \in Requests
      BY <2>4, CallTypes DEF Repeats, Writing
    <3>2. calls'[d].request = calls[d].request
      BY <2>1, <2>4, <3>1 DEF Repeats, Advance, Goto, Writing
    <3>3. made[calls[d].request] = 1
      BY <2>4, <3>1 DEF Repeats, Rows, OncePerKey
    <3> QED
      BY <3>1, <3>2, <3>3, MadeStays
  <2>5. ASSUME NEW c \in Calls, Moves(c) \/ Spends(c), c # d
        PROVE  calls'[d] = calls[d]
    BY <2>1, <2>5 DEF Moves, Enters, Acquires, BeginsToWrite, Repeats, Return, Spends, Made,
       Advance, Goto
  <2>6. ~Enters(d) /\ ~BeginsToWrite(d) /\ ~Return(d)
    BY <1>4, <2>1 DEF Enters, BeginsToWrite, Return, Goto, Idle
  <2>7. ~Acquires(d)
    <3>1. SUFFICES ASSUME Acquires(d)
                   PROVE  FALSE
      OBVIOUS
    <3>2. calls[d] \in Locking
      BY <3>1, CallTypes DEF Acquires
    <3> QED
      BY <1>4, <2>1, <3>1, <3>2 DEF Acquires, Goto, Locking
  <2> QED
    BY <2>2, <2>3, <2>4, <2>5, <2>6, <2>7, StepsSpendOrRest DEF Moves
<1> QED
  BY <1>3, <1>4 DEF ResultsAreMade

-----------------------------------------------------------------------------
(* Nothing is overdrawn: what a call checks is what it then changes. *)

LEMMA OverdraftsPreserved ==
    ASSUME TypeOK, ReadsAreCurrent, NothingIsOverdrawn, [Next]_vars
    PROVE  NothingIsOverdrawn'
<1>1. CASE Rests
  BY <1>1 DEF Rests, money, NothingIsOverdrawn
<1>2. ASSUME NEW c \in Calls, calls[c].step = "write"
      PROVE  LET r == calls[c].request
                 read == calls[c].read
             IN /\ r.amount \in Nat /\ r.portfolio \in Portfolios
                /\ r.op \in Fundings => read.bank = bank
                /\ r.op # "CONTRIBUTE" => read.cash = cash[r.portfolio]
                /\ r.op \in Sides => read.holding = holding[r.portfolio]
                /\ r.op \notin Fundings => read.market = market
  <2>1. calls[c].request \in Requests
    BY <1>2, CallTypes DEF Writing
  <2> QED
    BY <1>2, <2>1, Operations DEF ReadsAreCurrent
<1>3. /\ bank \in Int /\ market \in MarketRow
      /\ market.revenue \in Int /\ market.stabilization \in Int
      /\ cash \in [Portfolios -> Int] /\ holding \in [Portfolios -> Int]
  BY DEF TypeOK, MarketRow
<1>4. ASSUME NEW c \in Calls, Fund(c), ~Refuse(c)
      PROVE  NothingIsOverdrawn'
  BY <1>2, <1>3, <1>4 DEF Fund, Writes, NothingIsOverdrawn, Fundings
<1>5. ASSUME NEW c \in Calls, Buy(c), ~Refuse(c)
      PROVE  NothingIsOverdrawn'
  <2> DEFINE n == calls[c].request.amount
             p == calls[c].request.portfolio
  <2>1. /\ n \in Nat /\ p \in Portfolios /\ n <= cash[p]
        /\ calls[c].read.cash = cash[p] /\ calls[c].read.holding = holding[p]
        /\ calls[c].read.market = market
    BY <1>2, <1>3, <1>5 DEF Buy, Writes, Sides, Fundings
  <2>2. cash[p] - n \in Nat
    BY <1>3, <2>1
  <2>3. Fee(n) \in Nat /\ Fee(n) <= n /\ Rounded(cash[p] - n) \in Nat
    BY <2>1, <2>2, FeeIsPart, RoundedIsNear
  <2>4. /\ bank' = bank /\ market' = Bought(n, market)
        /\ cash' = [cash EXCEPT ![p] = Rounded(cash[p] - n)]
        /\ holding' = [holding EXCEPT ![p] = holding[p] + n - Fee(n)]
    BY <1>5, <2>1 DEF Buy
  <2>5. market'.revenue = market.revenue + Fee(n) /\ market'.stabilization = market.stabilization
    BY <1>3, <2>4 DEF Bought, MarketRow
  <2> HIDE DEF n, p
  <2> QED
    BY <1>3, <2>1, <2>3, <2>4, <2>5 DEF NothingIsOverdrawn
<1>6. ASSUME NEW c \in Calls, Sell(c), ~Refuse(c)
      PROVE  NothingIsOverdrawn'
  <2> DEFINE n == calls[c].request.amount
             p == calls[c].request.portfolio
  <2>1. /\ n \in Nat /\ p \in Portfolios /\ n <= holding[p]
        /\ calls[c].read.cash = cash[p] /\ calls[c].read.holding = holding[p]
        /\ calls[c].read.market = market
    BY <1>2, <1>3, <1>6 DEF Sell, Writes, Sides, Fundings
  <2>2. Fee(n) \in Nat /\ Payout(n) \in Nat
    BY <2>1, FeeIsPart, PayoutIsPart
  <2>3. /\ bank' = bank /\ market' = Sold(n, market)
        /\ cash' = [cash EXCEPT ![p] = cash[p] + Payout(n)]
        /\ holding' = [holding EXCEPT ![p] = holding[p] - n]
    BY <1>6, <2>1 DEF Sell
  <2>4. market'.revenue = market.revenue + Fee(n) /\ market'.stabilization = market.stabilization
    BY <1>3, <2>3 DEF Sold, MarketRow
  <2> HIDE DEF n, p
  <2> QED
    BY <1>3, <2>1, <2>2, <2>3, <2>4 DEF NothingIsOverdrawn
<1>7. ASSUME NEW c \in Calls, Sweep(c), ~Refuse(c)
      PROVE  NothingIsOverdrawn'
  <2>1. /\ calls[c].request.amount \in Nat
        /\ calls[c].request.amount <= market.revenue
        /\ calls[c].read.market = market
        /\ calls[c].read.cash = cash[calls[c].request.portfolio]
    BY <1>2, <1>3, <1>7 DEF Sweep, Writes, Fundings
  <2>2. /\ market'.revenue = market.revenue - calls[c].request.amount
        /\ market'.stabilization = market.stabilization
    BY <1>3, <1>7, <2>1 DEF Sweep, MarketRow
  <2> QED
    BY <1>3, <1>7, <2>1, <2>2 DEF Sweep, NothingIsOverdrawn
<1>8. ASSUME NEW c \in Calls, Contribute(c), ~Refuse(c)
      PROVE  NothingIsOverdrawn'
  <2>1. /\ calls[c].request.amount \in Nat
        /\ calls[c].request.amount <= market.revenue
        /\ calls[c].read.market = market
    BY <1>2, <1>3, <1>8 DEF Contribute, Writes, Fundings
  <2>2. /\ market'.revenue = market.revenue - calls[c].request.amount
        /\ market'.stabilization = market.stabilization + calls[c].request.amount
    BY <1>3, <1>8, <2>1 DEF Contribute, MarketRow
  <2> QED
    BY <1>3, <1>8, <2>1, <2>2 DEF Contribute, NothingIsOverdrawn
<1> QED
  BY <1>1, <1>4, <1>5, <1>6, <1>7, <1>8, StepsOperateOrRest DEF Operates

-----------------------------------------------------------------------------
(* Theorems. *)

LEMMA InitIInv == Init => IInv
<1> SUFFICES ASSUME Init
             PROVE  IInv
  OBVIOUS
<1>1. CoinStart * Cardinality(Portfolios) \in Nat
  BY FS_CardinalityType, TerminalAssumption
<1>2. market \in MarketRow /\ market.revenue = RevenueStart /\ market.stabilization = 0
  BY <1>1, TerminalAssumption DEF Init, MarketRow
<1>3. \A c \in Calls : calls[c] = Idle /\ calls[c].step = "idle"
  BY DEF Init, Idle
<1>4. TypeOK
  BY <1>2, TerminalAssumption DEF Init, TypeOK
<1>5. LocksAreExclusive
  BY <1>3 DEF LocksAreExclusive, Holds
<1>6. PathsAreFollowed /\ ReadsAreCurrent /\ ResultsAreMade
  BY <1>3 DEF PathsAreFollowed, ReadsAreCurrent, ResultsAreMade, Init
<1>7. OncePerKey
  BY DEF Init, OncePerKey
<1>8. NothingIsOverdrawn
  BY <1>2, TerminalAssumption DEF Init, NothingIsOverdrawn
<1> QED
  BY <1>4, <1>5, <1>6, <1>7, <1>8 DEF IInv

LEMMA NextIInv == IInv /\ [Next]_vars => IInv'
  BY TypesPreserved, PathsPreserved, LocksPreserved, ReadsPreserved, OncePreserved,
     ResultsPreserved, OverdraftsPreserved DEF IInv

(* Locks are exclusive, what a writing call has read is still true, every key
   has at most one effect and every stored result was made, for any portfolios,
   calls, requests, amounts, fee and faults. *)
THEOREM TerminalInvariant == Spec => []IInv
<1>1. Init => IInv
  BY InitIInv
<1>2. IInv /\ [Next]_vars => IInv'
  BY NextIInv
<1> QED
  BY <1>1, <1>2, PTL DEF Spec

(* No balance, pot or wallet falls below zero, although every write is of a
   value computed from an earlier read. *)
THEOREM NothingIsSpentTwice == Spec => []NothingIsOverdrawn
<1>1. IInv => NothingIsOverdrawn
  BY DEF IInv
<1> QED
  BY <1>1, TerminalInvariant, PTL

-----------------------------------------------------------------------------
(* The refinement of OneEffect. *)

LEMMA AnswersAreOfMade ==
    ASSUME TypeOK, OncePerKey, ResultsAreMade, [Next]_vars
    PROVE  \/ UNCHANGED receipts
           \/ \E r, q \in Requests : /\ made[q] = 1 /\ Key[q] = Key[r]
                                     /\ receipts' = receipts \cup {<<r, q>>}
                                     /\ UNCHANGED made
<1>1. ASSUME NEW c \in Calls, NEW r \in Requests, Submit(c, r)
      PROVE  \/ UNCHANGED receipts
             \/ \E q \in Requests : /\ made[q] = 1 /\ Key[q] = Key[r]
                                    /\ receipts' = receipts \cup {<<r, q>>}
                                    /\ UNCHANGED made
  <2>1. ASSUME NEW q \in Rows(r), Answer(c, r, q)
        PROVE  \E p \in Requests : /\ made[p] = 1 /\ Key[p] = Key[r]
                                   /\ receipts' = receipts \cup {<<r, p>>}
                                   /\ UNCHANGED made
    <3>1. q \in Requests /\ Key[q] = Key[r] /\ made[q] = 1
      BY DEF Rows, OncePerKey
    <3> QED
      BY <1>1, <2>1, <3>1 DEF Submit, Answer
  <2>2. ASSUME records[Key[r]] = r, Answer(c, r, r)
        PROVE  /\ made[r] = 1
               /\ receipts' = receipts \cup {<<r, r>>}
               /\ UNCHANGED made
    <3>1. Key[r] \in Keys /\ r # NoRequest
      BY Operations DEF Keys, NoRequest, Fundings, Sides, Desk
    <3>2. made[records[Key[r]]] = 1
      BY <2>2, <3>1 DEF ResultsAreMade
    <3> QED
      BY <1>1, <2>2, <3>2 DEF Submit, Answer
  <2> QED
    BY <1>1, <2>1, <2>2 DEF Submit
<1>2. ASSUME NEW c \in Calls, Record(c)
      PROVE  \/ UNCHANGED receipts
             \/ \E r \in Requests : /\ made[r] = 1
                                    /\ receipts' = receipts \cup {<<r, r>>}
                                    /\ UNCHANGED made
  <2>1. calls[c].request \in Requests /\ made[calls[c].request] = 1
    BY <1>2, CallTypes DEF Record, Writing, ResultsAreMade
  <2> QED
    BY <1>2, <2>1 DEF Record, Answer
<1>3. CASE UNCHANGED receipts
  BY <1>3
<1>4. \/ UNCHANGED receipts
      \/ \E c \in Calls : Record(c) \/ \E r \in Requests : Submit(c, r)
  BY ZenonT(30) DEF Next, vars, Step, Lock, Fund, Buy, Sell, ReplayOrder, Sweep, Contribute,
     Refuse, Made, Crash, AbortDeadlocked, TransitionAsset
<1> QED
  BY <1>1, <1>2, <1>4

(* Terminal implements OneEffect: each step carries out a request whose key has
   had no effect, tells a client of an effect that its key has had, or stutters. *)
THEOREM TerminalImplementsOneEffect == Spec => ImplementsOneEffect
<1>1. Init => Once!Init
  BY DEF Init, Once!Init
<1>2. IInv /\ [Next]_vars => [Once!Next]_<<made, receipts>>
  <2> SUFFICES ASSUME TypeOK, OncePerKey, ResultsAreMade, [Next]_vars
               PROVE  Once!Next \/ UNCHANGED <<made, receipts>>
    BY DEF IInv
  <2>1. ASSUME NEW c \in Calls, Spends(c)
        PROVE  Once!Next
    BY <2>1, Spent DEF Once!Next, Once!CarryOut
  <2>2. ASSUME NEW r \in Requests, NEW q \in Requests, made[q] = 1, Key[q] = Key[r],
               receipts' = receipts \cup {<<r, q>>}, UNCHANGED made
        PROVE  Once!Next
    BY <2>2 DEF Once!Next, Once!Tell
  <2>3. CASE Rests
    BY <2>2, <2>3, AnswersAreOfMade DEF Rests
  <2> QED
    BY <2>1, <2>3, StepsSpendOrRest
<1> QED
  BY <1>1, <1>2, TerminalInvariant, PTL DEF Spec, ImplementsOneEffect, Once!Spec

-----------------------------------------------------------------------------
(* Cash and its ledger. *)

\* What an order does to the cash and to the ledger differs by two cents at most.
LEMMA BuysAreNear ==
    ASSUME NEW have \in Nat, NEW n \in Nat, n <= have
    PROVE  Near(Rounded(have - n) - have, 0 - Rounded(Fee(n)) - Rounded(n - Fee(n)), 2 * Cent)
<1>1. Fee(n) \in Nat /\ n - Fee(n) \in Nat /\ have - n \in Nat
  BY FeeIsPart
<1>2. Cent \in Nat
  BY TerminalAssumption
<1> DEFINE f == Fee(n)
           a == Rounded(have - n)
           b == Rounded(f)
           d == Rounded(n - f)
<1>3. /\ a \in Nat /\ 2 * a <= 2 * (have - n) + Cent /\ 2 * (have - n) - Cent <= 2 * a
      /\ b \in Nat /\ 2 * b <= 2 * f + Cent /\ 2 * f - Cent <= 2 * b
      /\ d \in Nat /\ 2 * d <= 2 * (n - f) + Cent /\ 2 * (n - f) - Cent <= 2 * d
  BY <1>1, RoundedIsNear
<1>4. f \in Nat
  BY <1>1
<1> HIDE DEF a, b, d, f
<1>5. Near(a - have, 0 - b - d, 2 * Cent)
  BY <1>2, <1>3, <1>4 DEF Near
<1> QED
  BY <1>5 DEF a, b, d, f

LEMMA SalesAreNear ==
    ASSUME NEW n \in Nat
    PROVE  Near(Payout(n), Rounded(n) - Rounded(Fee(n)), 2 * Cent)
<1>1. Fee(n) \in Nat /\ Fee(n) <= n
  BY FeeIsPart
<1>2. Cent \in Nat
  BY TerminalAssumption
<1>3. Payout(n) \in Nat /\ Payout(n) <= n - Fee(n) /\ n - Fee(n) - Cent <= Payout(n)
  BY PayoutIsPart
<1>4. /\ Rounded(n) \in Nat /\ 2 * Rounded(n) <= 2 * n + Cent
      /\ 2 * n - Cent <= 2 * Rounded(n)
      /\ Rounded(Fee(n)) \in Nat /\ 2 * Rounded(Fee(n)) <= 2 * Fee(n) + Cent
      /\ 2 * Fee(n) - Cent <= 2 * Rounded(Fee(n))
  BY <1>1, RoundedIsNear
<1> QED
  BY <1>1, <1>2, <1>3, <1>4 DEF Near

LEMMA NearAdds ==
    ASSUME NEW a \in Int, NEW b \in Int, NEW x \in Int, NEW y \in Int,
           NEW d \in Int, NEW e \in Int, Near(a, b, d), Near(x, y, e)
    PROVE  Near(a + x, b + y, d + e)
  BY DEF Near

\* One more order allows two more cents.
LEMMA OrdersOfGrow ==
    ASSUME TypeOK, OncePerKey, NEW c \in Calls, Spends(c), NEW p \in Portfolios
    PROVE  LET r == calls[c].request
               k == Cardinality(OrdersOf(p))
           IN /\ k \in Nat
              /\ r.op \in Sides /\ r.portfolio = p =>
                    Cardinality(OrdersOf(p)') = k + 1
              /\ ~(r.op \in Sides /\ r.portfolio = p) => OrdersOf(p)' = OrdersOf(p)
<1> DEFINE r == calls[c].request
<1>1. /\ r \in Requests /\ made' = [made EXCEPT ![r] = 1] /\ made[r] = 0
  BY Spent
<1>2. \A q \in Requests : made'[q] = IF q = r THEN 1 ELSE made[q]
  BY <1>1 DEF TypeOK
<1>3. IsFiniteSet(OrdersOf(p))
  BY FS_Subset, TerminalAssumption DEF OrdersOf
<1>4. r \notin OrdersOf(p)
  BY <1>1 DEF OrdersOf
<1> HIDE DEF r
<1>5. CASE r.op \in Sides /\ r.portfolio = p
  <2>1. OrdersOf(p)' = OrdersOf(p) \cup {r}
    BY <1>1, <1>2, <1>5 DEF OrdersOf
  <2> QED
    BY <1>3, <1>4, <1>5, <2>1, FS_AddElement, FS_CardinalityType DEF r
<1>6. CASE ~(r.op \in Sides /\ r.portfolio = p)
  <2>1. OrdersOf(p)' = OrdersOf(p)
    BY <1>1, <1>2, <1>6 DEF OrdersOf
  <2> QED
    BY <1>3, <1>6, <2>1, FS_CardinalityType DEF r
<1> QED
  BY <1>5, <1>6

\* What the commits do to cash and ledger, side by side.
LEMMA CashAndLedgerMove ==
    ASSUME TypeOK, ReadsAreCurrent, NEW c \in Calls, Operates(c), NEW p \in Portfolios
    PROVE  LET r == calls[c].request
           IN \E x, y \in Int :
                /\ cash'[p] = cash[p] + x /\ ledger'[p] = ledger[p] + y
                /\ r.op \in Sides /\ r.portfolio = p => Near(x, y, 2 * Cent)
                /\ ~(r.op \in Sides /\ r.portfolio = p) => x = y
<1> DEFINE r == calls[c].request
           n == r.amount
<1>1. calls[c].step = "write"
  BY DEF Operates, Fund, Buy, Sell, Sweep, Contribute, Writes
<1>2. /\ n \in Nat /\ r.portfolio \in Portfolios
      /\ r.op # "CONTRIBUTE" => calls[c].read.cash = cash[r.portfolio]
  <2>1. r \in Requests
    BY <1>1, CallTypes DEF Writing
  <2> QED
    BY <1>1, <2>1, Operations DEF ReadsAreCurrent
<1>3. cash \in [Portfolios -> Int] /\ ledger \in [Portfolios -> Int]
  BY DEF TypeOK
<1>4. Fee(n) \in Nat /\ Fee(n) <= n /\ Payout(n) \in Nat
  BY <1>2, FeeIsPart, PayoutIsPart
<1>5. Rounded(n) \in Int /\ Rounded(Fee(n)) \in Int /\ Rounded(n - Fee(n)) \in Int
  BY <1>2, <1>4, RoundedTyped
<1>6. CASE Fund(c) /\ ~Refuse(c)
  <2> DEFINE x == IF p = r.portfolio THEN (IF r.op = "BANK_TO_TERMINAL" THEN n ELSE -n) ELSE 0
  <2>1. r.op \in Fundings /\ r.op \notin Sides /\ r.op # "CONTRIBUTE"
    BY <1>6 DEF Fund, Writes, Fundings, Sides
  <2>2. x \in Int /\ cash'[p] = cash[p] + x /\ ledger'[p] = ledger[p] + x
    BY <1>2, <1>3, <1>6, <2>1 DEF Fund
  <2> QED
    BY <2>1, <2>2
<1>7. CASE Buy(c) /\ ~Refuse(c)
  <2> DEFINE h == cash[r.portfolio]
             x == Rounded(h - n) - h
             y == 0 - Rounded(Fee(n)) - Rounded(n - Fee(n))
  <2>1. r.op = "BUY" /\ calls[c].read.cash = h /\ h \in Int
    BY <1>2, <1>3, <1>7 DEF Buy, Writes
  <2>2. n <= h
    BY <1>2, <1>7, <2>1 DEF Buy
  <2>3. h \in Nat /\ h - n \in Int
    BY <1>2, <2>1, <2>2
  <2>4. Near(x, y, 2 * Cent)
    BY <1>2, <2>2, <2>3, BuysAreNear
  <2>5. Rounded(h - n) \in Int /\ x \in Int /\ y \in Int
    BY <1>5, <2>1, <2>3, RoundedTyped
  <2>6. /\ cash' = [cash EXCEPT ![r.portfolio] = Rounded(h - n)]
        /\ ledger' = [ledger EXCEPT ![r.portfolio] =
                         @ - Rounded(Fee(n)) - Rounded(n - Fee(n))]
    BY <1>7, <2>1 DEF Buy
  <2>7. CASE p = r.portfolio
    <3>1. cash'[p] = cash[p] + x /\ ledger'[p] = ledger[p] + y
      BY <1>2, <1>3, <1>5, <2>1, <2>5, <2>6, <2>7
    <3> QED
      BY <2>1, <2>4, <2>5, <2>7, <3>1 DEF Sides
  <2>8. CASE p # r.portfolio
    <3>1. cash'[p] = cash[p] + 0 /\ ledger'[p] = ledger[p] + 0
      BY <1>3, <2>6, <2>8
    <3> QED
      BY <2>8, <3>1
  <2> QED
    BY <2>7, <2>8
<1>8. CASE Sell(c) /\ ~Refuse(c)
  <2> DEFINE x == Payout(n)
             y == Rounded(n) - Rounded(Fee(n))
  <2>1. r.op = "SELL" /\ calls[c].read.cash = cash[r.portfolio]
    BY <1>2, <1>8 DEF Sell, Writes
  <2>2. Near(x, y, 2 * Cent) /\ x \in Int /\ y \in Int
    BY <1>2, <1>4, <1>5, SalesAreNear
  <2>3. /\ cash' = [cash EXCEPT ![r.portfolio] = cash[r.portfolio] + Payout(n)]
        /\ ledger' = [ledger EXCEPT ![r.portfolio] = @ + Rounded(n) - Rounded(Fee(n))]
    BY <1>8, <2>1 DEF Sell
  <2>4. CASE p = r.portfolio
    <3>1. cash'[p] = cash[p] + x /\ ledger'[p] = ledger[p] + y
      BY <1>3, <1>4, <1>5, <2>3, <2>4
    <3> QED
      BY <2>1, <2>2, <2>4, <3>1 DEF Sides
  <2>5. CASE p # r.portfolio
    <3>1. cash'[p] = cash[p] + 0 /\ ledger'[p] = ledger[p] + 0
      BY <1>3, <2>3, <2>5
    <3> QED
      BY <2>5, <3>1
  <2> QED
    BY <2>4, <2>5
<1>9. CASE Sweep(c) /\ ~Refuse(c)
  <2> DEFINE x == IF p = r.portfolio THEN n ELSE 0
  <2>1. r.op = "SWEEP"
    BY <1>9 DEF Sweep, Writes
  <2>2. x \in Int /\ cash'[p] = cash[p] + x /\ ledger'[p] = ledger[p] + x
    BY <1>2, <1>3, <1>9, <2>1 DEF Sweep
  <2> QED
    BY <2>1, <2>2 DEF Sides
<1>10. CASE Contribute(c) /\ ~Refuse(c)
  <2>1. r.op = "CONTRIBUTE" /\ cash'[p] = cash[p] + 0 /\ ledger'[p] = ledger[p] + 0
    BY <1>3, <1>10 DEF Contribute, Writes
  <2> QED
    BY <2>1 DEF Sides
<1> QED
  BY <1>6, <1>7, <1>8, <1>9, <1>10 DEF Operates

LEMMA LedgerPreserved ==
    ASSUME IInv, CashFollowsItsLedger, [Next]_vars
    PROVE  CashFollowsItsLedger'
<1> USE DEF IInv
<1>1. CASE Rests
  <2>1. \A p \in Portfolios : OrdersOf(p)' = OrdersOf(p)
    BY <1>1 DEF Rests, OrdersOf
  <2> QED
    BY <1>1, <2>1 DEF Rests, money, CashFollowsItsLedger
<1>2. ASSUME NEW c \in Calls, Operates(c), NEW p \in Portfolios
      PROVE  Near(cash'[p], ledger'[p], 2 * Cent * Cardinality(OrdersOf(p)'))
  <2> DEFINE r == calls[c].request
             k == Cardinality(OrdersOf(p))
  <2>1. PICK x \in Int, y \in Int :
            /\ cash'[p] = cash[p] + x /\ ledger'[p] = ledger[p] + y
            /\ r.op \in Sides /\ r.portfolio = p => Near(x, y, 2 * Cent)
            /\ ~(r.op \in Sides /\ r.portfolio = p) => x = y
    BY <1>2, CashAndLedgerMove
  <2>2. Spends(c)
    BY <1>2, OperationsSpend
  <2>3. /\ k \in Nat
        /\ r.op \in Sides /\ r.portfolio = p => Cardinality(OrdersOf(p)') = k + 1
        /\ ~(r.op \in Sides /\ r.portfolio = p) => OrdersOf(p)' = OrdersOf(p)
    BY <1>2, <2>2, OrdersOfGrow
  <2>4. cash[p] \in Int /\ ledger[p] \in Int /\ Cent \in Nat
    BY <1>2, TerminalAssumption DEF TypeOK
  <2>5. Near(cash[p], ledger[p], 2 * Cent * k)
    BY <1>2 DEF CashFollowsItsLedger
  <2> HIDE DEF r, k
  <2>6. 2 * Cent \in Int /\ 2 * Cent * k \in Int /\ 2 * Cent * (k + 1) = 2 * Cent * k + 2 * Cent
    BY <2>3, <2>4, SMT
  <2>7. CASE r.op \in Sides /\ r.portfolio = p
    <3>1. Near(cash[p] + x, ledger[p] + y, 2 * Cent * k + 2 * Cent)
      BY <2>1, <2>4, <2>5, <2>6, <2>7, NearAdds
    <3> QED
      BY <2>1, <2>3, <2>6, <2>7, <3>1
  <2>8. CASE ~(r.op \in Sides /\ r.portfolio = p)
    <3>1. Near(cash[p] + x, ledger[p] + x, 2 * Cent * k)
      BY <2>1, <2>4, <2>5, <2>6 DEF Near
    <3> QED
      BY <2>1, <2>3, <2>8, <3>1 DEF k
  <2> QED
    BY <2>7, <2>8
<1>3. ASSUME NEW c \in Calls, Operates(c)
      PROVE  CashFollowsItsLedger'
  BY <1>2, <1>3 DEF CashFollowsItsLedger
<1> QED
  BY <1>1, <1>3, StepsOperateOrRest

(* The cash of a portfolio stays within two cents an order of what its ledger
   entries add up to, whatever the fee and the fractions of a cent. *)
THEOREM CashStaysNearItsLedger == Spec => []CashFollowsItsLedger
<1>1. Init => CashFollowsItsLedger
  <2> SUFFICES ASSUME Init, NEW p \in Portfolios
               PROVE  Near(cash[p], ledger[p], 2 * Cent * Cardinality(OrdersOf(p)))
    BY DEF CashFollowsItsLedger
  <2>1. OrdersOf(p) = {}
    BY DEF Init, OrdersOf
  <2>2. Cardinality(OrdersOf(p)) = 0
    BY <2>1, FS_EmptySet
  <2>3. Cent \in Nat /\ CashStart \in Nat
    BY TerminalAssumption
  <2>4. cash[p] = CashStart /\ ledger[p] = CashStart
    BY DEF Init
  <2> QED
    BY <2>2, <2>3, <2>4 DEF Near
<1>2. IInv /\ CashFollowsItsLedger /\ [Next]_vars => CashFollowsItsLedger'
  BY LedgerPreserved
<1> QED
  BY <1>1, <1>2, TerminalInvariant, PTL DEF Spec

-----------------------------------------------------------------------------
(* The coins and their reserve, and the florins altogether. *)

\* What the commits do to the wallets and the reserve.
LEMMA CoinsMove ==
    ASSUME TypeOK, ReadsAreCurrent, CoinsAreBacked, NEW c \in Calls, Operates(c)
    PROVE  CoinsAreBacked'
<1> DEFINE r == calls[c].request
           n == r.amount
           read == calls[c].read
<1>1. calls[c].step = "write"
  BY DEF Operates, Fund, Buy, Sell, Sweep, Contribute, Writes
<1>2. r \in Requests /\ r.portfolio \in Portfolios /\ n \in Nat
  <2>1. r \in Requests
    BY <1>1, CallTypes DEF Writing
  <2> QED
    BY <2>1, Operations
<1>3. /\ r.op \in Sides => read.holding = holding[r.portfolio] /\ read.market = market
      /\ r.op \notin Fundings => read.market = market
  BY <1>1 DEF ReadsAreCurrent, Sides, Fundings
<1>4. /\ holding \in [Portfolios -> Int] /\ market \in MarketRow
      /\ market.supply \in Int /\ market.reserve \in Int
      /\ holding[r.portfolio] \in Int /\ IsFiniteSet(Portfolios)
  BY <1>2, TerminalAssumption DEF TypeOK, MarketRow
<1>5. Fee(n) \in Nat /\ Payout(n) \in Nat
  BY <1>2, FeeIsPart, PayoutIsPart
<1>6. Total(holding) = market.supply /\ market.supply <= market.reserve
  BY DEF CoinsAreBacked
<1>7. ASSUME NEW v \in Int, holding' = [holding EXCEPT ![r.portfolio] = v]
      PROVE  Total(holding') = Total(holding) + v - holding[r.portfolio]
  BY <1>7, <1>2, <1>4, TotalUpdate
<1>8. CASE Fund(c) /\ ~Refuse(c)
  BY <1>6, <1>8 DEF Fund, CoinsAreBacked
<1>9. CASE Buy(c) /\ ~Refuse(c)
  <2>1. r.op = "BUY" /\ r.op \in Sides
    BY <1>9 DEF Buy, Writes, Sides
  <2>2. /\ holding' = [holding EXCEPT ![r.portfolio] = holding[r.portfolio] + n - Fee(n)]
        /\ market' = Bought(n, market)
        /\ ~(Bought(n, market).reserve < Bought(n, market).supply)
    BY <1>3, <1>9, <2>1 DEF Buy
  <2>3. Bought(n, market).supply = market.supply + n - Fee(n)
    BY <1>4 DEF Bought, MarketRow
  <2>4. Total(holding') = Total(holding) + (holding[r.portfolio] + n - Fee(n)) - holding[r.portfolio]
    <3>1. PICK v \in Int : v = holding[r.portfolio] + n - Fee(n)
      BY <1>2, <1>4, <1>5
    <3>2. holding' = [holding EXCEPT ![r.portfolio] = v]
      BY <2>2, <3>1
    <3> QED
      BY <1>7, <3>1, <3>2
  <2>5. Bought(n, market).supply \in Int /\ Bought(n, market).reserve \in Int
    BY <1>2, <1>4, BoughtTyped DEF MarketRow
  <2> HIDE DEF n
  <2>6. Total(holding') = Bought(n, market).supply
    BY <1>2, <1>4, <1>5, <1>6, <2>3, <2>4
  <2> QED
    BY <2>2, <2>5, <2>6 DEF CoinsAreBacked
<1>10. CASE Sell(c) /\ ~Refuse(c)
  <2>1. r.op = "SELL" /\ r.op \in Sides
    BY <1>10 DEF Sell, Writes, Sides
  <2>2. /\ holding' = [holding EXCEPT ![r.portfolio] = holding[r.portfolio] - n]
        /\ market' = Sold(n, market)
        /\ ~(Sold(n, market).reserve < Sold(n, market).supply)
    BY <1>3, <1>10, <2>1 DEF Sell
  <2>3. Sold(n, market).supply = market.supply - n
    BY <1>4 DEF Sold, MarketRow
  <2>4. Total(holding') = Total(holding) + (holding[r.portfolio] - n) - holding[r.portfolio]
    <3>1. PICK v \in Int : v = holding[r.portfolio] - n
      BY <1>2, <1>4
    <3>2. holding' = [holding EXCEPT ![r.portfolio] = v]
      BY <2>2, <3>1
    <3> QED
      BY <1>7, <3>1, <3>2
  <2>5. Sold(n, market).supply \in Int /\ Sold(n, market).reserve \in Int
    BY <1>2, <1>4, BoughtTyped DEF MarketRow
  <2> HIDE DEF n
  <2>6. Total(holding') = Sold(n, market).supply
    BY <1>2, <1>4, <1>6, <2>3, <2>4
  <2> QED
    BY <2>2, <2>5, <2>6 DEF CoinsAreBacked
<1>11. CASE Sweep(c) /\ ~Refuse(c)
  <2>1. market'.supply = market.supply /\ market'.reserve = market.reserve /\ UNCHANGED holding
    BY <1>4, <1>11 DEF Sweep, MarketRow
  <2> QED
    BY <1>6, <2>1 DEF CoinsAreBacked
<1>12. CASE Contribute(c) /\ ~Refuse(c)
  <2>1. market'.supply = market.supply /\ market'.reserve = market.reserve /\ UNCHANGED holding
    BY <1>4, <1>12 DEF Contribute, MarketRow
  <2> QED
    BY <1>6, <2>1 DEF CoinsAreBacked
<1> QED
  BY <1>8, <1>9, <1>10, <1>11, <1>12 DEF Operates

(* The coins in circulation are always the sum of all wallets and covered by
   the reserve, for any portfolios, amounts and fee. *)
THEOREM CoinsStayBacked == Spec => []CoinsAreBacked
<1>1. Init => CoinsAreBacked
  <2> SUFFICES ASSUME Init PROVE CoinsAreBacked
    OBVIOUS
  <2>1. Total(holding) = CoinStart * Cardinality(Portfolios)
    BY TotalOfEqual, TerminalAssumption DEF Init
  <2>2. CoinStart * Cardinality(Portfolios) \in Nat
    BY FS_CardinalityType, TerminalAssumption
  <2>3. /\ market.supply = CoinStart * Cardinality(Portfolios)
        /\ market.reserve = CoinStart * Cardinality(Portfolios)
    BY DEF Init
  <2> QED
    BY <2>1, <2>2, <2>3 DEF CoinsAreBacked
<1>2. IInv /\ CoinsAreBacked /\ [Next]_vars => CoinsAreBacked'
  <2> SUFFICES ASSUME IInv, CoinsAreBacked, [Next]_vars PROVE CoinsAreBacked'
    OBVIOUS
  <2>1. TypeOK /\ ReadsAreCurrent
    BY DEF IInv
  <2>2. CASE Rests
    BY <2>2 DEF Rests, money, CoinsAreBacked
  <2> QED
    BY <2>1, <2>2, CoinsMove, StepsOperateOrRest
<1> QED
  BY <1>1, <1>2, TerminalInvariant, PTL DEF Spec

\* What the commits do to all florins together.
LEMMA FlorinsMove ==
    ASSUME TypeOK, ReadsAreCurrent, NEW c \in Calls, Operates(c)
    PROVE  /\ Florins \in Int
           /\ \E x \in Int : /\ Florins' = Florins + x
                             /\ calls[c].request.op = "BUY" => Near(2 * x, 0, Cent)
                             /\ calls[c].request.op # "BUY" => x = 0
<1> DEFINE r == calls[c].request
           n == r.amount
           read == calls[c].read
           h == cash[r.portfolio]
<1>1. calls[c].step = "write"
  BY DEF Operates, Fund, Buy, Sell, Sweep, Contribute, Writes
<1>2. r \in Requests /\ r.portfolio \in Portfolios /\ n \in Nat
  <2>1. r \in Requests
    BY <1>1, CallTypes DEF Writing
  <2> QED
    BY <2>1, Operations
<1>3. /\ r.op # "CONTRIBUTE" => read.cash = h
      /\ r.op \notin Fundings => read.market = market
  BY <1>1 DEF ReadsAreCurrent
<1>4. /\ cash \in [Portfolios -> Int] /\ bank \in Int
      /\ market \in MarketRow /\ h \in Int /\ IsFiniteSet(Portfolios)
  BY <1>2, TerminalAssumption DEF TypeOK
<1>5. /\ market.reserve \in Int /\ market.revenue \in Int /\ market.stabilization \in Int
      /\ Total(cash) \in Int
  BY <1>4, TotalTyped DEF MarketRow
<1>6. Florins \in Int
  BY <1>4, <1>5 DEF Florins
<1>7. Fee(n) \in Nat /\ Fee(n) <= n /\ Payout(n) \in Nat
  BY <1>2, FeeIsPart, PayoutIsPart
<1>8. ASSUME NEW v \in Int, cash' = [cash EXCEPT ![r.portfolio] = v]
      PROVE  Total(cash') = Total(cash) + v - h
  BY <1>2, <1>4, <1>8, TotalUpdate
<1>9. CASE Fund(c) /\ ~Refuse(c)
  <2> DEFINE m == IF r.op = "BANK_TO_TERMINAL" THEN n ELSE -n
  <2>1. r.op \in Fundings /\ r.op # "BUY" /\ r.op # "CONTRIBUTE"
    BY <1>9 DEF Fund, Writes, Fundings
  <2>2. m \in Int
    BY <1>2
  <2>3. /\ bank' = bank - m /\ market' = market
        /\ cash' = [cash EXCEPT ![r.portfolio] = h + m]
    BY <1>3, <1>9, <2>1 DEF Fund
  <2> HIDE DEF m, h, r
  <2>4. Total(cash') = Total(cash) + (h + m) - h
    <3>1. PICK v \in Int : v = h + m
      BY <1>4, <2>2
    <3>2. cash' = [cash EXCEPT ![r.portfolio] = v]
      BY <2>3, <3>1
    <3> QED
      BY <1>8, <3>1, <3>2
  <2>5. Florins' = Florins + 0
    BY <1>4, <1>5, <2>2, <2>3, <2>4 DEF Florins
  <2> QED
    BY <1>6, <2>1, <2>5 DEF r
<1>10. CASE Buy(c) /\ ~Refuse(c)
  <2> DEFINE x == Rounded(h - n) - (h - n)
  <2>1. r.op = "BUY" /\ r.op # "CONTRIBUTE" /\ r.op \notin Fundings
    BY <1>10 DEF Buy, Writes, Fundings
  <2>2. /\ bank' = bank /\ market' = Bought(n, market) /\ n <= h
        /\ cash' = [cash EXCEPT ![r.portfolio] = Rounded(h - n)]
    BY <1>2, <1>3, <1>4, <1>10, <2>1 DEF Buy
  <2>3. /\ Bought(n, market).reserve = market.reserve + n - Fee(n)
        /\ Bought(n, market).revenue = market.revenue + Fee(n)
        /\ Bought(n, market).stabilization = market.stabilization
    BY <1>4 DEF Bought, MarketRow
  <2>4. h - n \in Nat
    BY <1>2, <1>4, <2>2
  <2>5. /\ Rounded(h - n) \in Nat /\ 2 * Rounded(h - n) <= 2 * (h - n) + Cent
        /\ 2 * (h - n) - Cent <= 2 * Rounded(h - n)
    BY <2>4, RoundedIsNear
  <2>6. Total(cash') = Total(cash) + Rounded(h - n) - h
    <3>1. PICK v \in Int : v = Rounded(h - n)
      BY <2>5
    <3>2. cash' = [cash EXCEPT ![r.portfolio] = v]
      BY <2>2, <3>1
    <3> QED
      BY <1>8, <3>1, <3>2
  <2>7. x \in Int /\ Near(2 * x, 0, Cent)
    <3>1. Cent \in Nat
      BY TerminalAssumption
    <3> HIDE DEF h, n
    <3> QED
      BY <1>2, <1>4, <2>5, <3>1 DEF Near
  <2>8. Florins' = Florins + x
    <3>1. Rounded(h - n) \in Int
      BY <2>5
    <3> HIDE DEF h, n
    <3> QED
      BY <1>2, <1>4, <1>5, <1>7, <2>2, <2>3, <2>6, <3>1 DEF Florins
  <2> QED
    BY <1>6, <2>1, <2>7, <2>8
<1>11. CASE Sell(c) /\ ~Refuse(c)
  <2>1. r.op = "SELL" /\ r.op # "BUY" /\ r.op # "CONTRIBUTE" /\ r.op \notin Fundings
    BY <1>11 DEF Sell, Writes, Fundings
  <2>2. /\ bank' = bank /\ market' = Sold(n, market)
        /\ cash' = [cash EXCEPT ![r.portfolio] = h + Payout(n)]
    BY <1>3, <1>11, <2>1 DEF Sell
  <2>3. /\ Sold(n, market).reserve = market.reserve - Payout(n) - Fee(n)
        /\ Sold(n, market).revenue = market.revenue + Fee(n)
        /\ Sold(n, market).stabilization = market.stabilization
    BY <1>4 DEF Sold, MarketRow
  <2>4. h + Payout(n) \in Int
    BY <1>4, <1>7
  <2>5. Total(cash') = Total(cash) + (h + Payout(n)) - h
    BY <1>8, <2>2, <2>4
  <2>6. Florins' = Florins + 0
    <3> HIDE DEF h, n
    <3> QED
      BY <1>4, <1>5, <1>7, <2>2, <2>3, <2>5 DEF Florins
  <2> QED
    BY <1>6, <2>1, <2>6
<1>12. CASE Sweep(c) /\ ~Refuse(c)
  <2>1. r.op = "SWEEP" /\ r.op # "BUY" /\ r.op # "CONTRIBUTE" /\ r.op \notin Fundings
    BY <1>12 DEF Sweep, Writes, Fundings
  <2>2. /\ bank' = bank /\ market'.reserve = market.reserve
        /\ market'.stabilization = market.stabilization
        /\ market'.revenue = market.revenue - n
        /\ cash' = [cash EXCEPT ![r.portfolio] = h + n]
    BY <1>3, <1>4, <1>12, <2>1 DEF Sweep, MarketRow
  <2>3. Total(cash') = Total(cash) + (h + n) - h
    <3>1. PICK v \in Int : v = h + n
      BY <1>2, <1>4
    <3>2. cash' = [cash EXCEPT ![r.portfolio] = v]
      BY <2>2, <3>1
    <3> QED
      BY <1>8, <3>1, <3>2
  <2>4. Florins' = Florins + 0
    <3> HIDE DEF h, n
    <3> QED
      BY <1>2, <1>4, <1>5, <2>2, <2>3 DEF Florins
  <2> QED
    BY <1>6, <2>1, <2>4
<1>13. CASE Contribute(c) /\ ~Refuse(c)
  <2>1. r.op = "CONTRIBUTE" /\ r.op # "BUY" /\ r.op \notin Fundings
    BY <1>13 DEF Contribute, Writes, Fundings
  <2>2. /\ bank' = bank /\ cash' = cash /\ market'.reserve = market.reserve
        /\ market'.stabilization = market.stabilization + n
        /\ market'.revenue = market.revenue - n
    BY <1>3, <1>4, <1>13, <2>1 DEF Contribute, MarketRow
  <2>3. Florins' = Florins + 0
    <3> HIDE DEF n
    <3> QED
      BY <1>2, <1>4, <1>5, <2>2 DEF Florins
  <2> QED
    BY <1>6, <2>1, <2>3
<1> QED
  BY <1>6, <1>9, <1>10, <1>11, <1>12, <1>13 DEF Operates

\* One more purchase allows half a cent more.
LEMMA PurchasesGrow ==
    ASSUME TypeOK, OncePerKey, NEW c \in Calls, Spends(c)
    PROVE  /\ Cardinality(Purchases) \in Nat
           /\ calls[c].request.op = "BUY" =>
                 Cardinality(Purchases') = Cardinality(Purchases) + 1
           /\ calls[c].request.op # "BUY" => Purchases' = Purchases
<1> DEFINE r == calls[c].request
<1>1. /\ r \in Requests /\ made' = [made EXCEPT ![r] = 1] /\ made[r] = 0
  BY Spent
<1>2. \A q \in Requests : made'[q] = IF q = r THEN 1 ELSE made[q]
  BY <1>1 DEF TypeOK
<1>3. IsFiniteSet(Purchases)
  BY FS_Subset, TerminalAssumption DEF Purchases
<1>4. r \notin Purchases
  BY <1>1 DEF Purchases
<1> HIDE DEF r
<1>5. CASE r.op = "BUY"
  <2>1. Purchases' = Purchases \cup {r}
    BY <1>1, <1>2, <1>5 DEF Purchases
  <2> QED
    BY <1>3, <1>4, <1>5, <2>1, FS_AddElement, FS_CardinalityType DEF r
<1>6. CASE r.op # "BUY"
  <2>1. Purchases' = Purchases
    BY <1>1, <1>2, <1>6 DEF Purchases
  <2> QED
    BY <1>3, <1>6, <2>1, FS_CardinalityType DEF r
<1> QED
  BY <1>5, <1>6

LEMMA StartedTyped == Started \in Nat
<1>1. /\ Cardinality(Portfolios) \in Nat /\ BankStart \in Nat /\ RevenueStart \in Nat
      /\ CashStart + CoinStart \in Nat
  BY FS_CardinalityType, TerminalAssumption
<1>2. (CashStart + CoinStart) * Cardinality(Portfolios) \in Nat
  BY <1>1, SMT
<1> QED
  BY <1>1, <1>2 DEF Started

LEMMA FlorinsPreserved ==
    ASSUME TypeOK, OncePerKey, ReadsAreCurrent, FlorinsAreConserved,
           NEW c \in Calls, Operates(c)
    PROVE  FlorinsAreConserved'
<1> DEFINE k == Cardinality(Purchases)
<1>1. PICK x \in Int : /\ Florins' = Florins + x
                       /\ calls[c].request.op = "BUY" => Near(2 * x, 0, Cent)
                       /\ calls[c].request.op # "BUY" => x = 0
  BY FlorinsMove
<1>2. Florins \in Int
  BY FlorinsMove
<1>3. /\ k \in Nat
      /\ calls[c].request.op = "BUY" => Cardinality(Purchases') = k + 1
      /\ calls[c].request.op # "BUY" => Purchases' = Purchases
  BY OperationsSpend, PurchasesGrow
<1>4. Started \in Nat /\ Cent \in Nat
  BY StartedTyped, TerminalAssumption
<1>5. Near(2 * Florins, 2 * Started, Cent * k)
  BY DEF FlorinsAreConserved
<1>6. CASE calls[c].request.op = "BUY"
  <2> HIDE DEF k
  <2>1. Cent * k \in Int /\ Cent * (k + 1) = Cent * k + Cent
    BY <1>3, <1>4, SMT
  <2>2. Near(2 * Florins + 2 * x, 2 * Started + 0, Cent * k + Cent)
    BY <1>1, <1>2, <1>4, <1>5, <1>6, <2>1, NearAdds
  <2>3. 2 * Florins' = 2 * Florins + 2 * x /\ 2 * Started + 0 = 2 * Started
    BY <1>1, <1>2, <1>4
  <2>4. Near(2 * Florins', 2 * Started, Cent * Cardinality(Purchases'))
    BY <1>3, <1>6, <2>1, <2>2, <2>3
  <2> QED
    BY <2>4 DEF FlorinsAreConserved, Started
<1>7. CASE calls[c].request.op # "BUY"
  <2>1. Florins' = Florins /\ Purchases' = Purchases
    BY <1>1, <1>2, <1>3, <1>7
  <2> QED
    BY <1>5, <2>1 DEF FlorinsAreConserved, Started
<1> QED
  BY <1>6, <1>7

(* The florins of the bank account, the portfolios and the pots of the market
   add up to what was there at first, within half a cent for each purchase. *)
THEOREM FlorinsStayConserved == Spec => []FlorinsAreConserved
<1>1. Init => FlorinsAreConserved
  <2> SUFFICES ASSUME Init PROVE FlorinsAreConserved
    OBVIOUS
  <2> DEFINE k == Cardinality(Portfolios)
  <2>1. k \in Nat /\ CashStart \in Nat /\ CoinStart \in Nat
    BY FS_CardinalityType, TerminalAssumption
  <2>2. Total(cash) = CashStart * k
    BY TotalOfEqual, TerminalAssumption DEF Init
  <2>3. /\ bank = BankStart /\ market.reserve = CoinStart * k
        /\ market.stabilization = 0 /\ market.revenue = RevenueStart
    BY DEF Init
  <2>4. Purchases = {}
    BY DEF Init, Purchases
  <2>5. Cardinality(Purchases) = 0
    BY <2>4, FS_EmptySet
  <2> HIDE DEF k
  <2>6. /\ (CashStart + CoinStart) * k = CashStart * k + CoinStart * k
        /\ CashStart * k \in Nat /\ CoinStart * k \in Nat
    BY <2>1, SMT
  <2>7. BankStart \in Nat /\ RevenueStart \in Nat /\ Cent \in Nat
    BY TerminalAssumption
  <2>8. Florins = Started /\ Started \in Nat
    BY <2>2, <2>3, <2>6, <2>7 DEF Florins, Started, k
  <2> QED
    BY <2>5, <2>7, <2>8 DEF FlorinsAreConserved, Near
<1>2. IInv /\ FlorinsAreConserved /\ [Next]_vars => FlorinsAreConserved'
  <2> SUFFICES ASSUME IInv, FlorinsAreConserved, [Next]_vars PROVE FlorinsAreConserved'
    OBVIOUS
  <2>1. TypeOK /\ OncePerKey /\ ReadsAreCurrent
    BY DEF IInv
  <2>2. CASE Rests
    BY <2>2 DEF Rests, money, FlorinsAreConserved, Florins, Purchases
  <2> QED
    BY <2>1, <2>2, FlorinsPreserved, StepsOperateOrRest
<1> QED
  BY <1>1, <1>2, TerminalInvariant, PTL DEF Spec

=============================================================================
