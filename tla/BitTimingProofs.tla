--------------------------- MODULE BitTimingProofs ----------------------------
(***************************************************************************)
(* Theorems about BitTiming, for every clock, bitrate, sample point and    *)
(* set of limits, and about BitRates, which calls it for each phase.       *)
(***************************************************************************)
EXTENDS BitRates, TLAPS

-------------------------------------------------------------------------------
(* The split of one number of quanta. *)

(* Where the total can be split within the limits at y, Split finds a       *)
(* legal split that lies between the wanted one and y.                      *)
LEMMA SplitBetween ==
  ASSUME btc \in LimitsType, NEW total \in Int, NEW t \in Int, NEW y \in Int,
         Allowed(y, total - y)
  PROVE  /\ Split(t, total) \in Int
         /\ Allowed(Split(t, total), total - Split(t, total))
         /\ \/ t <= Split(t, total) /\ Split(t, total) <= y
            \/ y <= Split(t, total) /\ Split(t, total) <= t
  BY DEF LimitsType, Allowed, Split

(* A rounded quotient is within half a unit of the exact one.               *)
LEMMA NearestWithin ==
  ASSUME NEW s \in Int, NEW u \in Nat \ {0}
  PROVE  /\ Nearest(s, u) \in Int
         /\ 2 * (Nearest(s, u) * u - s) <= u
         /\ 2 * (s - Nearest(s, u) * u) <= u
<1>1. u \div 2 \in Int /\ u - 1 <= 2 * (u \div 2) /\ 2 * (u \div 2) <= u
  OBVIOUS
<1> DEFINE a == s + u \div 2
           n == a \div u
<1>2. n \in Int /\ n * u <= a /\ a < n * u + u
  BY <1>1
<1> QED
  BY <1>1, <1>2 DEF Nearest

(* One quantum more or less moves the sample point by one whole unit. *)
LEMMA UnitSteps ==
  ASSUME NEW u \in Nat, NEW x \in Int, NEW y \in Int, x <= y
  PROVE  /\ x * u \in Int /\ y * u \in Int
         /\ x * u <= y * u
         /\ x < y => x * u + u <= y * u
<1>1. y - x \in Nat /\ (y - x) * u \in Nat
  OBVIOUS
<1>2. y * u = x * u + (y - x) * u
  OBVIOUS
<1>3. x < y => (y - x) * u = u + ((y - x) - 1) * u /\ ((y - x) - 1) * u \in Nat
  OBVIOUS
<1> QED
  BY <1>1, <1>2, <1>3

(* Of two values on the same side of the rounded one, the nearer to it is   *)
(* the nearer to the exact one.                                             *)
LEMMA CloserToRounded ==
  ASSUME NEW s \in Int, NEW u \in Nat \ {0}, NEW x \in Int, NEW y \in Int,
         \/ Nearest(s, u) <= x /\ x <= y
         \/ y <= x /\ x <= Nearest(s, u)
  PROVE  Abs(x * u - s) <= Abs(y * u - s)
<1> DEFINE n == Nearest(s, u)
<1>1. n \in Int /\ 2 * (n * u - s) <= u /\ 2 * (s - n * u) <= u /\ n * u \in Int
  BY NearestWithin
<1>0. \/ n <= x /\ x <= y
      \/ y <= x /\ x <= n
  OBVIOUS
<1> HIDE DEF n
<1>2. CASE x = n /\ n < y
  <2>1. n * u + u <= y * u /\ y * u \in Int
    BY <1>1, <1>2, UnitSteps
  <2> QED
    BY <1>1, <1>2, <2>1 DEF Abs
<1>3. CASE n < x /\ x <= y
  <2>1. n * u + u <= x * u /\ x * u <= y * u /\ x * u \in Int /\ y * u \in Int
    BY <1>1, <1>3, UnitSteps
  <2> QED
    BY <1>1, <2>1 DEF Abs
<1>4. CASE x = n /\ y < n
  <2>1. y * u + u <= n * u /\ y * u \in Int
    BY <1>1, <1>4, UnitSteps
  <2> QED
    BY <1>1, <1>4, <2>1 DEF Abs
<1>5. CASE x < n /\ y <= x
  <2>1. x * u + u <= n * u /\ y * u <= x * u /\ x * u \in Int /\ y * u \in Int
    BY <1>1, <1>5, UnitSteps
  <2> QED
    BY <1>1, <2>1 DEF Abs
<1>6. CASE x = y
  BY <1>6, <1>1 DEF Abs
<1> QED
  BY <1>0, <1>1, <1>2, <1>3, <1>4, <1>5, <1>6

(* A numerator that is no larger makes a fraction that is no larger. *)
LEMMA SameDenominator ==
  ASSUME NEW m \in Int, NEW n \in Int, NEW d \in Nat, m <= n
  PROVE  ~Less([n |-> n, d |-> d], [n |-> m, d |-> d])
  BY UnitSteps DEF Less

(* If the quanta can be split within the limits at all, the split of the    *)
(* algorithm is within the limits and no other has a closer sample point.   *)
LEMMA SplitOptimal ==
  ASSUME BitTimingAssumption, btc \in LimitsType, sample_point \in Int, NEW tq \in Nat,
         NEW y \in Splits(tq)
  PROVE  /\ Split(Wanted(tq), tq - 1) \in Splits(tq)
         /\ ~Less(SampleErr(y, tq), SampleErr(Split(Wanted(tq), tq - 1), tq))
<1> DEFINE s == sample_point * tq
           x == Split(Wanted(tq), tq - 1)
<1>1. s \in Int /\ Unit \in Nat \ {0} /\ tq - 1 \in Int /\ tq * Unit \in Nat
  BY DEF BitTimingAssumption
<1>2. Nearest(s, Unit) \in Int
  BY <1>1, NearestWithin
<1>3. y \in Int /\ Allowed(y, (tq - 1) - y)
  BY DEF Splits, LimitsType
<1>4. Wanted(tq) \in Int
  BY <1>2 DEF Wanted
<1>5. /\ x \in Int
      /\ Allowed(x, (tq - 1) - x)
      /\ \/ Wanted(tq) <= x /\ x <= y
         \/ y <= x /\ x <= Wanted(tq)
  BY <1>1, <1>3, <1>4, SplitBetween
<1>6. Split(Wanted(tq), tq - 1) \in Splits(tq)
  BY <1>5 DEF Splits, Allowed
<1> HIDE DEF x
<1>7. \/ Nearest(s, Unit) <= 1 + x /\ 1 + x <= 1 + y
      \/ 1 + y <= 1 + x /\ 1 + x <= Nearest(s, Unit)
  BY <1>2, <1>3, <1>5 DEF Wanted
<1> DEFINE a == 1 + x
           b == 1 + y
<1>a. a \in Int /\ b \in Int
  BY <1>3, <1>5
<1> HIDE DEF s
<1>8. Abs(a * Unit - s) <= Abs(b * Unit - s)
  <2> HIDE DEF a, b
  <2>1. \/ Nearest(s, Unit) <= a /\ a <= b
        \/ b <= a /\ a <= Nearest(s, Unit)
    BY <1>7 DEF a, b
  <2> QED
    BY <1>1, <1>a, <2>1, CloserToRounded
<1>9. Abs((1 + x) * Unit - s) \in Int /\ Abs((1 + y) * Unit - s) \in Int
  BY <1>1, <1>3, <1>5 DEF Abs
<1>10. ~Less(SampleErr(y, tq), SampleErr(x, tq))
  BY <1>1, <1>8, <1>9, SameDenominator DEF SampleErr, s
<1> QED
  BY <1>6, <1>10 DEF x

-------------------------------------------------------------------------------
(* Comparing registers.                                                     *)

Fractions == [n : Int, d : Nat \ {0}]

(* The order of fractions: no two are each smaller than the other, and a    *)
(* third one is above the smaller or below the larger.                      *)
LEMMA FractionOrder ==
  ASSUME NEW e \in Fractions, NEW f \in Fractions, NEW g \in Fractions
  PROVE  /\ ~(Less(e, f) /\ Less(f, e))
         /\ Less(e, g) => Less(e, f) \/ Less(f, g)
<1>1. ~(Less(e, f) /\ Less(f, e))
  BY DEF Less, Fractions
<1>2. ASSUME ~Less(e, f), ~Less(f, g)
      PROVE  ~Less(e, g)
  <2> DEFINE x == g.n * e.d
             y == e.n * g.d
  <2>1. /\ e.n \in Int /\ f.n \in Int /\ g.n \in Int
        /\ e.d \in Nat \ {0} /\ f.d \in Nat \ {0} /\ g.d \in Nat \ {0}
    BY DEF Fractions
  <2>2. f.n * e.d <= e.n * f.d /\ g.n * f.d <= f.n * g.d
    BY <1>2, <2>1 DEF Less
  <2>3. (f.n * e.d) * g.d <= (e.n * f.d) * g.d
    <3> DEFINE a == f.n * e.d
               b == e.n * f.d
    <3>1. a \in Int /\ b \in Int /\ a <= b
      BY <2>1, <2>2
    <3> HIDE DEF a, b
    <3>2. a * g.d <= b * g.d
      BY <2>1, <3>1, UnitSteps
    <3> QED
      BY <3>2 DEF a, b
  <2>4. (g.n * f.d) * e.d <= (f.n * g.d) * e.d
    <3> DEFINE a == g.n * f.d
               b == f.n * g.d
    <3>1. a \in Int /\ b \in Int /\ a <= b
      BY <2>1, <2>2
    <3> HIDE DEF a, b
    <3>2. a * e.d <= b * e.d
      BY <2>1, <3>1, UnitSteps
    <3> QED
      BY <3>2 DEF a, b
  <2>5. x \in Int /\ y \in Int /\ x * f.d <= y * f.d
    BY <2>1, <2>3, <2>4
  <2> HIDE DEF x, y
  <2>6. ~(y < x)
    BY <2>1, <2>5, UnitSteps
  <2> QED
    BY <2>5, <2>6 DEF x, y, Less
<1> QED
  BY <1>1, <1>2

RegisterType == [brp : Nat \ {0}, tq : Nat \ {0}, tseg1 : Int]

(* The errors that Better compares are fractions. *)
LEMMA ErrorsAreFractions ==
  ASSUME BitTimingAssumption, clock \in Nat, bitrate \in Nat \ {0}, sample_point \in Int,
         NEW x \in RegisterType
  PROVE  BitrateErr(x.brp, x.tq) \in Fractions /\ SampleErr(x.tseg1, x.tq) \in Fractions
<1>1. x.brp \in Nat \ {0} /\ x.tq \in Nat \ {0} /\ x.tseg1 \in Int /\ Unit \in Nat \ {0}
  BY DEF RegisterType, BitTimingAssumption
<1>2. x.brp * x.tq * bitrate \in Nat \ {0} /\ x.tq * Unit \in Nat \ {0}
  BY <1>1
<1>3. (1 + x.tseg1) * Unit \in Int /\ sample_point * x.tq \in Int
  BY <1>1
<1>4. Abs(clock - x.brp * x.tq * bitrate) \in Int
  BY <1>2 DEF Abs
<1>5. Abs((1 + x.tseg1) * Unit - sample_point * x.tq) \in Int
  BY <1>3 DEF Abs
<1> QED
  BY <1>2, <1>4, <1>5 DEF BitrateErr, SampleErr, Fractions

(* Better is such an order too. *)
LEMMA BetterOrder ==
  ASSUME BitTimingAssumption, clock \in Nat, bitrate \in Nat \ {0}, sample_point \in Int,
         NEW x \in RegisterType, NEW y \in RegisterType, NEW z \in RegisterType
  PROVE  /\ ~(Better(x, y) /\ Better(y, x))
         /\ Better(x, z) => Better(x, y) \/ Better(y, z)
<1> DEFINE bx == BitrateErr(x.brp, x.tq)
           by == BitrateErr(y.brp, y.tq)
           bz == BitrateErr(z.brp, z.tq)
           cx == SampleErr(x.tseg1, x.tq)
           cy == SampleErr(y.tseg1, y.tq)
           cz == SampleErr(z.tseg1, z.tq)
<1>1. /\ bx \in Fractions /\ by \in Fractions /\ bz \in Fractions
      /\ cx \in Fractions /\ cy \in Fractions /\ cz \in Fractions
  BY ErrorsAreFractions
<1>2. /\ Better(x, y) <=> Less(bx, by) \/ (~Less(by, bx) /\ Less(cx, cy))
      /\ Better(y, x) <=> Less(by, bx) \/ (~Less(bx, by) /\ Less(cy, cx))
      /\ Better(x, z) <=> Less(bx, bz) \/ (~Less(bz, bx) /\ Less(cx, cz))
      /\ Better(y, z) <=> Less(by, bz) \/ (~Less(bz, by) /\ Less(cy, cz))
  BY DEF Better
<1> HIDE DEF bx, by, bz, cx, cy, cz
<1>3. /\ ~(Less(bx, by) /\ Less(by, bx))
      /\ ~(Less(cx, cy) /\ Less(cy, cx))
      /\ Less(cx, cz) => Less(cx, cy) \/ Less(cy, cz)
  BY <1>1, FractionOrder
<1>4. /\ Less(bx, bz) => Less(bx, by) \/ Less(by, bz)
      /\ Less(by, bx) => Less(by, bz) \/ Less(bz, bx)
      /\ Less(bz, by) => Less(bz, bx) \/ Less(bx, by)
  BY <1>1, FractionOrder
<1>6. ~(Better(x, y) /\ Better(y, x))
  BY <1>2, <1>3
<1>7. Better(x, z) => Better(x, y) \/ Better(y, z)
  BY <1>2, <1>3, <1>4
<1> QED
  BY <1>6, <1>7

-------------------------------------------------------------------------------
(* One prescaler.                                                           *)

Arguments ==
  /\ clock \in Nat \ {0} /\ bitrate \in Nat \ {0} /\ btc \in LimitsType
  /\ sample_point \in Int

LEMMA QuantaType ==
  ASSUME Arguments, NEW p \in Nat \ {0}
  PROVE  Quanta(p) \in Nat
<1> DEFINE d == p * bitrate
<1>1. d \in Nat \ {0}
  BY DEF Arguments
<1> HIDE DEF d
<1>2. d \div 2 \in Nat
  BY <1>1
<1>3. (clock + (d \div 2)) \div d \in Nat
  BY <1>1, <1>2 DEF Arguments
<1> QED
  BY <1>3 DEF Quanta, Nearest, d

(* The registers of a usable prescaler are a legal split of its quanta; if  *)
(* there is a legal split the prescaler is usable, and its registers are    *)
(* as good as any.                                                          *)
LEMMA RegistersOptimal ==
  ASSUME BitTimingAssumption, Arguments, NEW p \in Nat \ {0}, Quanta(p) >= 3
  PROVE  /\ Usable(Registers(p)) =>
              /\ Registers(p) \in RegisterType
              /\ Registers(p).tseg1 \in Splits(Quanta(p))
              /\ \A y \in Splits(Quanta(p)) :
                   /\ [brp |-> p, tq |-> Quanta(p), tseg1 |-> y] \in RegisterType
                   /\ ~Less(SampleErr(y, Quanta(p)), SampleErr(Registers(p).tseg1, Quanta(p)))
                   /\ ~Better([brp |-> p, tq |-> Quanta(p), tseg1 |-> y], Registers(p))
         /\ Splits(Quanta(p)) # {} => Usable(Registers(p))
<1> DEFINE tq == Quanta(p)
           x == Split(Wanted(tq), tq - 1)
<1>1. tq \in Nat /\ tq >= 3
  BY QuantaType
<1>2. /\ Registers(p) = [brp |-> p, tq |-> tq, tseg1 |-> x]
      /\ Registers(p).brp = p /\ Registers(p).tq = tq /\ Registers(p).tseg1 = x
      /\ Tseg2(Registers(p)) = (tq - 1) - x
  BY DEF Registers, Tseg2
<1> HIDE DEF tq
<1>3. \A y \in Splits(tq) :
        y \in Int /\ x \in Splits(tq) /\ ~Less(SampleErr(y, tq), SampleErr(x, tq))
  BY <1>1, SplitOptimal DEF Arguments, Splits, LimitsType
<1> HIDE DEF x
<1>4. ASSUME Splits(tq) # {}
      PROVE  Usable(Registers(p))
  <2>1. x \in btc.tseg1_min..btc.tseg1_max /\ Allowed(x, (tq - 1) - x)
    BY <1>3, <1>4 DEF Splits
  <2>2. tq - 1 >= btc.tseg1_min + btc.tseg2_min
    BY <1>1, <2>1 DEF Allowed, Arguments, LimitsType
  <2> QED
    BY <1>1, <1>2, <2>1, <2>2 DEF Usable
<1>5. ASSUME Usable(Registers(p))
      PROVE  x \in Splits(tq)
  BY <1>2, <1>5 DEF Usable, Splits, Allowed
<1>6. ASSUME NEW y \in Splits(tq)
      PROVE  ~Better([brp |-> p, tq |-> tq, tseg1 |-> y], Registers(p))
  <2> DEFINE c == [brp |-> p, tq |-> tq, tseg1 |-> y]
  <2>1. c.brp = p /\ c.tq = tq /\ c.tseg1 = y
    OBVIOUS
  <2>2. ~Less(SampleErr(c.tseg1, c.tq), SampleErr(Registers(p).tseg1, Registers(p).tq))
    BY <1>2, <1>3, <1>6, <2>1
  <2>3. ~Less(BitrateErr(c.brp, c.tq), BitrateErr(Registers(p).brp, Registers(p).tq))
    <3>1. c \in RegisterType
      BY <1>1, <1>3, <1>6 DEF RegisterType
    <3>2. BitrateErr(p, tq) \in Fractions
      BY <2>1, <3>1, ErrorsAreFractions DEF Arguments
    <3> QED
      BY <1>2, <2>1, <3>2, FractionOrder
  <2> QED
    BY <2>2, <2>3 DEF Better
<1>7. \A y \in Splits(tq) : [brp |-> p, tq |-> tq, tseg1 |-> y] \in RegisterType
  BY <1>1, <1>3 DEF RegisterType
<1> QED
  BY <1>2, <1>3, <1>4, <1>5, <1>6, <1>7 DEF tq

(* The next multiple. *)
LEMMA MultipleSteps ==
  ASSUME NEW u \in Nat \ {0}, NEW a \in Int, a % u = 0
  PROVE  (a + u) % u = 0
<1> DEFINE x == (a \div u) + 1
           n == (a + u) \div u
           m == (a + u) % u
<1>1. x \in Int /\ a + u = x * u
  BY a % u = 0
<1>2. n \in Int /\ m \in 0..(u - 1) /\ a + u = n * u + m
  OBVIOUS
<1> HIDE DEF x, n, m
<1>3. ~(x < n) /\ ~(n < x)
  BY <1>1, <1>2, UnitSteps
<1>4. m = 0
  BY <1>1, <1>2, <1>3
<1> QED
  BY <1>4 DEF m

(* The loop visits the prescalers in order: the next one is the only one    *)
(* added by a step.                                                         *)
LEMMA NextPrescaler ==
  ASSUME btc \in LimitsType, NEW b \in Nat, b >= btc.brp_min, (b - btc.brp_min) % Step = 0,
         NEW p \in Prescalers(b + Step)
  PROVE  p = b \/ p \in Prescalers(b)
<1> DEFINE m == btc.brp_min
           x == (p - m) \div Step
           y == (b - m) \div Step
<1>1. Step \in Nat \ {0} /\ m \in Nat
  BY DEF Step, LimitsType
<1>2. p \in Nat /\ p >= m /\ (p - m) % Step = 0 /\ p < b + Step
  BY <1>1 DEF Prescalers, LimitsType
<1>3. x \in Int /\ p - m = x * Step
  BY <1>1, <1>2
<1>4. y \in Int /\ b - m = y * Step
  <2>1. b - m \in Int /\ (b - m) % Step = 0
    BY <1>1
  <2> QED
    BY <1>1, <2>1
<1> HIDE DEF x, y
<1>5. ~(y < x)
  BY <1>1, <1>2, <1>3, <1>4, UnitSteps
<1>6. x <= y => p <= b
  BY <1>1, <1>2, <1>3, <1>4, UnitSteps
<1>7. p <= b
  BY <1>3, <1>4, <1>5, <1>6
<1> QED
  BY <1>2, <1>7 DEF Prescalers

-------------------------------------------------------------------------------
(* The inductive invariant. *)

(* A candidate is the algorithm's own choice for its prescaler. *)
Own ==
  best # NoneYet =>
    /\ best.brp \in Nat \ {0}
    /\ Usable(best) /\ best = Registers(best.brp) /\ best.tq = Quanta(best.brp)

(* r is as good as any legal split for a prescaler before b; if there is    *)
(* one at all, r is not NoneYet.                                            *)
Explored(b, r) ==
  \A q \in Prescalers(b) : Quanta(q) >= 3 =>
    \A t1 \in Splits(Quanta(q)) :
      r # NoneYet /\ ~Better([brp |-> q, tq |-> Quanta(q), tseg1 |-> t1], r)

Running == result \notin {"call", "invalid"}

Loop ==
  IF Running
  THEN /\ btc.brp_min > 0 /\ brp >= btc.brp_min /\ (brp - btc.brp_min) % Step = 0
       /\ Explored(brp, best)
  ELSE best = NoneYet

Done ==
  /\ result = "ok" => brp > btc.brp_max /\ best # NoneYet
  /\ result = "no_solution" => brp > btc.brp_max /\ best = NoneYet

IInv == TypeOK /\ Own /\ Loop /\ Done

LEMMA DefaultInside ==
  ASSUME BitTimingAssumption, NEW b \in Nat
  PROVE  default_sample_point(b) \in 1..(Unit - 1)
  BY DEF default_sample_point, BitTimingAssumption

LEMMA InitLoop ==
  ASSUME BitTimingAssumption, Init
  PROVE  IInv
  BY DEF BitTimingAssumption, Init, IInv, TypeOK, Own, Loop, Running, Done

(* Everything computed from the arguments stays the same in the loop. *)
LEMMA SameArguments ==
  ASSUME UNCHANGED <<args, sample_point>>
  PROVE  /\ \A b, r : Explored(b, r)' = Explored(b, r)
         /\ \A x : Usable(x)' = Usable(x)
         /\ \A q : Registers(q)' = Registers(q) /\ Quanta(q)' = Quanta(q)
         /\ Step' = Step
<1>1. UNCHANGED <<clock, bitrate, btc, sample_point>>
  BY DEF args
<1>2. \A x, y : Better(x, y)' = Better(x, y)
  BY <1>1 DEF Better, BitrateErr, SampleErr
<1>3. \A q : Quanta(q)' = Quanta(q)
  BY <1>1 DEF Quanta
<1>4. \A t : Splits(t)' = Splits(t)
  BY <1>1 DEF Splits, Allowed
<1>5. Step' = Step
  BY <1>1 DEF Step
<1>6. \A b : Prescalers(b)' = Prescalers(b)
  BY <1>1, <1>5 DEF Prescalers
<1>7. \A q : Registers(q)' = Registers(q)
  BY <1>1 DEF Registers, Quanta, Split, Wanted
<1>8. \A x : Usable(x)' = Usable(x)
  BY <1>1 DEF Usable, Allowed, Tseg2
<1>9. \A b, r : Explored(b, r)' = Explored(b, r)
  BY <1>2, <1>3, <1>4, <1>6 DEF Explored
<1> QED
  BY <1>3, <1>5, <1>7, <1>8, <1>9

(* One more prescaler: the better of its registers and the best so far is   *)
(* as good as every split tried.                                            *)
LEMMA OneMore ==
  ASSUME BitTimingAssumption, Arguments, NEW p \in Nat \ {0},
         p >= btc.brp_min, (p - btc.brp_min) % Step = 0, btc.brp_min > 0,
         NEW old, Explored(p, old),
         old = NoneYet \/ old \in RegisterType,
         NEW new,
         new = IF Usable(Registers(p)) /\ (old = NoneYet \/ Better(Registers(p), old))
               THEN Registers(p) ELSE old
  PROVE  Explored(p + Step, new)
<1> DEFINE reg == Registers(p)
           Cand(q, t1) == [brp |-> q, tq |-> Quanta(q), tseg1 |-> t1]
<1> SUFFICES ASSUME NEW q \in Prescalers(p + Step), Quanta(q) >= 3, NEW t1 \in Splits(Quanta(q))
             PROVE  new # NoneYet /\ ~Better(Cand(q, t1), new)
  BY DEF Explored
<1>1. q \in Nat \ {0} /\ (q = p \/ q \in Prescalers(p))
  BY NextPrescaler DEF Prescalers, Arguments, LimitsType
<1>2. Quanta(q) \in Nat \ {0} /\ t1 \in Int
  BY <1>1, QuantaType DEF Splits, Arguments, LimitsType
<1>3. Cand(q, t1) \in RegisterType
  BY <1>1, <1>2 DEF RegisterType
<1>4. Usable(reg) => reg \in RegisterType /\ reg # NoneYet
  <2>1. reg.tq = Quanta(p)
    BY DEF Registers
  <2>2. Usable(reg) => reg \in RegisterType
    BY <2>1, RegistersOptimal DEF Usable
  <2>3. RegisterType # {} => NoneYet \notin RegisterType
    BY DEF NoneYet, RegisterType
  <2> QED
    BY <2>2, <2>3
<1>5. clock \in Nat /\ bitrate \in Nat \ {0} /\ sample_point \in Int
  BY DEF Arguments
<1>6. CASE q = p
  <2>1. Usable(reg) /\ ~Better(Cand(q, t1), reg)
    BY <1>6, RegistersOptimal
  <2>2. CASE new = reg
    BY <1>4, <2>1, <2>2
  <2>3. CASE new # reg
    <3>1. new = old /\ old # NoneYet /\ ~Better(reg, old)
      BY <2>1, <2>3
    <3>2. old \in RegisterType
      BY <3>1
    <3> HIDE DEF Cand, reg
    <3>3. ~Better(Cand(q, t1), old)
      BY <1>3, <1>4, <1>5, <2>1, <3>1, <3>2, BetterOrder
    <3> QED
      BY <3>1, <3>3
  <2> QED
    BY <2>2, <2>3
<1>7. CASE q \in Prescalers(p)
  <2>1. old # NoneYet /\ old \in RegisterType /\ ~Better(Cand(q, t1), old)
    BY <1>7 DEF Explored
  <2>2. CASE new = old
    BY <2>1, <2>2
  <2>3. CASE new # old
    <3>1. new = reg /\ Usable(reg) /\ Better(reg, old)
      BY <2>1, <2>3
    <3> HIDE DEF Cand, reg
    <3>2. ~Better(old, reg)
      BY <1>4, <1>5, <2>1, <3>1, BetterOrder
    <3>3. ~Better(Cand(q, t1), reg)
      BY <1>3, <1>4, <1>5, <2>1, <3>1, <3>2, BetterOrder
    <3> QED
      BY <1>4, <3>1, <3>3
  <2> QED
    BY <2>2, <2>3
<1> QED
  BY <1>1, <1>6, <1>7

LEMMA TryKeepsLoop ==
  ASSUME BitTimingAssumption, IInv, TryBrp
  PROVE  IInv'
<1>1. /\ result = "loop" /\ result' = "loop" /\ sjw' = sjw /\ brp' = brp + Step
      /\ UNCHANGED <<args, sample_point>>
      /\ UNCHANGED <<clock, bitrate, btc, sample_point>>
  BY DEF TryBrp, args
<1>2. Arguments /\ brp \in Nat \ {0} /\ sjw = 0 /\ sample_point \in 1..(Unit - 1)
  BY <1>1 DEF IInv, TypeOK, Arguments
<1>3. Step \in Nat \ {0} /\ btc.brp_min \in Nat
  BY <1>2 DEF Step, Arguments, LimitsType
<1>4. btc.brp_min > 0
  BY <1>1 DEF IInv, Loop, Running
<1>5. brp' \in Nat \ {0} /\ brp' >= btc.brp_min /\ (brp' - btc.brp_min) % Step = 0
  <2>1. brp >= btc.brp_min /\ (brp - btc.brp_min) % Step = 0
    BY <1>1 DEF IInv, Loop, Running
  <2>2. (brp + Step) - btc.brp_min = (brp - btc.brp_min) + Step
    BY <1>2, <1>3
  <2>3. ((brp - btc.brp_min) + Step) % Step = (brp - btc.brp_min) % Step
    BY <1>2, <1>3, <2>1, MultipleSteps
  <2> QED
    BY <1>1, <1>2, <1>3, <2>1, <2>2, <2>3
<1>6. Explored(brp, best)
  BY <1>1 DEF IInv, Loop, Running
<1>7. best = NoneYet \/ best \in RegisterType
  BY DEF IInv, TypeOK, Own, Usable, RegisterType
<1>8. Explored(brp + Step, best')
  <2>1. best' = IF Usable(Registers(brp)) /\ (best = NoneYet \/ Better(Registers(brp), best))
                THEN Registers(brp) ELSE best
    BY DEF TryBrp
  <2>2. brp >= btc.brp_min /\ (brp - btc.brp_min) % Step = 0
    BY <1>1 DEF IInv, Loop, Running
  <2> QED
    BY <1>2, <1>4, <1>6, <1>7, <2>1, <2>2, OneMore
<1>9. Explored(brp, best)' /\ Loop'
  <2>1. Explored(brp', best')
    BY <1>1, <1>8
  <2>2. Explored(brp, best)'
    BY <1>1, <2>1, SameArguments DEF Explored
  <2>3. (brp' - btc.brp_min) % Step' = 0
    BY <1>1, <1>5, SameArguments
  <2> QED
    BY <1>1, <1>4, <1>5, <2>2, <2>3 DEF Loop, Running
<1>10. CASE best' = best
  <2>1. Own'
    BY <1>1, <1>10, SameArguments DEF IInv, Own
  <2>2. TypeOK'
    BY <1>1, <1>2, <1>5, <1>10 DEF IInv, TypeOK
  <2> QED
    BY <1>1, <1>9, <2>1, <2>2 DEF IInv, Done
<1>11. CASE best' = Registers(brp) /\ Usable(Registers(brp))
  <2>1. /\ Registers(brp).brp = brp /\ Registers(brp).tq = Quanta(brp)
        /\ Registers(brp).tseg1 \in Nat /\ Quanta(brp) \in Nat
        /\ Registers(brp) \in [brp : Nat \ {0}, tq : Nat, tseg1 : Nat]
    <3>1. Registers(brp).brp = brp /\ Registers(brp).tq = Quanta(brp)
      BY DEF Registers
    <3>2. Quanta(brp) \in Nat
      BY <1>2, QuantaType
    <3>3. Registers(brp).tseg1 \in Nat
      BY <1>2, <1>11 DEF Usable, Allowed, Arguments, LimitsType
    <3> QED
      BY <1>2, <3>1, <3>2, <3>3 DEF Registers
  <2>2. Own'
    BY <1>1, <1>2, <1>11, <2>1, SameArguments DEF Own
  <2>3. TypeOK'
    BY <1>1, <1>2, <1>5, <1>11, <2>1 DEF IInv, TypeOK
  <2> QED
    BY <1>1, <1>9, <2>2, <2>3 DEF IInv, Done
<1> QED
  BY <1>10, <1>11 DEF TryBrp

LEMMA CallKeepsLoop ==
  ASSUME BitTimingAssumption, IInv, Reject \/ Accept \/ Finish
  PROVE  IInv'
<1>1. CASE Reject
  BY <1>1 DEF Reject, args, IInv, TypeOK, Own, Loop, Running, Done
<1>2. CASE Accept
  <2>1. /\ result = "call" /\ result' = "loop" /\ best = NoneYet /\ best' = NoneYet
        /\ brp' = btc.brp_min /\ sjw' = 0 /\ UNCHANGED <<clock, bitrate, btc>>
    BY <1>2 DEF Accept, args, IInv, TypeOK, Loop, Running
  <2>2. /\ clock \in Nat \ {0} /\ bitrate \in Nat \ {0} /\ btc.brp_min \in Nat \ {0}
        /\ btc \in LimitsType
    BY <1>2 DEF Accept, BadArguments, IInv, TypeOK, LimitsType
  <2>3. sample_point' \in 1..(Unit - 1) /\ sample_point' \in Int
    BY <1>2, <2>2, DefaultInside DEF Accept, IInv, TypeOK, BitTimingAssumption
  <2>4. TypeOK'
    BY <2>1, <2>2, <2>3 DEF TypeOK
  <2>5. Explored(brp, best)'
    <3>1. Prescalers(brp)' = {}
      BY <2>1, <2>2 DEF Prescalers, LimitsType
    <3> QED
      BY <3>1 DEF Explored
  <2>6. (brp' - btc.brp_min) % Step' = 0
    <3>1. Step' \in Nat \ {0}
      BY <2>1, <2>2 DEF Step, LimitsType
    <3> QED
      BY <2>1, <2>2, <3>1
  <2>7. Loop' /\ Own' /\ Done'
    BY <2>1, <2>2, <2>5, <2>6 DEF Loop, Running, Own, Done
  <2> QED
    BY <2>4, <2>7 DEF IInv
<1>3. CASE Finish
  <2>1. /\ result = "loop" /\ brp > btc.brp_max /\ UNCHANGED <<args, sample_point, brp, best>>
        /\ UNCHANGED <<clock, bitrate, btc>>
        /\ \/ best = NoneYet /\ result' = "no_solution" /\ sjw' = sjw
           \/ best # NoneYet /\ result' = "ok" /\ sjw' = JumpWidth
    BY <1>3 DEF Finish, args
  <2>2. ASSUME best # NoneYet
        PROVE  JumpWidth \in Nat \ {0}
    <3>1. Tseg2(best) \in Nat /\ btc.sjw_max \in Nat
      BY <2>2 DEF IInv, TypeOK, Own, Usable, Allowed, LimitsType
    <3> QED
      BY <3>1 DEF JumpWidth
  <2>3. TypeOK'
    BY <2>1, <2>2 DEF IInv, TypeOK
  <2>4. Own'
    BY <2>1, SameArguments DEF IInv, Own
  <2>5. Explored(brp, best)' /\ Step' = Step
    <3>1. Explored(brp', best')
      BY <2>1 DEF IInv, Loop, Running
    <3> QED
      BY <2>1, <3>1, SameArguments DEF Explored
  <2>6. Loop' /\ Done'
    BY <2>1, <2>5 DEF IInv, Loop, Running, Done
  <2> QED
    BY <2>3, <2>4, <2>6 DEF IInv
<1> QED
  BY <1>1, <1>2, <1>3

LEMMA StutterKeepsLoop ==
  ASSUME IInv, UNCHANGED vars
  PROVE  IInv'
<1>1. /\ UNCHANGED <<args, sample_point>> /\ UNCHANGED <<clock, bitrate, btc>>
      /\ UNCHANGED <<brp, best, sjw, result>>
  BY DEF vars, args
<1>2. TypeOK' /\ Own' /\ Done'
  BY <1>1, SameArguments DEF IInv, TypeOK, Own, Done
<1>3. Loop'
  BY <1>1, SameArguments DEF IInv, Loop, Running
<1> QED
  BY <1>2, <1>3 DEF IInv

LEMMA LoopInvariant == Spec => []IInv
<1>1. Init => IInv
  BY BitTimingAssumption, InitLoop
<1>2. IInv /\ [Next]_vars => IInv'
  BY BitTimingAssumption, TryKeepsLoop, CallKeepsLoop, StutterKeepsLoop DEF Next
<1> QED
  BY <1>1, <1>2, PTL DEF Spec

(* When the loop has ended it has been at every prescaler of the device.    *)
LEMMA AllExplored ==
  ASSUME IInv, result \in {"ok", "no_solution"}
  PROVE  Explored(btc.brp_max + 1, best)
<1>1. brp > btc.brp_max /\ Explored(brp, best) /\ brp \in Nat /\ btc \in LimitsType
  BY DEF IInv, TypeOK, Done, Loop, Running
<1>2. Prescalers(btc.brp_max + 1) \subseteq Prescalers(brp)
  BY <1>1 DEF Prescalers, LimitsType
<1> QED
  BY <1>1, <1>2 DEF Explored

(* What the invariant says of a calculation, at every step of it.           *)
LEMMA LoopAnswers == IInv => ClosestSplit /\ NoSolutionMissed /\ BestOfAll
<1>1. IInv => ClosestSplit
  <2> SUFFICES ASSUME IInv, best # NoneYet
               PROVE  /\ best.tseg1 \in Splits(best.tq)
                      /\ \A t1 \in Splits(best.tq) :
                           ~Less(SampleErr(t1, best.tq), SampleErr(best.tseg1, best.tq))
    BY DEF ClosestSplit
  <2>1. /\ best.brp \in Nat \ {0} /\ Usable(best) /\ best = Registers(best.brp)
        /\ best.tq = Quanta(best.brp) /\ best.tq >= 3
    BY DEF IInv, Own, Usable
  <2>2. Running
    BY DEF IInv, Loop
  <2>3. Arguments
    BY <2>2 DEF IInv, TypeOK, Running, Arguments
  <2> QED
    BY <2>1, <2>3, BitTimingAssumption, RegistersOptimal
<1>2. IInv => NoSolutionMissed
  <2> SUFFICES ASSUME IInv, result = "no_solution", NEW q \in Prescalers(btc.brp_max + 1),
                      ~(Quanta(q) < 3)
               PROVE  Splits(Quanta(q)) = {}
    BY DEF NoSolutionMissed
  <2>1. best = NoneYet
    BY DEF IInv, Done
  <2>2. Quanta(q) >= 3
    <3>1. Arguments /\ q \in Nat \ {0}
      BY DEF IInv, TypeOK, Loop, Running, Arguments, Prescalers, LimitsType
    <3> QED
      BY <3>1, QuantaType
  <2> QED
    BY <2>1, <2>2, AllExplored DEF Explored
<1>3. IInv => BestOfAll
  BY AllExplored DEF BestOfAll, Explored
<1> QED
  BY <1>1, <1>2, <1>3

-------------------------------------------------------------------------------
(* The theorems. *)

(* The calculation keeps its types for every set of arguments.              *)
THEOREM BitTimingTypeCorrect == Spec => []TypeOK
<1>1. IInv => TypeOK
  BY DEF IInv
<1> QED
  BY <1>1, LoopInvariant, PTL

(* Correcting tseg1 twice, as gsusb_calc_bittiming() does, finds the legal  *)
(* split closest to the desired sample point, for all limits.               *)
THEOREM SplitIsClosest == Spec => []ClosestSplit
  BY LoopAnswers, LoopInvariant, PTL

(* "No solution" is never said of arguments that have one.                  *)
THEOREM NoSolutionIsTrue == Spec => []NoSolutionMissed
  BY LoopAnswers, LoopInvariant, PTL

(* The answer is the best of every prescaler with every legal split.        *)
THEOREM AnswerIsBest == Spec => []BestOfAll
  BY LoopAnswers, LoopInvariant, PTL

-------------------------------------------------------------------------------
(* configure(), which makes the calculation once or twice.                  *)

(* What is written on success is of a prescaler the device offers.          *)
Chosen ==
  /\ best # NoneYet => best.brp \in btc.brp_min..btc.brp_max
  /\ result = "ok" => sjw = JumpWidth

ConfigTypeOK ==
  /\ bt_const \in [nominal : LimitsType, data : LimitsType \cup {Absent}]
  /\ fd \in BOOLEAN /\ data_bitrate \in Nat \cup {Absent} /\ asked.data = data_bitrate
  /\ phase \in {"nominal", "data", "configured", "raised"}
  /\ DOMAIN device = {"nominal", "data"}

(* The phase being set has its own limits and bitrate, and those before it  *)
(* are as asked for.                                                        *)
Setting ==
  /\ phase = "nominal" =>
       /\ btc = bt_const.nominal /\ bitrate = asked.nominal
       /\ device.nominal = Unset /\ device.data = Unset /\ raw = {}
  /\ phase = "data" =>
       /\ btc = DataConst /\ bitrate = asked.data
       /\ fd /\ AsAsked("nominal") /\ device.data = Unset /\ raw = {}

ConfigInv == IInv /\ Chosen /\ ConfigTypeOK /\ Setting /\ PhasesConfigured

(* The registers of a calculation that succeeded are within its limits and  *)
(* make its bitrate.                                                        *)
LEMMA TimingFits ==
  ASSUME BitTimingAssumption, IInv, Chosen, result = "ok"
  PROVE  Legal(Timing, btc) /\ Makes(Timing, bitrate)
<1>1. /\ best # NoneYet /\ Usable(best) /\ best.tq = Quanta(best.brp)
      /\ best.brp \in Nat \ {0} /\ best.brp \in btc.brp_min..btc.brp_max
      /\ sjw = JumpWidth
  BY DEF IInv, Own, Done, Chosen
<1>2. /\ clock \in Nat /\ bitrate \in Nat \ {0} /\ btc \in LimitsType
      /\ best.tq \in Nat /\ best.tseg1 \in Nat
  BY <1>1 DEF IInv, TypeOK
<1>3. /\ Timing.prop_seg = 0 /\ Timing.phase_seg1 = best.tseg1 /\ Timing.phase_seg2 = Tseg2(best)
      /\ Timing.sjw = JumpWidth /\ Timing.brp = best.brp
  BY <1>1 DEF Timing
<1>4. Tseg2(best) \in Nat /\ Allowed(best.tseg1, Tseg2(best))
  BY <1>1, <1>2 DEF Usable, Allowed, LimitsType
<1>5. Legal(Timing, btc)
  <2>1. btc.sjw_max \in Nat
    BY <1>2 DEF LimitsType
  <2>2. /\ JumpWidth <= Tseg2(best) \/ JumpWidth = 1
        /\ JumpWidth <= btc.sjw_max \/ JumpWidth = 1
    BY <1>4, <2>1 DEF JumpWidth
  <2> HIDE DEF Timing, JumpWidth, Tseg2
  <2>3. 0 + best.tseg1 = best.tseg1
    BY <1>2
  <2> QED
    BY <1>1, <1>3, <1>4, <2>2, <2>3 DEF Legal, Allowed
<1>6. Makes(Timing, bitrate)
  <2> DEFINE u == best.brp * bitrate
             n == Nearest(clock, u)
             tq == 1 + Timing.prop_seg + Timing.phase_seg1 + Timing.phase_seg2
  <2>1. tq = best.tq
    BY <1>2, <1>3 DEF Tseg2
  <2>2. best.tq = n
    BY <1>1 DEF Quanta
  <2>3. u \in Nat \ {0}
    BY <1>1, <1>2
  <2>4. n \in Int /\ 2 * (n * u - clock) <= u /\ 2 * (clock - n * u) <= u
    <3> HIDE DEF u, n
    <3> QED
      BY <1>2, <2>3, NearestWithin DEF n
  <2>5. n * u = best.brp * n * bitrate
    <3> HIDE DEF n
    <3> QED
      BY <1>1, <1>2, <2>4
  <2> HIDE DEF u, n
  <2>6. n * u \in Int
    BY <2>3, <2>4
  <2>7. 2 * Abs(clock - n * u) <= u
    BY <1>2, <2>3, <2>4, <2>6 DEF Abs
  <2>8. 2 * Abs(clock - best.brp * n * bitrate) <= best.brp * bitrate
    BY <2>5, <2>7 DEF u
  <2> QED
    BY <1>3, <2>1, <2>2, <2>8 DEF Makes
<1> QED
  BY <1>5, <1>6

(* When the device takes them, the phase being set is as asked. *)
LEMMA TakenAsAsked ==
  ASSUME BitTimingAssumption, ConfigInv, phase \in {"nominal", "data"}, result = "ok",
         device' = [device EXCEPT ![phase] = Timing],
         UNCHANGED <<bt_const, asked, clock>>
  PROVE  /\ phase = "nominal" => AsAsked("nominal")' /\ device'.data = Unset
         /\ phase = "data" => AsAsked("data")' /\ AsAsked("nominal")'
<1>1. Legal(Timing, btc) /\ Makes(Timing, bitrate)
  BY TimingFits DEF ConfigInv
<1>2. Timing # Unset
  BY DEF Timing, Unset
<1>3. DOMAIN device = {"nominal", "data"}
  BY DEF ConfigInv, ConfigTypeOK
<1>4. CASE phase = "nominal"
  <2>1. /\ device'.nominal = Timing /\ device'.data = Unset
        /\ btc = bt_const.nominal /\ bitrate = asked.nominal
    BY <1>3, <1>4 DEF ConfigInv, Setting
  <2>2. AsAsked("nominal")'
    BY <1>1, <1>2, <2>1 DEF AsAsked, Legal, Makes
  <2> QED
    BY <1>4, <2>1, <2>2
<1>5. CASE phase = "data"
  <2>1. /\ device'.data = Timing /\ device'.nominal = device.nominal
        /\ btc = DataConst /\ bitrate = asked.data /\ AsAsked("nominal")
    BY <1>3, <1>5 DEF ConfigInv, Setting
  <2>2. AsAsked("nominal")'
    BY <2>1 DEF AsAsked, Legal, Makes
  <2>3. AsAsked("data")'
    BY <1>1, <1>2, <2>1 DEF AsAsked, DataConst, Legal, Makes
  <2> QED
    BY <1>5, <2>2, <2>3
<1> QED
  BY <1>4, <1>5

(* A step of the calculation keeps Chosen.                                  *)
LEMMA CalculationKeepsChosen ==
  ASSUME BitTimingAssumption, IInv, Chosen, [Next]_vars
  PROVE  Chosen'
<1>1. CASE TryBrp
  <2>1. /\ UNCHANGED <<clock, bitrate, btc>> /\ result' = "loop"
        /\ best' = best \/ best' = Registers(brp)
        /\ brp <= btc.brp_max /\ result = "loop" /\ brp \in Nat /\ btc \in LimitsType
    BY <1>1 DEF TryBrp, args, IInv, TypeOK
  <2>2. Registers(brp).brp = brp /\ brp >= btc.brp_min
    BY <2>1 DEF Registers, IInv, Loop, Running
  <2> QED
    BY <2>1, <2>2 DEF Chosen, LimitsType
<1>2. CASE Finish
  <2>1. /\ UNCHANGED <<clock, bitrate, btc, best>>
        /\ result' = "ok" => sjw' = JumpWidth
    BY <1>2 DEF Finish, args
  <2> QED
    BY <2>1 DEF Chosen, JumpWidth, Tseg2
<1>3. CASE Reject \/ Accept \/ UNCHANGED vars
  <2>1. UNCHANGED <<btc, best>> /\ (result' = "ok" => result = "ok" /\ sjw' = sjw)
    BY <1>3 DEF Reject, Accept, vars, args
  <2> QED
    BY <2>1 DEF Chosen, JumpWidth, Tseg2
<1> QED
  BY <1>1, <1>2, <1>3 DEF Next

LEMMA CalculationKeepsInv ==
  ASSUME BitTimingAssumption, IInv, [Next]_vars
  PROVE  IInv'
  BY TryKeepsLoop, CallKeepsLoop, StutterKeepsLoop DEF Next

(* The data phase begins a new calculation.                                 *)
LEMMA NewCalculation ==
  ASSUME BitTimingAssumption, BitRatesAssumption, ConfigInv, SetDataBitrate,
         data_bitrate # Absent, UNCHANGED config
  PROVE  IInv' /\ Chosen'
<1>1. /\ clock' = clock /\ clock \in Nat
      /\ bitrate' = data_bitrate /\ data_bitrate \in Nat
      /\ btc' = DataConst /\ DataConst \in LimitsType
      /\ sample_point' \in Int
      /\ brp' = 0 /\ best' = NoneYet /\ sjw' = 0 /\ result' = "call"
  BY DEF SetDataBitrate, ConfigInv, ConfigTypeOK, IInv, TypeOK, DataConst, BitTimingAssumption
<1> QED
  BY <1>1 DEF IInv, TypeOK, Own, Loop, Done, Running, Chosen

LEMMA ConfigureInvariant == ConfigureSpec => []ConfigInv
<1>1. ConfigureInit => ConfigInv
  <2> SUFFICES ASSUME ConfigureInit PROVE ConfigInv
    OBVIOUS
  <2>1. IInv
    BY BitTimingAssumption, InitLoop DEF ConfigureInit
  <2>2. btc \in LimitsType /\ best = NoneYet /\ result = "call"
    BY BitTimingAssumption DEF ConfigureInit, Init, BitTimingAssumption
  <2>3. ConfigTypeOK
    BY <2>2, BitRatesAssumption DEF ConfigureInit, ConfigTypeOK, BitRatesAssumption
  <2>4. Setting
    BY DEF ConfigureInit, Setting
  <2> QED
    BY <2>1, <2>2, <2>3, <2>4 DEF ConfigInv, Chosen, ConfigureInit, PhasesConfigured
<1>2. ConfigInv /\ [ConfigureNext]_<<vars, config, phase, device, raw>> => ConfigInv'
  <2> SUFFICES ASSUME ConfigInv, [ConfigureNext]_<<vars, config, phase, device, raw>>
               PROVE  ConfigInv'
    OBVIOUS
  <2> USE BitTimingAssumption, BitRatesAssumption
  <2>0. UNCHANGED <<bt_const, fd, data_bitrate, asked>> /\ clock' = clock
    BY DEF ConfigureNext, Calculate, NoTiming, SendTiming, PhaseSet, SetDataBitrate, SendFails,
           configure_raw, config, vars, args, Next, Reject, Accept, TryBrp, Finish
  <2>1. ASSUME UNCHANGED <<device, raw>>, phase' = phase \/ phase' = "raised",
               [Next]_vars
        PROVE  ConfigInv'
    <3>1. UNCHANGED <<bitrate, btc>>
      BY <2>1 DEF Next, Reject, Accept, TryBrp, Finish, vars, args
    <3>2. IInv' /\ Chosen'
      BY <2>1, CalculationKeepsInv, CalculationKeepsChosen DEF ConfigInv
    <3>3. ConfigTypeOK'
      BY <2>0, <2>1 DEF ConfigInv, ConfigTypeOK
    <3>4. Setting' /\ PhasesConfigured'
      BY <2>0, <2>1, <3>1
         DEF ConfigInv, Setting, PhasesConfigured, AsAsked, DataConst, Legal, Makes
    <3> QED
      BY <3>2, <3>3, <3>4 DEF ConfigInv
  <2>2. CASE Calculate \/ NoTiming \/ UNCHANGED <<vars, config, phase, device, raw>>
    BY <2>1, <2>2 DEF Calculate, NoTiming
  <2>3. CASE SendTiming
    <3>1. /\ phase \in {"nominal", "data"} /\ result = "ok" /\ PhaseSet /\ raw' = raw /\ raw = {}
          /\ device' = [device EXCEPT ![phase] = Timing]
      BY <2>3 DEF SendTiming, ConfigInv, Setting
    <3>2. /\ phase = "nominal" => AsAsked("nominal")' /\ device'.data = Unset
          /\ phase = "data" => AsAsked("data")' /\ AsAsked("nominal")'
      BY <2>0, <3>1, TakenAsAsked
    <3>3. DOMAIN device' = {"nominal", "data"}
      BY <3>1 DEF ConfigInv, ConfigTypeOK
    <3>4. phase' \in {"data", "configured", "raised"}
      BY <3>1 DEF PhaseSet, SetDataBitrate
    <3>5. IInv' /\ Chosen'
      <4>1. CASE UNCHANGED vars
        BY <4>1, CalculationKeepsInv, CalculationKeepsChosen DEF ConfigInv
      <4>2. CASE SetDataBitrate /\ data_bitrate # Absent
        BY <2>0, <4>2, NewCalculation DEF config
      <4> QED
        BY <3>1, <4>1, <4>2 DEF PhaseSet
    <3>6. ConfigTypeOK'
      BY <2>0, <3>3, <3>4 DEF ConfigInv, ConfigTypeOK
    <3>7. CASE phase = "nominal"
      <4>1. /\ phase' = "data" => fd /\ btc' = DataConst /\ bitrate' = asked.data
            /\ phase' = "configured" => ~fd
        BY <3>1, <3>7 DEF PhaseSet, SetDataBitrate, ConfigInv, ConfigTypeOK
      <4>2. Setting' /\ PhasesConfigured'
        BY <2>0, <3>1, <3>2, <3>4, <3>7, <4>1 DEF Setting, PhasesConfigured, DataConst
      <4> QED
        BY <3>5, <3>6, <4>2 DEF ConfigInv
    <3>8. CASE phase = "data"
      <4>1. phase' = "configured" /\ fd
        BY <3>1, <3>8 DEF PhaseSet, ConfigInv, Setting
      <4>2. Setting' /\ PhasesConfigured'
        BY <2>0, <3>2, <3>8, <4>1 DEF Setting, PhasesConfigured
      <4> QED
        BY <3>5, <3>6, <4>2 DEF ConfigInv
    <3> QED
      BY <3>1, <3>7, <3>8
  <2>4. CASE SendFails
    <3>1. /\ phase \in {"nominal", "data"} /\ result = "ok"
          /\ phase' = "raised" /\ UNCHANGED vars /\ raw' = raw
          /\ device' = device \/ device' = [device EXCEPT ![phase] = Timing]
      BY <2>4 DEF SendFails
    <3>2. CASE device' = device
      BY <2>1, <3>1, <3>2
    <3>3. CASE device' = [device EXCEPT ![phase] = Timing]
      <4>1. /\ phase = "nominal" => AsAsked("nominal")' /\ device'.data = Unset
            /\ phase = "data" => AsAsked("data")' /\ AsAsked("nominal")'
        BY <2>0, <3>1, <3>3, TakenAsAsked
      <4>2. IInv' /\ Chosen'
        BY <3>1, CalculationKeepsInv, CalculationKeepsChosen DEF ConfigInv
      <4>3. ConfigTypeOK' /\ Setting'
        BY <2>0, <3>1, <3>3 DEF ConfigInv, ConfigTypeOK, Setting
      <4>4. PhasesConfigured'
        BY <2>0, <3>1, <4>1 DEF PhasesConfigured, ConfigInv, Setting
      <4> QED
        BY <4>2, <4>3, <4>4 DEF ConfigInv
    <3> QED
      BY <3>1, <3>2, <3>3
  <2>5. CASE \E p \in {"nominal", "data"} : configure_raw(p)
    <3>1. PICK p \in {"nominal", "data"} : configure_raw(p)
      BY <2>5
    <3>2. /\ phase \in {"configured", "raised"} /\ phase' = phase /\ UNCHANGED vars
          /\ raw = {} /\ raw' = {p} /\ DOMAIN device' = {"nominal", "data"}
          /\ p # "nominal" => device'.nominal = device.nominal
          /\ p # "data" => device'.data = device.data
      BY <3>1 DEF configure_raw, ConfigInv, ConfigTypeOK
    <3>3. IInv' /\ Chosen'
      BY <3>2, CalculationKeepsInv, CalculationKeepsChosen DEF ConfigInv
    <3>4. ConfigTypeOK' /\ Setting'
      BY <2>0, <3>2 DEF ConfigInv, ConfigTypeOK, Setting
    <3>5. PhasesConfigured'
      <4>1. /\ p # "nominal" => (AsAsked("nominal") <=> AsAsked("nominal")')
            /\ p # "data" => (AsAsked("data") <=> AsAsked("data")')
        BY <2>0, <3>2 DEF AsAsked, Legal, Makes
      <4>2. PhasesConfigured /\ (p = "nominal" \/ p = "data")
        BY DEF ConfigInv
      <4> QED
        BY <2>0, <3>2, <4>1, <4>2 DEF PhasesConfigured
    <3> QED
      BY <3>3, <3>4, <3>5 DEF ConfigInv
  <2> QED
    BY <2>2, <2>3, <2>4, <2>5 DEF ConfigureNext
<1> QED
  BY <1>1, <1>2, PTL DEF ConfigureSpec

(* Whatever the limits and bitrates, each phase has the registers asked for *)
(* when configure() has returned, and none but those or none at all when it *)
(* failed, wherever that was.                                               *)
THEOREM ConfiguredAsAsked == ConfigureSpec => []PhasesConfigured
<1>1. ConfigInv => PhasesConfigured
  BY DEF ConfigInv
<1> QED
  BY <1>1, ConfigureInvariant, PTL

(* Both calculations of configure() have the answers that one call has.     *)
THEOREM EveryCallAnswers == ConfigureSpec => [](ClosestSplit /\ NoSolutionMissed /\ BestOfAll)
<1>1. ConfigInv => ClosestSplit /\ NoSolutionMissed /\ BestOfAll
  BY LoopAnswers DEF ConfigInv
<1> QED
  BY <1>1, ConfigureInvariant, PTL
===============================================================================
