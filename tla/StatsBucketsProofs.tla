--------------------------- MODULE StatsBucketsProofs ---------------------------
(***************************************************************************)
(* Proofs about StatsBuckets, for any keys, measured times, batch size and  *)
(* bounds, and for heartbeats of any two cycles in any order: every row is  *)
(* the aggregate of the results counted into it, and what counts as sent    *)
(* the panel holds.                                                         *)
(*                                                                         *)
(* A row is compared with its log through a tally: each field of the row    *)
(* said of the whole log.  A delta is a tally of a heartbeat's results, and *)
(* merging the tally of one sequence into that of another gives that of     *)
(* their concatenation, as long as the average comes from the stored sum    *)
(* and count.  Deltas and totals are recursive functions; what they are for *)
(* every length is shown by induction over sets of naturals, whose step is  *)
(* the least element of a set (no operator is abstracted over).             *)
(*                                                                         *)
(* Of Flush the invariant keeps that rows being sent are closed and queued, *)
(* that the batch still says what they say unless they got results since,   *)
(* and that the panel holds what is about to be marked as sent.             *)
(***************************************************************************)
EXTENDS StatsBuckets, FiniteSetTheorems, NaturalsInduction, WellFoundedInduction, TLAPS

(* Every non-empty set of naturals has a least element. *)
LEMMA LeastNatural ==
    ASSUME NEW T \in SUBSET Nat, T # {}
    PROVE  \E x \in T : \A y \in T : x <= y
<1>1. PICK x \in T : \A y \in T : <<y, x>> \notin OpToRel(<, Nat)
  BY NatLessThanWellFounded, WFMin
<1>2. \A y \in T : ~(y < x)
  BY <1>1, Zenon DEF OpToRel
<1> QED BY <1>2

(* So a set of naturals that has 0 and every successor has them all. *)
LEMMA Induction ==
    ASSUME NEW N, 0 \in N, \A n \in Nat : n \in N => n + 1 \in N
    PROVE  \A n \in Nat : n \in N
<1> DEFINE T == {n \in Nat : n \notin N}
<1>1. CASE T = {}
  BY <1>1
<1>2. CASE T # {}
  <2>1. PICK x \in T : \A y \in T : x <= y
    <3>1. T \in SUBSET Nat
      OBVIOUS
    <3> HIDE DEF T
    <3> QED BY <1>2, <3>1, LeastNatural
  <2>2. x # 0 /\ x - 1 \in Nat /\ x - 1 \notin T
    BY <2>1
  <2>3. x \in N
    BY <2>2
  <2> QED BY <2>1, <2>3
<1> QED BY <1>1, <1>2

(* The recursion that defines the delta of a heartbeat has a solution, which *)
(* is what Deltas chooses.                                                    *)
LEMMA DeltasRecur ==
    ASSUME NEW rs, Len(rs) \in Nat, NEW awg
    PROVE  /\ DOMAIN Deltas(rs, awg) = 0..Len(rs)
           /\ Deltas(rs, awg)[0] = NoDelta
           /\ \A i \in 1..Len(rs) : Deltas(rs, awg)[i] = Add(Deltas(rs, awg)[i-1], rs[i], awg)
<1> DEFINE body(f, n) == [i \in 0..n |-> IF i = 0 THEN NoDelta ELSE Add(f[i-1], rs[i], awg)]
           N == {n \in Nat : \E f : f = body(f, n)}
<1>1. 0 \in N
  <2> DEFINE f == [i \in 0..0 |-> NoDelta]
  <2>1. f = body(f, 0)
    OBVIOUS
  <2> QED BY <2>1
<1>2. ASSUME NEW n \in Nat, n \in N PROVE n + 1 \in N
  <2>1. PICK f : f = body(f, n)
    BY <1>2
  <2> DEFINE g == [i \in 0..(n+1) |-> IF i = n+1 THEN Add(f[n], rs[n+1], awg) ELSE f[i]]
  <2>2. \A i \in 0..n : f[i] = IF i = 0 THEN NoDelta ELSE Add(f[i-1], rs[i], awg)
    BY <2>1, Zenon
  <2>3. /\ \A i \in 0..n : g[i] = f[i] /\ (i # 0 => g[i-1] = f[i-1])
        /\ g[n+1] = Add(g[n], rs[n+1], awg)
    OBVIOUS
  <2>4. \A i \in 0..(n+1) : g[i] = IF i = 0 THEN NoDelta ELSE Add(g[i-1], rs[i], awg)
    <3> HIDE DEF g
    <3>1. ASSUME NEW i \in 0..n PROVE g[i] = IF i = 0 THEN NoDelta ELSE Add(g[i-1], rs[i], awg)
      BY <2>2, <2>3
    <3>2. n+1 # 0 /\ (n+1)-1 = n
      OBVIOUS
    <3>3. g[n+1] = IF n+1 = 0 THEN NoDelta ELSE Add(g[(n+1)-1], rs[n+1], awg)
      BY <2>3, <3>2
    <3>4. \A i \in 0..(n+1) : i \in 0..n \/ i = n+1
      OBVIOUS
    <3> QED BY <3>1, <3>3, <3>4
  <2>5. g = body(g, n+1)
    BY <2>4, Zenon
  <2>6. \E h : h = body(h, n+1)
    <3> HIDE DEF g, body
    <3> QED BY <2>5
  <2> HIDE DEF body
  <2> QED BY <2>6
<1>3. \E f : f = body(f, Len(rs))
  <2> HIDE DEF N
  <2>1. Len(rs) \in N
    BY <1>1, <1>2, Induction
  <2> QED BY <2>1 DEF N
<1>4. Deltas(rs, awg) = body(Deltas(rs, awg), Len(rs))
  BY <1>3, Zenon DEF Deltas
<1> QED BY <1>4

(* What the i-th result adds to the total. *)
Time(rs, i) == IF i \in Measured(rs) THEN rs[i].ms ELSE 0

(* The same for the total of the measured times. *)
LEMMA TotalsRecur ==
    ASSUME NEW rs, Len(rs) \in Nat
    PROVE  /\ DOMAIN Totals(rs) = 0..Len(rs)
           /\ Totals(rs)[0] = 0
           /\ \A i \in 1..Len(rs) : Totals(rs)[i] = Totals(rs)[i-1] + Time(rs, i)
<1> DEFINE body(f, n) == [i \in 0..n |-> IF i = 0 THEN 0 ELSE f[i-1] + Time(rs, i)]
           N == {n \in Nat : \E f : f = body(f, n)}
<1>1. 0 \in N
  <2> DEFINE f == [i \in 0..0 |-> 0]
  <2>1. f = body(f, 0)
    OBVIOUS
  <2> QED BY <2>1
<1>2. ASSUME NEW n \in Nat, n \in N PROVE n + 1 \in N
  <2>1. PICK f : f = body(f, n)
    BY <1>2
  <2> DEFINE g == [i \in 0..(n+1) |-> IF i = n+1 THEN f[n] + Time(rs, n+1) ELSE f[i]]
  <2>2. \A i \in 0..n : f[i] = IF i = 0 THEN 0 ELSE f[i-1] + Time(rs, i)
    BY <2>1, Zenon
  <2>3. /\ \A i \in 0..n : g[i] = f[i] /\ (i # 0 => g[i-1] = f[i-1])
        /\ g[n+1] = g[n] + Time(rs, n+1)
    OBVIOUS
  <2>4. \A i \in 0..(n+1) : g[i] = IF i = 0 THEN 0 ELSE g[i-1] + Time(rs, i)
    <3> HIDE DEF g
    <3>1. ASSUME NEW i \in 0..n PROVE g[i] = IF i = 0 THEN 0 ELSE g[i-1] + Time(rs, i)
      BY <2>2, <2>3
    <3>2. n+1 # 0 /\ (n+1)-1 = n
      OBVIOUS
    <3>3. g[n+1] = IF n+1 = 0 THEN 0 ELSE g[(n+1)-1] + Time(rs, n+1)
      BY <2>3, <3>2
    <3>4. \A i \in 0..(n+1) : i \in 0..n \/ i = n+1
      OBVIOUS
    <3> QED BY <3>1, <3>3, <3>4
  <2>5. g = body(g, n+1)
    BY <2>4, Zenon
  <2>6. \E h : h = body(h, n+1)
    <3> HIDE DEF g, body
    <3> QED BY <2>5
  <2> HIDE DEF body
  <2> QED BY <2>6
<1>3. \E f : f = body(f, Len(rs))
  <2> HIDE DEF N
  <2>1. Len(rs) \in N
    BY <1>1, <1>2, Induction
  <2> QED BY <2>1 DEF N
<1>4. Totals(rs) = body(Totals(rs), Len(rs))
  BY <1>3, Zenon DEF Totals, Time
<1> QED BY <1>4

-----------------------------------------------------------------------------
(* Results, deltas and rows *)

Maybe == Nat \union {Null}

Row == [nOk : Nat, nFail : Nat, latMin : Maybe, latMax : Maybe, latAvg : Maybe, latSum : Nat, latN : Nat,
        handshake : Maybe, at : {"none", "queued", "sent", "dropped"}]

Delta == [nOk : Nat, nFail : Nat, latSum : Nat, latN : Nat, latMin : Maybe, latMax : Maybe,
          handshakeSet : BOOLEAN, handshake : Maybe]

(* A delta's extremes go with its count, and its measurements with its kind. *)
Fits(d, awg) ==
    /\ IF d.latN = 0 THEN d.latSum = 0 /\ d.latMin = Null /\ d.latMax = Null
       ELSE d.latMin \in Nat /\ d.latMax \in Nat
    /\ awg => d.latN = 0
    /\ ~awg => ~d.handshakeSet

(* A row's average goes with its sum and count. *)
Rounded(sum, n) == IF n = 0 THEN Null ELSE (sum + n \div 2) \div n

(* What one more result makes of a row, the average aside. *)
Stepped(m, n, r, awg) ==
    /\ n.nOk = m.nOk + (IF r.ok THEN 1 ELSE 0)
    /\ n.nFail = m.nFail + (IF r.ok THEN 0 ELSE 1)
    /\ n.handshake = IF r.ok /\ awg THEN r.ms ELSE m.handshake
    /\ IF r.ok /\ ~awg /\ r.ms # Null
       THEN /\ n.latSum = m.latSum + r.ms /\ n.latN = m.latN + 1
            /\ n.latMin = Lesser(m.latMin, r.ms) /\ n.latMax = Greater(m.latMax, r.ms)
       ELSE /\ n.latSum = m.latSum /\ n.latN = m.latN
            /\ n.latMin = m.latMin /\ n.latMax = m.latMax

\* A failure carries no measurement.
LEMMA ResultParts ==
    ASSUME NEW r \in Result
    PROVE  r.ok \in BOOLEAN /\ r.ms \in Maybe /\ (~r.ok => r.ms = Null)
BY StatsAssumption DEF Result, Maybe

\* What a quotient is between.
LEMMA Quotient ==
    ASSUME NEW a \in Nat, NEW n \in Nat \ {0}
    PROVE  a \div n \in Nat /\ n * (a \div n) <= a /\ a < n * (a \div n) + n
OBVIOUS

\* With one measurement there is a least and a greatest.
LEMMA Extremes ==
    ASSUME NEW x \in Maybe, NEW y \in Nat
    PROVE  Lesser(x, y) \in Nat /\ Greater(x, y) \in Nat
BY DEF Lesser, Greater, Maybe, Null

(* The four ways in which a result counts. *)
LEMMA AddCases ==
    ASSUME NEW d \in Delta, NEW r \in Result, NEW awg \in BOOLEAN
    PROVE  /\ ~r.ok => Add(d, r, awg) = [d EXCEPT !.nFail = @ + 1]
           /\ r.ok /\ awg => Add(d, r, awg) = [d EXCEPT !.nOk = @ + 1, !.handshakeSet = TRUE, !.handshake = r.ms]
           /\ r.ok /\ ~awg /\ r.ms = Null => Add(d, r, awg) = [d EXCEPT !.nOk = @ + 1]
           /\ r.ok /\ ~awg /\ r.ms # Null =>
                Add(d, r, awg) = [d EXCEPT !.nOk = @ + 1, !.latSum = @ + r.ms, !.latN = @ + 1,
                                           !.latMin = Lesser(@, r.ms), !.latMax = Greater(@, r.ms)]
BY DEF Add

\* A result added to a delta gives a delta.
LEMMA Adds ==
    ASSUME NEW d \in Delta, NEW r \in Result, NEW awg \in BOOLEAN, Fits(d, awg)
    PROVE  Add(d, r, awg) \in Delta /\ Fits(Add(d, r, awg), awg)
<1>1. CASE ~r.ok
  <2> DEFINE e == [d EXCEPT !.nFail = @ + 1]
  <2>1. e \in Delta /\ Fits(e, awg)
    BY DEF Delta, Fits
  <2> QED BY <1>1, <2>1, AddCases
<1>2. CASE r.ok /\ awg
  <2> DEFINE e == [d EXCEPT !.nOk = @ + 1, !.handshakeSet = TRUE, !.handshake = r.ms]
  <2>1. e \in Delta /\ Fits(e, awg)
    <3>1. d.nOk + 1 \in Nat /\ r.ms \in Maybe
      BY ResultParts DEF Delta
    <3> QED BY <1>2, <3>1 DEF Delta, Fits
  <2> QED BY <1>2, <2>1, AddCases
<1>3. CASE r.ok /\ ~awg /\ r.ms = Null
  <2> DEFINE e == [d EXCEPT !.nOk = @ + 1]
  <2>1. e \in Delta /\ Fits(e, awg)
    BY DEF Delta, Fits
  <2> QED BY <1>3, <2>1, AddCases
<1>4. CASE r.ok /\ ~awg /\ r.ms # Null
  <2> DEFINE e == [d EXCEPT !.nOk = @ + 1, !.latSum = @ + r.ms, !.latN = @ + 1,
                            !.latMin = Lesser(@, r.ms), !.latMax = Greater(@, r.ms)]
  <2>1. r.ms \in Nat
    BY <1>4, ResultParts DEF Maybe
  <2>2. Lesser(d.latMin, r.ms) \in Nat /\ Greater(d.latMax, r.ms) \in Nat
    BY <2>1, Extremes DEF Delta
  <2>3. e \in Delta /\ Fits(e, awg)
    <3>1. d.nOk + 1 \in Nat /\ d.latSum + r.ms \in Nat /\ d.latN + 1 \in Nat \ {0}
      BY <2>1 DEF Delta
    <3> QED BY <1>4, <2>2, <3>1 DEF Delta, Fits, Maybe
  <2> QED BY <1>4, <2>3, AddCases
<1> QED BY <1>1, <1>2, <1>3, <1>4, ResultParts

\* The merged average is one, or still none.
LEMMA Averages ==
    ASSUME NEW row \in Row, NEW d \in Delta
    PROVE  Average(row, d) \in Maybe
<1>1. CASE d.latN = 0
  BY <1>1 DEF Average, Row
<1>2. CASE d.latN # 0
  <2> DEFINE n == row.latN + d.latN
             a == row.latSum + d.latSum + n \div 2
  <2>1. n \in Nat \ {0}
    BY <1>2 DEF Row, Delta
  <2>2. n \div 2 \in Nat
    BY <2>1, Quotient
  <2>3. a \in Nat
    BY <2>2 DEF Row, Delta
  <2>4. Average(row, d) = a \div n
    BY <1>2 DEF Average
  <2> HIDE DEF a, n
  <2> QED BY <2>1, <2>3, <2>4, Quotient DEF Maybe
<1> QED BY <1>1, <1>2

(* A merged row, field by field. *)
LEMMA MergedFields ==
    ASSUME NEW row \in Row, NEW d \in Delta
    PROVE  LET m == Merged(row, d) IN
           /\ m.nOk = row.nOk + d.nOk /\ m.nFail = row.nFail + d.nFail
           /\ m.latSum = row.latSum + d.latSum /\ m.latN = row.latN + d.latN
           /\ m.latMin = IF d.latN > 0 THEN Lesser(row.latMin, d.latMin) ELSE row.latMin
           /\ m.latMax = IF d.latN > 0 THEN Greater(row.latMax, d.latMax) ELSE row.latMax
           /\ m.latAvg = Average(row, d)
           /\ m.handshake = IF d.handshakeSet THEN d.handshake ELSE row.handshake
           /\ m.at = "queued"
BY DEF Merged, Row

\* A delta merged into a row gives a row.
LEMMA Merges ==
    ASSUME NEW row \in Row, NEW d \in Delta, NEW awg, Fits(d, awg)
    PROVE  Merged(row, d) \in Row
<1> DEFINE least == IF d.latN > 0 THEN Lesser(row.latMin, d.latMin) ELSE row.latMin
           most  == IF d.latN > 0 THEN Greater(row.latMax, d.latMax) ELSE row.latMax
           avg   == Average(row, d)
           shake == IF d.handshakeSet THEN d.handshake ELSE row.handshake
<1>1. least \in Maybe /\ most \in Maybe
  <2>1. CASE d.latN > 0
    <3>1. d.latMin \in Nat /\ d.latMax \in Nat /\ row.latMin \in Maybe /\ row.latMax \in Maybe
      BY <2>1 DEF Fits, Row, Delta
    <3> QED BY <2>1, <3>1, Extremes DEF Maybe
  <2>2. CASE ~(d.latN > 0)
    BY <2>2 DEF Row
  <2> QED BY <2>1, <2>2
<1>2. avg \in Maybe /\ shake \in Maybe
  BY Averages DEF Row, Delta
<1>3. Merged(row, d) = [row EXCEPT !.nOk = @ + d.nOk, !.nFail = @ + d.nFail, !.latMin = least, !.latMax = most,
                                   !.latSum = @ + d.latSum, !.latN = @ + d.latN, !.latAvg = avg,
                                   !.handshake = shake, !.at = "queued"]
  BY DEF Merged
<1>4. /\ row.nOk + d.nOk \in Nat /\ row.nFail + d.nFail \in Nat
      /\ row.latSum + d.latSum \in Nat /\ row.latN + d.latN \in Nat
  BY DEF Row, Delta
<1> HIDE DEF least, most, avg, shake
<1> QED BY <1>1, <1>2, <1>3, <1>4 DEF Row

\* Merging a delta with one more result is one more result on top of merging the delta.
LEMMA MergesStep ==
    ASSUME NEW row \in Row, NEW d \in Delta, NEW r \in Result, NEW awg \in BOOLEAN, Fits(d, awg)
    PROVE  Stepped(Merged(row, d), Merged(row, Add(d, r, awg)), r, awg)
<1> DEFINE m == Merged(row, d)
           e == Add(d, r, awg)
           n == Merged(row, e)
<1> SUFFICES Stepped(m, n, r, awg)
  OBVIOUS
<1>1. e \in Delta /\ Fits(e, awg)
  BY Adds
<1>2. /\ m.nOk = row.nOk + d.nOk /\ m.nFail = row.nFail + d.nFail
      /\ m.latSum = row.latSum + d.latSum /\ m.latN = row.latN + d.latN
      /\ m.latMin = IF d.latN > 0 THEN Lesser(row.latMin, d.latMin) ELSE row.latMin
      /\ m.latMax = IF d.latN > 0 THEN Greater(row.latMax, d.latMax) ELSE row.latMax
      /\ m.handshake = IF d.handshakeSet THEN d.handshake ELSE row.handshake
  BY MergedFields
<1>3. /\ n.nOk = row.nOk + e.nOk /\ n.nFail = row.nFail + e.nFail
      /\ n.latSum = row.latSum + e.latSum /\ n.latN = row.latN + e.latN
      /\ n.latMin = IF e.latN > 0 THEN Lesser(row.latMin, e.latMin) ELSE row.latMin
      /\ n.latMax = IF e.latN > 0 THEN Greater(row.latMax, e.latMax) ELSE row.latMax
      /\ n.handshake = IF e.handshakeSet THEN e.handshake ELSE row.handshake
  <2> HIDE DEF e
  <2> QED BY <1>1, MergedFields
<1> HIDE DEF m, n
<1>4. CASE ~r.ok
  <2>1. e = [d EXCEPT !.nFail = @ + 1]
    BY <1>4, AddCases
  <2>2. /\ e.nOk = d.nOk /\ e.nFail = d.nFail + 1 /\ e.latSum = d.latSum /\ e.latN = d.latN
        /\ e.latMin = d.latMin /\ e.latMax = d.latMax
        /\ e.handshakeSet = d.handshakeSet /\ e.handshake = d.handshake
    BY <2>1 DEF Delta
  <2> HIDE DEF e
  <2> QED BY <1>2, <1>3, <1>4, <2>2 DEF Stepped, Delta, Row
<1>5. CASE r.ok /\ awg
  <2> DEFINE f == [d EXCEPT !.nOk = @ + 1, !.handshakeSet = TRUE, !.handshake = r.ms]
  <2>1. /\ f.nOk = d.nOk + 1 /\ f.nFail = d.nFail /\ f.latSum = d.latSum /\ f.latN = d.latN
        /\ f.latMin = d.latMin /\ f.latMax = d.latMax /\ f.handshakeSet /\ f.handshake = r.ms
    BY DEF Delta
  <2>2. /\ e.nOk = d.nOk + 1 /\ e.nFail = d.nFail /\ e.latSum = d.latSum /\ e.latN = d.latN
        /\ e.latMin = d.latMin /\ e.latMax = d.latMax /\ e.handshakeSet /\ e.handshake = r.ms
    BY <1>5, <2>1, AddCases
  <2> HIDE DEF e
  <2> QED BY <1>2, <1>3, <1>5, <2>2 DEF Stepped, Delta, Row
<1>6. CASE r.ok /\ ~awg /\ r.ms = Null
  <2>1. e = [d EXCEPT !.nOk = @ + 1]
    BY <1>6, AddCases
  <2>2. /\ e.nOk = d.nOk + 1 /\ e.nFail = d.nFail /\ e.latSum = d.latSum /\ e.latN = d.latN
        /\ e.latMin = d.latMin /\ e.latMax = d.latMax
        /\ e.handshakeSet = d.handshakeSet /\ e.handshake = d.handshake
    BY <2>1 DEF Delta
  <2> HIDE DEF e
  <2> QED BY <1>2, <1>3, <1>6, <2>2 DEF Stepped, Delta, Row
<1>7. CASE r.ok /\ ~awg /\ r.ms # Null
  <2> DEFINE f == [d EXCEPT !.nOk = @ + 1, !.latSum = @ + r.ms, !.latN = @ + 1,
                            !.latMin = Lesser(@, r.ms), !.latMax = Greater(@, r.ms)]
  <2>1. /\ f.nOk = d.nOk + 1 /\ f.nFail = d.nFail
        /\ f.latSum = d.latSum + r.ms /\ f.latN = d.latN + 1
        /\ f.latMin = Lesser(d.latMin, r.ms) /\ f.latMax = Greater(d.latMax, r.ms)
        /\ f.handshakeSet = d.handshakeSet /\ f.handshake = d.handshake
    BY DEF Delta
  <2>2. /\ e.nOk = d.nOk + 1 /\ e.nFail = d.nFail
        /\ e.latSum = d.latSum + r.ms /\ e.latN = d.latN + 1
        /\ e.latMin = Lesser(d.latMin, r.ms) /\ e.latMax = Greater(d.latMax, r.ms)
        /\ e.handshakeSet = d.handshakeSet /\ e.handshake = d.handshake
    BY <1>7, <2>1 DEF Add
  <2>3. r.ms \in Nat
    BY <1>7, ResultParts DEF Maybe
  <2> HIDE DEF e
  <2>4. n.latMin = Lesser(m.latMin, r.ms) /\ n.latMax = Greater(m.latMax, r.ms)
    <3>1. /\ row.latMin \in Maybe /\ row.latMax \in Maybe /\ d.latN \in Nat
          /\ d.latN = 0 => d.latMin = Null /\ d.latMax = Null
          /\ d.latN # 0 => d.latMin \in Nat /\ d.latMax \in Nat
      BY DEF Row, Delta, Fits
    <3>2. CASE d.latN = 0
      BY <1>2, <1>3, <2>2, <2>3, <3>1, <3>2 DEF Lesser, Greater
    <3>3. CASE d.latN # 0
      BY <1>2, <1>3, <2>2, <2>3, <3>1, <3>3 DEF Lesser, Greater, Maybe, Null
    <3> QED BY <3>2, <3>3
  <2> QED BY <1>2, <1>3, <1>7, <2>2, <2>3, <2>4 DEF Stepped, Delta, Row
<1> QED BY <1>4, <1>5, <1>6, <1>7, ResultParts DEF m, n

\* A merged average is the rounded one of the merged sum and count.
LEMMA MergesAverage ==
    ASSUME NEW row \in Row, NEW d \in Delta, NEW awg, Fits(d, awg), row.latAvg = Rounded(row.latSum, row.latN)
    PROVE  Merged(row, d).latAvg = Rounded(Merged(row, d).latSum, Merged(row, d).latN)
BY DEF Merged, Row, Delta, Fits, Average, Rounded

-----------------------------------------------------------------------------
(* A row is what the results counted so far make of it *)

OksTo(rs, n)      == {i \in 1..n : rs[i].ok}
MeasuredTo(rs, n) == {i \in OksTo(rs, n) : rs[i].ms # Null}

FailsTo(rs, n)    == (1..n) \ OksTo(rs, n)

LatestTo(ms, rs, n) ==
    IF OksTo(rs, n) = {} THEN ms = Null
    ELSE \E i \in OksTo(rs, n) : ms = rs[i].ms /\ \A j \in OksTo(rs, n) : j <= i

LeastTo(m, rs, n) ==
    IF MeasuredTo(rs, n) = {} THEN m = Null
    ELSE /\ \E i \in MeasuredTo(rs, n) : m = rs[i].ms
         /\ \A i \in MeasuredTo(rs, n) : m <= rs[i].ms

MostTo(m, rs, n) ==
    IF MeasuredTo(rs, n) = {} THEN m = Null
    ELSE /\ \E i \in MeasuredTo(rs, n) : m = rs[i].ms
         /\ \A i \in MeasuredTo(rs, n) : rs[i].ms <= m

(* m is what the first n results of rs make of a row. *)
Tallies(m, rs, n, awg) ==
    /\ m.nOk = Cardinality(OksTo(rs, n))
    /\ m.nFail = Cardinality(FailsTo(rs, n))
    /\ IF awg THEN m.latN = 0 /\ LatestTo(m.handshake, rs, n)
       ELSE /\ m.handshake = Null
            /\ m.latN = Cardinality(MeasuredTo(rs, n)) /\ m.latSum = Totals(rs)[n]
            /\ LeastTo(m.latMin, rs, n) /\ MostTo(m.latMax, rs, n)

(* The sets of results grow by the one that is counted. *)
LEMMA SetsGrow ==
    ASSUME NEW rs, NEW n \in Nat \ {0}
    PROVE  /\ OksTo(rs, n) = IF rs[n].ok THEN OksTo(rs, n-1) \union {n} ELSE OksTo(rs, n-1)
           /\ FailsTo(rs, n) = IF rs[n].ok THEN FailsTo(rs, n-1)
                                      ELSE FailsTo(rs, n-1) \union {n}
           /\ MeasuredTo(rs, n) = IF rs[n].ok /\ rs[n].ms # Null THEN MeasuredTo(rs, n-1) \union {n}
                                  ELSE MeasuredTo(rs, n-1)
           /\ n \notin OksTo(rs, n-1) /\ n \notin MeasuredTo(rs, n-1) /\ n \notin FailsTo(rs, n-1)
<1>1. 1..n = (1..(n-1)) \union {n} /\ n \notin 1..(n-1)
  OBVIOUS
<1> QED BY <1>1 DEF OksTo, FailsTo, MeasuredTo

\* The sets that are counted are finite.
LEMMA SetsAreFinite ==
    ASSUME NEW rs, NEW n \in Nat
    PROVE  /\ IsFiniteSet(OksTo(rs, n)) /\ Cardinality(OksTo(rs, n)) \in Nat
           /\ IsFiniteSet(FailsTo(rs, n)) /\ Cardinality(FailsTo(rs, n)) \in Nat
           /\ IsFiniteSet(MeasuredTo(rs, n)) /\ Cardinality(MeasuredTo(rs, n)) \in Nat
           /\ OksTo(rs, n) \subseteq 1..n /\ MeasuredTo(rs, n) \subseteq OksTo(rs, n)
<1>1. IsFiniteSet(1..n)
  BY FS_Interval
<1>2. /\ OksTo(rs, n) \in SUBSET (1..n) /\ FailsTo(rs, n) \in SUBSET (1..n)
      /\ MeasuredTo(rs, n) \in SUBSET (1..n) /\ MeasuredTo(rs, n) \subseteq OksTo(rs, n)
  BY DEF OksTo, FailsTo, MeasuredTo
<1> QED BY <1>1, <1>2, FS_Subset, FS_CardinalityType

\* The tally of one more result.
LEMMA TallyStep ==
    ASSUME NEW rs \in Seq(Result), NEW n \in 1..Len(rs), NEW awg \in BOOLEAN,
           NEW m \in Row, NEW o \in Row, Tallies(m, rs, n-1, awg), Stepped(m, o, rs[n], awg)
    PROVE  Tallies(o, rs, n, awg)
<1>1. /\ n \in Nat \ {0} /\ n - 1 \in Nat /\ Len(rs) \in Nat /\ DOMAIN rs = 1..Len(rs)
      /\ rs[n] \in Result /\ rs[n].ok \in BOOLEAN /\ rs[n].ms \in Maybe
  BY ResultParts
<1>2. o.nOk = Cardinality(OksTo(rs, n))
  <2>1. m.nOk = Cardinality(OksTo(rs, n-1))
    BY DEF Tallies
  <2>2. o.nOk = m.nOk + (IF rs[n].ok THEN 1 ELSE 0)
    BY DEF Stepped
  <2>3. /\ OksTo(rs, n) = IF rs[n].ok THEN OksTo(rs, n-1) \union {n} ELSE OksTo(rs, n-1)
        /\ n \notin OksTo(rs, n-1)
    BY <1>1, SetsGrow
  <2>4. IsFiniteSet(OksTo(rs, n-1)) /\ Cardinality(OksTo(rs, n-1)) \in Nat
    BY <1>1, SetsAreFinite
  <2>5. CASE rs[n].ok
    <3>1. OksTo(rs, n) = OksTo(rs, n-1) \union {n} /\ o.nOk = m.nOk + 1
      BY <2>2, <2>3, <2>5
    <3>2. Cardinality(OksTo(rs, n-1) \union {n}) = Cardinality(OksTo(rs, n-1)) + 1
      BY <2>3, <2>4, FS_AddElement
    <3> QED BY <2>1, <3>1, <3>2
  <2>6. CASE ~rs[n].ok
    <3>1. OksTo(rs, n) = OksTo(rs, n-1) /\ o.nOk = m.nOk + 0
      BY <2>2, <2>3, <2>6
    <3> QED BY <2>1, <2>4, <3>1
  <2> QED BY <2>5, <2>6
<1>3. o.nFail = Cardinality(FailsTo(rs, n))
  <2>1. m.nFail = Cardinality(FailsTo(rs, n-1))
    BY DEF Tallies
  <2>2. o.nFail = m.nFail + (IF rs[n].ok THEN 0 ELSE 1)
    BY DEF Stepped
  <2>3. /\ FailsTo(rs, n) = IF rs[n].ok THEN FailsTo(rs, n-1)
                                  ELSE FailsTo(rs, n-1) \union {n}
        /\ n \notin FailsTo(rs, n-1)
    BY <1>1, SetsGrow
  <2>4. IsFiniteSet(FailsTo(rs, n-1)) /\ Cardinality(FailsTo(rs, n-1)) \in Nat
    BY <1>1, SetsAreFinite
  <2>5. CASE rs[n].ok
    <3>1. FailsTo(rs, n) = FailsTo(rs, n-1) /\ o.nFail = m.nFail + 0
      BY <2>2, <2>3, <2>5
    <3> QED BY <2>1, <2>4, <3>1
  <2>6. CASE ~rs[n].ok
    <3>1. FailsTo(rs, n) = FailsTo(rs, n-1) \union {n} /\ o.nFail = m.nFail + 1
      BY <2>2, <2>3, <2>6
    <3>2. Cardinality(FailsTo(rs, n-1) \union {n}) = Cardinality(FailsTo(rs, n-1)) + 1
      BY <2>3, <2>4, FS_AddElement
    <3> QED BY <2>1, <3>1, <3>2
  <2> QED BY <2>5, <2>6
<1>4. CASE awg
  <2>1. o.latN = 0 /\ LatestTo(m.handshake, rs, n-1) /\ o.handshake = IF rs[n].ok THEN rs[n].ms ELSE m.handshake
    BY <1>4 DEF Tallies, Stepped
  <2>2. CASE rs[n].ok
    <3>1. OksTo(rs, n) = OksTo(rs, n-1) \union {n} /\ \A j \in OksTo(rs, n-1) : j <= n
      <4>1. OksTo(rs, n) = OksTo(rs, n-1) \union {n}
        BY <1>1, <2>2, SetsGrow
      <4>2. \A j \in OksTo(rs, n-1) : j \in 1..(n-1)
        BY DEF OksTo
      <4> QED BY <1>1, <4>1, <4>2
    <3> QED BY <1>1, <1>2, <1>3, <1>4, <2>1, <2>2, <3>1 DEF Tallies, LatestTo
  <2>3. CASE ~rs[n].ok
    <3>1. OksTo(rs, n) = OksTo(rs, n-1)
      BY <1>1, <2>3, SetsGrow
    <3> QED BY <1>2, <1>3, <1>4, <2>1, <2>3, <3>1 DEF Tallies, LatestTo
  <2> QED BY <1>1, <2>2, <2>3
<1>5. CASE ~awg
  <2>1. /\ m.handshake = Null /\ o.handshake = Null
        /\ m.latN = Cardinality(MeasuredTo(rs, n-1)) /\ m.latSum = Totals(rs)[n-1]
        /\ LeastTo(m.latMin, rs, n-1) /\ MostTo(m.latMax, rs, n-1)
    BY <1>5 DEF Tallies, Stepped
  <2>2. Totals(rs)[n] = m.latSum + Time(rs, n)
    BY <1>1, <2>1, TotalsRecur
  <2>3. CASE rs[n].ok /\ rs[n].ms # Null
    <3>1. /\ o.latSum = m.latSum + rs[n].ms /\ o.latN = m.latN + 1
          /\ o.latMin = Lesser(m.latMin, rs[n].ms) /\ o.latMax = Greater(m.latMax, rs[n].ms)
      BY <1>5, <2>3 DEF Stepped
    <3>2. MeasuredTo(rs, n) = MeasuredTo(rs, n-1) \union {n} /\ n \notin MeasuredTo(rs, n-1)
      BY <1>1, <2>3, SetsGrow
    <3>3. o.latN = Cardinality(MeasuredTo(rs, n))
      <4>1. IsFiniteSet(MeasuredTo(rs, n-1))
        BY <1>1, SetsAreFinite
      <4> QED BY <2>1, <3>1, <3>2, <4>1, FS_AddElement
    <3>4. o.latSum = Totals(rs)[n]
      BY <1>1, <2>2, <2>3, <3>1 DEF Time, Measured, Oks
    <3>5. rs[n].ms \in Nat /\ \A i \in MeasuredTo(rs, n-1) : rs[i].ms \in Nat
      <4>1. \A i \in MeasuredTo(rs, n-1) : i \in 1..Len(rs) /\ rs[i].ms # Null
        BY <1>1 DEF MeasuredTo, OksTo
      <4> QED BY <1>1, <2>3, <4>1, ResultParts DEF Maybe
    <3>6. LeastTo(o.latMin, rs, n) /\ MostTo(o.latMax, rs, n)
      BY <2>1, <3>1, <3>2, <3>5 DEF LeastTo, MostTo, Lesser, Greater, Null
    <3> QED BY <1>2, <1>3, <1>5, <2>1, <3>3, <3>4, <3>6 DEF Tallies
  <2>4. CASE ~(rs[n].ok /\ rs[n].ms # Null)
    <3>1. /\ o.latSum = m.latSum /\ o.latN = m.latN
          /\ o.latMin = m.latMin /\ o.latMax = m.latMax
      BY <1>5, <2>4 DEF Stepped
    <3>2. MeasuredTo(rs, n) = MeasuredTo(rs, n-1)
      BY <1>1, <2>4, SetsGrow
    <3>3. o.latSum = Totals(rs)[n]
      <4>1. Time(rs, n) = 0
        BY <2>4 DEF Time, Measured, Oks
      <4>2. m.latSum \in Nat
        BY DEF Row
      <4> QED BY <2>2, <3>1, <4>1, <4>2
    <3>4. LeastTo(o.latMin, rs, n) /\ MostTo(o.latMax, rs, n)
      BY <2>1, <3>1, <3>2 DEF LeastTo, MostTo
    <3> QED BY <1>2, <1>3, <1>5, <2>1, <3>1, <3>2, <3>3, <3>4 DEF Tallies
  <2> QED BY <2>3, <2>4
<1> QED BY <1>4, <1>5

-----------------------------------------------------------------------------
(* A heartbeat's results, merged through their delta *)

NoDeltaFits == NoDelta \in Delta /\ \A awg \in BOOLEAN : Fits(NoDelta, awg)

\* The empty delta is one.
LEMMA NoDeltaIsDelta == NoDeltaFits
BY DEF NoDeltaFits, NoDelta, Delta, Fits, Maybe, Null

\* Every delta of a heartbeat is one.
LEMMA DeltasFit ==
    ASSUME NEW rs \in Seq(Result), NEW awg \in BOOLEAN
    PROVE  \A i \in 0..Len(rs) : Deltas(rs, awg)[i] \in Delta /\ Fits(Deltas(rs, awg)[i], awg)
<1> DEFINE d == Deltas(rs, awg)
           N == {i \in Nat : i <= Len(rs) => d[i] \in Delta /\ Fits(d[i], awg)}
<1>1. Len(rs) \in Nat /\ DOMAIN rs = 1..Len(rs)
  OBVIOUS
<1>2. d[0] = NoDelta /\ \A i \in 1..Len(rs) : d[i] = Add(d[i-1], rs[i], awg)
  BY <1>1, DeltasRecur
<1> HIDE DEF d
<1>3. 0 \in N
  BY <1>2, NoDeltaIsDelta DEF NoDeltaFits
<1>4. ASSUME NEW n \in Nat, n \in N PROVE n + 1 \in N
  <2>1. CASE n + 1 <= Len(rs)
    <3>1. /\ n + 1 \in 1..Len(rs) /\ (n + 1) - 1 = n /\ n <= Len(rs)
          /\ rs[n+1] \in Result
      BY <1>1, <2>1
    <3>2. d[n+1] = Add(d[n], rs[n+1], awg)
      BY <1>2, <3>1
    <3>3. d[n] \in Delta /\ Fits(d[n], awg)
      BY <1>4, <3>1
    <3> QED BY <3>1, <3>2, <3>3, Adds
  <2>2. CASE ~(n + 1 <= Len(rs))
    BY <2>2
  <2> QED BY <2>1, <2>2
<1>5. \A n \in Nat : n \in N
  <2> HIDE DEF N
  <2> QED BY <1>3, <1>4, Induction
<1> QED BY <1>1, <1>5 DEF d

\* Where the results of two sequences are in their concatenation.
LEMMA Concatenation ==
    ASSUME NEW s \in Seq(Result), NEW t \in Seq(Result)
    PROVE  /\ s \o t \in Seq(Result) /\ Len(s \o t) = Len(s) + Len(t)
           /\ Len(s) \in Nat /\ Len(t) \in Nat
           /\ \A i \in 1..Len(s) : (s \o t)[i] = s[i]
           /\ \A i \in 1..Len(t) : (s \o t)[Len(s) + i] = t[i]
OBVIOUS

(* What follows does not change what came before. *)
LEMMA TotalsOfPrefix ==
    ASSUME NEW s \in Seq(Result), NEW t \in Seq(Result)
    PROVE  \A n \in 0..Len(s) : Totals(s \o t)[n] = Totals(s)[n]
<1> DEFINE c == s \o t
           N == {n \in Nat : n <= Len(s) => Totals(c)[n] = Totals(s)[n]}
<1>1. /\ Len(s) \in Nat /\ Len(c) \in Nat /\ Len(s) <= Len(c)
      /\ DOMAIN s = 1..Len(s) /\ DOMAIN c = 1..Len(c)
      /\ \A i \in 1..Len(s) : c[i] = s[i]
  BY Concatenation
<1> HIDE DEF c
<1>2. \A i \in 1..Len(s) : Time(c, i) = Time(s, i)
  BY <1>1 DEF Time, Measured, Oks
<1>3. 0 \in N
  BY <1>1, TotalsRecur
<1>4. ASSUME NEW n \in Nat, n \in N PROVE n + 1 \in N
  <2>1. CASE n + 1 <= Len(s)
    <3>1. n + 1 \in 1..Len(s) /\ n + 1 \in 1..Len(c) /\ (n + 1) - 1 = n /\ n <= Len(s)
      BY <1>1, <2>1
    <3>2. Totals(c)[n+1] = Totals(c)[n] + Time(c, n+1) /\ Totals(s)[n+1] = Totals(s)[n] + Time(s, n+1)
      BY <1>1, <3>1, TotalsRecur
    <3> QED BY <1>2, <1>4, <3>1, <3>2
  <2>2. CASE ~(n + 1 <= Len(s))
    BY <2>2
  <2> QED BY <2>1, <2>2
<1>5. \A n \in Nat : n \in N
  <2> HIDE DEF N
  <2> QED BY <1>3, <1>4, Induction
<1> QED BY <1>5 DEF c

\* A row that tallies a prefix tallies the sequence cut there.
LEMMA TalliesOfPrefix ==
    ASSUME NEW s \in Seq(Result), NEW t \in Seq(Result), NEW m, NEW awg, Tallies(m, s, Len(s), awg)
    PROVE  Tallies(m, s \o t, Len(s), awg)
<1> DEFINE c == s \o t
           n == Len(s)
<1>1. n \in Nat /\ \A i \in 1..n : c[i] = s[i]
  BY Concatenation
<1>2. Totals(c)[n] = Totals(s)[n]
  BY <1>1, TotalsOfPrefix
<1> HIDE DEF c, n
<1>3. OksTo(c, n) = OksTo(s, n) /\ FailsTo(c, n) = FailsTo(s, n) /\ MeasuredTo(c, n) = MeasuredTo(s, n)
  BY <1>1 DEF OksTo, FailsTo, MeasuredTo
<1>4. \A i \in OksTo(s, n) : c[i] = s[i]
  BY <1>1 DEF OksTo
<1>5. \A i \in MeasuredTo(s, n) : c[i] = s[i]
  BY <1>1 DEF OksTo, MeasuredTo
<1>6. Tallies(m, s, n, awg)
  BY DEF n
<1>7. Tallies(m, c, n, awg)
  BY <1>2, <1>3, <1>4, <1>5, <1>6 DEF Tallies, LatestTo, LeastTo, MostTo
<1> QED BY <1>7 DEF c, n

\* By induction over the results of a heartbeat: merging their delta tallies the whole log.
LEMMA MergesTallies ==
    ASSUME NEW row \in Row, NEW s \in Seq(Result), NEW t \in Seq(Result), NEW awg \in BOOLEAN,
           Tallies(row, s, Len(s), awg)
    PROVE  Tallies(Merged(row, DeltaOf(t, awg)), s \o t, Len(s \o t), awg)
<1> DEFINE c == s \o t
           d == Deltas(t, awg)
           N == {j \in Nat : j <= Len(t) => Tallies(Merged(row, d[j]), c, Len(s) + j, awg)}
<1>1. /\ Len(s) \in Nat /\ Len(t) \in Nat /\ Len(c) = Len(s) + Len(t) /\ c \in Seq(Result)
      /\ \A i \in 1..Len(t) : c[Len(s) + i] = t[i]
  BY Concatenation
<1>2. Tallies(row, c, Len(s), awg)
  BY TalliesOfPrefix
<1> HIDE DEF c
<1>3. /\ d[0] = NoDelta /\ \A i \in 1..Len(t) : d[i] = Add(d[i-1], t[i], awg)
      /\ \A i \in 0..Len(t) : d[i] \in Delta /\ Fits(d[i], awg)
  BY <1>1, DeltasRecur, DeltasFit
<1> HIDE DEF d
<1>4. 0 \in N
  <2> DEFINE m == Merged(row, NoDelta)
  <2>1. /\ m.nOk = row.nOk /\ m.nFail = row.nFail /\ m.latSum = row.latSum /\ m.latN = row.latN
        /\ m.latMin = row.latMin /\ m.latMax = row.latMax /\ m.handshake = row.handshake
    BY DEF Merged, Row, NoDelta
  <2> HIDE DEF m
  <2>2. Tallies(m, c, Len(s), awg)
    BY <1>2, <2>1 DEF Tallies
  <2> QED BY <1>1, <1>3, <2>2 DEF m
<1>5. ASSUME NEW j \in Nat, j \in N PROVE j + 1 \in N
  <2>1. CASE j + 1 <= Len(t)
    <3>1. /\ j + 1 \in 1..Len(t) /\ j \in 0..Len(t) /\ j + 1 \in 0..Len(t) /\ (j + 1) - 1 = j /\ j <= Len(t)
          /\ Len(s) + (j + 1) \in 1..Len(c) /\ (Len(s) + (j + 1)) - 1 = Len(s) + j
          /\ t[j+1] \in Result
      BY <1>1, <2>1
    <3>2. d[j+1] = Add(d[j], t[j+1], awg) /\ d[j] \in Delta /\ Fits(d[j], awg)
          /\ d[j+1] \in Delta /\ Fits(d[j+1], awg)
      BY <1>3, <3>1
    <3>3. Merged(row, d[j]) \in Row /\ Merged(row, d[j+1]) \in Row
      BY <3>2, Merges
    <3>4. Stepped(Merged(row, d[j]), Merged(row, d[j+1]), t[j+1], awg)
      BY <3>1, <3>2, MergesStep
    <3>5. Tallies(Merged(row, d[j]), c, Len(s) + j, awg)
      BY <1>5, <3>1
    <3>6. c[Len(s) + (j + 1)] = t[j+1]
      BY <1>1, <3>1
    <3>7. Tallies(Merged(row, d[j+1]), c, Len(s) + (j + 1), awg)
      BY <1>1, <3>1, <3>3, <3>4, <3>5, <3>6, TallyStep
    <3> QED BY <3>7
  <2>2. CASE ~(j + 1 <= Len(t))
    BY <2>2
  <2> QED BY <2>1, <2>2
<1>6. \A j \in Nat : j \in N
  <2> HIDE DEF N
  <2> QED BY <1>4, <1>5, Induction
<1>7. Tallies(Merged(row, d[Len(t)]), c, Len(c), awg)
  BY <1>1, <1>6
<1> QED BY <1>7 DEF DeltaOf, c, d

(* A row is exactly what the results rs make of it. *)
Exact(row, rs, awg) ==
    /\ Tallies(row, rs, Len(rs), awg)
    /\ row.latAvg = Rounded(row.latSum, row.latN)

(* Without a success there was no latency to take back. *)
LEMMA NothingToTakeBack ==
    ASSUME NEW m \in Row, NEW rs \in Seq(Result), NEW awg \in BOOLEAN, Exact(m, rs, awg), m.nOk = 0
    PROVE  [m EXCEPT !.latMin = Null, !.latAvg = Null, !.latMax = Null, !.handshake = Null] \in Row
           /\ Exact([m EXCEPT !.latMin = Null, !.latAvg = Null, !.latMax = Null, !.handshake = Null], rs, awg)
<1> DEFINE q == [m EXCEPT !.latMin = Null, !.latAvg = Null, !.latMax = Null, !.handshake = Null]
           n == Len(rs)
<1>1. n \in Nat
  OBVIOUS
<1> HIDE DEF n
<1>2. Tallies(m, rs, n, awg) /\ m.latAvg = Rounded(m.latSum, m.latN)
  BY DEF Exact, n
<1>3. OksTo(rs, n) = {} /\ MeasuredTo(rs, n) = {}
  <2>1. Cardinality(OksTo(rs, n)) = 0
    BY <1>2 DEF Tallies
  <2>2. IsFiniteSet(OksTo(rs, n)) /\ MeasuredTo(rs, n) \subseteq OksTo(rs, n)
    BY <1>1, SetsAreFinite
  <2> QED BY <2>1, <2>2, FS_EmptySet
<1>4. /\ q \in Row
      /\ q.nOk = m.nOk /\ q.nFail = m.nFail /\ q.latSum = m.latSum /\ q.latN = m.latN
      /\ q.latMin = Null /\ q.latMax = Null /\ q.latAvg = Null /\ q.handshake = Null
  BY DEF Row, Maybe
<1> HIDE DEF q
<1>5. m.latN = 0
  <2>1. CASE awg
    BY <1>2, <2>1 DEF Tallies
  <2>2. CASE ~awg
    BY <1>2, <1>3, <2>2, FS_EmptySet DEF Tallies
  <2> QED BY <2>1, <2>2
<1>6. Tallies(q, rs, n, awg)
  BY <1>2, <1>3, <1>4 DEF Tallies, LatestTo, LeastTo, MostTo
<1>7. q.latAvg = Rounded(q.latSum, q.latN)
  BY <1>4, <1>5 DEF Rounded
<1> QED BY <1>4, <1>6, <1>7 DEF Exact, q, n

(* However a bucket's results were split over heartbeats. *)
LEMMA AppliesExactly ==
    ASSUME NEW row \in Row, NEW s \in Seq(Result), NEW t \in Seq(Result), NEW awg \in BOOLEAN,
           Exact(row, s, awg)
    PROVE  /\ ApplyDelta(row, DeltaOf(t, awg)) \in Row
           /\ Exact(ApplyDelta(row, DeltaOf(t, awg)), s \o t, awg)
           /\ ApplyDelta(row, DeltaOf(t, awg)).at = "queued"
<1> DEFINE d == DeltaOf(t, awg)
           m == Merged(row, d)
           c == s \o t
<1>1. d \in Delta /\ Fits(d, awg)
  BY DeltasFit DEF DeltaOf
<1>2. c \in Seq(Result) /\ Tallies(m, c, Len(c), awg)
  BY Concatenation, MergesTallies DEF Exact
<1> HIDE DEF c, d
<1>3. m \in Row /\ m.at = "queued"
  BY <1>1, Merges, MergedFields
<1>4. m.latAvg = Rounded(m.latSum, m.latN)
  BY <1>1, MergesAverage DEF Exact
<1> HIDE DEF m
<1>5. Exact(m, c, awg)
  BY <1>2, <1>4 DEF Exact
<1> DEFINE q == [m EXCEPT !.latMin = Null, !.latAvg = Null, !.latMax = Null, !.handshake = Null]
<1>6. ApplyDelta(row, d) = IF m.nOk # 0 THEN m ELSE q
  BY DEF ApplyDelta, m
<1>7. m.nOk = 0 => q \in Row /\ Exact(q, c, awg)
  BY <1>2, <1>3, <1>5, NothingToTakeBack
<1>8. q.at = "queued"
  BY <1>3 DEF Row
<1> HIDE DEF q
<1> QED BY <1>3, <1>5, <1>6, <1>7, <1>8 DEF c, d

(* Rounding to the nearest millisecond. *)
LEMMA RoundsToNearest ==
    ASSUME NEW a \in Nat, NEW n \in Nat \ {0}
    PROVE  2 * a - n <= 2 * n * Rounded(a, n) /\ 2 * n * Rounded(a, n) <= 2 * a + n
<1> DEFINE h == n \div 2
           q == (a + h) \div n
           p == n * q
<1>1. h \in Nat /\ 2 * h <= n /\ n <= 2 * h + 1
  OBVIOUS
<1>2. q \in Nat /\ p <= a + h /\ a + h < p + n
  <2> HIDE DEF h
  <2> QED BY <1>1, Quotient
<1>3. Rounded(a, n) = q
  BY DEF Rounded
<1> HIDE DEF h, q
<1>4. p \in Nat /\ 2 * n * q = 2 * p
  BY <1>2
<1> HIDE DEF p
<1>5. 2 * a - n <= 2 * p /\ 2 * p <= 2 * a + n
  BY <1>1, <1>2, <1>4
<1> QED BY <1>3, <1>4, <1>5

\* What a tally says in the words of the property.
LEMMA ExactMeans ==
    ASSUME NEW row \in Row, NEW rs \in Seq(Result), NEW awg \in BOOLEAN, Exact(row, rs, awg)
    PROVE  /\ row.nOk = Cardinality(Oks(rs))
           /\ row.nFail = Cardinality(DOMAIN rs \ Oks(rs))
           /\ IF awg THEN IsLatest(row.handshake, rs) /\ row.latAvg = Null
              ELSE IsSummary(row.latMin, row.latMax, row.latAvg, rs) /\ row.handshake = Null
<1> DEFINE n == Len(rs)
<1>1. n \in Nat /\ DOMAIN rs = 1..n
  OBVIOUS
<1>2. OksTo(rs, n) = Oks(rs) /\ FailsTo(rs, n) = DOMAIN rs \ Oks(rs) /\ MeasuredTo(rs, n) = Measured(rs)
  BY <1>1 DEF OksTo, Oks, FailsTo, MeasuredTo, Measured
<1>3. Tallies(row, rs, n, awg) /\ row.latAvg = Rounded(row.latSum, row.latN)
  BY DEF Exact
<1>4. IsFiniteSet(Measured(rs)) /\ row.latSum \in Nat /\ row.latN \in Nat
  BY <1>1, <1>2, SetsAreFinite DEF Row
<1>5. Total(rs) = Totals(rs)[n]
  BY DEF Total
<1> HIDE DEF n
<1>6. row.nOk = Cardinality(Oks(rs)) /\ row.nFail = Cardinality(DOMAIN rs \ Oks(rs))
  BY <1>2, <1>3 DEF Tallies
<1>7. CASE awg
  BY <1>2, <1>3, <1>6, <1>7 DEF Tallies, LatestTo, IsLatest, Rounded
<1>8. CASE ~awg
  <2>1. /\ row.handshake = Null /\ row.latN = Cardinality(Measured(rs)) /\ row.latSum = Total(rs)
        /\ LeastTo(row.latMin, rs, n) /\ MostTo(row.latMax, rs, n)
    BY <1>2, <1>3, <1>5, <1>8 DEF Tallies
  <2>2. CASE row.latN = 0
    <3>1. Measured(rs) = {}
      BY <1>4, <2>1, <2>2, FS_EmptySet
    <3>2. row.latMin = Null /\ row.latMax = Null /\ row.latAvg = Null
      BY <1>2, <1>3, <2>1, <2>2, <3>1 DEF LeastTo, MostTo, Rounded
    <3> QED BY <1>6, <1>8, <2>1, <2>2, <3>2 DEF IsSummary
  <2>3. CASE row.latN # 0
    <3>1. Measured(rs) # {}
      BY <1>4, <2>1, <2>3, FS_EmptySet
    <3>2. /\ \E i \in Measured(rs) : row.latMin = rs[i].ms
          /\ \E i \in Measured(rs) : row.latMax = rs[i].ms
          /\ \A i \in Measured(rs) : row.latMin <= rs[i].ms /\ rs[i].ms <= row.latMax
      BY <1>2, <2>1, <3>1 DEF LeastTo, MostTo
    <3>3. /\ 2 * row.latSum - row.latN <= 2 * row.latN * row.latAvg
          /\ 2 * row.latN * row.latAvg <= 2 * row.latSum + row.latN
      BY <1>3, <1>4, <2>3, RoundsToNearest
    <3> QED BY <1>6, <1>8, <2>1, <2>3, <3>2, <3>3 DEF IsSummary
  <2> QED BY <2>2, <2>3
<1> QED BY <1>7, <1>8

-----------------------------------------------------------------------------
(* What a heartbeat counts for a key is a sequence of results *)

LEMMA RanksOfTwo ==
    ASSUME NEW c, NEW e, c.seq \in Nat, e.seq \in Nat, c.seq < e.seq, NEW M \in SUBSET {c, e}
    PROVE  /\ Cardinality(M) \in Nat
           /\ \A i \in 1..Cardinality(M) : \E x \in M : Cardinality({y \in M : y.seq <= x.seq}) = i
<1> DEFINE upTo(x) == {y \in M : y.seq <= x.seq}
<1>1. Cardinality({c}) = 1 /\ Cardinality({e}) = 1 /\ Cardinality({}) = 0
  BY FS_Singleton, FS_EmptySet
<1>2. Cardinality({c, e}) = 2
  <2>1. {c, e} = {c} \union {e} /\ e \notin {c}
    OBVIOUS
  <2>2. IsFiniteSet({c})
    BY FS_Singleton
  <2>3. Cardinality({c} \union {e}) = Cardinality({c}) + 1
    BY <2>1, <2>2, FS_AddElement, Zenon
  <2> QED BY <1>1, <2>1, <2>3
<1>3. M = {} \/ M = {c} \/ M = {e} \/ M = {c, e}
  OBVIOUS
<1>4. CASE M = {}
  BY <1>1, <1>4
<1>5. CASE M = {c}
  <2>1. upTo(c) = {c}
    BY <1>5
  <2> HIDE DEF upTo
  <2>2. \A i \in 1..1 : Cardinality(upTo(c)) = i
    BY <1>1, <2>1
  <2> QED BY <1>1, <1>5, <2>2 DEF upTo
<1>6. CASE M = {e}
  <2>1. upTo(e) = {e}
    BY <1>6
  <2> HIDE DEF upTo
  <2>2. \A i \in 1..1 : Cardinality(upTo(e)) = i
    BY <1>1, <2>1
  <2> QED BY <1>1, <1>6, <2>2 DEF upTo
<1>7. CASE M = {c, e}
  <2>1. upTo(c) = {c} /\ upTo(e) = {c, e}
    BY <1>7
  <2> HIDE DEF upTo
  <2>2. \A i \in 1..2 : Cardinality(upTo(c)) = i \/ Cardinality(upTo(e)) = i
    BY <1>1, <1>2, <2>1
  <2>3. \A i \in 1..Cardinality(M) : \E x \in M : Cardinality(upTo(x)) = i
    BY <1>2, <1>7, <2>2
  <2> QED BY <1>2, <1>7, <2>3 DEF upTo
<1> QED BY <1>3, <1>4, <1>5, <1>6, <1>7

\* So what is counted is a sequence of results.
LEMMA CountedAreResults ==
    ASSUME seq \in Nat, NEW beat \in Beats, NEW k
    PROVE  Counted(beat, k) \in Seq(Result)
<1>1. \E c, e : /\ c.seq = seq + 1 /\ e.seq = seq + 2
                /\ Range(beat) \subseteq {c, e}
                /\ \A x \in Range(beat) : x.result \in Result
  <2> DEFINE C(n) == [seq : {n}, unverified : BOOLEAN, key : Keys, result : Result]
  <2>1. CASE \E c \in C(seq + 1) : beat = <<c>>
    <3>1. PICK c \in C(seq + 1) : beat = <<c>>
      BY <2>1
    <3>2. Range(beat) = {c}
      BY <3>1 DEF Range
    <3>3. \E e : e.seq = seq + 2
      <4>1. [seq |-> seq + 2].seq = seq + 2
        OBVIOUS
      <4> QED BY <4>1
    <3> QED BY <3>1, <3>2, <3>3
  <2>2. CASE \E c \in C(seq + 1), e \in C(seq + 2) : beat = <<e, c>>
    <3>1. PICK c \in C(seq + 1), e \in C(seq + 2) : beat = <<e, c>>
      BY <2>2
    <3>2. Range(beat) = {c, e}
      BY <3>1 DEF Range
    <3> QED BY <3>1, <3>2
  <2> QED BY <2>1, <2>2 DEF Beats
<1>2. PICK c, e : /\ c.seq = seq + 1 /\ e.seq = seq + 2
                  /\ Range(beat) \subseteq {c, e}
                  /\ \A x \in Range(beat) : x.result \in Result
  BY <1>1
<1> DEFINE M == Counting(beat, k)
           at(i) == CHOOSE x \in M : Cardinality({y \in M : y.seq <= x.seq}) = i
<1>3. M \in SUBSET {c, e} /\ \A x \in M : x.result \in Result
  BY <1>2 DEF Counting
<1> HIDE DEF M
<1>4. /\ Cardinality(M) \in Nat
      /\ \A i \in 1..Cardinality(M) : \E x \in M : Cardinality({y \in M : y.seq <= x.seq}) = i
  BY <1>2, <1>3, RanksOfTwo
<1>5. \A i \in 1..Cardinality(M) : at(i) \in M
  BY <1>4
<1> DEFINE rs == [i \in 1..Cardinality(M) |-> at(i).result]
<1>6. rs \in Seq(Result)
  <2> HIDE DEF at
  <2> QED BY <1>3, <1>4, <1>5
<1> QED BY <1>6 DEF Counted, M

-----------------------------------------------------------------------------
(* The invariant *)

Payload == [nOk : Nat, nFail : Nat, latMin : Maybe, latMax : Maybe, latAvg : Maybe, handshake : Maybe]

TypeOK ==
    /\ rows \in [Keys -> Row] /\ log \in [Keys -> Seq(Result)] /\ panel \in [Keys -> Payload]
    /\ closed \in SUBSET Keys /\ refusing \in SUBSET Keys /\ raced \in SUBSET Keys
    /\ flush \in {"idle", "read", "post", "mark", "drop"}
    /\ DOMAIN batch \in SUBSET Keys /\ batch \in [DOMAIN batch -> Payload]
    /\ seq \in 0..MaxCycles /\ faults \in 0..MaxFaults

RowsAreExact == \A k \in Keys : Exact(rows[k], log[k], k \in Awg)

(* A row that is being sent is closed and queued, and says what was read of it *)
(* unless it got results since.                                                *)
InFlight ==
    \A k \in DOMAIN batch :
        k \in closed /\ rows[k].at = "queued" /\ (k \notin raced => batch[k] = PayloadOf(rows[k]))

(* What is about to be marked as sent the panel holds. *)
Acknowledged == flush = "mark" => \A k \in DOMAIN batch \ refusing : panel[k] = batch[k]

IInv == TypeOK /\ RowsAreExact /\ InFlight /\ Acknowledged /\ SentIsShown

\* What is sent of a row is a payload.
LEMMA PayloadType ==
    ASSUME NEW r \in Row
    PROVE  PayloadOf(r) \in Payload
BY DEF PayloadOf, Payload, Row

(* Marking a row changes nothing it says. *)
LEMMA MarkingKeeps ==
    ASSUME NEW r \in Row, NEW place \in {"sent", "dropped"}
    PROVE  /\ [r EXCEPT !.at = place] \in Row /\ [r EXCEPT !.at = place].at = place
           /\ PayloadOf([r EXCEPT !.at = place]) = PayloadOf(r)
           /\ \A rs, awg : Exact(r, rs, awg) => Exact([r EXCEPT !.at = place], rs, awg)
<1> DEFINE q == [r EXCEPT !.at = place]
<1>1. /\ q \in Row /\ q.at = place
      /\ q.nOk = r.nOk /\ q.nFail = r.nFail /\ q.latSum = r.latSum /\ q.latN = r.latN
      /\ q.latMin = r.latMin /\ q.latMax = r.latMax /\ q.latAvg = r.latAvg /\ q.handshake = r.handshake
  BY DEF Row
<1> HIDE DEF q
<1>2. PayloadOf(q) = PayloadOf(r)
  BY <1>1 DEF PayloadOf
<1>3. \A rs, awg : Exact(r, rs, awg) => Exact(q, rs, awg)
  BY <1>1 DEF Exact, Tallies
<1> QED BY <1>1, <1>2, <1>3 DEF q

\* Marking keeps types and tallies of all rows.
LEMMA MarkedRows ==
    ASSUME IInv, NEW ks, NEW place \in {"sent", "dropped"}
    PROVE  /\ Marked(ks, place) \in [Keys -> Row]
           /\ \A k \in Keys : /\ Marked(ks, place)[k].at = IF k \in ks THEN place ELSE rows[k].at
                              /\ PayloadOf(Marked(ks, place)[k]) = PayloadOf(rows[k])
                              /\ Exact(Marked(ks, place)[k], log[k], k \in Awg)
<1>1. rows \in [Keys -> Row] /\ \A k \in Keys : Exact(rows[k], log[k], k \in Awg)
  BY DEF IInv, TypeOK, RowsAreExact
<1>2. \A k \in Keys : Marked(ks, place)[k] = IF k \in ks THEN [rows[k] EXCEPT !.at = place] ELSE rows[k]
  BY DEF Marked
<1>3. \A k \in Keys : rows[k] \in Row
  BY <1>1
<1>4. \A k \in Keys : /\ Marked(ks, place)[k] \in Row
                      /\ Marked(ks, place)[k].at = IF k \in ks THEN place ELSE rows[k].at
                      /\ PayloadOf(Marked(ks, place)[k]) = PayloadOf(rows[k])
                      /\ Exact(Marked(ks, place)[k], log[k], k \in Awg)
  <2> SUFFICES ASSUME NEW k \in Keys
               PROVE  /\ Marked(ks, place)[k] \in Row
                      /\ Marked(ks, place)[k].at = IF k \in ks THEN place ELSE rows[k].at
                      /\ PayloadOf(Marked(ks, place)[k]) = PayloadOf(rows[k])
                      /\ Exact(Marked(ks, place)[k], log[k], k \in Awg)
    OBVIOUS
  <2>1. CASE k \in ks
    <3>1. Marked(ks, place)[k] = [rows[k] EXCEPT !.at = place]
      BY <1>2, <2>1
    <3> DEFINE q == [rows[k] EXCEPT !.at = place]
    <3>2. rows[k] \in Row /\ Exact(rows[k], log[k], k \in Awg)
      BY <1>1, <1>3
    <3>3. /\ q \in Row /\ q.at = place /\ PayloadOf(q) = PayloadOf(rows[k])
          /\ \A rs, awg : Exact(rows[k], rs, awg) => Exact(q, rs, awg)
      BY <3>2, MarkingKeeps
    <3>4. Marked(ks, place)[k] = q
      BY <3>1
    <3> HIDE DEF q
    <3> QED BY <2>1, <3>2, <3>3, <3>4
  <2>2. CASE k \notin ks
    <3>1. Marked(ks, place)[k] = rows[k]
      BY <1>2, <2>2
    <3> QED BY <1>1, <1>3, <2>2, <3>1
  <2> QED BY <2>1, <2>2
<1> QED BY <1>4 DEF Marked

\* A row nothing was counted into tallies the empty log.
LEMMA EmptyRowIsExact == NoRow \in Row /\ \A awg : Exact(NoRow, << >>, awg)
<1>1. NoRow \in Row
  BY DEF NoRow, Row, Maybe
<1>2. Len(<< >>) = 0 /\ OksTo(<< >>, 0) = {} /\ FailsTo(<< >>, 0) = {} /\ MeasuredTo(<< >>, 0) = {}
  BY DEF OksTo, FailsTo, MeasuredTo
<1>3. Totals(<< >>)[0] = 0 /\ Cardinality({}) = 0
  BY <1>2, TotalsRecur, FS_EmptySet
<1>4. /\ NoRow.nOk = 0 /\ NoRow.nFail = 0 /\ NoRow.latSum = 0 /\ NoRow.latN = 0
      /\ NoRow.latMin = Null /\ NoRow.latMax = Null /\ NoRow.latAvg = Null /\ NoRow.handshake = Null
  BY DEF NoRow
<1>5. ASSUME NEW awg PROVE Exact(NoRow, << >>, awg)
  BY <1>2, <1>3, <1>4 DEF Exact, Tallies, LatestTo, LeastTo, MostTo, Rounded
<1> QED BY <1>1, <1>5

\* The invariant holds initially.
LEMMA InitKeeps == Init => IInv
<1> SUFFICES ASSUME Init PROVE IInv
  OBVIOUS
<1>1. \A k \in Keys : rows[k] = NoRow /\ log[k] = << >> /\ panel[k] = NoPayload
  BY DEF Init
<1>2. NoPayload \in Payload /\ << >> \in Seq(Result) /\ DOMAIN batch = {} /\ batch \in [{} -> Payload]
  BY EmptyRowIsExact, PayloadType DEF NoPayload, Init
<1>3. TypeOK
  BY <1>2, EmptyRowIsExact, StatsAssumption DEF Init, TypeOK
<1>4. RowsAreExact
  BY <1>1, EmptyRowIsExact DEF RowsAreExact
<1>5. InFlight /\ Acknowledged
  BY <1>2 DEF Init, InFlight, Acknowledged
<1>6. SentIsShown
  BY <1>1 DEF SentIsShown, NoRow
<1> QED BY <1>3, <1>4, <1>5, <1>6 DEF IInv

-----------------------------------------------------------------------------
(* Every step keeps it *)

(* A step that leaves the rows, their results and what was read of them alone. *)
LEMMA SameRows ==
    ASSUME IInv, UNCHANGED <<rows, log>>
    PROVE  RowsAreExact' /\ rows' \in [Keys -> Row] /\ log' \in [Keys -> Seq(Result)]
BY DEF IInv, TypeOK, RowsAreExact

\* A heartbeat merges its deltas, and races with the rows that are being sent.
LEMMA RecordKeeps == ASSUME IInv, NEW beat \in Beats, Record(beat) PROVE IInv'
<1> DEFINE got     == [k \in Keys |-> Counted(beat, k)]
           touched == {k \in Keys : got[k] # << >>}
<1>1. TypeOK /\ RowsAreExact /\ InFlight /\ Acknowledged /\ SentIsShown
  BY DEF IInv
<1>2. \A k \in Keys : got[k] \in Seq(Result)
  BY <1>1, CountedAreResults DEF TypeOK
<1>3. /\ rows' = [k \in Keys |-> IF k \in touched THEN ApplyDelta(rows[k], DeltaOf(got[k], k \in Awg))
                                 ELSE rows[k]]
      /\ log' = [k \in Keys |-> log[k] \o got[k]]
      /\ raced' = (raced \ touched) \cup (touched \cap DOMAIN batch)
      /\ seq' = seq + Len(beat) /\ seq' <= MaxCycles
      /\ UNCHANGED <<closed, flush, batch, panel, refusing, faults>>
  BY DEF Record
<1>4. touched \in SUBSET Keys /\ \A k \in Keys \ touched : got[k] = << >>
  OBVIOUS
<1> HIDE DEF got, touched
<1>5. \A k \in Keys : log[k] \o got[k] \in Seq(Result) /\ rows[k] \in Row /\ log[k] \in Seq(Result)
  BY <1>1, <1>2, Concatenation DEF TypeOK
<1>6. ASSUME NEW k \in Keys
      PROVE  /\ rows'[k] \in Row /\ Exact(rows'[k], log'[k], k \in Awg)
             /\ IF k \in touched THEN rows'[k].at = "queued" ELSE rows'[k] = rows[k]
  <2> DEFINE awg == k \in Awg
  <2>1. awg \in BOOLEAN /\ Exact(rows[k], log[k], awg)
    BY <1>1 DEF RowsAreExact
  <2>2. log'[k] = log[k] \o got[k]
    BY <1>3
  <2>3. CASE k \in touched
    <3>1. rows'[k] = ApplyDelta(rows[k], DeltaOf(got[k], awg))
      BY <1>3, <2>3
    <3> HIDE DEF awg
    <3>2. rows'[k] \in Row /\ Exact(rows'[k], log'[k], awg) /\ rows'[k].at = "queued"
      BY <1>2, <1>5, <2>1, <2>2, <3>1, AppliesExactly
    <3> QED BY <2>3, <3>2 DEF awg
  <2>4. CASE k \notin touched
    <3>1. rows'[k] = rows[k]
      BY <1>3, <2>4
    <3>2. log'[k] = log[k]
      <4>1. got[k] = << >>
        BY <1>4, <2>4
      <4> QED BY <1>5, <2>2, <4>1
    <3> QED BY <1>5, <2>1, <2>4, <3>1, <3>2
  <2> QED BY <2>3, <2>4
<1>7. rows' \in [Keys -> Row] /\ log' \in [Keys -> Seq(Result)]
  <2>1. \A k \in Keys : rows'[k] \in Row
    BY <1>6
  <2> QED BY <1>3, <1>5, <2>1
<1>8. seq' \in 0..MaxCycles
  <2>1. Len(beat) \in Nat
    BY DEF Beats
  <2> QED BY <1>1, <1>3, <2>1, StatsAssumption DEF TypeOK
<1>9. TypeOK'
  BY <1>1, <1>3, <1>4, <1>7, <1>8 DEF TypeOK
<1>10. RowsAreExact'
  BY <1>6 DEF RowsAreExact
<1>11. InFlight'
  <2> SUFFICES ASSUME NEW k \in DOMAIN batch
               PROVE  k \in closed /\ rows'[k].at = "queued" /\ (k \notin raced' => batch[k] = PayloadOf(rows'[k]))
    BY <1>3 DEF InFlight
  <2>1. k \in Keys /\ k \in closed /\ rows[k].at = "queued" /\ (k \notin raced => batch[k] = PayloadOf(rows[k]))
    BY <1>1 DEF TypeOK, InFlight
  <2> QED BY <1>3, <1>6, <2>1
<1>12. Acknowledged'
  BY <1>1, <1>3 DEF Acknowledged
<1>13. SentIsShown'
  BY <1>1, <1>3, <1>6 DEF SentIsShown
<1> QED BY <1>9, <1>10, <1>11, <1>12, <1>13 DEF IInv

LEMMA CloseKeeps == ASSUME IInv, NEW k \in Keys, Close(k) PROVE IInv'
<1>1. RowsAreExact'
  BY SameRows DEF Close
<1> QED BY <1>1 DEF IInv, TypeOK, InFlight, Acknowledged, SentIsShown, Close

LEMMA ReadKeeps == ASSUME IInv, FlushStart \/ FlushRead PROVE IInv'
<1>1. /\ RowsAreExact' /\ UNCHANGED <<rows, closed, panel, refusing, log, raced, seq, faults>>
  BY SameRows DEF FlushStart, FlushRead
<1>2. flush' \in {"idle", "read", "post"}
  BY DEF FlushStart, FlushRead
<1>3. \/ UNCHANGED batch
      \/ \E ks \in SUBSET Due : batch' = [k \in ks |-> PayloadOf(rows[k])]
  BY DEF FlushStart, FlushRead
<1>4. CASE UNCHANGED batch
  BY <1>1, <1>2, <1>4 DEF IInv, TypeOK, InFlight, Acknowledged, SentIsShown
<1>5. CASE \E ks \in SUBSET Due : batch' = [k \in ks |-> PayloadOf(rows[k])]
  <2>1. PICK ks \in SUBSET Due : batch' = [k \in ks |-> PayloadOf(rows[k])]
    BY <1>5
  <2>2. \A k \in ks : /\ k \in Keys /\ k \in closed /\ rows[k].at = "queued"
                      /\ PayloadOf(rows[k]) \in Payload
    BY PayloadType DEF Due, IInv, TypeOK
  <2>3. DOMAIN batch' = ks /\ \A k \in ks : batch'[k] = PayloadOf(rows[k])
    BY <2>1
  <2>4. TypeOK'
    BY <1>1, <1>2, <2>1, <2>2, <2>3 DEF IInv, TypeOK
  <2>5. InFlight' /\ Acknowledged' /\ SentIsShown'
    BY <1>1, <1>2, <2>2, <2>3 DEF IInv, InFlight, Acknowledged, SentIsShown
  <2> QED BY <1>1, <2>4, <2>5 DEF IInv
<1> QED BY <1>3, <1>4, <1>5

(* Posted rows are queued, so none of them counts as sent. *)
LEMMA UpsertShows ==
    ASSUME IInv
    PROVE  /\ Upserted \in [Keys -> Payload]
           /\ \A k \in DOMAIN batch \ refusing : Upserted[k] = batch[k]
           /\ \A k \in Keys : Upserted[k] # NoPayload => k \in closed
           /\ \A k \in Keys : rows[k].at = "sent" /\ k \notin raced => Upserted[k] = PayloadOf(rows[k])
BY DEF IInv, TypeOK, InFlight, SentIsShown, Upserted

\* An empty batch.
LEMMA NoBatch == DOMAIN << >> = {} /\ << >> \in [{} -> Payload]
OBVIOUS

\* The panel files the batch, or the answer tells otherwise.
LEMMA PostKeeps ==
    ASSUME IInv, NEW answer \in {"ok", "lost", "silent", "refused"}, PostStats(answer)
    PROVE  IInv'
<1>1. /\ panel' = IF answer \in {"ok", "lost"} THEN Upserted ELSE panel
      /\ UNCHANGED <<closed, refusing, log, seq>> /\ faults' \in 0..MaxFaults
      /\ flush' \in {"mark", "read", "idle"} /\ (flush' = "mark" => answer = "ok")
  BY StatsAssumption DEF PostStats, Fault, IInv, TypeOK
<1>2. panel' \in [Keys -> Payload] /\ \A k \in Keys : panel'[k] # NoPayload => k \in closed
  BY <1>1, UpsertShows DEF IInv, TypeOK, SentIsShown
<1>3. \A k \in Keys : rows[k].at = "sent" /\ k \notin raced => panel'[k] = PayloadOf(rows[k])
  BY <1>1, UpsertShows DEF IInv, SentIsShown
<1>4. CASE answer = "ok"
  <2>1. UNCHANGED <<rows, batch, raced, log, closed, refusing>>
    BY <1>4 DEF PostStats
  <2>2. TypeOK' /\ RowsAreExact' /\ InFlight' /\ SentIsShown'
    BY <1>1, <1>2, <1>3, <2>1, SameRows DEF IInv, TypeOK, InFlight, SentIsShown
  <2>3. Acknowledged'
    BY <1>1, <1>4, <2>1, UpsertShows DEF Acknowledged
  <2> QED BY <2>2, <2>3 DEF IInv
<1>5. CASE answer = "refused"
  <2>1. /\ rows' = Marked(DOMAIN batch, "dropped") /\ batch' = << >>
        /\ raced' = raced \ DOMAIN batch /\ flush' = "read"
    BY <1>5 DEF PostStats
  <2>2. /\ rows' \in [Keys -> Row]
        /\ \A k \in Keys : /\ rows'[k].at = IF k \in DOMAIN batch THEN "dropped" ELSE rows[k].at
                           /\ PayloadOf(rows'[k]) = PayloadOf(rows[k])
                           /\ Exact(rows'[k], log[k], k \in Awg)
    BY <2>1, MarkedRows
  <2>3. TypeOK'
    BY <1>1, <1>2, <2>1, <2>2, NoBatch DEF IInv, TypeOK
  <2>4. RowsAreExact'
    BY <1>1, <2>2 DEF RowsAreExact
  <2>5. InFlight' /\ Acknowledged'
    BY <2>1, NoBatch DEF InFlight, Acknowledged
  <2>6. SentIsShown'
    BY <1>1, <1>2, <1>3, <2>1, <2>2 DEF SentIsShown
  <2> QED BY <2>3, <2>4, <2>5, <2>6 DEF IInv
<1>6. CASE answer \in {"lost", "silent"}
  <2>1. /\ UNCHANGED rows /\ batch' = << >>
        /\ raced' = raced \ DOMAIN batch /\ flush' = "idle"
    BY <1>6 DEF PostStats
  <2>2. TypeOK'
    BY <1>1, <1>2, <2>1, NoBatch DEF IInv, TypeOK
  <2>3. InFlight' /\ Acknowledged'
    BY <2>1, NoBatch DEF InFlight, Acknowledged
  <2>4. \A k \in DOMAIN batch : k \in Keys /\ rows[k].at = "queued"
    BY DEF IInv, TypeOK, InFlight
  <2>5. SentIsShown'
    BY <1>1, <1>2, <1>3, <2>1, <2>4 DEF SentIsShown
  <2> QED BY <1>1, <2>1, <2>2, <2>3, <2>5, SameRows DEF IInv
<1> QED BY <1>4, <1>5, <1>6

\* The accepted ones are marked, by what the panel holds.
LEMMA MarkKeeps == ASSUME IInv, FlushMark PROVE IInv'
<1> DEFINE accepted == DOMAIN batch \ refusing
           left     == DOMAIN batch \cap refusing
<1>1. /\ flush = "mark" /\ flush' = "drop" /\ rows' = Marked(accepted, "sent")
      /\ batch' = [k \in left |-> batch[k]]
      /\ UNCHANGED <<closed, panel, refusing, log, raced, seq, faults>>
  BY DEF FlushMark, Restrict
<1>2. /\ rows' \in [Keys -> Row]
      /\ \A k \in Keys : /\ rows'[k].at = IF k \in accepted THEN "sent" ELSE rows[k].at
                         /\ PayloadOf(rows'[k]) = PayloadOf(rows[k])
                         /\ Exact(rows'[k], log[k], k \in Awg)
  BY <1>1, MarkedRows
<1>3. /\ DOMAIN batch' = left /\ \A k \in left : batch'[k] = batch[k]
      /\ left \subseteq DOMAIN batch /\ \A k \in left : k \notin accepted
  BY <1>1
<1>4. TypeOK'
  BY <1>1, <1>2, <1>3 DEF IInv, TypeOK
<1>5. RowsAreExact'
  BY <1>1, <1>2 DEF RowsAreExact
<1>6. InFlight'
  BY <1>1, <1>2, <1>3 DEF IInv, TypeOK, InFlight
<1>7. Acknowledged'
  BY <1>1 DEF Acknowledged
<1>8. SentIsShown'
  <2>1. \A k \in accepted : /\ k \in Keys /\ panel[k] = batch[k]
                            /\ k \notin raced => batch[k] = PayloadOf(rows[k])
    BY <1>1 DEF IInv, TypeOK, Acknowledged, InFlight
  <2> HIDE DEF accepted
  <2>2. \A k \in Keys : /\ panel[k] # NoPayload => k \in closed
                        /\ rows[k].at = "sent" /\ k \notin raced => panel[k] = PayloadOf(rows[k])
    BY DEF IInv, SentIsShown
  <2> QED BY <1>1, <1>2, <2>1, <2>2 DEF SentIsShown
<1> QED BY <1>4, <1>5, <1>6, <1>7, <1>8 DEF IInv

LEMMA DropKeeps == ASSUME IInv, FlushDrop PROVE IInv'
<1>1. /\ rows' = Marked(DOMAIN batch, "dropped") /\ batch' = << >> /\ flush' = "read"
      /\ raced' = raced \ DOMAIN batch
      /\ UNCHANGED <<closed, panel, refusing, log, seq, faults>>
  BY DEF FlushDrop
<1>2. /\ rows' \in [Keys -> Row]
      /\ \A k \in Keys : /\ rows'[k].at = IF k \in DOMAIN batch THEN "dropped" ELSE rows[k].at
                         /\ PayloadOf(rows'[k]) = PayloadOf(rows[k])
                         /\ Exact(rows'[k], log[k], k \in Awg)
  BY <1>1, MarkedRows
<1>3. TypeOK'
  BY <1>1, <1>2, NoBatch DEF IInv, TypeOK
<1>4. RowsAreExact'
  BY <1>1, <1>2 DEF RowsAreExact
<1>5. InFlight' /\ Acknowledged'
  BY <1>1, NoBatch DEF InFlight, Acknowledged
<1>6. SentIsShown'
  BY <1>1, <1>2 DEF IInv, SentIsShown
<1> QED BY <1>3, <1>4, <1>5, <1>6 DEF IInv

LEMMA EndsKeeps == ASSUME IInv, FlushEnds PROVE IInv'
<1>1. /\ batch' = << >> /\ flush' = "idle" /\ raced' = raced \ DOMAIN batch /\ faults' \in 0..MaxFaults
      /\ UNCHANGED <<rows, closed, panel, refusing, log, seq>>
  BY StatsAssumption DEF FlushEnds, Fault, IInv, TypeOK
<1>2. TypeOK'
  BY <1>1, NoBatch DEF IInv, TypeOK
<1>3. InFlight' /\ Acknowledged'
  BY <1>1, NoBatch DEF InFlight, Acknowledged
<1>4. \A k \in DOMAIN batch : k \in Keys /\ rows[k].at = "queued"
  BY DEF IInv, TypeOK, InFlight
<1>5. SentIsShown'
  BY <1>1, <1>4 DEF IInv, SentIsShown
<1> QED BY <1>1, <1>2, <1>3, <1>5, SameRows DEF IInv

LEMMA StutterKeeps == ASSUME IInv, UNCHANGED vars PROVE IInv'
BY SameRows DEF vars, IInv, TypeOK, InFlight, Acknowledged, SentIsShown

LEMMA StepKeeps == IInv /\ [Next]_vars => IInv'
<1> SUFFICES ASSUME IInv, [Next]_vars PROVE IInv'
  OBVIOUS
<1>1. CASE \E beat \in Beats : Record(beat)
  BY <1>1, RecordKeeps
<1>2. CASE \E k \in Keys : Close(k)
  BY <1>2, CloseKeeps
<1>3. CASE Flush
  BY <1>3, ReadKeeps, PostKeeps, MarkKeeps, DropKeeps, EndsKeeps DEF Flush
<1>4. CASE UNCHANGED vars
  BY <1>4, StutterKeeps
<1> QED BY <1>1, <1>2, <1>3, <1>4 DEF Next

LEMMA Always == Spec => []IInv
BY InitKeeps, StepKeeps, PTL DEF Spec

(* Rows, batch and panel keep their types, whatever is sent, lost or raced.     *)
THEOREM TypeCorrect == Spec => []TypeOK
<1>1. IInv => TypeOK
  BY DEF IInv
<1> QED BY <1>1, Always, PTL

(* A stored row is the aggregate of every result counted into it, however the   *)
(* results were spread over heartbeats and kinds.  (Record, add, applyDelta)    *)
THEOREM BucketsAreExact == Spec => []BucketIsExact
<1>1. IInv => BucketIsExact
  <2> SUFFICES ASSUME IInv, NEW k \in Keys
               PROVE  /\ rows[k].nOk = Cardinality(Oks(log[k]))
                      /\ rows[k].nFail = Cardinality(DOMAIN log[k] \ Oks(log[k]))
                      /\ IF k \in Awg
                         THEN IsLatest(rows[k].handshake, log[k]) /\ rows[k].latAvg = Null
                         ELSE /\ IsSummary(rows[k].latMin, rows[k].latMax, rows[k].latAvg, log[k])
                              /\ rows[k].handshake = Null
    BY DEF BucketIsExact
  <2> DEFINE awg == k \in Awg
  <2>1. rows[k] \in Row /\ log[k] \in Seq(Result) /\ awg \in BOOLEAN /\ Exact(rows[k], log[k], awg)
    BY DEF IInv, TypeOK, RowsAreExact
  <2> HIDE DEF awg
  <2>2. /\ rows[k].nOk = Cardinality(Oks(log[k]))
        /\ rows[k].nFail = Cardinality(DOMAIN log[k] \ Oks(log[k]))
        /\ IF awg THEN IsLatest(rows[k].handshake, log[k]) /\ rows[k].latAvg = Null
           ELSE IsSummary(rows[k].latMin, rows[k].latMax, rows[k].latAvg, log[k]) /\ rows[k].handshake = Null
    BY <2>1, ExactMeans
  <2> QED BY <2>2 DEF awg
<1> QED BY <1>1, Always, PTL

(* The panel is shown closed windows only, and what counts as sent it holds, a  *)
(* row apart that got results while it was being sent.  (Flush, markSent)       *)
THEOREM SentIsOnThePanel == Spec => []SentIsShown
<1>1. IInv => SentIsShown
  BY DEF IInv
<1> QED BY <1>1, Always, PTL
===============================================================================
