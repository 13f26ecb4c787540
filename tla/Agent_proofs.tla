---------------------------- MODULE Agent_proofs ----------------------------
(***************************************************************************)
(* Proofs about the two sides of the endpoint agent.  The queue's: what is *)
(* in the file is in order, bounded, and stands for every event but those  *)
(* the server has, those a cut write took and the oldest; so the queue     *)
(* implements EventDelivery.  The processes': the server hears one id.     *)
(***************************************************************************)
EXTENDS Agent, FiniteSetTheorems, SequenceTheorems, WellFoundedInduction, TLAPS

(***************************************************************************)
(* Numbers                                                                 *)
(***************************************************************************)

LEMMA LeastNatural ==
    ASSUME NEW S, S \subseteq Nat, S # {}
    PROVE  \E x \in S : \A y \in S : x <= y
<1>1. PICK x \in S : \A y \in S : ~ (<<y, x>> \in OpToRel(<, Nat))
  BY NatLessThanWellFounded, WFMin
<1>2. \A y \in S : ~ (y < x)
  BY <1>1 DEF OpToRel
<1> QED
  BY <1>2

LEMMA MinIsLeast ==
    ASSUME NEW S, S \subseteq Nat, S # {}
    PROVE  Min(S) \in S /\ \A y \in S : Min(S) <= y
  BY LeastNatural DEF Min

LEMMA MinOfTwo ==
    ASSUME NEW m \in Nat, NEW n \in Nat
    PROVE  /\ Min({m, n}) \in Nat /\ Min({m, n}) <= m /\ Min({m, n}) <= n
           /\ Min({m, n}) \in {m, n}
<1>1. {m, n} \subseteq Nat /\ {m, n} # {}
  OBVIOUS
<1> QED
  BY <1>1, MinIsLeast

LEMMA MaxOfTwo ==
    ASSUME NEW m \in Nat, NEW n \in Nat
    PROVE  Max({m, n}) \in {m, n}
<1>1. \E x \in {m, n} : \A y \in {m, n} : x >= y
  <2>1. CASE m >= n
    BY <2>1
  <2>2. CASE n >= m
    BY <2>2
  <2> QED
    BY <2>1, <2>2
<1> QED
  BY <1>1 DEF Max

(***************************************************************************)
(* Lines                                                                   *)
(***************************************************************************)

\* Events in the order of their collection, each once; and from each on there are no more
\* lines than events were made since, up to bound.
Spaced(lines, bound) ==
    /\ \A j \in DOMAIN lines :
          Parses(lines[j]) => lines[j].ev + (Len(lines) - j) <= bound
    /\ \A j, k \in DOMAIN lines :
          j < k /\ Parses(lines[j]) /\ Parses(lines[k]) => lines[j].ev < lines[k].ev

LEMMA LineIsRecord ==
    ASSUME NEW t \in Line
    PROVE  t.ev \in 0 .. MaxEvents /\ t.ev \in Nat /\ t.size \in 1 .. MaxSize
             /\ t.size \in Nat
  BY QueueAssumption DEF Line

LEMMA NothingIsLine == Nothing \in Line /\ Nothing.ev = 0 /\ ~Parses(Nothing)
  BY QueueAssumption DEF Nothing, Line, Parses

LEMMA EmptyLines ==
    ASSUME NEW b
    PROVE  <<>> \in Seq(Line) /\ EventsOf(<<>>) = {} /\ Spaced(<<>>, b)
<1>1. <<>> \in Seq(Line) /\ Len(<<>>) = 0 /\ DOMAIN <<>> = {}
  BY EmptySeq
<1> QED
  BY <1>1 DEF EventsOf, Spaced

LEMMA EventsAreNumbers ==
    ASSUME NEW lines \in Seq(Line)
    PROVE  EventsOf(lines) \subseteq 1 .. MaxEvents
<1>1. DOMAIN lines = 1 .. Len(lines) /\ \A k \in 1 .. Len(lines) : lines[k] \in Line
  BY LenProperties, ElementOfSeq
<1>2. \A k \in DOMAIN lines : lines[k].ev \in 0 .. MaxEvents
  BY <1>1, LineIsRecord
<1> QED
  BY <1>2, QueueAssumption DEF EventsOf

LEMMA OneLine ==
    ASSUME NEW t \in Line
    PROVE  /\ <<t>> \in Seq(Line) /\ Len(<<t>>) = 1
           /\ EventsOf(<<t>>) = {t.ev} \ {0}
<1>1. <<t>> \in Seq(Line) /\ Len(<<t>>) = 1 /\ DOMAIN <<t>> = {1} /\ <<t>>[1] = t
  OBVIOUS
<1> QED
  BY <1>1 DEF EventsOf

LEMMA AppendedLines ==
    ASSUME NEW lines \in Seq(Line), NEW t \in Line
    PROVE  /\ Append(lines, t) \in Seq(Line) /\ Append(lines, t) # <<>>
           /\ Len(Append(lines, t)) = Len(lines) + 1
           /\ EventsOf(Append(lines, t)) = EventsOf(lines) \cup ({t.ev} \ {0})
<1> DEFINE a == Append(lines, t)
<1>1. /\ a \in Seq(Line) /\ a # <<>> /\ Len(a) = Len(lines) + 1
      /\ \A i \in 1 .. Len(lines) : a[i] = lines[i]
      /\ a[Len(lines) + 1] = t
  BY AppendProperties
<1>2. /\ Len(lines) \in Nat /\ DOMAIN lines = 1 .. Len(lines)
      /\ DOMAIN a = 1 .. (Len(lines) + 1)
  BY <1>1, LenProperties
<1>3. \A k \in DOMAIN a : a[k].ev \in {lines[i].ev : i \in DOMAIN lines} \cup {t.ev}
  BY <1>1, <1>2
<1>4. \A i \in DOMAIN lines : i \in DOMAIN a /\ a[i].ev = lines[i].ev
  BY <1>1, <1>2
<1>5. Len(lines) + 1 \in DOMAIN a /\ a[Len(lines) + 1].ev = t.ev
  BY <1>1, <1>2
<1> HIDE DEF a
<1>6. EventsOf(a) = EventsOf(lines) \cup ({t.ev} \ {0})
  BY <1>3, <1>4, <1>5 DEF EventsOf
<1> QED
  BY <1>1, <1>6 DEF a

LEMMA ConcatenatedLines ==
    ASSUME NEW lines \in Seq(Line), NEW more \in Seq(Line)
    PROVE  /\ lines \o more \in Seq(Line)
           /\ EventsOf(lines \o more) = EventsOf(lines) \cup EventsOf(more)
<1> DEFINE a == lines \o more
<1>1. /\ a \in Seq(Line) /\ Len(a) = Len(lines) + Len(more)
      /\ \A i \in 1 .. Len(lines) + Len(more) :
             a[i] = IF i <= Len(lines) THEN lines[i] ELSE more[i - Len(lines)]
  BY ConcatProperties
<1>2. /\ Len(lines) \in Nat /\ DOMAIN lines = 1 .. Len(lines)
      /\ Len(more) \in Nat /\ DOMAIN more = 1 .. Len(more)
      /\ DOMAIN a = 1 .. (Len(lines) + Len(more))
  BY <1>1, LenProperties
<1>3. \A k \in DOMAIN a :
          \/ k \in DOMAIN lines /\ a[k] = lines[k]
          \/ k - Len(lines) \in DOMAIN more /\ a[k] = more[k - Len(lines)]
  BY <1>1, <1>2
<1>4. \A i \in DOMAIN lines : i \in DOMAIN a /\ a[i] = lines[i]
  BY <1>1, <1>2
<1>5. \A i \in DOMAIN more : i + Len(lines) \in DOMAIN a /\ a[i + Len(lines)] = more[i]
  BY <1>1, <1>2
<1> HIDE DEF a
<1>6. EventsOf(a) \subseteq EventsOf(lines) \cup EventsOf(more)
  BY <1>3 DEF EventsOf
<1>7. EventsOf(lines) \subseteq EventsOf(a)
  BY <1>4 DEF EventsOf
<1>8. EventsOf(more) \subseteq EventsOf(a)
  BY <1>5 DEF EventsOf
<1> QED
  BY <1>1, <1>6, <1>7, <1>8 DEF a

\* A part of the lines, from m to n.
LEMMA PartOfLines ==
    ASSUME NEW lines \in Seq(Line), NEW m \in Nat \ {0}, NEW n \in 0 .. Len(lines)
    PROVE  /\ SubSeq(lines, m, n) \in Seq(Line)
           /\ Len(SubSeq(lines, m, n)) = IF m <= n THEN n - m + 1 ELSE 0
           /\ \A i \in DOMAIN SubSeq(lines, m, n) :
                  /\ i \in Nat \ {0} /\ m + i - 1 \in m .. n
                  /\ SubSeq(lines, m, n)[i] = lines[m + i - 1]
           /\ \A k \in m .. n :
                  /\ k - m + 1 \in DOMAIN SubSeq(lines, m, n)
                  /\ SubSeq(lines, m, n)[k - m + 1] = lines[k]
<1> DEFINE a == SubSeq(lines, m, n)
<1>1. Len(lines) \in Nat /\ DOMAIN lines = 1 .. Len(lines)
  BY LenProperties
<1>2. \A i \in m .. n : lines[i] \in Line
  BY <1>1, ElementOfSeq
<1>3. /\ a \in Seq(Line) /\ Len(a) = IF m <= n THEN n - m + 1 ELSE 0
      /\ \A i \in 1 .. n - m + 1 : a[i] = lines[m + i - 1]
  BY <1>1, <1>2, SubSeqProperties
<1>4. DOMAIN a = 1 .. Len(a)
  BY <1>3, LenProperties
<1> HIDE DEF a
<1>5. \A i \in DOMAIN a :
          /\ i \in Nat \ {0} /\ m + i - 1 \in m .. n
          /\ a[i] = lines[m + i - 1]
  BY <1>1, <1>3, <1>4
<1>6. \A k \in m .. n : k - m + 1 \in DOMAIN a /\ a[k - m + 1] = lines[k]
  BY <1>1, <1>3, <1>4
<1> QED
  BY <1>3, <1>5, <1>6 DEF a

LEMMA EventsOfPart ==
    ASSUME NEW lines \in Seq(Line), NEW m \in Nat \ {0}, NEW n \in 0 .. Len(lines)
    PROVE  EventsOf(SubSeq(lines, m, n)) \subseteq EventsOf(lines)
<1>1. Len(lines) \in Nat /\ DOMAIN lines = 1 .. Len(lines)
  BY LenProperties
<1>2. \A i \in DOMAIN SubSeq(lines, m, n) :
          m + i - 1 \in DOMAIN lines /\ SubSeq(lines, m, n)[i] = lines[m + i - 1]
  BY <1>1, PartOfLines
<1> QED
  BY <1>2 DEF EventsOf

\* The lines before and after a cut are all of them.
LEMMA EventsOfParts ==
    ASSUME NEW lines \in Seq(Line), NEW n \in 0 .. Len(lines)
    PROVE  EventsOf(lines) = EventsOf(SubSeq(lines, 1, n))
                                 \cup EventsOf(SubSeq(lines, n + 1, Len(lines)))
<1> DEFINE a == SubSeq(lines, 1, n)
           c == SubSeq(lines, n + 1, Len(lines))
<1>1. Len(lines) \in Nat /\ DOMAIN lines = 1 .. Len(lines)
  BY LenProperties
<1>2. EventsOf(a) \subseteq EventsOf(lines) /\ EventsOf(c) \subseteq EventsOf(lines)
  BY <1>1, EventsOfPart
<1>3. ASSUME NEW k \in DOMAIN lines
      PROVE  (\E i \in DOMAIN a : a[i] = lines[k]) \/ (\E i \in DOMAIN c : c[i] = lines[k])
  <2>1. CASE k <= n
    <3>1. k \in 1 .. n
      BY <1>1, <2>1
    <3>2. k - 1 + 1 \in DOMAIN a /\ a[k - 1 + 1] = lines[k]
      BY <3>1, PartOfLines
    <3> QED
      BY <3>2
  <2>2. CASE k > n
    <3>1. k \in n + 1 .. Len(lines) /\ n + 1 \in Nat \ {0} /\ Len(lines) \in 0 .. Len(lines)
      BY <1>1, <2>2
    <3>2. k - (n + 1) + 1 \in DOMAIN c /\ c[k - (n + 1) + 1] = lines[k]
      BY <3>1, PartOfLines
    <3> QED
      BY <3>2
  <2> QED
    BY <1>1, <2>1, <2>2
<1> HIDE DEF a, c
<1>4. EventsOf(lines) \subseteq EventsOf(a) \cup EventsOf(c)
  BY <1>3 DEF EventsOf
<1> QED
  BY <1>2, <1>4 DEF a, c

(***************************************************************************)
(* The order of the lines                                                  *)
(***************************************************************************)

LEMMA SpacedPart ==
    ASSUME NEW lines \in Seq(Line), NEW b \in Nat, Spaced(lines, b),
           NEW m \in Nat \ {0}, NEW n \in 0 .. Len(lines)
    PROVE  Spaced(SubSeq(lines, m, n), b)
<1> DEFINE a == SubSeq(lines, m, n)
<1>1. /\ Len(lines) \in Nat /\ DOMAIN lines = 1 .. Len(lines)
      /\ \A k \in DOMAIN lines : lines[k].ev \in Nat
  BY LenProperties, ElementOfSeq, LineIsRecord
<1>2. /\ Len(a) = IF m <= n THEN n - m + 1 ELSE 0
      /\ \A i \in DOMAIN a : i \in Nat \ {0} /\ m + i - 1 \in m .. n /\ a[i] = lines[m + i - 1]
  BY PartOfLines
<1>a. m .. n \subseteq DOMAIN lines
  BY <1>1
<1> HIDE DEF a
<1>3. ASSUME NEW j \in DOMAIN a, Parses(a[j])
      PROVE  a[j].ev + (Len(a) - j) <= b
  <2>1. m + j - 1 \in DOMAIN lines /\ a[j] = lines[m + j - 1]
    BY <1>2, <1>a
  <2>2. lines[m + j - 1].ev + (Len(lines) - (m + j - 1)) <= b
    BY <1>3, <2>1 DEF Spaced
  <2>3. j \in Nat /\ m <= n /\ Len(a) = n - m + 1
    <3>1. j \in Nat \ {0} /\ m + j - 1 \in m .. n
      BY <1>2
    <3>2. m <= n
      BY <3>1
    <3> QED
      BY <1>2, <3>1, <3>2
  <2>4. Len(a) - j <= Len(lines) - (m + j - 1)
    BY <1>1, <2>3
  <2>5. a[j].ev \in Nat /\ a[j].ev = lines[m + j - 1].ev
    BY <1>1, <2>1
  <2>6. Len(lines) \in Nat /\ m + j - 1 \in Int /\ Len(a) \in Int
    BY <1>1, <2>3
  <2> DEFINE e == lines[m + j - 1].ev
             k == m + j - 1
  <2>7. e \in Nat /\ k \in Int /\ e + (Len(lines) - k) <= b /\ Len(a) - j <= Len(lines) - k
    BY <2>2, <2>4, <2>5, <2>6
  <2> HIDE DEF e, k
  <2>8. e + (Len(a) - j) <= b
    BY <2>3, <2>6, <2>7
  <2> QED
    BY <2>5, <2>8 DEF e
<1>4. ASSUME NEW j \in DOMAIN a, NEW k \in DOMAIN a, j < k, Parses(a[j]), Parses(a[k])
      PROVE  a[j].ev < a[k].ev
  <2>1. /\ m + j - 1 \in DOMAIN lines /\ a[j] = lines[m + j - 1]
        /\ m + k - 1 \in DOMAIN lines /\ a[k] = lines[m + k - 1]
    BY <1>2, <1>a
  <2>2. m + j - 1 < m + k - 1
    BY <1>2, <1>4
  <2> QED
    BY <1>4, <2>1, <2>2 DEF Spaced
<1> QED
  BY <1>3, <1>4 DEF Spaced, a

LEMMA SpacedHigher ==
    ASSUME NEW lines \in Seq(Line), NEW b \in Nat, NEW c \in Nat, b <= c, Spaced(lines, b)
    PROVE  Spaced(lines, c)
<1>1. /\ Len(lines) \in Nat /\ DOMAIN lines = 1 .. Len(lines)
      /\ \A k \in DOMAIN lines : lines[k].ev \in Nat
  BY LenProperties, ElementOfSeq, LineIsRecord
<1> QED
  BY <1>1 DEF Spaced

\* A line of the newest event, or one that does not parse, goes behind the others.
LEMMA SpacedAppend ==
    ASSUME NEW lines \in Seq(Line), NEW b \in Nat, Spaced(lines, b),
           NEW t \in Line, t.ev \in {0, b + 1}
    PROVE  Spaced(Append(lines, t), b + 1)
<1> DEFINE a == Append(lines, t)
<1>1. /\ Len(lines) \in Nat /\ DOMAIN lines = 1 .. Len(lines)
      /\ \A k \in DOMAIN lines : lines[k].ev \in Nat
  BY LenProperties, ElementOfSeq, LineIsRecord
<1>2. /\ Len(a) = Len(lines) + 1 /\ DOMAIN a = 1 .. (Len(lines) + 1)
      /\ \A i \in 1 .. Len(lines) : a[i] = lines[i]
      /\ a[Len(lines) + 1] = t
  BY <1>1, AppendProperties, LenProperties
<1> HIDE DEF a
<1>3. \A i \in DOMAIN a : (i \in DOMAIN lines /\ a[i] = lines[i])
        \/ (i = Len(lines) + 1 /\ a[i] = t)
  BY <1>1, <1>2
<1>4. ASSUME NEW j \in DOMAIN a, Parses(a[j])
      PROVE  a[j].ev + (Len(a) - j) <= b + 1
  <2>1. CASE j \in DOMAIN lines /\ a[j] = lines[j]
    <3>1. lines[j].ev + (Len(lines) - j) <= b
      BY <1>4, <2>1 DEF Spaced
    <3> QED
      BY <1>1, <1>2, <2>1, <3>1
  <2>2. CASE j = Len(lines) + 1 /\ a[j] = t
    BY <1>1, <1>2, <2>2
  <2> QED
    BY <1>3, <2>1, <2>2
<1>5. ASSUME NEW j \in DOMAIN a, NEW k \in DOMAIN a, j < k, Parses(a[j]), Parses(a[k])
      PROVE  a[j].ev < a[k].ev
  <2>1. j \in DOMAIN lines /\ a[j] = lines[j]
    BY <1>1, <1>2, <1>5
  <2>2. CASE k \in DOMAIN lines /\ a[k] = lines[k]
    BY <1>5, <2>1, <2>2 DEF Spaced
  <2>3. CASE k = Len(lines) + 1 /\ a[k] = t
    <3>1. t.ev = b + 1
      BY <1>5, <2>3 DEF Parses
    <3>2. lines[j].ev + (Len(lines) - j) <= b
      BY <1>5, <2>1 DEF Spaced
    <3> QED
      BY <1>1, <2>1, <2>3, <3>1, <3>2
  <2> QED
    BY <1>3, <2>2, <2>3
<1> QED
  BY <1>4, <1>5 DEF Spaced, a

\* The line at n is torn or spoiled, and nothing is behind it.
LEMMA SpacedTorn ==
    ASSUME NEW lines \in Seq(Line), NEW b \in Nat, Spaced(lines, b),
           NEW n \in 1 .. Len(lines), NEW t \in Line, t.ev \in {0, lines[n].ev}
    PROVE  Spaced(Append(SubSeq(lines, 1, n - 1), t), b)
<1> DEFINE p == SubSeq(lines, 1, n - 1)
           a == Append(p, t)
<1>1. /\ Len(lines) \in Nat /\ DOMAIN lines = 1 .. Len(lines)
      /\ \A k \in DOMAIN lines : lines[k].ev \in Nat
  BY LenProperties, ElementOfSeq, LineIsRecord
<1>2. n - 1 \in 0 .. Len(lines) /\ 1 \in Nat \ {0}
  BY <1>1
<1>3. p \in Seq(Line) /\ Len(p) = n - 1 /\ \A i \in 1 .. n - 1 : p[i] = lines[i]
  <2>1. /\ p \in Seq(Line) /\ Len(p) = IF 1 <= n - 1 THEN n - 1 - 1 + 1 ELSE 0
        /\ \A i \in 1 .. n - 1 : p[i - 1 + 1] = lines[i]
    BY <1>2, PartOfLines
  <2> QED
    BY <1>1, <2>1
<1>4. /\ Len(a) = n /\ DOMAIN a = 1 .. n
      /\ \A i \in 1 .. n - 1 : a[i] = lines[i]
      /\ a[n] = t
  <2>1. /\ a \in Seq(Line) /\ Len(a) = Len(p) + 1 /\ a[Len(p) + 1] = t
        /\ \A i \in 1 .. Len(p) : a[i] = p[i]
    BY <1>3, AppendProperties
  <2>2. Len(p) + 1 = n
    BY <1>1, <1>3
  <2> HIDE DEF a, p
  <2>3. DOMAIN a = 1 .. n
    BY <2>1, <2>2, LenProperties
  <2> QED
    BY <1>1, <1>3, <2>1, <2>2, <2>3
<1> HIDE DEF a, p
<1>5. \A i \in DOMAIN a : /\ i \in DOMAIN lines /\ i \in Nat
                          /\ Parses(a[i]) => a[i].ev = lines[i].ev /\ Parses(lines[i])
  BY <1>1, <1>4 DEF Parses
<1>6. ASSUME NEW j \in DOMAIN a, Parses(a[j])
      PROVE  a[j].ev + (Len(a) - j) <= b
  <2>1. lines[j].ev + (Len(lines) - j) <= b
    BY <1>5, <1>6 DEF Spaced
  <2> QED
    BY <1>1, <1>4, <1>5, <1>6, <2>1
<1>7. ASSUME NEW j \in DOMAIN a, NEW k \in DOMAIN a, j < k, Parses(a[j]), Parses(a[k])
      PROVE  a[j].ev < a[k].ev
  BY <1>5, <1>7 DEF Spaced
<1> QED
  BY <1>6, <1>7 DEF Spaced, a, p

(***************************************************************************)
(* What a scanner reads                                                    *)
(***************************************************************************)

\* A scanner reads the lines up to some place.
LEMMA LegibleIsPart ==
    ASSUME NEW lines \in Seq(Line), NEW buffer
    PROVE  \E n \in 0 .. Len(lines) : Legible(lines, buffer) = SubSeq(lines, 1, n)
<1> DEFINE beyond == {k \in DOMAIN lines : lines[k].size > buffer}
<1>1. Len(lines) \in Nat /\ DOMAIN lines = 1 .. Len(lines)
  BY LenProperties
<1>2. CASE beyond = {}
  <2>1. Legible(lines, buffer) = SubSeq(lines, 1, Len(lines))
    BY <1>2, SubSeqFull DEF Legible
  <2>2. Len(lines) \in 0 .. Len(lines)
    BY <1>1
  <2> HIDE DEF beyond
  <2> QED
    BY <2>1, <2>2, Zenon
<1>3. CASE beyond # {}
  <2>1. Min(beyond) \in 1 .. Len(lines)
    <3>1. beyond \subseteq Nat /\ beyond \subseteq 1 .. Len(lines)
      BY <1>1
    <3> QED
      BY <1>3, <3>1, MinIsLeast
  <2>2. Legible(lines, buffer) = SubSeq(lines, 1, Min(beyond) - 1)
    BY <1>3 DEF Legible
  <2>3. Min(beyond) - 1 \in 0 .. Len(lines)
    BY <1>1, <2>1
  <2> HIDE DEF beyond
  <2> QED
    BY <2>2, <2>3, Zenon
<1> QED
  BY <1>2, <1>3

\* It reads all of them when none is too long.
LEMMA AllLegible ==
    ASSUME NEW lines \in Seq(Line), NEW buffer \in Nat \ {0}, MaxSize = 1
    PROVE  Legible(lines, buffer) = lines
<1>1. DOMAIN lines = 1 .. Len(lines) /\ \A k \in 1 .. Len(lines) : lines[k] \in Line
  BY LenProperties, ElementOfSeq
<1>2. \A k \in DOMAIN lines : lines[k].size = 1
  BY <1>1, LineIsRecord
<1> QED
  BY <1>2 DEF Legible

(***************************************************************************)
(* What a drain makes of the lines                                         *)
(***************************************************************************)

\* After the first k lines: the lines of p are those among them that parse, in their order.
ParsedSoFar(p, lines, k) ==
    /\ p \in Seq(Line) /\ Len(p) <= k
    /\ \A j \in DOMAIN p :
          /\ Parses(p[j])
          /\ \E i \in 1 .. k : p[j] = lines[i] /\ Len(p) - j <= k - i
    /\ \A i \in 1 .. k : Parses(lines[i]) => \E j \in DOMAIN p : p[j] = lines[i]
    /\ \A i, j \in DOMAIN p :
          i < j => \E h, k2 \in 1 .. k : h < k2 /\ p[i] = lines[h] /\ p[j] = lines[k2]

Longer(p, line) == IF Parses(line) THEN Append(p, line) ELSE p

LEMMA ParsedNext ==
    ASSUME NEW lines \in Seq(Line), NEW k \in 1 .. Len(lines),
           NEW p, ParsedSoFar(p, lines, k - 1)
    PROVE  ParsedSoFar(Longer(p, lines[k]), lines, k)
<1>1. Len(lines) \in Nat /\ k \in Nat \ {0} /\ lines[k] \in Line
  BY LenProperties, ElementOfSeq
<1>2. p \in Seq(Line) /\ Len(p) \in Nat /\ DOMAIN p = 1 .. Len(p)
  BY LenProperties DEF ParsedSoFar
<1>3. CASE ~Parses(lines[k])
  <2>1. Longer(p, lines[k]) = p
    BY <1>3 DEF Longer
  <2>2. Len(p) <= k
    BY <1>1, <1>2 DEF ParsedSoFar
  <2>3. ASSUME NEW j \in DOMAIN p
        PROVE  Parses(p[j]) /\ \E i \in 1 .. k : p[j] = lines[i] /\ Len(p) - j <= k - i
    <3>1. PICK i \in 1 .. k - 1 : p[j] = lines[i] /\ Len(p) - j <= k - 1 - i
      BY DEF ParsedSoFar
    <3>2. i \in 1 .. k /\ Len(p) - j <= k - i
      BY <1>1, <1>2, <3>1
    <3> QED
      BY <3>1, <3>2 DEF ParsedSoFar
  <2>4. \A i \in 1 .. k : Parses(lines[i]) => \E j \in DOMAIN p : p[j] = lines[i]
    <3>1. \A i \in 1 .. k : Parses(lines[i]) => i \in 1 .. k - 1
      BY <1>1, <1>3
    <3> QED
      BY <3>1 DEF ParsedSoFar
  <2>5. \A i, j \in DOMAIN p :
            i < j => \E h, k2 \in 1 .. k : h < k2 /\ p[i] = lines[h] /\ p[j] = lines[k2]
    <3>1. 1 .. k - 1 \subseteq 1 .. k
      BY <1>1
    <3> QED
      BY <3>1 DEF ParsedSoFar
  <2> QED
    BY <1>2, <2>1, <2>2, <2>3, <2>4, <2>5 DEF ParsedSoFar
<1>4. CASE Parses(lines[k])
  <2> DEFINE a == Append(p, lines[k])
  <2>1. Longer(p, lines[k]) = a
    BY <1>4 DEF Longer
  <2>2. /\ a \in Seq(Line) /\ Len(a) = Len(p) + 1 /\ a[Len(p) + 1] = lines[k]
        /\ \A i \in 1 .. Len(p) : a[i] = p[i]
    BY <1>1, <1>2, AppendProperties
  <2>3. DOMAIN a = 1 .. Len(p) + 1
    BY <2>2, LenProperties
  <2> HIDE DEF a
  <2>4. \A j \in DOMAIN a : (j \in DOMAIN p /\ a[j] = p[j])
          \/ (j = Len(p) + 1 /\ a[j] = lines[k])
    BY <1>2, <2>2, <2>3
  <2>5. Len(a) <= k
    BY <1>1, <1>2, <2>2 DEF ParsedSoFar
  <2>6. ASSUME NEW j \in DOMAIN a
        PROVE  Parses(a[j]) /\ \E i \in 1 .. k : a[j] = lines[i] /\ Len(a) - j <= k - i
    <3>1. CASE j \in DOMAIN p /\ a[j] = p[j]
      <4>1. PICK i \in 1 .. k - 1 : p[j] = lines[i] /\ Len(p) - j <= k - 1 - i
        BY <3>1 DEF ParsedSoFar
      <4>2. i \in 1 .. k /\ Len(a) - j <= k - i
        BY <1>1, <1>2, <2>2, <3>1, <4>1
      <4> QED
        BY <3>1, <4>1, <4>2 DEF ParsedSoFar
    <3>2. CASE j = Len(p) + 1 /\ a[j] = lines[k]
      <4>1. k \in 1 .. k /\ Len(a) - j <= k - k
        BY <1>1, <1>2, <2>2, <3>2
      <4> QED
        BY <1>4, <3>2, <4>1
    <3> QED
      BY <2>4, <3>1, <3>2
  <2>7. ASSUME NEW i \in 1 .. k, Parses(lines[i])
        PROVE  \E j \in DOMAIN a : a[j] = lines[i]
    <3>1. CASE i = k
      BY <1>2, <2>2, <2>3, <3>1
    <3>2. CASE i # k
      <4>1. i \in 1 .. k - 1
        BY <1>1, <3>2
      <4>2. PICK j \in DOMAIN p : p[j] = lines[i]
        BY <2>7, <4>1 DEF ParsedSoFar
      <4> QED
        BY <1>2, <2>2, <2>3, <4>2
    <3> QED
      BY <3>1, <3>2
  <2>8. ASSUME NEW i \in DOMAIN a, NEW j \in DOMAIN a, i < j
        PROVE  \E h, k2 \in 1 .. k : h < k2 /\ a[i] = lines[h] /\ a[j] = lines[k2]
    <3>1. i \in DOMAIN p /\ a[i] = p[i]
      BY <1>2, <2>2, <2>3, <2>8
    <3>2. 1 .. k - 1 \subseteq 1 .. k /\ k \in 1 .. k /\ \A h \in 1 .. k - 1 : h < k
      BY <1>1
    <3>3. CASE j \in DOMAIN p /\ a[j] = p[j]
      <4>1. PICK h \in 1 .. k - 1, k2 \in 1 .. k - 1 :
                h < k2 /\ p[i] = lines[h] /\ p[j] = lines[k2]
        BY <2>8, <3>1, <3>3 DEF ParsedSoFar
      <4> QED
        BY <3>1, <3>2, <3>3, <4>1
    <3>4. CASE j = Len(p) + 1 /\ a[j] = lines[k]
      <4>1. PICK h \in 1 .. k - 1 : p[i] = lines[h]
        BY <3>1 DEF ParsedSoFar
      <4> QED
        BY <3>1, <3>2, <3>4, <4>1
    <3> QED
      BY <2>4, <3>3, <3>4
  <2> QED
    BY <2>1, <2>2, <2>5, <2>6, <2>7, <2>8 DEF ParsedSoFar
<1> QED
  BY <1>3, <1>4

\* The function by which Parsed is defined exists: else there is a first place up to which
\* it does not.
Reading(f, lines, n) ==
    /\ f = [k \in 0 .. n |-> IF k = 0 THEN <<>> ELSE Longer(f[k - 1], lines[k])]
    /\ \A k \in 0 .. n : ParsedSoFar(f[k], lines, k)

LEMMA ReadingExists ==
    ASSUME NEW lines \in Seq(Line)
    PROVE  \E f : Reading(f, lines, Len(lines))
<1>1. Len(lines) \in Nat
  BY LenProperties
<1> DEFINE Fails == {n \in 0 .. Len(lines) : ~ \E f : Reading(f, lines, n)}
<1> SUFFICES ASSUME Fails # {} PROVE FALSE
  BY <1>1
<1>2. PICK n \in Fails : \A m \in Fails : n <= m
  <2>1. Fails \subseteq Nat
    BY <1>1
  <2> HIDE DEF Fails
  <2> QED
    BY <2>1, LeastNatural
<1>3. CASE n = 0
  <2> DEFINE f == [k \in 0 .. 0 |-> <<>>]
  <2>1. f = [k \in 0 .. 0 |-> IF k = 0 THEN <<>> ELSE Longer(f[k - 1], lines[k])]
    OBVIOUS
  <2>2. ParsedSoFar(<<>>, lines, 0)
    BY EmptySeq DEF ParsedSoFar
  <2>3. Reading(f, lines, 0)
    BY <2>1, <2>2 DEF Reading
  <2> QED
    BY <1>2, <1>3, <2>3
<1>4. CASE n # 0
  <2>1. n - 1 \in 0 .. Len(lines) /\ n - 1 \notin Fails /\ n \in 1 .. Len(lines)
    BY <1>1, <1>2, <1>4
  <2>2. PICK f : Reading(f, lines, n - 1)
    BY <2>1
  <2> DEFINE g == [k \in 0 .. n |-> IF k = n THEN Longer(f[n - 1], lines[n]) ELSE f[k]]
  <2>3. ASSUME NEW k \in 0 .. n
        PROVE  /\ g[k] = IF k = 0 THEN <<>> ELSE Longer(g[k - 1], lines[k])
               /\ ParsedSoFar(g[k], lines, k)
    <3>1. /\ \A i \in 0 .. n - 1 : f[i] = IF i = 0 THEN <<>> ELSE Longer(f[i - 1], lines[i])
          /\ \A i \in 0 .. n - 1 : ParsedSoFar(f[i], lines, i)
      BY <2>2 DEF Reading
    <3>2. CASE k = n
      <4>1. k # 0 /\ n - 1 \in 0 .. n - 1 /\ g[k - 1] = f[n - 1]
        BY <2>1, <3>2
      <4>2. g[k] = Longer(f[n - 1], lines[n])
        BY <3>2
      <4>3. ParsedSoFar(Longer(f[n - 1], lines[n]), lines, n)
        BY <2>1, <3>1, <4>1, ParsedNext
      <4> QED
        BY <3>2, <4>1, <4>2, <4>3
    <3>3. CASE k # n
      <4>1. k \in 0 .. n - 1 /\ g[k] = f[k] /\ (k # 0 => g[k - 1] = f[k - 1])
        BY <2>1, <3>3
      <4> QED
        BY <3>1, <4>1
    <3> QED
      BY <3>2, <3>3
  <2>4. g = [k \in 0 .. n |-> g[k]]
    OBVIOUS
  <2> HIDE DEF g
  <2>5. Reading(g, lines, n)
    <3>1. g = [k \in 0 .. n |-> IF k = 0 THEN <<>> ELSE Longer(g[k - 1], lines[k])]
      BY <2>3, <2>4
    <3> QED
      BY <2>3, <3>1 DEF Reading
  <2> QED
    BY <1>2, <2>5
<1> QED
  BY <1>3, <1>4

\* Every function with its equation reads in the same way.
LEMMA ReadingAgrees ==
    ASSUME NEW lines \in Seq(Line), NEW f,
           f = [k \in 0 .. Len(lines) |-> IF k = 0 THEN <<>> ELSE Longer(f[k - 1], lines[k])]
    PROVE  ParsedSoFar(f[Len(lines)], lines, Len(lines))
<1>1. Len(lines) \in Nat
  BY LenProperties
<1> DEFINE Fails == {n \in 0 .. Len(lines) : ~ ParsedSoFar(f[n], lines, n)}
<1> SUFFICES ASSUME Fails # {} PROVE FALSE
  <2>1. Len(lines) \in 0 .. Len(lines)
    BY <1>1
  <2>2. ASSUME Fails = {} PROVE ParsedSoFar(f[Len(lines)], lines, Len(lines))
    BY <2>1, <2>2, Zenon
  <2> QED
    BY <2>2
<1>2. PICK n \in Fails : \A m \in Fails : n <= m
  <2>1. Fails \subseteq Nat
    BY <1>1
  <2> HIDE DEF Fails
  <2> QED
    BY <2>1, LeastNatural
<1>0. \A i \in 0 .. Len(lines) : f[i] = IF i = 0 THEN <<>> ELSE Longer(f[i - 1], lines[i])
  OBVIOUS
<1>3. CASE n = 0
  <2>1. ParsedSoFar(<<>>, lines, 0)
    BY EmptySeq DEF ParsedSoFar
  <2> QED
    BY <1>0, <1>2, <1>3, <2>1
<1>4. CASE n # 0
  <2>1. n - 1 \in 0 .. Len(lines) /\ n - 1 \notin Fails /\ n \in 1 .. Len(lines)
    BY <1>1, <1>2, <1>4
  <2>2. ParsedSoFar(f[n - 1], lines, n - 1)
    BY <2>1
  <2>3. ParsedSoFar(Longer(f[n - 1], lines[n]), lines, n)
    BY <2>1, <2>2, ParsedNext
  <2> QED
    BY <1>0, <1>2, <1>4, <2>3
<1> QED
  BY <1>3, <1>4

LEMMA ParsedIsReading ==
    ASSUME NEW lines \in Seq(Line)
    PROVE  ParsedSoFar(Parsed(lines), lines, Len(lines))
<1> DEFINE Eq(u) == u = [k \in 0 .. Len(lines) |-> IF k = 0 THEN <<>>
                              ELSE IF Parses(lines[k]) THEN Append(u[k - 1], lines[k])
                              ELSE u[k - 1]]
<1>1. ASSUME NEW u
      PROVE  Eq(u) <=> u = [k \in 0 .. Len(lines) |->
                                IF k = 0 THEN <<>> ELSE Longer(u[k - 1], lines[k])]
  BY DEF Longer
<1>2. \E u : Eq(u)
  BY <1>1, ReadingExists DEF Reading
<1>3. Parsed(lines) = (CHOOSE u : Eq(u))[Len(lines)]
  BY DEF Parsed
<1> DEFINE f == CHOOSE u : Eq(u)
<1>4. Eq(f)
  <2> HIDE DEF Eq
  <2> QED
    BY <1>2
<1>5. f = [k \in 0 .. Len(lines) |-> IF k = 0 THEN <<>> ELSE Longer(f[k - 1], lines[k])]
  <2> HIDE DEF Eq, f
  <2> QED
    BY <1>1, <1>4
<1> HIDE DEF Eq, f
<1>6. ParsedSoFar(f[Len(lines)], lines, Len(lines))
  BY <1>5, ReadingAgrees
<1> QED
  BY <1>3, <1>6 DEF f

\* A drain holds the events of the lines, no more lines, and in their order.
LEMMA ParsedLines ==
    ASSUME NEW lines \in Seq(Line)
    PROVE  /\ Parsed(lines) \in Seq(Line) /\ Len(Parsed(lines)) <= Len(lines)
           /\ EventsOf(Parsed(lines)) = EventsOf(lines)
           /\ \A b \in Nat : Spaced(lines, b) => Spaced(Parsed(lines), b)
<1> DEFINE p == Parsed(lines)
<1>1. ParsedSoFar(p, lines, Len(lines))
  BY ParsedIsReading
<1> HIDE DEF p
<1>2. /\ Len(lines) \in Nat /\ DOMAIN lines = 1 .. Len(lines)
      /\ \A k \in DOMAIN lines : lines[k].ev \in Nat
  BY LenProperties, ElementOfSeq, LineIsRecord
<1>3. p \in Seq(Line) /\ Len(p) \in Nat /\ DOMAIN p = 1 .. Len(p) /\ Len(p) <= Len(lines)
  BY <1>1, LenProperties DEF ParsedSoFar
<1>4. \A j \in DOMAIN p : \E i \in DOMAIN lines : p[j] = lines[i]
        /\ Len(p) - j <= Len(lines) - i
  BY <1>1, <1>2 DEF ParsedSoFar
<1>5. EventsOf(p) \subseteq EventsOf(lines)
  BY <1>4 DEF EventsOf
<1>6. EventsOf(lines) \subseteq EventsOf(p)
  BY <1>1, <1>2 DEF EventsOf, ParsedSoFar, Parses
<1>7. ASSUME NEW b \in Nat, Spaced(lines, b)
      PROVE  Spaced(p, b)
  <2>1. ASSUME NEW j \in DOMAIN p, Parses(p[j])
        PROVE  p[j].ev + (Len(p) - j) <= b
    <3>1. PICK i \in DOMAIN lines : p[j] = lines[i] /\ Len(p) - j <= Len(lines) - i
      BY <1>4
    <3>2. lines[i].ev + (Len(lines) - i) <= b
      BY <1>7, <2>1, <3>1 DEF Spaced
    <3> QED
      BY <1>2, <1>3, <3>1, <3>2
  <2>2. ASSUME NEW i \in DOMAIN p, NEW j \in DOMAIN p, i < j, Parses(p[i]), Parses(p[j])
        PROVE  p[i].ev < p[j].ev
    <3>1. PICK h \in DOMAIN lines, k \in DOMAIN lines :
              h < k /\ p[i] = lines[h] /\ p[j] = lines[k]
      <4>1. \E h, k2 \in 1 .. Len(lines) : h < k2 /\ p[i] = lines[h] /\ p[j] = lines[k2]
        BY <1>1, <2>2 DEF ParsedSoFar
      <4> QED
        BY <1>2, <4>1
    <3> QED
      BY <1>7, <2>2, <3>1 DEF Spaced
  <2> QED
    BY <2>1, <2>2 DEF Spaced
<1> QED
  BY <1>3, <1>5, <1>6, <1>7 DEF p

(***************************************************************************)
(* The invariant: where run() is tells what it holds, and what it holds    *)
(* and what the file holds is in order                                     *)
(***************************************************************************)

Phase ==
    /\ pc \in {"off", "idle", "drain", "remove"} => event = Nothing
    /\ pc \in {"send", "check", "append"} => event # Nothing
    /\ pc \in {"off", "idle", "send", "remove", "check", "append"} => left = <<>>
    /\ event # Nothing => event.ev = made /\ made > 0
    /\ pc = "write" => file = <<>> /\ ~open

\* The newest event that may be in the file.
Bound == IF event = Nothing THEN made ELSE made - 1

Order == Spaced(file, Bound) /\ Spaced(left, Bound)

QueueInv == TypeOK /\ Phase /\ Order

LEMMA BoundIsNumber ==
    ASSUME QueueInv
    PROVE  /\ Bound \in Nat /\ made \in Nat /\ Bound <= made
           /\ event # Nothing => Bound = made - 1 /\ Bound + 1 = made
           /\ event = Nothing => Bound = made
  BY QueueAssumption DEF QueueInv, TypeOK, Phase, Bound

LEMMA EventsBelow ==
    ASSUME NEW lines \in Seq(Line), NEW b \in Nat, Spaced(lines, b)
    PROVE  EventsOf(lines) \subseteq 1 .. b
<1>1. /\ Len(lines) \in Nat /\ DOMAIN lines = 1 .. Len(lines)
      /\ \A k \in DOMAIN lines : lines[k].ev \in Nat
  BY LenProperties, ElementOfSeq, LineIsRecord
<1>2. ASSUME NEW k \in DOMAIN lines, lines[k].ev # 0
      PROVE  lines[k].ev \in 1 .. b
  <2>1. lines[k].ev + (Len(lines) - k) <= b
    BY <1>2 DEF Spaced, Parses
  <2> QED
    BY <1>1, <1>2, <2>1
<1> QED
  BY <1>2 DEF EventsOf

\* Everything that is held was made.
LEMMA HeldWasMade ==
    ASSUME QueueInv
    PROVE  /\ EventsOf(file) \subseteq 1 .. made /\ EventsOf(left) \subseteq 1 .. made
           /\ {event.ev} \ {0} \subseteq 1 .. made
<1>1. EventsOf(file) \subseteq 1 .. Bound /\ EventsOf(left) \subseteq 1 .. Bound
  BY BoundIsNumber, EventsBelow DEF QueueInv, TypeOK, Order
<1>2. CASE event = Nothing
  BY <1>1, <1>2, BoundIsNumber, NothingIsLine
<1>3. CASE event # Nothing
  <2>1. event.ev = made /\ made > 0 /\ made \in Nat
    BY <1>3, BoundIsNumber DEF QueueInv, Phase
  <2> QED
    BY <1>1, <2>1, BoundIsNumber
<1> QED
  BY <1>2, <1>3

(***************************************************************************)
(* Batches                                                                 *)
(***************************************************************************)

LEMMA DrainBatch ==
    ASSUME TypeOK, pc = "drain"
    PROVE  \E n \in 0 .. Len(left) :
               /\ Batch = SubSeq(left, 1, n) /\ Len(Batch) = n
               /\ Rest = SubSeq(left, n + 1, Len(left))
<1> DEFINE n == Min({BatchSize, Len(left)})
<1>1. left \in Seq(Line) /\ Len(left) \in Nat
  BY LenProperties DEF TypeOK
<1>2. n \in 0 .. Len(left)
  BY <1>1, MinOfTwo, QueueAssumption
<1>3. Batch = SubSeq(left, 1, n)
  BY DEF Batch
<1> HIDE DEF n
<1>4. Len(SubSeq(left, 1, n)) = n
  <2>1. Len(SubSeq(left, 1, n)) = IF 1 <= n THEN n - 1 + 1 ELSE 0
    BY <1>1, <1>2, PartOfLines
  <2> QED
    BY <1>1, <1>2, <2>1
<1>5. Rest = SubSeq(left, n + 1, Len(left))
  BY <1>3, <1>4 DEF Rest
<1> QED
  BY <1>2, <1>3, <1>4, <1>5

LEMMA BatchParts ==
    ASSUME QueueInv, Sending
    PROVE  /\ Batch \in Seq(Line)
           /\ EventsOf(Batch) \subseteq 1 .. made
           /\ EventsOf(Batch) \subseteq EventsOf(left) \cup ({event.ev} \ {0})
           /\ pc = "drain" => /\ Rest \in Seq(Line) /\ Spaced(Rest, Bound)
                              /\ EventsOf(left) = EventsOf(Batch) \cup EventsOf(Rest)
                              /\ Len(Rest) <= Len(left)
           /\ pc = "send" => EventsOf(Batch) = {event.ev} \ {0}
<1>1. /\ left \in Seq(Line) /\ Len(left) \in Nat /\ event \in Line /\ Spaced(left, Bound)
      /\ Bound \in Nat
  BY LenProperties, BoundIsNumber DEF QueueInv, TypeOK, Order
<1>2. CASE pc = "drain"
  <2>1. PICK n \in 0 .. Len(left) :
            /\ Batch = SubSeq(left, 1, n) /\ Len(Batch) = n
            /\ Rest = SubSeq(left, n + 1, Len(left))
    BY <1>2, DrainBatch DEF QueueInv
  <2>2. n + 1 \in Nat \ {0} /\ 1 \in Nat \ {0} /\ Len(left) \in 0 .. Len(left)
    BY <1>1
  <2>3. Batch \in Seq(Line) /\ Rest \in Seq(Line) /\ Spaced(Rest, Bound)
    BY <1>1, <2>1, <2>2, PartOfLines, SpacedPart
  <2>4. EventsOf(left) = EventsOf(Batch) \cup EventsOf(Rest)
    BY <1>1, <2>1, EventsOfParts
  <2>5. Len(Rest) <= Len(left)
    <3>1. Len(Rest) = IF n + 1 <= Len(left) THEN Len(left) - (n + 1) + 1 ELSE 0
      BY <1>1, <2>1, <2>2, PartOfLines
    <3> QED
      BY <1>1, <2>1, <3>1
  <2> QED
    BY <1>2, <2>3, <2>4, <2>5, HeldWasMade
<1>3. CASE pc = "send"
  <2>1. Batch = <<event>>
    BY <1>3 DEF Batch
  <2> QED
    BY <1>1, <1>3, <2>1, OneLine, HeldWasMade
<1> QED
  BY <1>2, <1>3 DEF Sending

(***************************************************************************)
(* What is written to the file                                             *)
(***************************************************************************)

LEMMA TornLines ==
    ASSUME NEW line \in Line
    PROVE  \A t \in Torn(line) : t \in Line /\ t.ev \in {0, line.ev}
<1>1. /\ line.ev \in 0 .. MaxEvents /\ line.size \in 1 .. MaxSize
      /\ MaxSize \in Nat /\ MaxEvents \in Nat
  BY LineIsRecord, QueueAssumption
<1>2. {0, line.ev} \subseteq 0 .. MaxEvents /\ 1 .. line.size \subseteq 1 .. MaxSize
  BY <1>1
<1> QED
  BY <1>2 DEF Torn, Line

\* A rewrite that is cut short leaves a part of the lines in the file, the last of them
\* perhaps torn.
LEMMA CutShortLines ==
    ASSUME NEW lines \in Seq(Line), NEW b \in Nat, Spaced(lines, b),
           NEW c \in CutShort(lines)
    PROVE  /\ c[1] \in Seq(Line) /\ c[2] \in BOOLEAN /\ (c[2] => c[1] # <<>>)
           /\ Spaced(c[1], b)
           /\ Len(c[1]) <= Len(lines)
           /\ EventsOf(c[1]) \subseteq EventsOf(lines)
<1>1. Len(lines) \in Nat /\ DOMAIN lines = 1 .. Len(lines) /\ 1 \in Nat \ {0}
  BY LenProperties
<1>2. ASSUME NEW k \in 0 .. Len(lines) - 1, c = <<SubSeq(lines, 1, k), FALSE>>
      PROVE  /\ c[1] \in Seq(Line) /\ c[2] \in BOOLEAN /\ (c[2] => c[1] # <<>>)
             /\ Spaced(c[1], b) /\ Len(c[1]) <= Len(lines)
             /\ EventsOf(c[1]) \subseteq EventsOf(lines)
  <2>1. k \in 0 .. Len(lines) /\ c[1] = SubSeq(lines, 1, k) /\ c[2] = FALSE
    BY <1>1, <1>2
  <2>2. c[1] \in Seq(Line) /\ Len(c[1]) = (IF 1 <= k THEN k - 1 + 1 ELSE 0)
    BY <1>1, <2>1, PartOfLines
  <2>3. Spaced(c[1], b) /\ EventsOf(c[1]) \subseteq EventsOf(lines)
    BY <1>1, <2>1, SpacedPart, EventsOfPart
  <2>4. Len(c[1]) <= Len(lines)
    BY <1>1, <2>2
  <2>5. c[2] \in BOOLEAN /\ ~c[2]
    BY <2>1
  <2> QED
    BY <2>2, <2>3, <2>4, <2>5
<1>3. ASSUME NEW k \in 1 .. Len(lines), NEW t \in Torn(lines[k]),
             c = <<Append(SubSeq(lines, 1, k - 1), t), TRUE>>
      PROVE  /\ c[1] \in Seq(Line) /\ c[2] \in BOOLEAN /\ (c[2] => c[1] # <<>>)
             /\ Spaced(c[1], b) /\ Len(c[1]) <= Len(lines)
             /\ EventsOf(c[1]) \subseteq EventsOf(lines)
  <2> DEFINE p == SubSeq(lines, 1, k - 1)
  <2>1. k - 1 \in 0 .. Len(lines) /\ c[1] = Append(p, t) /\ c[2] = TRUE
    BY <1>1, <1>3
  <2>2. lines[k] \in Line /\ t \in Line /\ t.ev \in {0, lines[k].ev}
    BY ElementOfSeq, TornLines
  <2>3. p \in Seq(Line) /\ Len(p) = k - 1 /\ EventsOf(p) \subseteq EventsOf(lines)
    <3>1. p \in Seq(Line) /\ Len(p) = (IF 1 <= k - 1 THEN k - 1 - 1 + 1 ELSE 0)
      BY <1>1, <2>1, PartOfLines
    <3>2. EventsOf(p) \subseteq EventsOf(lines)
      BY <1>1, <2>1, EventsOfPart
    <3> QED
      BY <1>1, <3>1, <3>2
  <2>4. {t.ev} \ {0} \subseteq EventsOf(lines)
    BY <1>1, <2>2 DEF EventsOf
  <2>5. Spaced(Append(p, t), b)
    BY <2>2, SpacedTorn
  <2> HIDE DEF p
  <2>6. /\ Append(p, t) \in Seq(Line) /\ Append(p, t) # <<>>
        /\ Len(Append(p, t)) = Len(p) + 1
        /\ EventsOf(Append(p, t)) = EventsOf(p) \cup ({t.ev} \ {0})
    BY <2>2, <2>3, AppendedLines
  <2>7. c[1] \in Seq(Line) /\ c[1] # <<>> /\ Spaced(c[1], b) /\ c[2] \in BOOLEAN
    BY <2>1, <2>5, <2>6
  <2>8. Len(c[1]) <= Len(lines)
    BY <1>1, <2>1, <2>3, <2>6
  <2>9. EventsOf(c[1]) \subseteq EventsOf(lines)
    BY <2>1, <2>3, <2>4, <2>6
  <2> QED
    BY <2>7, <2>8, <2>9
<1> QED
  BY <1>2, <1>3 DEF CutShort

\* A line is appended behind the others, or to the open one.
LEMMA AppendedToFile ==
    ASSUME QueueInv, event # Nothing, NEW t \in Line, t.ev \in {0, event.ev},
           NEW f \in Appended(t)
    PROVE  /\ f \in Seq(Line) /\ f # <<>> /\ Len(f) <= Len(file) + 1
           /\ Spaced(f, made)
           /\ EventsOf(f) \subseteq EventsOf(file) \cup ({t.ev} \ {0})
           /\ open => EventsOf(file) \subseteq EventsOf(f) \cup EventsOf(<<Last(file)>>)
           /\ ~open => EventsOf(f) = EventsOf(file) \cup ({t.ev} \ {0})
<1>1. /\ file \in Seq(Line) /\ Len(file) \in Nat /\ DOMAIN file = 1 .. Len(file)
      /\ (open => file # <<>>) /\ open \in BOOLEAN
      /\ Spaced(file, Bound) /\ Bound \in Nat /\ made \in Nat /\ Bound + 1 = made
      /\ event.ev = made /\ Bound <= made
  BY LenProperties, BoundIsNumber DEF QueueInv, TypeOK, Order, Phase
<1>2. CASE ~open
  <2>1. f = Append(file, t)
    BY <1>2 DEF Appended
  <2>2. Spaced(f, made)
    BY <1>1, <2>1, SpacedAppend
  <2> QED
    BY <1>1, <1>2, <2>1, <2>2, AppendedLines
<1>3. CASE open
  <2>0. Len(file) \in 1 .. Len(file) /\ Len(file) - 1 \in 0 .. Len(file) /\ 1 \in Nat \ {0}
    BY <1>1, <1>3, EmptySeq
  <2>1. Last(file) = file[Len(file)] /\ Last(file) \in Line
    BY <1>1, <2>0, ElementOfSeq DEF Last
  <2> DEFINE p == SubSeq(file, 1, Len(file) - 1)
  <2>2. PICK s \in Max({Last(file).size, t.size}) .. MaxSize :
            f = Append(p, [ev |-> 0, size |-> s])
    BY <1>3 DEF Appended, Front
  <2> DEFINE u == [ev |-> 0, size |-> s]
  <2>3. u \in Line /\ u.ev = 0
    <3>1. Last(file).size \in 1 .. MaxSize /\ t.size \in 1 .. MaxSize /\ MaxSize \in Nat
      BY <2>1, LineIsRecord, QueueAssumption
    <3>2. Max({Last(file).size, t.size}) \in 1 .. MaxSize
      BY <3>1, MaxOfTwo
    <3>3. s \in 1 .. MaxSize
      BY <3>1, <3>2
    <3> QED
      BY <3>3, QueueAssumption DEF Line
  <2>4. f = Append(p, u)
    BY <2>2
  <2>5. p \in Seq(Line) /\ Len(p) = Len(file) - 1 /\ EventsOf(p) \subseteq EventsOf(file)
    <3>1. p \in Seq(Line)
             /\ Len(p) = (IF 1 <= Len(file) - 1 THEN Len(file) - 1 - 1 + 1 ELSE 0)
      BY <1>1, <2>0, PartOfLines
    <3>2. EventsOf(p) \subseteq EventsOf(file)
      BY <1>1, <2>0, EventsOfPart
    <3> QED
      BY <1>1, <2>0, <3>1, <3>2
  <2>6. Spaced(Append(p, u), Bound)
    BY <1>1, <2>0, <2>3, SpacedTorn
  <2>7. EventsOf(file) \subseteq EventsOf(p) \cup EventsOf(<<Last(file)>>)
    <3> DEFINE rest == SubSeq(file, Len(file) - 1 + 1, Len(file))
    <3>1. EventsOf(file) = EventsOf(p) \cup EventsOf(rest)
      BY <1>1, <2>0, EventsOfParts
    <3>2. rest = SubSeq(file, Len(file), Len(file))
      BY <1>1
    <3>3. \A i \in DOMAIN rest : rest[i] = Last(file)
      <4>1. Len(file) \in Nat \ {0} /\ Len(file) \in 0 .. Len(file)
        BY <2>0
      <4>2. \A i \in DOMAIN rest :
                Len(file) + i - 1 \in Len(file) .. Len(file) /\ rest[i] = file[Len(file) + i - 1]
        BY <1>1, <3>2, <4>1, PartOfLines
      <4>3. \A n \in Nat : \A k \in n .. n : k = n
        OBVIOUS
      <4> QED
        BY <1>1, <2>1, <4>2, <4>3
    <3>4. EventsOf(<<Last(file)>>) = {Last(file).ev} \ {0}
      BY <2>1, OneLine
    <3> HIDE DEF rest
    <3>5. EventsOf(rest) \subseteq {Last(file).ev} \ {0}
      BY <3>3 DEF EventsOf
    <3> QED
      BY <3>1, <3>4, <3>5
  <2> HIDE DEF p, u
  <2>8. /\ Append(p, u) \in Seq(Line) /\ Append(p, u) # <<>>
        /\ Len(Append(p, u)) = Len(p) + 1
        /\ EventsOf(Append(p, u)) = EventsOf(p) \cup ({u.ev} \ {0})
    BY <2>3, <2>5, AppendedLines
  <2>9. EventsOf(f) = EventsOf(p)
    BY <2>3, <2>4, <2>8
  <2>10. f \in Seq(Line) /\ f # <<>> /\ Len(f) = Len(file)
    BY <1>1, <2>4, <2>5, <2>8
  <2>11. Spaced(f, made)
    BY <1>1, <2>4, <2>6, <2>10, SpacedHigher
  <2> QED
    BY <1>1, <1>3, <2>5, <2>7, <2>9, <2>10, <2>11
<1> QED
  BY <1>1, <1>2, <1>3

LEMMA LastLine ==
    ASSUME QueueInv, open
    PROVE  EventsOf(<<Last(file)>>) \subseteq EventsOf(file)
<1>1. file \in Seq(Line) /\ Len(file) \in DOMAIN file /\ Last(file) = file[Len(file)]
  BY LenProperties, EmptySeq DEF QueueInv, TypeOK, Last
<1>2. Last(file) \in Line
  BY <1>1, LenProperties, ElementOfSeq
<1> QED
  BY <1>1, <1>2, OneLine DEF EventsOf

\* What a rewrite that is cut short leaves of the lines it was to write.
LEMMA RewriteTornFacts ==
    ASSUME QueueInv, RewriteTorn
    PROVE  /\ file' \in Seq(Line) /\ open' \in BOOLEAN /\ (open' => file' # <<>>)
           /\ Spaced(file', Bound) /\ Len(file') <= Len(left)
           /\ EventsOf(file') \subseteq EventsOf(left)
<1>1. PICK c \in CutShort(left) : file' = c[1] /\ open' = c[2]
  BY DEF RewriteTorn
<1>2. left \in Seq(Line) /\ Spaced(left, Bound) /\ Bound \in Nat
  BY BoundIsNumber DEF QueueInv, TypeOK, Order
<1> QED
  BY <1>1, <1>2, CutShortLines

\* What an append that is cut short leaves, and what it takes.
LEMMA AppendTornFacts ==
    ASSUME QueueInv, event # Nothing, AppendTorn
    PROVE  /\ file' \in Seq(Line) /\ open' \in BOOLEAN /\ (open' => file' # <<>>)
           /\ Spaced(file', made) /\ Len(file') <= Len(file) + 1
           /\ EventsOf(file) \subseteq EventsOf(file') \cup cut'
           /\ EventsOf(file') \subseteq EventsOf(file) \cup {event.ev}
           /\ event.ev \in cut' /\ cut \subseteq cut'
           /\ cut' \subseteq cut \cup EventsOf(file) \cup {event.ev}
<1>1. /\ file \in Seq(Line) /\ open \in BOOLEAN /\ (open => file # <<>>)
      /\ Spaced(file, Bound) /\ Bound \in Nat /\ made \in Nat /\ Bound <= made
      /\ event \in Line /\ Len(file) \in Nat
  BY BoundIsNumber, LenProperties DEF QueueInv, TypeOK, Order
<1>2. cut' = cut \cup {event.ev} \cup (IF open THEN EventsOf(<<Last(file)>>) ELSE {})
  BY DEF AppendTorn
<1>3. /\ event.ev \in cut' /\ cut \subseteq cut'
      /\ cut' \subseteq cut \cup EventsOf(file) \cup {event.ev}
  BY <1>2, LastLine
<1>4. CASE UNCHANGED queue
  <2>1. file' = file /\ open' = open
    BY <1>4 DEF queue
  <2> QED
    BY <1>1, <1>3, <2>1, SpacedHigher
<1>5. CASE (\E t \in Torn(event) : file' \in Appended(t)) /\ open' = TRUE
  <2>1. PICK t \in Torn(event) : file' \in Appended(t)
    BY <1>5
  <2>2. t \in Line /\ t.ev \in {0, event.ev}
    BY <1>1, TornLines
  <2>3. /\ file' \in Seq(Line) /\ file' # <<>> /\ Len(file') <= Len(file) + 1
        /\ Spaced(file', made)
        /\ EventsOf(file') \subseteq EventsOf(file) \cup ({t.ev} \ {0})
        /\ open => EventsOf(file) \subseteq EventsOf(file') \cup EventsOf(<<Last(file)>>)
        /\ ~open => EventsOf(file') = EventsOf(file) \cup ({t.ev} \ {0})
    BY <2>1, <2>2, AppendedToFile
  <2>4. EventsOf(file) \subseteq EventsOf(file') \cup cut'
    BY <1>1, <1>2, <2>3
  <2>5. EventsOf(file') \subseteq EventsOf(file) \cup {event.ev}
    BY <2>2, <2>3
  <2> QED
    BY <1>3, <1>5, <2>3, <2>4, <2>5
<1> QED
  BY <1>4, <1>5 DEF AppendTorn

LEMMA AppendLineFacts ==
    ASSUME QueueInv, AppendLine
    PROVE  /\ file' \in Seq(Line) /\ Spaced(file', made) /\ Len(file') <= Len(file) + 1
           /\ EventsOf(file) \subseteq EventsOf(file') \cup cut'
           /\ EventsOf(file') \subseteq EventsOf(file) \cup {event.ev}
           /\ event.ev \in EventsOf(file') \cup cut' /\ cut \subseteq cut'
           /\ cut' \subseteq cut \cup EventsOf(file) \cup {event.ev}
<1>1. /\ event \in Line /\ event # Nothing /\ open \in BOOLEAN /\ event.ev # 0
      /\ file' \in Appended(event)
      /\ cut' = IF open THEN cut \cup {event.ev} \cup EventsOf(<<Last(file)>>) ELSE cut
  BY DEF AppendLine, QueueInv, TypeOK, Phase
<1>2. /\ file' \in Seq(Line) /\ file' # <<>> /\ Len(file') <= Len(file) + 1
      /\ Spaced(file', made)
      /\ EventsOf(file') \subseteq EventsOf(file) \cup ({event.ev} \ {0})
      /\ open => EventsOf(file) \subseteq EventsOf(file') \cup EventsOf(<<Last(file)>>)
      /\ ~open => EventsOf(file') = EventsOf(file) \cup ({event.ev} \ {0})
  BY <1>1, AppendedToFile
<1> QED
  BY <1>1, <1>2, LastLine

(***************************************************************************)
(* Steps                                                                   *)
(***************************************************************************)

Pcs == {"off", "idle", "drain", "send", "remove", "check", "truncate", "write", "append"}

\* The parts of the invariant after a step that leaves file and open, and what was made.
LEMMA FileStays ==
    ASSUME QueueInv, UNCHANGED <<queue, made, up, cut>>,
           pc' \in Pcs, pc' # "write", event' \in {event, Nothing}, left' \in Seq(Line),
           attempt' \in 0 .. MaxRetries - 1, taken' \subseteq 1 .. made,
           Spaced(left', Bound'), Phase'
    PROVE  QueueInv'
<1>1. /\ file' = file /\ open' = open /\ made' = made /\ up' = up /\ cut' = cut
  BY DEF queue
<1>2. event' \in Line
  BY NothingIsLine DEF QueueInv, TypeOK
<1>3. TypeOK'
  BY <1>1, <1>2 DEF QueueInv, TypeOK, Pcs
<1>4. Bound' \in {Bound, made}
  BY <1>1 DEF Bound
<1>5. Spaced(file', Bound')
  BY <1>1, <1>4, BoundIsNumber, SpacedHigher DEF QueueInv, TypeOK, Order
<1> QED
  BY <1>3, <1>5 DEF QueueInv, Order

LEMMA StartStep ==
    ASSUME QueueInv, Start
    PROVE  QueueInv'
<1>1. /\ file \in Seq(Line) /\ Spaced(file, Bound) /\ Bound \in Nat /\ event = Nothing
      /\ event' = event /\ made' = made
  BY BoundIsNumber DEF QueueInv, TypeOK, Phase, Order, Start
<1>2. PICK n \in 0 .. Len(file) : Legible(file, DrainBuffer) = SubSeq(file, 1, n)
  BY <1>1, LegibleIsPart
<1>3. SubSeq(file, 1, n) \in Seq(Line) /\ Spaced(SubSeq(file, 1, n), Bound)
  BY <1>1, PartOfLines, SpacedPart
<1>4. left' \in Seq(Line) /\ Spaced(left', Bound)
  BY <1>1, <1>2, <1>3, ParsedLines DEF Start
<1>5. Bound' = Bound
  BY <1>1 DEF Bound
<1>6. Phase'
  BY <1>1 DEF Start, Phase, QueueInv, queue
<1>7. /\ pc' \in Pcs /\ pc' # "write" /\ UNCHANGED <<queue, made, up, cut, attempt, taken>>
  BY DEF Start, Pcs, queue
<1> QED
  BY <1>1, <1>4, <1>5, <1>6, <1>7, FileStays DEF QueueInv, TypeOK

LEMMA CollectStep ==
    ASSUME QueueInv, Collect
    PROVE  QueueInv'
<1>1. PICK s \in 1 .. MaxSize : event' = [ev |-> made + 1, size |-> s]
  BY DEF Collect
<1>2. /\ made' = made + 1 /\ made < MaxEvents /\ pc = "idle" /\ pc' = "send"
      /\ file' = file /\ open' = open
      /\ UNCHANGED <<left, attempt, up, taken, cut>>
  BY DEF Collect, queue
<1>3. made \in Nat /\ event = Nothing /\ left = <<>> /\ Bound = made /\ MaxEvents \in Nat
  BY <1>2, BoundIsNumber, QueueAssumption DEF QueueInv, Phase
<1>4. event' \in Line /\ event'.ev = made' /\ event' # Nothing
  BY <1>1, <1>2, <1>3, NothingIsLine DEF Line
<1>5. Bound' = Bound
  BY <1>2, <1>3, <1>4 DEF Bound
<1>6. 1 .. made \subseteq 1 .. made' /\ made' \in 0 .. MaxEvents /\ made' > 0
  BY <1>2, <1>3
<1>7. TypeOK'
  BY <1>2, <1>4, <1>6 DEF QueueInv, TypeOK
<1>8. Phase'
  BY <1>2, <1>3, <1>4, <1>6 DEF Phase
<1>9. Order'
  BY <1>2, <1>5 DEF QueueInv, Order
<1> QED
  BY <1>7, <1>8, <1>9 DEF QueueInv

LEMMA SendFailedStep ==
    ASSUME QueueInv, Sending, SendFailed, UNCHANGED <<queue, made, up, cut>>,
           taken' \subseteq 1 .. made
    PROVE  QueueInv'
<1>1. event' = event /\ left' = left /\ attempt' = 0 /\ made' = made
  BY DEF SendFailed
<1>2. Bound' = Bound
  BY <1>1 DEF Bound
<1>3. Phase' /\ pc' \in Pcs /\ pc' # "write"
  BY <1>1 DEF SendFailed, Sending, Phase, QueueInv, Pcs
<1>4. left' \in Seq(Line) /\ Spaced(left', Bound') /\ attempt' \in 0 .. MaxRetries - 1
  BY <1>1, <1>2, QueueAssumption DEF QueueInv, TypeOK, Order
<1> QED
  BY <1>1, <1>3, <1>4, FileStays

LEMMA RetryStep ==
    ASSUME QueueInv, Sending, Retry, UNCHANGED <<queue, made, up, cut>>,
           taken' \subseteq 1 .. made
    PROVE  QueueInv'
<1>1. CASE attempt + 1 < MaxRetries
  <2>1. attempt' = attempt + 1 /\ pc' = pc /\ event' = event /\ left' = left /\ made' = made
    BY <1>1 DEF Retry
  <2>2. Bound' = Bound
    BY <2>1 DEF Bound
  <2>3. Phase' /\ pc' \in Pcs /\ pc' # "write"
    BY <2>1 DEF Sending, Phase, QueueInv, Pcs
  <2>4. left' \in Seq(Line) /\ Spaced(left', Bound') /\ attempt' \in 0 .. MaxRetries - 1
    BY <1>1, <2>1, <2>2, QueueAssumption DEF QueueInv, TypeOK, Order
  <2> QED
    BY <2>1, <2>3, <2>4, FileStays
<1>2. CASE ~(attempt + 1 < MaxRetries)
  BY <1>2, SendFailedStep DEF Retry
<1> QED
  BY <1>1, <1>2

LEMMA SentStep ==
    ASSUME QueueInv, Answered
    PROVE  QueueInv'
<1>1. /\ Sending /\ Sent /\ UNCHANGED <<queue, made, up, cut>>
      /\ taken' = taken \cup EventsOf(Batch)
  BY DEF Answered, Receive
<1>2. event' = Nothing /\ attempt' = 0 /\ attempt' \in 0 .. MaxRetries - 1 /\ made' = made
  BY <1>1, QueueAssumption DEF Sent
<1>3. taken' \subseteq 1 .. made
  BY <1>1, BatchParts DEF QueueInv, TypeOK
<1>4. Bound' = made /\ Bound \in Nat /\ made \in Nat /\ Bound <= made
  BY <1>2, BoundIsNumber DEF Bound
<1>5. left' \in Seq(Line) /\ Spaced(left', Bound')
  <2>1. CASE pc = "drain"
    BY <1>1, <1>4, <2>1, BatchParts, SpacedHigher DEF Sent
  <2>2. CASE pc # "drain"
    BY <1>1, <1>4, <2>2, SpacedHigher DEF Sent, QueueInv, TypeOK, Order
  <2> QED
    BY <2>1, <2>2
<1>6. Phase' /\ pc' \in Pcs /\ pc' # "write"
  <2>1. CASE pc = "send"
    <3>1. pc' = "idle" /\ left' = <<>>
      BY <1>1, <2>1 DEF Sent, QueueInv, Phase
    <3> QED
      BY <1>2, <3>1 DEF Phase, Pcs
  <2>2. CASE pc = "drain"
    <3>1. left' = Rest /\ (pc' = IF Rest = <<>> THEN "remove" ELSE "drain")
      BY <1>1, <2>2 DEF Sent
    <3> QED
      BY <1>2, <3>1 DEF Phase, Pcs
  <2> QED
    BY <1>1, <2>1, <2>2 DEF Sending
<1> QED
  BY <1>1, <1>2, <1>3, <1>5, <1>6, FileStays

LEMMA RequestStep ==
    ASSUME QueueInv, Request
    PROVE  QueueInv'
<1>1. CASE AnswerLost
  BY <1>1, BatchParts, RetryStep DEF AnswerLost, Receive, QueueInv, TypeOK
<1>2. CASE Unreachable
  BY <1>2, RetryStep DEF Unreachable, QueueInv, TypeOK
<1>3. CASE Refused
  BY <1>3, SendFailedStep DEF Refused, QueueInv, TypeOK
<1> QED
  BY <1>1, <1>2, <1>3, SentStep DEF Request

LEMMA CheckStep ==
    ASSUME QueueInv, CheckSize
    PROVE  QueueInv'
<1> DEFINE seen == Legible(file, DefaultBuffer)
<1>1. /\ pc = "check" /\ event # Nothing /\ left = <<>> /\ event' = event
      /\ file \in Seq(Line) /\ Len(file) \in Nat /\ Spaced(file, Bound) /\ Bound \in Nat
      /\ UNCHANGED <<queue, made, up, cut, attempt, taken>> /\ made' = made
  BY BoundIsNumber, LenProperties DEF QueueInv, TypeOK, Phase, Order, CheckSize
<1>2. Bound' = Bound
  BY <1>1 DEF Bound
<1>3. PICK n \in 0 .. Len(file) : seen = SubSeq(file, 1, n)
  BY <1>1, LegibleIsPart
<1>4. seen \in Seq(Line) /\ Spaced(seen, Bound) /\ Len(seen) \in Nat
  BY <1>1, <1>3, PartOfLines, SpacedPart, LenProperties
<1>5. CASE Len(seen) >= MaxQueue
  <2>1. left' = Tail(seen) /\ pc' = "truncate"
    BY <1>5 DEF CheckSize
  <2> HIDE DEF seen
  <2>2. seen # <<>>
    BY <1>4, <1>5, QueueAssumption, EmptySeq
  <2>3. Tail(seen) = SubSeq(seen, 2, Len(seen)) /\ Tail(seen) \in Seq(Line)
    BY <1>4, <2>2, TailIsSubSeq, HeadTailProperties, LenProperties
  <2>4. Spaced(Tail(seen), Bound)
    <3>1. Len(seen) \in 0 .. Len(seen) /\ 2 \in Nat \ {0}
      BY <1>4
    <3> QED
      BY <1>1, <1>4, <2>3, <3>1, SpacedPart
  <2>5. Phase' /\ pc' \in Pcs /\ pc' # "write"
    BY <1>1, <2>1 DEF Phase, QueueInv, Pcs
  <2> QED
    BY <1>1, <1>2, <2>1, <2>3, <2>4, <2>5, FileStays DEF QueueInv, TypeOK
<1>6. CASE ~(Len(seen) >= MaxQueue)
  <2>1. left' = left /\ pc' = "append"
    BY <1>6 DEF CheckSize
  <2>2. Phase' /\ pc' \in Pcs /\ pc' # "write"
    BY <1>1, <2>1 DEF Phase, QueueInv, Pcs
  <2> QED
    BY <1>1, <1>2, <2>1, <2>2, FileStays DEF QueueInv, TypeOK, Order
<1> QED
  BY <1>5, <1>6

LEMMA EmptiedStep ==
    ASSUME QueueInv, RemoveFile \/ Truncate
    PROVE  QueueInv'
<1>1. /\ file' = <<>> /\ open' = FALSE /\ event' = event /\ left' = left /\ made' = made
      /\ UNCHANGED <<attempt, up, taken, cut>>
      /\ (pc = "remove" /\ pc' = "idle") \/ (pc = "truncate" /\ pc' = "write")
  BY DEF RemoveFile, Truncate
<1>2. Bound' = Bound
  BY <1>1 DEF Bound
<1>3. TypeOK'
  BY <1>1, EmptyLines DEF QueueInv, TypeOK
<1>4. Phase'
  BY <1>1 DEF QueueInv, Phase
<1>5. Order'
  BY <1>1, <1>2, EmptyLines DEF QueueInv, Order
<1> QED
  BY <1>3, <1>4, <1>5 DEF QueueInv

\* A rewrite, whole or cut short.
LEMMA WriteStep ==
    ASSUME QueueInv, WriteLines \/ WriteLinesFails
    PROVE  QueueInv'
<1>1. /\ pc = "write" /\ Rewritten /\ event' = event /\ attempt' = attempt /\ left' = <<>>
      /\ (pc' = IF event = Nothing THEN "idle" ELSE "append")
      /\ UNCHANGED <<up, made, taken>> /\ made' = made
      /\ file = <<>> /\ ~open /\ left \in Seq(Line) /\ open \in BOOLEAN
  BY DEF WriteLines, WriteLinesFails, Rewritten, QueueInv, Phase, TypeOK
<1>2. Bound' = Bound
  BY <1>1 DEF Bound
<1>3. /\ file' \in Seq(Line) /\ open' \in BOOLEAN /\ (open' => file' # <<>>)
      /\ Spaced(file', Bound) /\ cut' \subseteq 1 .. made
  <2>1. CASE WriteLines
    <3>1. file' = left /\ open' = open /\ cut' = cut
      BY <1>1, <2>1, ConcatEmptySeq DEF WriteLines
    <3> QED
      BY <1>1, <3>1 DEF QueueInv, TypeOK, Order
  <2>2. CASE WriteLinesFails
    <3>1. cut' = cut \cup EventsOf(left)
      BY <2>2 DEF WriteLinesFails
    <3> QED
      BY <2>2, <3>1, RewriteTornFacts, HeldWasMade DEF WriteLinesFails, QueueInv, TypeOK
  <2> QED
    BY <2>1, <2>2
<1>4. TypeOK'
  BY <1>1, <1>3, EmptyLines DEF QueueInv, TypeOK
<1>5. Phase'
  BY <1>1 DEF QueueInv, Phase
<1>6. Order'
  BY <1>1, <1>2, <1>3, EmptyLines DEF QueueInv, Order
<1> QED
  BY <1>4, <1>5, <1>6 DEF QueueInv

\* An append, whole or cut short.
LEMMA AppendStep ==
    ASSUME QueueInv, AppendLine \/ AppendFails
    PROVE  QueueInv'
<1>1. /\ pc = "append" /\ pc' = "idle" /\ event' = Nothing /\ left' = <<>> /\ left' = left
      /\ UNCHANGED <<attempt, up, made, taken>> /\ made' = made /\ event # Nothing
  BY DEF AppendLine, AppendFails, QueueInv, Phase
<1>2. Bound' = made
  BY <1>1 DEF Bound
<1>3. /\ file' \in Seq(Line) /\ open' \in BOOLEAN /\ (open' => file' # <<>>)
      /\ Spaced(file', made)
      /\ cut' \subseteq cut \cup EventsOf(file) \cup {event.ev}
  <2>1. CASE AppendLine
    BY <2>1, AppendLineFacts DEF AppendLine
  <2>2. CASE AppendFails
    BY <1>1, <2>2, AppendTornFacts DEF AppendFails
  <2> QED
    BY <2>1, <2>2
<1>4. cut' \subseteq 1 .. made
  <2>1. event.ev = made /\ made > 0 /\ made \in Nat
    BY <1>1, BoundIsNumber DEF QueueInv, Phase
  <2> QED
    BY <1>3, <2>1, HeldWasMade DEF QueueInv, TypeOK
<1>5. TypeOK'
  BY <1>1, <1>3, <1>4, EmptyLines, NothingIsLine DEF QueueInv, TypeOK
<1>6. Phase'
  BY <1>1 DEF Phase
<1>7. Order'
  BY <1>1, <1>2, <1>3, EmptyLines DEF Order
<1> QED
  BY <1>5, <1>6, <1>7 DEF QueueInv

\* The process ends, wherever it is.
LEMMA ExitStep ==
    ASSUME QueueInv, Exit
    PROVE  QueueInv'
<1>1. /\ pc' = "off" /\ event' = Nothing /\ left' = <<>> /\ attempt' = 0
      /\ UNCHANGED <<up, made, taken>> /\ made' = made /\ pc # "off"
  BY DEF Exit
<1>2. Bound' = made /\ Bound \in Nat /\ made \in Nat /\ Bound <= made
  BY <1>1, BoundIsNumber DEF Bound
<1>3. /\ file' \in Seq(Line) /\ open' \in BOOLEAN /\ (open' => file' # <<>>)
      /\ Spaced(file', made)
      /\ cut' \subseteq cut \cup EventsOf(file) \cup EventsOf(left) \cup ({event.ev} \ {0})
  <2>1. CASE pc = "write"
    <3>1. RewriteTorn /\ cut' = cut \cup EventsOf(Append(left, event))
      BY <2>1 DEF Exit
    <3>2. EventsOf(Append(left, event)) = EventsOf(left) \cup ({event.ev} \ {0})
      BY AppendedLines DEF QueueInv, TypeOK
    <3> QED
      BY <1>2, <3>1, <3>2, RewriteTornFacts, SpacedHigher
  <2>2. CASE pc = "append"
    <3>1. AppendTorn /\ event # Nothing /\ event.ev # 0
      BY <2>2 DEF Exit, QueueInv, Phase
    <3> QED
      BY <3>1, AppendTornFacts
  <2>3. CASE pc \notin {"write", "append"}
    <3>1. cut' = cut \cup EventsOf(<<event>>) /\ file' = file /\ open' = open
      BY <2>3 DEF Exit, queue
    <3>2. EventsOf(<<event>>) = {event.ev} \ {0}
      BY OneLine DEF QueueInv, TypeOK
    <3> QED
      BY <1>2, <3>1, <3>2, SpacedHigher DEF QueueInv, TypeOK, Order
  <2> QED
    BY <2>1, <2>2, <2>3
<1>4. cut' \subseteq 1 .. made
  BY <1>3, HeldWasMade DEF QueueInv, TypeOK
<1>5. TypeOK'
  BY <1>1, <1>3, <1>4, EmptyLines, NothingIsLine, QueueAssumption DEF QueueInv, TypeOK
<1>6. Phase'
  BY <1>1 DEF Phase
<1>7. Order'
  BY <1>1, <1>2, <1>3, EmptyLines DEF Order
<1> QED
  BY <1>5, <1>6, <1>7 DEF QueueInv

LEMMA ServerStep ==
    ASSUME QueueInv, ServerUp \/ ServerDown \/ UNCHANGED vars
    PROVE  QueueInv'
<1>1. /\ UNCHANGED <<file, open, pc, event, left, attempt, made, taken, cut>>
      /\ up' \in BOOLEAN
  BY DEF ServerUp, ServerDown, vars, queue, run, QueueInv, TypeOK
<1> QED
  BY <1>1 DEF QueueInv, TypeOK, Phase, Order, Bound

LEMMA QueueInvariant ==
    ASSUME QueueInv, [Next]_vars
    PROVE  QueueInv'
  BY StartStep, CollectStep, RequestStep, CheckStep, EmptiedStep, WriteStep, AppendStep,
     ExitStep, ServerStep
     DEF Next, AgentStep, FileStep

LEMMA QueueInitially == Init => QueueInv
<1> SUFFICES ASSUME Init PROVE QueueInv
  OBVIOUS
<1>1. TypeOK
  <2>1. /\ 0 \in 0 .. MaxRetries - 1 /\ 0 \in 0 .. MaxEvents
    BY QueueAssumption
  <2>2. <<>> \in Seq(Line)
    BY EmptySeq
  <2> QED
    BY <2>1, <2>2, NothingIsLine DEF Init, TypeOK
<1>2. Phase
  BY DEF Init, Phase
<1>3. Order
  BY EmptyLines DEF Init, Order
<1> QED
  BY <1>1, <1>2, <1>3 DEF QueueInv


(***************************************************************************)
(* With no line beyond the buffer of a scanner, the file is bounded, and   *)
(* what the agent held is in the file, sent, lost, or the oldest           *)
(***************************************************************************)

Lengths ==
    /\ Len(file) <= MaxQueue /\ Len(left) <= MaxQueue
    /\ pc = "append" => Len(file) < MaxQueue
    /\ pc \in {"truncate", "write"} /\ event # Nothing => Len(left) < MaxQueue

\* What is queued and will not be once the file is truncated.
Dropped == EventsOf(file) \ (EventsOf(left) \cup taken)

Kept ==
    /\ pc \in {"drain", "truncate"} => EventsOf(left) \subseteq EventsOf(file)
    /\ pc \in {"drain", "remove"} => Dropped = {}
    /\ pc = "truncate" =>
          \A e \in Dropped : made - e >= MaxQueue /\ \A h \in Held : e <= h

KeptInv == QueueInv /\ Lengths /\ Kept

LEMMA HeldParts ==
    ASSUME NEW f \in Seq(Line), NEW l \in Seq(Line), NEW t \in Line
    PROVE  EventsOf(Append(f \o l, t)) = EventsOf(f) \cup EventsOf(l) \cup ({t.ev} \ {0})
<1>1. f \o l \in Seq(Line) /\ EventsOf(f \o l) = EventsOf(f) \cup EventsOf(l)
  BY ConcatenatedLines
<1> QED
  BY <1>1, AppendedLines

LEMMA HeldIs ==
    ASSUME QueueInv
    PROVE  Held = EventsOf(file) \cup EventsOf(left) \cup ({event.ev} \ {0})
  BY HeldParts DEF QueueInv, TypeOK, Held

LEMMA HeldNext ==
    ASSUME QueueInv'
    PROVE  Held' = EventsOf(file') \cup EventsOf(left') \cup ({event'.ev} \ {0})
  BY HeldParts DEF QueueInv, TypeOK, Held

LEMMA NoEvents == EventsOf(<<>>) = {} /\ {Nothing.ev} \ {0} = {}
  BY EmptyLines, NothingIsLine

\* dropOldest drops one line, the oldest, and only from a full file.
LEMMA OldestDropped ==
    ASSUME KeptInv, MaxSize = 1, CheckSize, pc' = "truncate"
    PROVE  /\ left' = Tail(file) /\ Len(left') = Len(file) - 1 /\ left' \in Seq(Line)
           /\ EventsOf(left') \subseteq EventsOf(file)
           /\ \A e \in EventsOf(file) \ EventsOf(left') :
                 made - e >= MaxQueue /\ \A h \in Held : e <= h
<1>1. /\ file \in Seq(Line) /\ Len(file) \in Nat /\ Spaced(file, Bound) /\ made \in Nat
      /\ Bound + 1 = made /\ Bound \in Nat /\ event # Nothing /\ event.ev = made
      /\ left = <<>> /\ DOMAIN file = 1 .. Len(file) /\ MaxQueue \in Nat \ {0}
  BY BoundIsNumber, LenProperties, QueueAssumption
  DEF KeptInv, QueueInv, TypeOK, Phase, Order, CheckSize
<1>2. Legible(file, DefaultBuffer) = file
  BY <1>1, AllLegible DEF DefaultBuffer
<1>3. Len(file) >= MaxQueue /\ left' = Tail(file)
  BY <1>2 DEF CheckSize
<1>4. file # <<>> /\ Len(file) \in 0 .. Len(file) /\ 2 \in Nat \ {0} /\ 1 \in DOMAIN file
      /\ 1 \in 0 .. Len(file)
  BY <1>1, <1>3, EmptySeq
<1>5. Tail(file) = SubSeq(file, 2, Len(file)) /\ 2 = 1 + 1 /\ Len(Tail(file)) = Len(file) - 1
      /\ Tail(file) \in Seq(Line)
  BY <1>1, <1>4, TailIsSubSeq, HeadTailProperties
<1>6. EventsOf(left') \subseteq EventsOf(file)
  BY <1>1, <1>3, <1>4, <1>5, EventsOfPart
<1>7. ASSUME NEW e \in EventsOf(file) \ EventsOf(left')
      PROVE  made - e >= MaxQueue /\ \A h \in Held : e <= h
  <2>1. e = file[1].ev /\ Parses(file[1]) /\ e \in Nat
    <3>1. EventsOf(file) = EventsOf(SubSeq(file, 1, 1)) \cup EventsOf(Tail(file))
      <4>1. EventsOf(file) = EventsOf(SubSeq(file, 1, 1))
                                \cup EventsOf(SubSeq(file, 1 + 1, Len(file)))
        BY <1>1, <1>4, EventsOfParts
      <4> QED
        BY <1>5, <4>1
    <3>2. e \in EventsOf(SubSeq(file, 1, 1))
      BY <1>3, <3>1
    <3>3. PICK i \in DOMAIN SubSeq(file, 1, 1) : e = SubSeq(file, 1, 1)[i].ev /\ e # 0
      BY <3>2 DEF EventsOf
    <3>4. i \in Nat /\ 1 + i - 1 \in 1 .. 1 /\ SubSeq(file, 1, 1)[i] = file[1 + i - 1]
      BY <1>1, <1>4, PartOfLines
    <3>5. 1 + i - 1 = 1
      BY <3>4
    <3> QED
      BY <1>1, <1>4, <3>3, <3>4, <3>5, ElementOfSeq, LineIsRecord DEF Parses
  <2>2. e + (Len(file) - 1) <= Bound
    BY <1>1, <1>4, <2>1 DEF Spaced
  <2>3. made - e >= MaxQueue
    BY <1>1, <1>3, <2>1, <2>2
  <2>4. ASSUME NEW h \in Held
        PROVE  e <= h
    <3>1. h \in EventsOf(file) \/ h = made
      BY <1>1, HeldIs, NoEvents DEF KeptInv
    <3>2. CASE h = made
      BY <1>1, <1>4, <2>1, <2>2, <3>2
    <3>3. CASE h \in EventsOf(file)
      <4>1. PICK k \in DOMAIN file : h = file[k].ev /\ h # 0
        BY <3>3 DEF EventsOf
      <4>2. h \in Nat /\ Parses(file[k])
        BY <1>1, <4>1, ElementOfSeq, LineIsRecord DEF Parses
      <4>3. CASE k = 1
        BY <2>1, <4>1, <4>3
      <4>4. CASE 1 < k
        <5>1. file[1].ev < file[k].ev
          BY <1>1, <1>4, <2>1, <4>1, <4>2, <4>4 DEF Spaced
        <5> QED
          BY <2>1, <4>1, <4>2, <5>1
      <4> QED
        BY <1>1, <4>3, <4>4
    <3> QED
      BY <3>1, <3>2, <3>3
  <2> QED
    BY <2>3, <2>4
<1> QED
  BY <1>3, <1>5, <1>6, <1>7

(***************************************************************************)
(* Each step keeps it, and is a step of EventDelivery or none              *)
(***************************************************************************)

LEMMA KeptInitially == Init => KeptInv
<1> SUFFICES ASSUME Init PROVE KeptInv
  OBVIOUS
<1>1. Len(file) = 0 /\ Len(left) = 0 /\ 0 <= MaxQueue
  BY EmptySeq, QueueAssumption DEF Init
<1>2. Lengths
  BY <1>1 DEF Init, Lengths
<1>3. Kept
  BY DEF Init, Kept
<1> QED
  BY <1>2, <1>3, QueueInitially DEF KeptInv

LEMMA MinInD == \A S : D!Min(S) = Min(S)
  BY DEF D!Min, Min

\* The agent holds less, and what it does not hold any more was lost.
LEMMA IsLose ==
    ASSUME made' = made, taken' = taken, cut \subseteq cut', cut' \subseteq cut \cup Held,
           Held' \subseteq Held, Held \subseteq Held' \cup cut' \cup taken
    PROVE  D!Lose
<1> DEFINE some == Pending \ Pending'
<1>1. some \in SUBSET Pending /\ Pending' = Pending \ some
  BY DEF Pending
<1>2. Lost' = Lost \cup some
  BY DEF Lost, Pending
<1> HIDE DEF some
<1> QED
  BY <1>1, <1>2 DEF D!Lose

\* The server receives some of what the agent holds.
LEMMA IsDeliver ==
    ASSUME NEW batch, batch \subseteq Held, taken' = taken \cup batch,
           made' = made, cut' = cut, Held' \subseteq Held, Held \subseteq Held' \cup batch
    PROVE  D!Deliver
<1> DEFINE some == batch \ taken
<1>1. /\ some \in SUBSET Pending /\ Pending' = Pending \ some /\ taken' = taken \cup some
      /\ Lost' = Lost
  BY DEF Pending, Lost
<1> HIDE DEF some
<1> QED
  BY <1>1 DEF D!Deliver

LEMMA StartKeeps ==
    ASSUME KeptInv, MaxSize = 1, Start
    PROVE  KeptInv' /\ D!Lose
<1>1. /\ file \in Seq(Line) /\ Len(file) \in Nat /\ left = <<>> /\ QueueInv /\ event = Nothing
      /\ file' = file /\ event' = event /\ made' = made /\ taken' = taken /\ cut' = cut
      /\ pc' \in {"idle", "drain"}
  BY LenProperties DEF KeptInv, QueueInv, TypeOK, Phase, Start, queue
<1>2. Legible(file, DrainBuffer) = file
  BY <1>1, AllLegible DEF DrainBuffer
<1>3. /\ EventsOf(left') = EventsOf(file) /\ Len(left') <= Len(file)
      /\ left' \in Seq(Line)
  BY <1>1, <1>2, ParsedLines DEF Start
<1>4. QueueInv'
  BY <1>1, StartStep
<1>5. Held' = Held
  BY <1>1, <1>3, <1>4, HeldIs, HeldNext, NoEvents
<1>6. Len(left') \in Nat /\ MaxQueue \in Nat /\ Len(file) <= MaxQueue
  BY <1>3, LenProperties, QueueAssumption DEF KeptInv, Lengths
<1>7. Lengths'
  BY <1>1, <1>3, <1>6 DEF Lengths
<1>8. Kept'
  BY <1>1, <1>3 DEF Kept, Dropped
<1> QED
  BY <1>1, <1>4, <1>5, <1>7, <1>8, IsLose DEF KeptInv

LEMMA CollectKeeps ==
    ASSUME KeptInv, Collect
    PROVE  KeptInv' /\ D!Make
<1>1. PICK s \in 1 .. MaxSize : event' = [ev |-> made + 1, size |-> s]
  BY DEF Collect
<1>2. /\ QueueInv /\ made' = made + 1 /\ pc' = "send" /\ file' = file /\ left' = left
      /\ UNCHANGED <<taken, cut>> /\ event = Nothing /\ event'.ev = made + 1 /\ made \in Nat
      /\ taken \subseteq 1 .. made /\ cut \subseteq 1 .. made
  BY <1>1, BoundIsNumber DEF Collect, KeptInv, QueueInv, Phase, TypeOK, queue
<1>3. QueueInv'
  BY <1>2, CollectStep
<1>4. Held' = Held \cup {made + 1}
  BY <1>2, <1>3, HeldIs, HeldNext, NoEvents
<1>5. made + 1 \notin taken /\ made + 1 \notin cut
  BY <1>2
<1>6. Pending' = Pending \cup {made + 1} /\ Lost' = Lost
  BY <1>2, <1>4, <1>5 DEF Pending, Lost
<1>7. Lengths' /\ Kept'
  BY <1>2 DEF KeptInv, Lengths, Kept
<1> QED
  BY <1>2, <1>3, <1>6, <1>7 DEF KeptInv, D!Make

\* A retry, or the end of the retries, after the server received the batch or not.
LEMMA RetryKeeps ==
    ASSUME KeptInv, QueueInv', Sending, Retry \/ SendFailed,
           UNCHANGED <<queue, made, up, cut>>, taken \subseteq taken'
    PROVE  KeptInv' /\ Held' = Held
<1>1. /\ event' = event /\ left' = left /\ file' = file /\ made' = made
      /\ pc' = pc \/ (pc = "drain" /\ pc' = "truncate") \/ (pc = "send" /\ pc' = "check")
  BY DEF Retry, SendFailed, Sending, queue
<1>2. Held' = Held
  BY <1>1 DEF Held
<1>3. pc = "drain" => event = Nothing
  BY DEF KeptInv, QueueInv, Phase
<1>4. Lengths'
  BY <1>1, <1>3 DEF KeptInv, Lengths, Sending
<1>5. Kept'
  BY <1>1 DEF KeptInv, Kept, Dropped, Sending
<1> QED
  BY <1>2, <1>4, <1>5 DEF KeptInv

LEMMA RequestKeeps ==
    ASSUME KeptInv, Request
    PROVE  KeptInv' /\ (D!Deliver \/ D!Lose)
<1>1. /\ QueueInv /\ QueueInv' /\ UNCHANGED <<queue, made, up, cut>> /\ Sending
      /\ made' = made /\ cut' = cut /\ file' = file
  BY RequestStep DEF KeptInv, Request, Answered, AnswerLost, Unreachable, Refused, queue
<1>2. EventsOf(Batch) \subseteq Held
  BY <1>1, BatchParts, HeldIs
<1>3. CASE Answered
  <2>1. taken' = taken \cup EventsOf(Batch) /\ Sent /\ event' = Nothing
    BY <1>3 DEF Answered, Receive, Sent
  <2>2. CASE pc = "send"
    <3>1. /\ pc' = "idle" /\ left' = left /\ left = <<>> /\ EventsOf(Batch) = {event.ev} \ {0}
      BY <1>1, <2>1, <2>2, BatchParts DEF Sent, QueueInv, Phase
    <3>2. Held' \subseteq Held /\ Held \subseteq Held' \cup EventsOf(Batch)
      BY <1>1, <2>1, <3>1, HeldIs, HeldNext, NoEvents
    <3>3. Lengths' /\ Kept'
      BY <1>1, <3>1 DEF KeptInv, Lengths, Kept
    <3> QED
      BY <1>1, <1>2, <2>1, <3>2, <3>3, IsDeliver DEF KeptInv
  <2>3. CASE pc = "drain"
    <3>1. /\ pc' = (IF Rest = <<>> THEN "remove" ELSE "drain") /\ left' = Rest
          /\ event = Nothing /\ Rest \in Seq(Line)
          /\ EventsOf(left) = EventsOf(Batch) \cup EventsOf(Rest)
          /\ Len(Rest) <= Len(left)
      BY <1>1, <2>1, <2>3, BatchParts DEF Sent, QueueInv, Phase
    <3>2. Held' \subseteq Held /\ Held \subseteq Held' \cup EventsOf(Batch)
      BY <1>1, <2>1, <3>1, HeldIs, HeldNext, NoEvents
    <3>3. Lengths'
      <4>1. Len(Rest) \in Nat /\ Len(left) \in Nat /\ MaxQueue \in Nat
        BY <3>1, LenProperties, QueueAssumption DEF KeptInv, QueueInv, TypeOK
      <4> QED
        BY <1>1, <3>1, <4>1 DEF KeptInv, Lengths
    <3>4. Dropped = {} /\ EventsOf(left) \subseteq EventsOf(file)
      BY <2>3 DEF KeptInv, Kept
    <3>5. EventsOf(left') \subseteq EventsOf(file') /\ Dropped' = {}
      BY <1>1, <2>1, <3>1, <3>4 DEF Dropped
    <3>6. Kept'
      BY <3>1, <3>5 DEF Kept
    <3> QED
      BY <1>1, <1>2, <2>1, <3>2, <3>3, <3>6, IsDeliver DEF KeptInv
  <2> QED
    BY <1>1, <2>2, <2>3 DEF Sending
<1>4. CASE AnswerLost
  <2>1. taken' = taken \cup EventsOf(Batch) /\ Retry
    BY <1>4 DEF AnswerLost, Receive
  <2>2. KeptInv' /\ Held' = Held
    BY <1>1, <2>1, RetryKeeps
  <2> QED
    BY <1>1, <1>2, <2>1, <2>2, IsDeliver
<1>5. CASE Unreachable \/ Refused
  <2>1. taken' = taken /\ (Retry \/ SendFailed)
    BY <1>5 DEF Unreachable, Refused
  <2>2. KeptInv' /\ Held' = Held
    BY <1>1, <2>1, RetryKeeps
  <2> QED
    BY <1>1, <2>1, <2>2, IsLose
<1> QED
  BY <1>3, <1>4, <1>5 DEF Request

LEMMA CheckKeeps ==
    ASSUME KeptInv, MaxSize = 1, CheckSize
    PROVE  KeptInv' /\ D!Lose
<1>1. /\ QueueInv /\ QueueInv' /\ file' = file /\ event' = event /\ event # Nothing
      /\ left = <<>> /\ UNCHANGED <<made, taken, cut>> /\ made' = made /\ taken' = taken
      /\ cut' = cut /\ pc' \in {"truncate", "append"} /\ file \in Seq(Line)
      /\ Len(file) \in Nat /\ MaxQueue \in Nat /\ Len(file) <= MaxQueue
  BY CheckStep, LenProperties, QueueAssumption
  DEF KeptInv, QueueInv, TypeOK, Phase, CheckSize, queue, Lengths
<1>2. CASE pc' = "truncate"
  <2>1. /\ Len(left') = Len(file) - 1
        /\ EventsOf(left') \subseteq EventsOf(file)
        /\ \A e \in EventsOf(file) \ EventsOf(left') :
               made - e >= MaxQueue /\ \A h \in Held : e <= h
    BY <1>2, OldestDropped
  <2>2. Held' = Held
    BY <1>1, <2>1, HeldIs, HeldNext, NoEvents
  <2>3. Lengths'
    BY <1>1, <1>2, <2>1 DEF Lengths
  <2>4. Kept'
    BY <1>1, <1>2, <2>1, <2>2 DEF Kept, Dropped
  <2> QED
    BY <1>1, <2>2, <2>3, <2>4, IsLose DEF KeptInv
<1>3. CASE pc' = "append"
  <2>1. Legible(file, DefaultBuffer) = file
    BY <1>1, AllLegible DEF DefaultBuffer
  <2>2. left' = left /\ ~(Len(file) >= MaxQueue)
    BY <1>3, <2>1 DEF CheckSize
  <2>3. Held' = Held
    BY <1>1, <2>2 DEF Held
  <2>4. Lengths'
    BY <1>1, <1>3, <2>2 DEF KeptInv, Lengths
  <2>5. Kept'
    BY <1>3 DEF Kept
  <2> QED
    BY <1>1, <2>3, <2>4, <2>5, IsLose DEF KeptInv
<1> QED
  BY <1>1, <1>2, <1>3

LEMMA RemoveKeeps ==
    ASSUME KeptInv, RemoveFile
    PROVE  KeptInv' /\ D!Lose
<1>1. /\ QueueInv /\ QueueInv' /\ file' = <<>> /\ event' = event /\ event = Nothing
      /\ left = <<>> /\ left' = left /\ UNCHANGED <<made, taken, cut>> /\ pc' = "idle"
      /\ Dropped = {} /\ made' = made /\ taken' = taken /\ cut' = cut
  BY EmptiedStep DEF KeptInv, QueueInv, Phase, RemoveFile, Kept
<1>2. Held' = {} /\ Held = EventsOf(file) /\ EventsOf(file) \subseteq taken
  BY <1>1, HeldIs, HeldNext, NoEvents DEF Dropped
<1>3. Len(<<>>) = 0 /\ 0 <= MaxQueue
  BY EmptySeq, QueueAssumption
<1>4. Lengths' /\ Kept'
  BY <1>1, <1>3 DEF Lengths, Kept
<1> QED
  BY <1>1, <1>2, <1>4, IsLose DEF KeptInv

\* What only the file held is gone: nothing, or the oldest event.
LEMMA TruncateKeeps ==
    ASSUME KeptInv, Truncate
    PROVE  KeptInv' /\ (D!GiveUp \/ D!Lose)
<1>1. /\ QueueInv /\ QueueInv' /\ pc = "truncate" /\ pc' = "write" /\ file' = <<>>
      /\ event' = event /\ left' = left /\ made' = made /\ taken' = taken /\ cut' = cut
  BY EmptiedStep DEF KeptInv, Truncate
<1>2. Len(<<>>) = 0 /\ 0 <= MaxQueue
  BY EmptySeq, QueueAssumption
<1>3. Lengths' /\ Kept'
  BY <1>1, <1>2 DEF KeptInv, Lengths, Kept
<1>4. Held' \subseteq Held /\ Held \subseteq Held' \cup taken \cup Dropped
      /\ EventsOf(left) \subseteq Held'
  BY <1>1, HeldIs, HeldNext, NoEvents DEF Dropped
<1>5. \A e \in Dropped : made - e >= MaxQueue /\ (\A h \in Held : e <= h) /\ e \in Held
  BY <1>1, HeldIs DEF KeptInv, Kept, Dropped
<1>6. Held \subseteq Nat
  <2>1. made \in Nat /\ event \in Line
    BY <1>1, BoundIsNumber DEF QueueInv, TypeOK
  <2> QED
    BY <1>1, <2>1, HeldIs, HeldWasMade
<1>7. CASE Held \subseteq Held' \cup cut \cup taken
  BY <1>1, <1>3, <1>4, <1>7, IsLose DEF KeptInv
<1>8. CASE ~(Held \subseteq Held' \cup cut \cup taken)
  <2>1. PICK e \in Held : e \notin Held' /\ e \notin cut /\ e \notin taken
    BY <1>8
  <2>2. e \in Dropped /\ e \in Pending /\ \A h \in Pending : e <= h
    BY <1>4, <1>5, <2>1 DEF Pending
  <2>3. \A h \in Dropped : h = e
    BY <1>5, <1>6, <2>1, <2>2
  <2>4. Min(Pending) = e
    <3>1. \A m \in Pending : (\A h \in Pending : m <= h) => m = e
      BY <1>6, <2>2 DEF Pending
    <3> QED
      BY <2>2, <3>1 DEF Min
  <2>5. Pending' = Pending \ {e} /\ Lost' = Lost
    <3>1. Held \subseteq Held' \cup taken \cup {e}
      BY <1>4, <2>3
    <3> QED
      BY <1>1, <1>4, <2>1, <3>1 DEF Pending, Lost
  <2>6. D!GiveUp
    BY <1>1, <1>5, <2>2, <2>4, <2>5, MinInD DEF D!GiveUp
  <2> QED
    BY <1>1, <1>3, <2>6 DEF KeptInv
<1> QED
  BY <1>7, <1>8

LEMMA WriteKeeps ==
    ASSUME KeptInv, WriteLines \/ WriteLinesFails
    PROVE  KeptInv' /\ D!Lose
<1>1. /\ QueueInv /\ QueueInv' /\ pc = "write" /\ event' = event /\ left' = <<>>
      /\ (pc' = IF event = Nothing THEN "idle" ELSE "append")
      /\ made' = made /\ taken' = taken /\ file = <<>> /\ left \in Seq(Line)
  BY WriteStep DEF KeptInv, QueueInv, TypeOK, Phase, WriteLines, WriteLinesFails, Rewritten
<1>2. /\ EventsOf(file') \subseteq EventsOf(left) /\ Len(file') <= Len(left)
      /\ EventsOf(left) \subseteq EventsOf(file') \cup cut'
      /\ cut \subseteq cut' /\ cut' \subseteq cut \cup EventsOf(left)
  <2>1. CASE WriteLines
    <3>1. file' = left /\ cut' = cut
      BY <1>1, <2>1, ConcatEmptySeq DEF WriteLines
    <3> QED
      BY <1>1, <3>1, LenProperties
  <2>2. CASE WriteLinesFails
    <3>1. cut' = cut \cup EventsOf(left) /\ RewriteTorn
      BY <2>2 DEF WriteLinesFails
    <3> QED
      BY <1>1, <3>1, RewriteTornFacts
  <2> QED
    BY <2>1, <2>2
<1>3. /\ Held' = EventsOf(file') \cup ({event.ev} \ {0})
      /\ Held = EventsOf(left) \cup ({event.ev} \ {0})
  BY <1>1, HeldIs, HeldNext, NoEvents
<1>4. Lengths'
  <2>1. /\ Len(file') \in Nat /\ Len(left) \in Nat /\ MaxQueue \in Nat
        /\ Len(<<>>) = 0 /\ 0 <= MaxQueue
    BY <1>1, LenProperties, EmptySeq, QueueAssumption DEF QueueInv, TypeOK
  <2>2. Len(left) <= MaxQueue /\ (event # Nothing => Len(left) < MaxQueue)
    BY <1>1 DEF KeptInv, Lengths
  <2> QED
    BY <1>1, <1>2, <2>1, <2>2 DEF Lengths
<1>5. Kept'
  BY <1>1 DEF Kept
<1> QED
  BY <1>1, <1>2, <1>3, <1>4, <1>5, IsLose DEF KeptInv

LEMMA AppendKeeps ==
    ASSUME KeptInv, AppendLine \/ AppendFails
    PROVE  KeptInv' /\ D!Lose
<1>0. QueueInv /\ QueueInv'
  BY AppendStep DEF KeptInv
<1>1. /\ QueueInv /\ QueueInv' /\ pc = "append" /\ pc' = "idle" /\ event' = Nothing
      /\ left' = <<>> /\ left = <<>> /\ made' = made /\ taken' = taken /\ event # Nothing
      /\ event.ev # 0
  <2>1. /\ pc = "append" /\ pc' = "idle" /\ event' = Nothing /\ left' = left
        /\ made' = made /\ taken' = taken
    BY DEF AppendLine, AppendFails
  <2>2. left = <<>> /\ event # Nothing /\ event.ev = made /\ made > 0 /\ made \in Nat
    BY <1>0, <2>1 DEF QueueInv, TypeOK, Phase
  <2> QED
    BY <1>0, <2>1, <2>2
<1>2. /\ Len(file') <= Len(file) + 1
      /\ EventsOf(file) \subseteq EventsOf(file') \cup cut'
      /\ EventsOf(file') \subseteq EventsOf(file) \cup {event.ev}
      /\ event.ev \in EventsOf(file') \cup cut' /\ cut \subseteq cut'
      /\ cut' \subseteq cut \cup EventsOf(file) \cup {event.ev}
  <2>1. CASE AppendLine
    BY <1>1, <2>1, AppendLineFacts
  <2>2. CASE AppendFails
    BY <1>1, <2>2, AppendTornFacts DEF AppendFails
  <2> QED
    BY <2>1, <2>2
<1>3. Held' = EventsOf(file') /\ Held = EventsOf(file) \cup {event.ev}
  BY <1>1, HeldIs, HeldNext, NoEvents
<1>4. Lengths'
  <2>1. /\ Len(file') \in Nat /\ Len(file) \in Nat /\ MaxQueue \in Nat
        /\ Len(<<>>) = 0 /\ Len(file) < MaxQueue
    BY <1>1, LenProperties, EmptySeq, QueueAssumption DEF KeptInv, Lengths, QueueInv, TypeOK
  <2> QED
    BY <1>1, <1>2, <2>1 DEF Lengths
<1>5. Kept'
  BY <1>1 DEF Kept
<1> QED
  BY <1>1, <1>2, <1>3, <1>4, <1>5, IsLose DEF KeptInv

LEMMA ExitKeeps ==
    ASSUME KeptInv, Exit
    PROVE  KeptInv' /\ D!Lose
<1>1. /\ QueueInv /\ QueueInv' /\ pc' = "off" /\ event' = Nothing /\ left' = <<>>
      /\ made' = made /\ taken' = taken
  BY ExitStep DEF KeptInv, Exit
<1>2. /\ Held' = EventsOf(file')
      /\ Held = EventsOf(file) \cup EventsOf(left) \cup ({event.ev} \ {0})
  BY <1>1, HeldIs, HeldNext, NoEvents
<1>3. /\ Len(file) \in Nat /\ Len(left) \in Nat /\ MaxQueue \in Nat /\ Len(file') \in Nat
      /\ Len(file) <= MaxQueue /\ Len(left) <= MaxQueue
      /\ pc = "append" => Len(file) < MaxQueue
      /\ Len(<<>>) = 0 /\ 0 <= MaxQueue
  BY <1>1, LenProperties, EmptySeq, QueueAssumption DEF KeptInv, Lengths, QueueInv, TypeOK
<1>4. /\ Held' \subseteq Held /\ Held \subseteq Held' \cup cut'
      /\ cut \subseteq cut' /\ cut' \subseteq cut \cup Held /\ Len(file') <= MaxQueue
  <2>1. CASE pc = "write"
    <3>1. RewriteTorn /\ cut' = cut \cup EventsOf(Append(left, event)) /\ file = <<>>
      BY <1>1, <2>1 DEF Exit, QueueInv, Phase
    <3>2. EventsOf(Append(left, event)) = EventsOf(left) \cup ({event.ev} \ {0})
      BY <1>1, AppendedLines DEF QueueInv, TypeOK
    <3>3. EventsOf(file') \subseteq EventsOf(left) /\ Len(file') <= Len(left)
      BY <1>1, <3>1, RewriteTornFacts
    <3>4. Len(file') <= MaxQueue
      BY <1>3, <3>3
    <3> QED
      BY <1>2, <3>1, <3>2, <3>3, <3>4, NoEvents
  <2>2. CASE pc = "append"
    <3>1. AppendTorn /\ event # Nothing /\ event.ev # 0 /\ left = <<>>
      BY <1>1, <2>2 DEF Exit, QueueInv, Phase
    <3>2. /\ Len(file') <= Len(file) + 1
          /\ EventsOf(file) \subseteq EventsOf(file') \cup cut'
          /\ EventsOf(file') \subseteq EventsOf(file) \cup {event.ev}
          /\ event.ev \in cut' /\ cut \subseteq cut'
          /\ cut' \subseteq cut \cup EventsOf(file) \cup {event.ev}
      BY <1>1, <3>1, AppendTornFacts
    <3>3. Len(file') <= MaxQueue
      BY <1>3, <2>2, <3>2
    <3> QED
      BY <1>2, <3>1, <3>2, <3>3, NoEvents
  <2>3. CASE pc \notin {"write", "append"}
    <3>1. cut' = cut \cup EventsOf(<<event>>) /\ file' = file
      BY <2>3 DEF Exit, queue
    <3>2. EventsOf(<<event>>) = {event.ev} \ {0}
      BY <1>1, OneLine DEF QueueInv, TypeOK
    <3>3. EventsOf(left) \subseteq EventsOf(file)
      <4>1. pc \in {"drain", "truncate"} \/ left = <<>>
        BY <1>1, <2>3 DEF QueueInv, TypeOK, Phase
      <4> QED
        BY <4>1, NoEvents DEF KeptInv, Kept
    <3> QED
      BY <1>2, <1>3, <3>1, <3>2, <3>3
  <2> QED
    BY <2>1, <2>2, <2>3
<1>5. Lengths' /\ Kept'
  BY <1>1, <1>3, <1>4 DEF Lengths, Kept
<1> QED
  BY <1>1, <1>4, <1>5, IsLose DEF KeptInv

LEMMA KeptStep ==
    ASSUME KeptInv, MaxSize = 1, [Next]_vars
    PROVE  KeptInv' /\ [D!Next]_(D!vars)
<1>1. CASE Next /\ ~(ServerUp \/ ServerDown)
  BY <1>1, StartKeeps, CollectKeeps, RequestKeeps, CheckKeeps, RemoveKeeps, TruncateKeeps,
     WriteKeeps, AppendKeeps, ExitKeeps
     DEF Next, AgentStep, FileStep, D!Next
<1>2. CASE ServerUp \/ ServerDown \/ UNCHANGED vars
  <2>1. /\ UNCHANGED <<file, open, pc, event, left, attempt, made, taken, cut>>
    BY <1>2 DEF ServerUp, ServerDown, vars, queue, run
  <2>2. Held' = Held /\ Dropped' = Dropped
    BY <2>1 DEF Held, Dropped
  <2>3. Lengths' /\ Kept'
    BY <2>1, <2>2 DEF KeptInv, Lengths, Kept
  <2>4. UNCHANGED D!vars
    BY <2>1, <2>2 DEF D!vars, Pending, Lost
  <2> QED
    BY <1>2, <2>3, <2>4, ServerStep DEF KeptInv
<1> QED
  BY <1>1, <1>2

(***************************************************************************)
(* Only the oldest are given up: EventDelivery's steps forget no other     *)
(***************************************************************************)

Accounted == Pending \cup taken \cup Lost

LEMMA AccountedIs == Accounted = taken \cup cut \cup Held
  BY DEF Accounted, Pending, Lost

OthersKept == \A e \in 1 .. made : e \in Accounted \/ made - e >= MaxQueue

LEMMA OthersKeptStep ==
    ASSUME KeptInv, KeptInv', OthersKept, [D!Next]_(D!vars)
    PROVE  OthersKept'
<1>1. made \in Nat /\ made' \in Nat /\ MaxQueue \in Nat
  BY QueueAssumption DEF KeptInv, QueueInv, TypeOK
<1>2. CASE D!Make
  <2>1. made' = made + 1 /\ Accounted' = Accounted \cup {made + 1}
    BY <1>2 DEF D!Make, Accounted
  <2> QED
    BY <1>1, <2>1 DEF OthersKept
<1>3. CASE D!Deliver
  <2>1. made' = made /\ Accounted' = Accounted
    BY <1>3 DEF D!Deliver, Accounted
  <2> QED
    BY <2>1 DEF OthersKept
<1>4. CASE D!GiveUp
  <2>1. made' = made /\ Accounted \subseteq Accounted' \cup {D!Min(Pending)}
        /\ made - D!Min(Pending) >= MaxQueue
    BY <1>4 DEF D!GiveUp, Accounted
  <2> QED
    BY <2>1 DEF OthersKept
<1>5. CASE D!Lose
  <2>1. made' = made /\ Accounted' = Accounted
    BY <1>5 DEF D!Lose, Accounted
  <2> QED
    BY <2>1 DEF OthersKept
<1>6. CASE UNCHANGED D!vars
  BY <1>6 DEF D!vars, OthersKept, Accounted
<1> QED
  BY <1>2, <1>3, <1>4, <1>5, <1>6 DEF D!Next

LEMMA DeliveryInitially == Init => D!Init /\ OthersKept
<1> SUFFICES ASSUME Init PROVE D!Init /\ OthersKept
  OBVIOUS
<1>1. Held = {}
  BY HeldIs, QueueInitially, NoEvents DEF Init
<1> QED
  BY <1>1 DEF Init, D!Init, Pending, Lost, OthersKept

(***************************************************************************)
(* The device's id: until one is saved there is one agent, the service     *)
(* manager's, and it has not come to registration; from then on every      *)
(* agent past its start has that one                                       *)
(***************************************************************************)

LifeStates  == {Life!Ended} \cup Life!NotReady \cup Life!Ready
LifeLoading == {"load", "save"}
LifeStarted == {"register", "run", "download", "rename", "exec", "exit"}

LifeOneFirst ==
    saved = None =>
        /\ Life!Living \subseteq {job}
        /\ registered = {}
        /\ \A p \in Life!Living : agent[p].pc \in LifeLoading

LifeOneId ==
    saved # None =>
        /\ \A p \in Processes : /\ ~Life!At(p, "save")
                                /\ agent[p].pc \in LifeStarted => agent[p].id = saved
        /\ registered \subseteq {saved}

LifeHasId == \A p \in Processes : Life!At(p, "save") => agent[p].id \in Machines

LifeIdInv == Life!TypeOK /\ LifeOneFirst /\ LifeOneId /\ LifeHasId

LEMMA LifeStateOf ==
    ASSUME NEW s \in LifeStates
    PROVE  /\ s.pc \in {"ended"} \cup LifeLoading \cup LifeStarted
           /\ s.pc = "ended" => s = Life!Ended
           /\ s.pc \in LifeLoading => s \in Life!NotReady
           /\ s.pc \in LifeStarted => s \in Life!Ready
  BY DEF LifeStates, Life!Ended, Life!NotReady, Life!Ready, LifeLoading, LifeStarted

LEMMA LifeReadyState ==
    ASSUME NEW s \in Life!Ready
    PROVE  /\ s = [pc |-> s.pc, version |-> s.version, id |-> s.id, got |-> s.got]
           /\ s.pc \in LifeStarted /\ s.version \in Releases /\ s.id \in Machines
           /\ s.got \in Releases \cup {None}
  BY DEF Life!Ready, LifeStarted

LEMMA LifeLoadingState ==
    ASSUME NEW s \in Life!NotReady
    PROVE  /\ s = [pc |-> s.pc, version |-> s.version, id |-> s.id]
           /\ s.pc \in LifeLoading /\ s.version \in Releases /\ s.id \in Machines \cup {None}
  BY DEF Life!NotReady, LifeLoading

\* A step in which one process goes on to another state, and no id is saved or told.
LEMMA LifeOneGoes ==
    ASSUME LifeIdInv, NEW p \in Processes, NEW s \in LifeStates, Life!Goes(p, s),
           UNCHANGED <<saved, registered>>,
           platform' \in Platforms, binary' \in Releases \cup {None}, offer' \in Releases,
           answers' \in BOOLEAN, machine' \in Machines,
           p \in Life!Living /\ s.pc # "ended" /\ job' = job,
           saved = None => s.pc \in LifeLoading,
           s.pc = "save" => saved = None /\ s.id \in Machines,
           s.pc \in LifeStarted => s.id = saved
    PROVE  LifeIdInv'
<1>1. agent' = [agent EXCEPT ![p] = s] /\ agent \in [Processes -> LifeStates]
  BY DEF Life!Goes, LifeIdInv, Life!TypeOK, LifeStates
<1>2. /\ agent'[p] = s /\ agent' \in [Processes -> LifeStates]
      /\ \A q \in Processes : q # p => agent'[q] = agent[q]
  BY <1>1
<1>3. Life!Living' = Life!Living
  BY <1>2 DEF Life!Living, Life!At
<1>4. Life!TypeOK'
  BY <1>2, <1>3 DEF LifeIdInv, Life!TypeOK, LifeStates
<1>5. LifeOneFirst'
  BY <1>2, <1>3 DEF LifeIdInv, LifeOneFirst, Life!Living
<1>6. LifeOneId'
  BY <1>2 DEF LifeIdInv, LifeOneId, Life!At
<1>7. LifeHasId'
  BY <1>2 DEF LifeIdInv, LifeHasId, Life!At
<1> QED
  BY <1>4, <1>5, <1>6, <1>7 DEF LifeIdInv

LEMMA LifeStartingState ==
    ASSUME LifeIdInv, binary # None
    PROVE  Life!Starting \in LifeStates /\ Life!Starting \in Life!NotReady
             /\ Life!Starting.pc = "load"
  BY DEF LifeIdInv, Life!TypeOK, Life!Starting, LifeStates, Life!NotReady

LEMMA LifeManagerStep ==
    ASSUME LifeIdInv, NEW p \in Processes, Life!ManagerStarts(p)
    PROVE  LifeIdInv'
<1>1. /\ agent' = [agent EXCEPT ![p] = Life!Starting] /\ agent \in [Processes -> LifeStates]
      /\ job = None /\ job' = p /\ Life!At(p, "ended")
      /\ UNCHANGED <<platform, binary, offer, answers, machine, saved, registered>>
  BY DEF Life!ManagerStarts, Life!Goes, LifeIdInv, Life!TypeOK, LifeStates
<1>2. Life!Starting \in LifeStates /\ Life!Starting.pc = "load"
  BY LifeStartingState DEF Life!ManagerStarts
<1> HIDE DEF Life!Starting
<1>3. /\ agent'[p] = Life!Starting /\ agent' \in [Processes -> LifeStates]
      /\ \A q \in Processes : q # p => agent'[q] = agent[q]
  BY <1>1, <1>2
<1>4. Life!Living' = Life!Living \cup {p}
  BY <1>2, <1>3 DEF Life!Living, Life!At
<1>5. Life!TypeOK'
  BY <1>1, <1>3, <1>4 DEF LifeIdInv, Life!TypeOK, LifeStates
<1>6. LifeOneFirst'
  <2>1. CASE saved = None
    <3>1. Life!Living = {}
      BY <1>1, <2>1, LifeAssumption DEF LifeIdInv, LifeOneFirst, Life!Living
    <3> QED
      BY <1>1, <1>2, <1>3, <1>4, <2>1, <3>1 DEF LifeIdInv, LifeOneFirst, LifeLoading
  <2> QED
    BY <1>1, <2>1 DEF LifeOneFirst
<1>7. LifeOneId'
  BY <1>1, <1>2, <1>3 DEF LifeIdInv, LifeOneId, Life!At, LifeStarted
<1>8. LifeHasId'
  BY <1>1, <1>2, <1>3 DEF LifeIdInv, LifeHasId, Life!At
<1> QED
  BY <1>5, <1>6, <1>7, <1>8 DEF LifeIdInv

LEMMA LifeLoadStep ==
    ASSUME LifeIdInv, NEW p \in Processes, Life!LoadConfig(p)
    PROVE  LifeIdInv'
<1>1. /\ agent[p] \in Life!NotReady /\ agent[p].pc = "load" /\ p \in Life!Living
      /\ UNCHANGED <<platform, binary, job, offer, answers, machine, saved, registered>>
      /\ platform \in Platforms /\ binary \in Releases \cup {None} /\ offer \in Releases
      /\ answers \in BOOLEAN /\ machine \in Machines /\ saved \in Machines \cup {None}
  BY LifeStateOf
     DEF Life!LoadConfig, Life!At, LifeLoading, LifeIdInv, Life!TypeOK, Life!Living,
         LifeStates
<1>2. CASE saved # None
  <2> DEFINE s == [pc |-> "register", version |-> agent[p].version, id |-> saved, got |-> None]
  <2>1. s \in LifeStates /\ s.pc = "register" /\ s.id = saved
    BY <1>1, <1>2, LifeLoadingState DEF LifeStates, Life!Ready
  <2>2. Life!Goes(p, s)
    BY <1>2 DEF Life!LoadConfig
  <2> HIDE DEF s
  <2> QED
    BY <1>1, <1>2, <2>1, <2>2, LifeOneGoes DEF LifeStarted
<1>3. CASE saved = None
  <2> DEFINE s == [agent[p] EXCEPT !.pc = "save", !.id = machine]
  <2>1. s \in LifeStates /\ s.pc = "save" /\ s.id = machine
    BY <1>1, LifeLoadingState DEF LifeStates, Life!NotReady
  <2>2. Life!Goes(p, s)
    BY <1>3 DEF Life!LoadConfig
  <2> HIDE DEF s
  <2> QED
    BY <1>1, <1>3, <2>1, <2>2, LifeOneGoes DEF LifeStarted, LifeLoading
<1> QED
  BY <1>2, <1>3

\* The one agent that saves an id is the only one, and has it.
LEMMA LifeSaveStep ==
    ASSUME LifeIdInv, NEW p \in Processes, Life!SaveDeviceId(p)
    PROVE  LifeIdInv'
<1> DEFINE s == [pc |-> "register", version |-> agent[p].version, id |-> agent[p].id,
                 got |-> None]
<1>1. /\ agent' = [agent EXCEPT ![p] = s] /\ agent \in [Processes -> LifeStates]
      /\ agent[p].pc = "save" /\ p \in Life!Living /\ saved' = agent[p].id
      /\ UNCHANGED <<platform, binary, job, offer, answers, machine, registered>>
  BY DEF Life!SaveDeviceId, Life!Configured, Life!Goes, Life!At, LifeIdInv, Life!TypeOK,
         Life!Living, LifeStates
<1>2. agent[p] \in Life!NotReady /\ agent[p].id \in Machines /\ agent[p].id # None
  BY <1>1, LifeStateOf, LifeAssumption DEF LifeIdInv, LifeHasId, Life!At, LifeLoading
<1>3. s \in LifeStates /\ s.pc = "register" /\ s.id = saved'
  BY <1>1, <1>2, LifeLoadingState DEF LifeStates, Life!Ready
<1> HIDE DEF s
<1>4. /\ agent'[p] = s /\ agent' \in [Processes -> LifeStates]
      /\ \A q \in Processes : q # p => agent'[q] = agent[q]
  BY <1>1, <1>3
<1>5. Life!Living' = Life!Living
  BY <1>1, <1>3, <1>4 DEF Life!Living, Life!At
<1>6. saved = None /\ Life!Living = {p} /\ registered = {}
  <2>1. saved = None
    BY <1>1 DEF LifeIdInv, LifeOneId, Life!At
  <2> QED
    BY <1>1, <2>1 DEF LifeIdInv, LifeOneFirst
<1>7. Life!TypeOK'
  BY <1>1, <1>2, <1>4, <1>5 DEF LifeIdInv, Life!TypeOK, LifeStates
<1>8. LifeOneFirst'
  BY <1>1, <1>2 DEF LifeOneFirst
<1>9. \A q \in Processes : q # p => agent[q].pc = "ended"
  BY <1>6 DEF Life!Living, Life!At
<1>10. LifeOneId'
  <2>1. \A q \in Processes : /\ ~(agent'[q].pc = "save")
                             /\ agent'[q].pc \in LifeStarted => agent'[q].id = saved'
    BY <1>3, <1>4, <1>9 DEF LifeStarted
  <2> QED
    BY <1>1, <1>6, <2>1 DEF LifeOneId, Life!At
<1>11. LifeHasId'
  BY <1>3, <1>4, <1>9 DEF LifeHasId, Life!At
<1> QED
  BY <1>7, <1>8, <1>10, <1>11 DEF LifeIdInv

\* An agent past its start: an id is saved, and is its own.
LEMMA LifeStartedFacts ==
    ASSUME LifeIdInv, NEW p \in Processes, agent[p].pc \in LifeStarted
    PROVE  /\ agent[p] \in Life!Ready /\ p \in Life!Living /\ saved # None /\ agent[p].id = saved
           /\ platform \in Platforms /\ binary \in Releases \cup {None} /\ offer \in Releases
           /\ answers \in BOOLEAN /\ machine \in Machines
<1>1. /\ agent[p] \in Life!Ready /\ p \in Life!Living
  BY LifeStateOf DEF LifeIdInv, Life!TypeOK, LifeStates, Life!Living, Life!At, LifeStarted
<1>2. saved # None
  BY <1>1 DEF LifeIdInv, LifeOneFirst, LifeLoading, LifeStarted
<1> QED
  BY <1>1, <1>2 DEF LifeIdInv, LifeOneId, Life!TypeOK

LEMMA LifeRegisterStep ==
    ASSUME LifeIdInv, NEW p \in Processes, Life!RegisterDevice(p)
    PROVE  LifeIdInv'
<1> DEFINE s == [agent[p] EXCEPT !.pc = "run"]
<1>1. /\ agent[p].pc = "register" /\ agent[p].pc \in LifeStarted
      /\ UNCHANGED <<platform, binary, job, offer, answers, machine, saved>>
      /\ registered' = (IF answers THEN registered \cup {agent[p].id} ELSE registered)
      /\ agent' = [agent EXCEPT ![p] = s] /\ agent \in [Processes -> LifeStates]
  BY DEF Life!RegisterDevice, Life!At, LifeStarted, Life!Goes, LifeIdInv, Life!TypeOK,
         LifeStates
<1>2. /\ agent[p] \in Life!Ready /\ p \in Life!Living /\ saved # None /\ agent[p].id = saved
  BY <1>1, LifeStartedFacts
<1>3. s \in LifeStates /\ s.pc = "run" /\ s.id = saved
  BY <1>2, LifeReadyState DEF LifeStates, Life!Ready
<1> HIDE DEF s
<1>4. /\ agent'[p] = s /\ agent' \in [Processes -> LifeStates]
      /\ \A q \in Processes : q # p => agent'[q] = agent[q]
  BY <1>1, <1>3
<1>5. Life!Living' = Life!Living
  BY <1>1, <1>3, <1>4 DEF Life!Living, Life!At
<1>6. registered' \subseteq {saved} /\ saved \in Machines
  BY <1>1, <1>2 DEF LifeIdInv, LifeOneId, Life!TypeOK
<1>7. Life!TypeOK'
  BY <1>1, <1>4, <1>5, <1>6 DEF LifeIdInv, Life!TypeOK, LifeStates
<1>8. LifeOneFirst'
  BY <1>1, <1>2 DEF LifeOneFirst
<1>9. LifeOneId'
  BY <1>1, <1>3, <1>4, <1>6, <1>2 DEF LifeIdInv, LifeOneId, Life!At
<1>10. LifeHasId'
  BY <1>3, <1>4 DEF LifeIdInv, LifeHasId, Life!At
<1> QED
  BY <1>7, <1>8, <1>9, <1>10 DEF LifeIdInv

\* The steps of an update, but the re-exec.
LEMMA LifeUpdateStep ==
    ASSUME LifeIdInv, NEW p \in Processes,
           Life!CheckAndDownload(p) \/ Life!MoveAside(p) \/ Life!MoveAsideFails(p) \/ Life!Install(p)
               \/ Life!InstallFails(p) \/ Life!ReexecFails(p)
    PROVE  LifeIdInv'
<1>1. agent[p].pc \in LifeStarted
  BY DEF Life!CheckAndDownload, Life!MoveAside, Life!MoveAsideFails, Life!Install,
         Life!InstallFails, Life!ReexecFails, Life!At, LifeStarted
<1>2. /\ agent[p] \in Life!Ready /\ p \in Life!Living /\ saved # None /\ agent[p].id = saved
      /\ platform \in Platforms /\ binary \in Releases \cup {None} /\ offer \in Releases
      /\ answers \in BOOLEAN /\ machine \in Machines
  BY <1>1, LifeStartedFacts
<1>3. UNCHANGED <<platform, job, offer, answers, machine, saved, registered>>
  BY DEF Life!CheckAndDownload, Life!MoveAside, Life!MoveAsideFails, Life!Install,
         Life!InstallFails, Life!ReexecFails
<1>4. ASSUME NEW n \in LifeStarted, NEW g \in Releases \cup {None},
             Life!Goes(p, [agent[p] EXCEPT !.pc = n, !.got = g]), binary' \in Releases \cup {None}
      PROVE  LifeIdInv'
  <2> DEFINE s == [agent[p] EXCEPT !.pc = n, !.got = g]
  <2>1. s \in Life!Ready /\ s.pc = n /\ s.id = saved
    BY <1>2, LifeReadyState DEF Life!Ready, LifeStarted
  <2>2. s \in LifeStates /\ s.pc # "ended" /\ s.pc # "save" /\ Life!Goes(p, s)
    BY <1>4, <2>1 DEF LifeStates, LifeStarted
  <2> HIDE DEF s
  <2> QED
    BY <1>2, <1>3, <1>4, <2>1, <2>2, LifeOneGoes
<1>5. CASE Life!CheckAndDownload(p)
  <2>1. PICK n \in {"download", "rename"} : Life!Goes(p, [agent[p] EXCEPT !.pc = n,
             !.got = offer])
    BY <1>5 DEF Life!CheckAndDownload
  <2>2. n \in LifeStarted /\ binary' = binary
    BY <1>5 DEF LifeStarted, Life!CheckAndDownload
  <2> QED
    BY <1>2, <1>4, <2>1, <2>2
<1>6. CASE Life!MoveAside(p)
  <2>1. binary' = None /\ Life!Goes(p, [agent[p] EXCEPT !.pc = "rename"])
    BY <1>6 DEF Life!MoveAside
  <2>2. [agent[p] EXCEPT !.pc = "rename"] = [agent[p] EXCEPT !.pc = "rename",
        !.got = agent[p].got]
    BY <1>2, LifeReadyState
  <2>3. "rename" \in LifeStarted /\ agent[p].got \in Releases \cup {None}
    BY <1>2, LifeReadyState DEF LifeStarted
  <2> QED
    BY <1>4, <2>1, <2>2, <2>3
<1>7. CASE Life!MoveAsideFails(p) \/ Life!InstallFails(p) \/ Life!ReexecFails(p)
  <2>1. binary' = binary /\ Life!Goes(p, [agent[p] EXCEPT !.pc = "run", !.got = None])
    BY <1>7 DEF Life!MoveAsideFails, Life!InstallFails, Life!ReexecFails, Life!GivesUp
  <2> QED
    BY <1>2, <1>4, <2>1 DEF LifeStarted
<1>8. CASE Life!Install(p)
  <2>1. binary' = agent[p].got
          /\ Life!Goes(p, [agent[p] EXCEPT !.pc = "exec", !.got = None])
    BY <1>8 DEF Life!Install
  <2>2. agent[p].got \in Releases \cup {None}
    BY <1>2, LifeReadyState
  <2> QED
    BY <1>4, <2>1, <2>2 DEF LifeStarted
<1> QED
  BY <1>5, <1>6, <1>7, <1>8

LEMMA LifeReexecStep ==
    ASSUME LifeIdInv, NEW p \in Processes, Life!Reexec(p)
    PROVE  LifeIdInv'
<1>1. /\ agent[p].pc = "exec" /\ agent[p].pc \in LifeStarted /\ binary # None
      /\ UNCHANGED <<platform, binary, job, offer, answers, machine, saved, registered>>
      /\ agent \in [Processes -> LifeStates]
  BY DEF Life!Reexec, Life!At, LifeStarted, LifeIdInv, Life!TypeOK, LifeStates
<1>2. PICK q \in Processes :
          Life!At(q, "ended") /\ agent' = [agent EXCEPT ![p].pc = "exit", ![q] = Life!Starting]
  BY DEF Life!Reexec
<1>3. agent[p] \in Life!Ready /\ p \in Life!Living /\ saved # None /\ agent[p].id = saved
  BY <1>1, LifeStartedFacts
<1>4. Life!Starting \in LifeStates /\ Life!Starting.pc = "load"
  BY <1>1, LifeStartingState
<1> HIDE DEF Life!Starting
<1> DEFINE s == [agent[p] EXCEPT !.pc = "exit"]
<1>5. s \in LifeStates /\ s.pc = "exit" /\ s.id = saved
  BY <1>3, LifeReadyState DEF LifeStates, Life!Ready
<1>6. /\ p # q /\ agent'[p] = s /\ agent'[q] = Life!Starting /\ agent' \in [Processes -> LifeStates]
      /\ \A r \in Processes : r # p /\ r # q => agent'[r] = agent[r]
  <2>1. p # q
    BY <1>1, <1>2 DEF Life!At
  <2> QED
    BY <1>1, <1>2, <1>4, <1>5, <2>1
<1> HIDE DEF s
<1>7. Life!Living \subseteq Life!Living'
  BY <1>4, <1>5, <1>6 DEF Life!Living, Life!At
<1>8. Life!TypeOK'
  BY <1>1, <1>6, <1>7 DEF LifeIdInv, Life!TypeOK, LifeStates
<1>9. LifeOneFirst'
  BY <1>1, <1>3 DEF LifeOneFirst
<1>10. \A r \in Processes : /\ ~(agent'[r].pc = "save")
                            /\ agent'[r].pc \in LifeStarted => agent'[r].id = saved'
  <2>1. \A r \in Processes : /\ ~(agent[r].pc = "save")
                             /\ agent[r].pc \in LifeStarted => agent[r].id = saved
    BY <1>3 DEF LifeIdInv, LifeOneId, Life!At
  <2> QED
    BY <1>1, <1>4, <1>5, <1>6, <2>1 DEF LifeStarted
<1>11. LifeOneId' /\ LifeHasId'
  BY <1>1, <1>3, <1>10 DEF LifeIdInv, LifeOneId, LifeHasId, Life!At
<1> QED
  BY <1>8, <1>9, <1>11 DEF LifeIdInv

LEMMA LifeEndStep ==
    ASSUME LifeIdInv, NEW p \in Processes, Life!Ends(p)
    PROVE  LifeIdInv'
<1>1. /\ agent' = [agent EXCEPT ![p] = Life!Ended] /\ agent \in [Processes -> LifeStates]
      /\ job' = (IF job = p THEN None ELSE job) /\ p \in Life!Living
      /\ UNCHANGED <<platform, binary, offer, answers, machine, saved, registered>>
  BY DEF Life!Ends, Life!Goes, LifeIdInv, Life!TypeOK, LifeStates
<1>2. Life!Ended \in LifeStates /\ Life!Ended.pc = "ended"
  BY DEF LifeStates, Life!Ended
<1> HIDE DEF Life!Ended
<1>3. /\ agent'[p] = Life!Ended /\ agent' \in [Processes -> LifeStates]
      /\ \A q \in Processes : q # p => agent'[q] = agent[q]
  BY <1>1, <1>2
<1>4. Life!Living' = Life!Living \ {p}
  BY <1>2, <1>3 DEF Life!Living, Life!At
<1>5. Life!TypeOK'
  BY <1>1, <1>3, <1>4 DEF LifeIdInv, Life!TypeOK, LifeStates
<1>6. LifeOneFirst'
  BY <1>1, <1>3, <1>4 DEF LifeIdInv, LifeOneFirst, Life!Living
<1>7. LifeOneId'
  BY <1>1, <1>2, <1>3 DEF LifeIdInv, LifeOneId, Life!At, LifeStarted
<1>8. LifeHasId'
  BY <1>1, <1>2, <1>3 DEF LifeIdInv, LifeHasId, Life!At
<1> QED
  BY <1>5, <1>6, <1>7, <1>8 DEF LifeIdInv

LEMMA LifeSurroundingsStep ==
    ASSUME LifeIdInv,
           Life!NewRelease \/ Life!ServerChanges \/ Life!MachineChanges \/ UNCHANGED life
    PROVE  LifeIdInv'
<1>1. /\ UNCHANGED <<platform, binary, agent, job, saved, registered>>
      /\ offer' \in Releases /\ answers' \in BOOLEAN /\ machine' \in Machines
  BY DEF Life!NewRelease, Life!ServerChanges, Life!MachineChanges, life, LifeIdInv,
         Life!TypeOK
<1>2. Life!Living' = Life!Living
  BY <1>1 DEF Life!Living, Life!At
<1> QED
  BY <1>1, <1>2 DEF LifeIdInv, Life!TypeOK, LifeOneFirst, LifeOneId, LifeHasId, Life!At

LEMMA LifeInvariant ==
    ASSUME LifeIdInv, [Life!Next]_life
    PROVE  LifeIdInv'
  BY LifeManagerStep, LifeLoadStep, LifeSaveStep, LifeRegisterStep, LifeUpdateStep,
     LifeReexecStep, LifeEndStep, LifeSurroundingsStep
     DEF Life!Next, Life!ProcessStep

LEMMA LifeInitially == Life!Init => LifeIdInv
<1> SUFFICES ASSUME Life!Init PROVE LifeIdInv
  OBVIOUS
<1>1. Life!Living = {} /\ \A p \in Processes : agent[p] = Life!Ended
  BY DEF Life!Init, Life!Living, Life!At, Life!Ended
<1>2. Life!TypeOK
  BY <1>1 DEF Life!Init, Life!TypeOK
<1>3. LifeOneFirst /\ LifeOneId
  BY <1>1 DEF Life!Init, LifeOneFirst, LifeOneId
<1>4. LifeHasId
  BY <1>1 DEF LifeHasId, Life!At, Life!Ended
<1> QED
  BY <1>2, <1>3, <1>4 DEF LifeIdInv

LEMMA LifeCardinality == \A S : Life!Cardinality(S) = Cardinality(S)
  BY DEF Life!Cardinality, Cardinality

LEMMA LifeOneDeviceId == LifeIdInv => Life!DeviceIdStable
<1> SUFFICES ASSUME LifeIdInv PROVE Life!DeviceIdStable
  OBVIOUS
<1>1. registered \subseteq {saved}
  BY DEF LifeIdInv, LifeOneFirst, LifeOneId
<1>2. Cardinality({saved}) = 1 /\ Cardinality({}) = 0
  BY FS_Singleton, FS_EmptySet
<1>3. registered = {} \/ registered = {saved}
  BY <1>1
<1> QED
  BY <1>2, <1>3, LifeCardinality DEF Life!DeviceIdStable

(***************************************************************************)
(* The agent: the side a behaviour exercises keeps its invariant           *)
(***************************************************************************)

AgentInv == QueueInv /\ (side = "life" => LifeIdInv)

LEMMA AgentInitially == AgentInit => AgentInv
  BY QueueInitially, LifeInitially DEF AgentInit, AgentInv

\* A step of the agent is one of the side it exercises, or changes nothing of it.
LEMMA StepOfSide ==
    ASSUME [AgentNext]_allVars
    PROVE  /\ [Next]_vars /\ side' = side
           /\ side = "life" => [Life!Next]_life
  BY DEF AgentNext, allVars

LEMMA AgentInvariant ==
    ASSUME AgentInv, [AgentNext]_allVars
    PROVE  AgentInv'
<1>1. QueueInv'
  BY StepOfSide, QueueInvariant DEF AgentInv
<1>2. side = "life" => LifeIdInv'
  BY StepOfSide, LifeInvariant DEF AgentInv
<1> QED
  BY <1>1, <1>2, StepOfSide DEF AgentInv

LEMMA KeptInAgent ==
    ASSUME KeptInv, MaxSize = 1, [AgentNext]_allVars
    PROVE  KeptInv' /\ [D!Next]_(D!vars)
  BY StepOfSide, KeptStep

\* The queue file, the process and the history keep their shape, for every size of the
\* queue, of a batch and of a line, whatever ends the process.
THEOREM TypeCorrect == AgentSpec => []TypeOK
<1>1. AgentInv => TypeOK
  BY DEF AgentInv, QueueInv
<1>2. AgentInv /\ [AgentNext]_allVars => AgentInv'
  BY AgentInvariant
<1> QED
  BY <1>1, <1>2, AgentInitially, PTL DEF AgentSpec

\* Drops, drains that stop half-way, writes that are cut short and lines that are torn leave
\* the queued events in the order of their collection, each once (queue.go).
THEOREM InOrder == AgentSpec => []QueueInOrder
<1>1. AgentInv => QueueInOrder
  BY DEF AgentInv, QueueInv, Order, Spaced, QueueInOrder
<1>2. AgentInv /\ [AgentNext]_allVars => AgentInv'
  BY AgentInvariant
<1> QED
  BY <1>1, <1>2, AgentInitially, PTL DEF AgentSpec

\* With no line longer than the scanner's default buffer, the file never holds more than
\* MaxQueue lines (queue.go, Enqueue and dropOldest).
THEOREM Bounded ==
    ASSUME MaxSize = 1
    PROVE  AgentSpec => []QueueBounded
<1>1. KeptInv => QueueBounded
  BY DEF KeptInv, Lengths, QueueBounded
<1>2. KeptInv /\ [AgentNext]_allVars => KeptInv'
  BY KeptInAgent
<1>3. AgentInit => KeptInv
  BY KeptInitially DEF AgentInit
<1> QED
  BY <1>1, <1>2, <1>3, PTL DEF AgentSpec

\* With the same premise, an event that the server does not have and that no cut write took
\* is held, or is older than MaxQueue newer ones.
THEOREM OldestOnly ==
    ASSUME MaxSize = 1
    PROVE  AgentSpec => []OnlyOldestGivenUp
<1>1. KeptInv /\ OthersKept => OnlyOldestGivenUp
  BY AccountedIs DEF OthersKept, OnlyOldestGivenUp
<1>2. KeptInv /\ OthersKept /\ [AgentNext]_allVars => (KeptInv /\ OthersKept)'
  BY KeptInAgent, OthersKeptStep
<1>3. AgentInit => KeptInv /\ OthersKept
  BY KeptInitially, DeliveryInitially DEF AgentInit
<1> QED
  BY <1>1, <1>2, <1>3, PTL DEF AgentSpec

\* With the same premise, the queue file, its drains and its rewrites implement EventDelivery:
\* each step makes, delivers, gives up the oldest, loses, or changes nothing of it.
THEOREM Implements ==
    ASSUME MaxSize = 1
    PROVE  AgentSpec => DeliversOrGivesUpOldest
<1>1. KeptInv /\ [AgentNext]_allVars => KeptInv' /\ [D!Next]_(D!vars)
  BY KeptInAgent
<1>2. AgentInit => KeptInv /\ D!Init
  BY KeptInitially, DeliveryInitially DEF AgentInit
<1> QED
  BY <1>1, <1>2, PTL DEF AgentSpec, DeliversOrGivesUpOldest, D!Spec

\* However processes of two versions overlap, end, update and re-exec, and whatever becomes
\* of hostname and MAC address, the server hears one id of the device (config.go).
THEOREM OneDeviceId == AgentSpec => []DeviceIdStable
<1>1. AgentInv => DeviceIdStable
  BY LifeOneDeviceId DEF AgentInv, DeviceIdStable
<1>2. AgentInv /\ [AgentNext]_allVars => AgentInv'
  BY AgentInvariant
<1> QED
  BY <1>1, <1>2, AgentInitially, PTL DEF AgentSpec
==============================================================================
