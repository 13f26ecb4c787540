---------------------- MODULE ServicesRecords_proofs ----------------------
(***************************************************************************)
(* Proofs about the components of Services that keep rows: discovery,      *)
(* invites and identity requests, settings, the tenant's accounts, and the *)
(* notices and exports of personal data.                                   *)
(***************************************************************************)
EXTENDS Services, FunctionTheorems, FiniteSetTheorems, SequenceTheorems,
        NaturalsInduction, WellFoundedInduction, TLAPS

(***************************************************************************)
(* Discovery: an address has few rows                                      *)
(***************************************************************************)

LEMMA ScannerCardinality == \A S : Scanner!Cardinality(S) = Cardinality(S)
BY DEF Scanner!Cardinality, Cardinality

(***************************************************************************)
(* An address has room for a row of every scan that found none: once it    *)
(* has a row, every lookup finds one                                       *)
(***************************************************************************)

ScannerPairs == Members \X Scanner!Says
ScannerSteps == {"idle", "app", "find", "write", "oauth", "connector", "status"}
ScannerScan  == [pc : ScannerSteps, left : SUBSET ScannerPairs, now : {Scanner!NoMember} \cup ScannerPairs, found : Nat,
          status : Scanner!Statuses]

ScannerShape ==
    /\ source \in [kind : Scanner!Kinds, of : [Members -> Scanner!Says \cup {Scanner!Away}]]
    /\ apps \subseteq {"own", "shadow"}
    /\ rows \in [Members -> Seq(Scanner!Says)]
    /\ connectors \in Seq(Scanner!Statuses)
    /\ scan \in [Calls -> ScannerScan]
    /\ \A s \in Calls : scan[s].pc = "write" => scan[s].now \in ScannerPairs
    /\ changes \in 0 .. MaxChanges

ScannerCreatesIn(r, m) == r.pc = "write" /\ r.now[1] = m /\ r.found = 0
ScannerOpensIn(r)      == r.pc = "status" /\ r.found = 0

ScannerCreators(m) == {s \in Calls : ScannerCreatesIn(scan[s], m)}
ScannerOpeners     == {s \in Calls : ScannerOpensIn(scan[s])}

ScannerRowsFit == \A m \in Members : Len(rows[m]) + Cardinality(ScannerCreators(m)) <= Cardinality(Calls)
ScannerConnectorsFit == Len(connectors) + Cardinality(ScannerOpeners) <= Cardinality(Calls)

ScannerInv == ScannerShape /\ ScannerRowsFit /\ ScannerConnectorsFit

\* What fits before fits after: those who would add are fewer, or nothing was there.
LEMMA ScannerFits ==
    ASSUME NEW S, IsFiniteSet(S), NEW A \in SUBSET S, NEW B \in SUBSET S, NEW n \in Nat,
           NEW k \in Nat, n + Cardinality(A) <= Cardinality(S),
           \/ k = n /\ (n = 0 \/ B \subseteq A)
           \/ k = n + 1 /\ \E s \in A : B \subseteq A \ {s}
    PROVE  k + Cardinality(B) <= Cardinality(S)
<1>1. IsFiniteSet(A) /\ IsFiniteSet(B) /\ Cardinality(B) <= Cardinality(S)
  BY FS_Subset
<1>2. Cardinality(A) \in Nat /\ Cardinality(B) \in Nat /\ Cardinality(S) \in Nat
  BY <1>1, FS_CardinalityType
<1>3. CASE k = n /\ n = 0
  BY <1>1, <1>2, <1>3
<1>4. CASE k = n /\ B \subseteq A
  <2>1. Cardinality(B) <= Cardinality(A)
    BY <1>1, <1>4, FS_Subset
  <2> QED
    BY <1>2, <1>4, <2>1
<1>5. CASE k = n + 1 /\ \E s \in A : B \subseteq A \ {s}
  <2>1. PICK s \in A : B \subseteq A \ {s}
    BY <1>5
  <2>2. IsFiniteSet(A \ {s}) /\ Cardinality(A \ {s}) = Cardinality(A) - 1
    BY <1>1, FS_RemoveElement
  <2>3. Cardinality(B) <= Cardinality(A \ {s})
    BY <2>1, <2>2, FS_Subset
  <2> QED
    BY <1>2, <1>5, <2>2, <2>3
<1> QED
  BY <1>3, <1>4, <1>5

LEMMA ScannerChangedSeq ==
    ASSUME NEW S, NEW q \in Seq(S), NEW i, NEW e \in S
    PROVE  [q EXCEPT ![i] = e] \in Seq(S) /\ Len([q EXCEPT ![i] = e]) = Len(q)
<1> DEFINE p == [q EXCEPT ![i] = e]
<1>1. Len(q) \in Nat /\ DOMAIN q = 1 .. Len(q) /\ q \in [1 .. Len(q) -> S]
  BY LenProperties
<1>2. p \in [1 .. Len(q) -> S]
  BY <1>1
<1>3. p \in Seq(S)
  BY <1>1, <1>2, IsASeq
<1> QED
  BY <1>1, <1>2, <1>3, LenProperties

LEMMA ScannerIdleIs ==
    Scanner!Idle \in ScannerScan /\ Scanner!Idle.pc = "idle" /\ Scanner!Idle.found = 0 /\ Scanner!Idle.now = Scanner!NoMember
    /\ [Scanner!Idle EXCEPT !.pc = "connector", !.status = "error"] \in ScannerScan
    /\ [Scanner!Idle EXCEPT !.pc = "connector", !.status = "error"].pc = "connector"
  BY DEF Scanner!Idle, ScannerScan, ScannerSteps, Scanner!Statuses

\* The scan of s is replaced: who creates a row or the connector is who it was, but s.
LEMMA ScannerScanStep ==
    ASSUME ScannerShape, NEW s \in Calls, NEW r \in ScannerScan,
           scan' = [scan EXCEPT ![s] = r],
           r.pc = "write" => r.now \in ScannerPairs
    PROVE  /\ scan' \in [Calls -> ScannerScan]
           /\ \A t \in Calls : scan'[t].pc = "write" => scan'[t].now \in ScannerPairs
           /\ \A m : ~ScannerCreatesIn(r, m) => ScannerCreators(m)' \subseteq ScannerCreators(m) \ {s}
           /\ ~ScannerOpensIn(r) => ScannerOpeners' \subseteq ScannerOpeners \ {s}
<1>1. scan \in [Calls -> ScannerScan] /\ \A t \in Calls : scan[t].pc = "write" =>
        scan[t].now \in ScannerPairs
  BY DEF ScannerShape
<1>2. scan' \in [Calls -> ScannerScan] /\ scan'[s] = r /\ \A t \in Calls : t # s =>
        scan'[t] = scan[t]
  BY <1>1
<1>3. \A m : ~ScannerCreatesIn(r, m) =>
        ScannerCreators(m)' \subseteq ScannerCreators(m) \ {s}
  BY <1>2 DEF ScannerCreators
<1>4. ~ScannerOpensIn(r) => ScannerOpeners' \subseteq ScannerOpeners \ {s}
  BY <1>2 DEF ScannerOpeners
<1> QED
  BY <1>1, <1>2, <1>3, <1>4

\* A step of a scan that writes neither a row nor the connector, and learned of
\* nothing missing.
LEMMA ScannerElsewhere ==
    ASSUME ScannerInv, NEW s \in Calls, NEW r \in ScannerScan,
           scan' = [scan EXCEPT ![s] = r],
           r.pc \notin {"write", "status"} \/ r.found # 0, r.pc = "write" => r.now \in ScannerPairs,
           apps' \subseteq {"own", "shadow"}, UNCHANGED <<source, rows, connectors, changes>>
    PROVE  ScannerInv'
<1>1. ScannerShape /\ ScannerRowsFit /\ ScannerConnectorsFit
  BY DEF ScannerInv
<1>2. (\A m : ~ScannerCreatesIn(r, m)) /\ ~ScannerOpensIn(r)
  BY DEF ScannerCreatesIn, ScannerOpensIn
<1>3. /\ scan' \in [Calls -> ScannerScan]
      /\ \A t \in Calls : scan'[t].pc = "write" => scan'[t].now \in ScannerPairs
      /\ \A m : ScannerCreators(m)' \subseteq ScannerCreators(m)
      /\ ScannerOpeners' \subseteq ScannerOpeners
  BY <1>1, <1>2, ScannerScanStep
<1>4. ScannerShape'
  BY <1>1, <1>3 DEF ScannerShape
<1>5. ScannerRowsFit'
  <2> SUFFICES ASSUME NEW m \in Members
               PROVE  Len(rows[m]) + Cardinality(ScannerCreators(m)') <= Cardinality(Calls)
    BY DEF ScannerRowsFit
  <2>1. Len(rows[m]) \in Nat
    BY <1>1, LenProperties DEF ScannerShape
  <2>2. ScannerCreators(m) \subseteq Calls /\ ScannerCreators(m)' \subseteq Calls
    BY DEF ScannerCreators
  <2>3. Len(rows[m]) + Cardinality(ScannerCreators(m)) <= Cardinality(Calls)
    BY <1>1 DEF ScannerRowsFit
  <2> QED
    BY <1>3, <2>1, <2>2, <2>3, CallsAssumption, ScannerFits
<1>6. ScannerConnectorsFit'
  <2>1. Len(connectors) \in Nat
    BY <1>1, LenProperties DEF ScannerShape
  <2>2. ScannerOpeners \subseteq Calls /\ ScannerOpeners' \subseteq Calls
    BY DEF ScannerOpeners
  <2>3. Len(connectors) + Cardinality(ScannerOpeners') <= Cardinality(Calls)
    BY <1>1, <1>3, <2>1, <2>2, CallsAssumption, ScannerFits DEF ScannerConnectorsFit
  <2> QED
    BY <2>3 DEF ScannerConnectorsFit
<1> QED
  BY <1>4, <1>5, <1>6 DEF ScannerInv

LEMMA ScannerInitially == Scanner!Init => ScannerInv
<1> SUFFICES ASSUME Scanner!Init PROVE ScannerInv
  OBVIOUS
<1>1. scan \in [Calls -> ScannerScan] /\ \A s \in Calls : scan[s].pc = "idle"
  BY ScannerIdleIs DEF Scanner!Init
<1>2. rows \in [Members -> Seq(Scanner!Says)] /\ \A m \in Members : Len(rows[m]) = 0
  BY DEF Scanner!Init
<1>3. connectors \in Seq(Scanner!Statuses) /\ Len(connectors) = 0
  BY DEF Scanner!Init
<1>4. ScannerShape
  BY <1>1, <1>2, <1>3, BoundsAssumption DEF Scanner!Init, ScannerShape
<1>5. (\A m : ScannerCreators(m) = {}) /\ ScannerOpeners = {}
  BY <1>1 DEF ScannerCreators, ScannerCreatesIn, ScannerOpeners, ScannerOpensIn
<1>6. Cardinality({}) = 0 /\ Cardinality(Calls) \in Nat
  BY FS_EmptySet, CallsAssumption, FS_CardinalityType
<1>7. ScannerRowsFit
  <2> SUFFICES ASSUME NEW m \in Members
               PROVE  Len(rows[m]) + Cardinality(ScannerCreators(m)) <= Cardinality(Calls)
    BY DEF ScannerRowsFit
  <2>1. Len(rows[m]) = 0 /\ ScannerCreators(m) = {}
    BY <1>2, <1>5
  <2> QED
    BY <1>6, <2>1
<1>8. ScannerConnectorsFit
  BY <1>3, <1>5, <1>6 DEF ScannerConnectorsFit
<1> QED
  BY <1>4, <1>7, <1>8 DEF ScannerInv

\* A lookup finds none only when there is none.
LEMMA ScannerFindUserStep ==
    ASSUME ScannerInv, NEW s \in Calls, Scanner!FindUser(s)
    PROVE  ScannerInv'
<1>1. ScannerShape /\ ScannerRowsFit /\ ScannerConnectorsFit
  BY DEF ScannerInv
<1>2. PICK member \in scan[s].left : \E i \in IF Scanner!Found(member[1]) = {} THEN {0} ELSE Scanner!Found(member[1]) :
          scan' = [scan EXCEPT ![s].pc = "write", ![s].now = member, ![s].found = i]
  BY DEF Scanner!FindUser
<1>3. scan[s] \in ScannerScan /\ member \in ScannerPairs /\ member[1] \in Members
  BY <1>1 DEF ScannerShape, ScannerScan, ScannerPairs
<1>4. rows[member[1]] \in Seq(Scanner!Says) /\ Scanner!Found(member[1]) = 1 .. Len(rows[member[1]])
      /\ Len(rows[member[1]]) \in Nat
  BY <1>1, <1>3, LenProperties DEF ScannerShape, Scanner!Found
<1>5. PICK i \in Nat : /\ scan' = [scan EXCEPT ![s].pc = "write", ![s].now = member, ![s].found = i]
                       /\ i = 0 => Len(rows[member[1]]) = 0
  <2>1. PICK i \in IF Scanner!Found(member[1]) = {} THEN {0} ELSE Scanner!Found(member[1]) :
            scan' = [scan EXCEPT ![s].pc = "write", ![s].now = member, ![s].found = i]
    BY <1>2
  <2>2. i \in Nat /\ (i = 0 => Len(rows[member[1]]) = 0)
    <3>1. CASE Scanner!Found(member[1]) = {}
      <4>1. i = 0
        BY <2>1, <3>1
      <4>2. 1 .. Len(rows[member[1]]) = {}
        BY <1>4, <3>1
      <4>3. \A n \in Nat : 1 .. n = {} => n = 0
        OBVIOUS
      <4> QED
        BY <1>4, <4>1, <4>2, <4>3
    <3>2. CASE Scanner!Found(member[1]) # {}
      BY <1>4, <2>1, <3>2
    <3> QED
      BY <3>1, <3>2
  <2> QED
    BY <2>1, <2>2, Zenon
<1> DEFINE r == [scan[s] EXCEPT !.pc = "write", !.now = member, !.found = i]
<1>6. r \in ScannerScan /\ r.pc = "write" /\ r.now = member /\ r.found = i
  BY <1>3 DEF ScannerScan, ScannerSteps
<1>7. scan' = [scan EXCEPT ![s] = r]
  BY <1>5
<1> HIDE DEF r
<1>8. UNCHANGED <<source, apps, rows, connectors, changes>>
  BY DEF Scanner!FindUser
<1>9. ~ScannerOpensIn(r) /\ \A m : ScannerCreatesIn(r, m) => i = 0 /\ m = member[1]
  BY <1>6 DEF ScannerCreatesIn, ScannerOpensIn
<1>10. /\ scan' \in [Calls -> ScannerScan]
       /\ \A t \in Calls : scan'[t].pc = "write" => scan'[t].now \in ScannerPairs
       /\ \A m : ~ScannerCreatesIn(r, m) => ScannerCreators(m)' \subseteq ScannerCreators(m)
       /\ ScannerOpeners' \subseteq ScannerOpeners
  BY <1>1, <1>3, <1>6, <1>7, <1>9, ScannerScanStep
<1>11. ScannerShape'
  BY <1>1, <1>8, <1>10 DEF ScannerShape
<1>12. ScannerRowsFit'
  <2> SUFFICES ASSUME NEW m \in Members
               PROVE  Len(rows[m]) + Cardinality(ScannerCreators(m)') <= Cardinality(Calls)
    BY <1>8 DEF ScannerRowsFit
  <2>1. Len(rows[m]) \in Nat
    BY <1>1, LenProperties DEF ScannerShape
  <2>2. ScannerCreators(m) \subseteq Calls /\ ScannerCreators(m)' \subseteq Calls
    BY DEF ScannerCreators
  <2>3. Len(rows[m]) + Cardinality(ScannerCreators(m)) <= Cardinality(Calls)
    BY <1>1 DEF ScannerRowsFit
  <2>4. Len(rows[m]) = 0 \/ ScannerCreators(m)' \subseteq ScannerCreators(m)
    BY <1>5, <1>9, <1>10
  <2> QED
    BY <2>1, <2>2, <2>3, <2>4, CallsAssumption, ScannerFits
<1>13. ScannerConnectorsFit'
  <2>1. Len(connectors) \in Nat
    BY <1>1, LenProperties DEF ScannerShape
  <2>2. ScannerOpeners \subseteq Calls /\ ScannerOpeners' \subseteq Calls
    BY DEF ScannerOpeners
  <2>3. Len(connectors) + Cardinality(ScannerOpeners') <= Cardinality(Calls)
    BY <1>1, <1>10, <2>1, <2>2, CallsAssumption, ScannerFits DEF ScannerConnectorsFit
  <2> QED
    BY <1>8, <2>3 DEF ScannerConnectorsFit
<1> QED
  BY <1>11, <1>12, <1>13 DEF ScannerInv

LEMMA ScannerFindConnectorStep ==
    ASSUME ScannerInv, NEW s \in Calls, Scanner!FindConnector(s)
    PROVE  ScannerInv'
<1>1. ScannerShape /\ ScannerRowsFit /\ ScannerConnectorsFit /\ scan[s] \in ScannerScan
        /\ Len(connectors) \in Nat
  BY LenProperties DEF ScannerInv, ScannerShape
<1>2. PICK i \in Nat : /\ scan' = [scan EXCEPT ![s].pc = "status", ![s].found = i]
                       /\ i = 0 => Len(connectors) = 0
  <2>1. DOMAIN connectors = 1 .. Len(connectors)
          /\ (connectors = <<>> => Len(connectors) = 0)
    BY <1>1, LenProperties DEF ScannerShape
  <2>2. PICK i \in IF connectors = <<>> THEN {0} ELSE DOMAIN connectors :
            scan' = [scan EXCEPT ![s].pc = "status", ![s].found = i]
    BY DEF Scanner!FindConnector
  <2>3. i \in Nat /\ (i = 0 => Len(connectors) = 0)
    <3>1. CASE connectors = <<>>
      BY <2>1, <2>2, <3>1
    <3>2. CASE connectors # <<>>
      BY <1>1, <2>1, <2>2, <3>2
    <3> QED
      BY <3>1, <3>2
  <2> QED
    BY <2>2, <2>3, Zenon
<1> DEFINE r == [scan[s] EXCEPT !.pc = "status", !.found = i]
<1>3. r \in ScannerScan /\ r.pc = "status" /\ r.found = i
  BY <1>1 DEF ScannerScan, ScannerSteps
<1>4. scan' = [scan EXCEPT ![s] = r]
  BY <1>2
<1> HIDE DEF r
<1>5. UNCHANGED <<source, apps, rows, connectors, changes>>
  BY DEF Scanner!FindConnector
<1>6. (ScannerOpensIn(r) => i = 0) /\ \A m : ~ScannerCreatesIn(r, m)
  BY <1>3 DEF ScannerCreatesIn, ScannerOpensIn
<1>7. /\ scan' \in [Calls -> ScannerScan]
      /\ \A t \in Calls : scan'[t].pc = "write" => scan'[t].now \in ScannerPairs
      /\ \A m : ScannerCreators(m)' \subseteq ScannerCreators(m)
      /\ ~ScannerOpensIn(r) => ScannerOpeners' \subseteq ScannerOpeners
  BY <1>1, <1>3, <1>4, <1>6, ScannerScanStep
<1>8. ScannerShape'
  BY <1>1, <1>5, <1>7 DEF ScannerShape
<1>9. ScannerRowsFit'
  <2> SUFFICES ASSUME NEW m \in Members
               PROVE  Len(rows[m]) + Cardinality(ScannerCreators(m)') <= Cardinality(Calls)
    BY <1>5 DEF ScannerRowsFit
  <2>1. Len(rows[m]) \in Nat
    BY <1>1, LenProperties DEF ScannerShape
  <2>2. ScannerCreators(m) \subseteq Calls /\ ScannerCreators(m)' \subseteq Calls
    BY DEF ScannerCreators
  <2>3. Len(rows[m]) + Cardinality(ScannerCreators(m)) <= Cardinality(Calls)
    BY <1>1 DEF ScannerRowsFit
  <2> QED
    BY <1>7, <2>1, <2>2, <2>3, CallsAssumption, ScannerFits
<1>10. ScannerConnectorsFit'
  <2>1. ScannerOpeners \subseteq Calls /\ ScannerOpeners' \subseteq Calls
    BY DEF ScannerOpeners
  <2>2. Len(connectors) = 0 \/ ScannerOpeners' \subseteq ScannerOpeners
    BY <1>2, <1>6, <1>7
  <2>3. Len(connectors) + Cardinality(ScannerOpeners') <= Cardinality(Calls)
    BY <1>1, <2>1, <2>2, CallsAssumption, ScannerFits DEF ScannerConnectorsFit
  <2> QED
    BY <1>5, <2>3 DEF ScannerConnectorsFit
<1> QED
  BY <1>8, <1>9, <1>10 DEF ScannerInv

LEMMA ScannerWriteUserStep ==
    ASSUME ScannerInv, NEW s \in Calls, Scanner!WriteUser(s)
    PROVE  ScannerInv'
<1> DEFINE m == scan[s].now[1]
           says == scan[s].now[2]
           i == scan[s].found
           others == scan[s].left \ {scan[s].now}
           pc == IF others # {} THEN "find" ELSE IF source.kind = "google" THEN "oauth"
                 ELSE "connector"
           r == [scan[s] EXCEPT !.pc = pc, !.left = others, !.now = Scanner!NoMember, !.found = 0]
           some == IF i = 0 THEN Append(rows[m], says) ELSE [rows[m] EXCEPT ![i] = says]
<1>1. ScannerShape /\ ScannerRowsFit /\ ScannerConnectorsFit /\ scan[s] \in ScannerScan /\ scan[s].pc = "write"
      /\ scan[s].now \in ScannerPairs
  BY DEF ScannerInv, ScannerShape, Scanner!WriteUser
<1>2. m \in Members /\ says \in Scanner!Says /\ i \in Nat /\ rows[m] \in Seq(Scanner!Says)
  BY <1>1 DEF ScannerShape, ScannerScan, ScannerPairs
<1>3. r \in ScannerScan /\ r.pc = pc /\ pc \in {"find", "oauth", "connector"}
  BY <1>1 DEF ScannerScan, ScannerSteps
<1>4. scan' = [scan EXCEPT ![s] = r] /\ rows' = [rows EXCEPT ![m] = some]
      /\ UNCHANGED <<source, apps, connectors, changes>>
  BY DEF Scanner!WriteUser
<1>5. /\ some \in Seq(Scanner!Says)
      /\ IF i = 0 THEN Len(some) = Len(rows[m]) + 1 ELSE Len(some) = Len(rows[m])
  <2>1. CASE i = 0
    BY <1>2, <2>1, AppendProperties
  <2>2. CASE i # 0
    BY <1>2, <2>2, ScannerChangedSeq
  <2> QED
    BY <2>1, <2>2
<1>6. i = 0 => s \in ScannerCreators(m)
  BY <1>1 DEF ScannerCreators, ScannerCreatesIn
<1> HIDE DEF r, some, pc, others, says
<1>7. (\A n : ~ScannerCreatesIn(r, n)) /\ ~ScannerOpensIn(r)
  BY <1>3 DEF ScannerCreatesIn, ScannerOpensIn
<1>8. /\ scan' \in [Calls -> ScannerScan]
      /\ \A t \in Calls : scan'[t].pc = "write" => scan'[t].now \in ScannerPairs
      /\ \A n : ScannerCreators(n)' \subseteq ScannerCreators(n) \ {s}
      /\ ScannerOpeners' \subseteq ScannerOpeners
  BY <1>1, <1>3, <1>4, <1>7, ScannerScanStep
<1> HIDE DEF m, i
<1>9. rows' \in [Members -> Seq(Scanner!Says)] /\ rows'[m] = some
      /\ \A n \in Members : n # m => rows'[n] = rows[n]
  BY <1>1, <1>2, <1>4, <1>5 DEF ScannerShape
<1>10. ScannerShape'
  BY <1>1, <1>4, <1>8, <1>9 DEF ScannerShape
<1>11. ScannerRowsFit'
  <2> SUFFICES ASSUME NEW n \in Members
               PROVE  Len(rows'[n]) + Cardinality(ScannerCreators(n)') <= Cardinality(Calls)
    BY DEF ScannerRowsFit
  <2>1. Len(rows[n]) \in Nat /\ Len(rows'[n]) \in Nat
    BY <1>1, <1>9, LenProperties DEF ScannerShape
  <2>2. ScannerCreators(n) \subseteq Calls /\ ScannerCreators(n)' \subseteq Calls
    BY DEF ScannerCreators
  <2>3. Len(rows[n]) + Cardinality(ScannerCreators(n)) <= Cardinality(Calls)
    BY <1>1 DEF ScannerRowsFit
  <2>4. \/ Len(rows'[n]) = Len(rows[n])
        \/ Len(rows'[n]) = Len(rows[n]) + 1 /\ s \in ScannerCreators(n)
    BY <1>5, <1>6, <1>9
  <2> QED
    BY <1>8, <2>1, <2>2, <2>3, <2>4, CallsAssumption, ScannerFits
<1>12. ScannerConnectorsFit'
  <2>1. Len(connectors) \in Nat
    BY <1>1, LenProperties DEF ScannerShape
  <2>2. ScannerOpeners \subseteq Calls /\ ScannerOpeners' \subseteq Calls
    BY DEF ScannerOpeners
  <2>3. Len(connectors) + Cardinality(ScannerOpeners') <= Cardinality(Calls)
    BY <1>1, <1>8, <2>1, <2>2, CallsAssumption, ScannerFits DEF ScannerConnectorsFit
  <2> QED
    BY <1>4, <2>3 DEF ScannerConnectorsFit
<1> QED
  BY <1>10, <1>11, <1>12 DEF ScannerInv

LEMMA ScannerWriteConnectorStep ==
    ASSUME ScannerInv, NEW s \in Calls, Scanner!WriteConnector(s)
    PROVE  ScannerInv'
<1> DEFINE i == scan[s].found
           status == scan[s].status
           some == IF i = 0 THEN Append(connectors, status) ELSE [connectors EXCEPT ![i] = status]
<1>1. ScannerShape /\ ScannerRowsFit /\ ScannerConnectorsFit /\ scan[s] \in ScannerScan
        /\ scan[s].pc = "status"
  BY DEF ScannerInv, ScannerShape, Scanner!WriteConnector
<1>2. status \in Scanner!Statuses /\ i \in Nat /\ connectors \in Seq(Scanner!Statuses)
  BY <1>1 DEF ScannerShape, ScannerScan
<1>3. scan' = [scan EXCEPT ![s] = Scanner!Idle] /\ connectors' = some
      /\ UNCHANGED <<source, apps, rows, changes>>
  BY DEF Scanner!WriteConnector, Scanner!Ends
<1>4. /\ some \in Seq(Scanner!Statuses)
      /\ IF i = 0 THEN Len(some) = Len(connectors) + 1 ELSE Len(some) = Len(connectors)
  <2>1. CASE i = 0
    BY <1>2, <2>1, AppendProperties
  <2>2. CASE i # 0
    BY <1>2, <2>2, ScannerChangedSeq
  <2> QED
    BY <2>1, <2>2
<1>5. i = 0 => s \in ScannerOpeners
  BY <1>1 DEF ScannerOpeners, ScannerOpensIn
<1> HIDE DEF some, status, i
<1>6. (\A n : ~ScannerCreatesIn(Scanner!Idle, n)) /\ ~ScannerOpensIn(Scanner!Idle)
  BY ScannerIdleIs DEF ScannerCreatesIn, ScannerOpensIn
<1>7. /\ scan' \in [Calls -> ScannerScan]
      /\ \A t \in Calls : scan'[t].pc = "write" => scan'[t].now \in ScannerPairs
      /\ \A n : ScannerCreators(n)' \subseteq ScannerCreators(n)
      /\ ScannerOpeners' \subseteq ScannerOpeners \ {s}
  BY <1>1, <1>3, <1>6, ScannerIdleIs, ScannerScanStep
<1>8. ScannerShape'
  BY <1>1, <1>3, <1>4, <1>7 DEF ScannerShape
<1>9. ScannerRowsFit'
  <2> SUFFICES ASSUME NEW n \in Members
               PROVE  Len(rows[n]) + Cardinality(ScannerCreators(n)') <= Cardinality(Calls)
    BY <1>3 DEF ScannerRowsFit
  <2>1. Len(rows[n]) \in Nat
    BY <1>1, LenProperties DEF ScannerShape
  <2>2. ScannerCreators(n) \subseteq Calls /\ ScannerCreators(n)' \subseteq Calls
    BY DEF ScannerCreators
  <2>3. Len(rows[n]) + Cardinality(ScannerCreators(n)) <= Cardinality(Calls)
    BY <1>1 DEF ScannerRowsFit
  <2> QED
    BY <1>7, <2>1, <2>2, <2>3, CallsAssumption, ScannerFits
<1>10. ScannerConnectorsFit'
  <2>1. Len(connectors) \in Nat /\ Len(connectors') \in Nat
    BY <1>2, <1>3, <1>4, LenProperties
  <2>2. ScannerOpeners \subseteq Calls /\ ScannerOpeners' \subseteq Calls
    BY DEF ScannerOpeners
  <2>3. \/ Len(connectors') = Len(connectors)
        \/ Len(connectors') = Len(connectors) + 1 /\ s \in ScannerOpeners
    BY <1>3, <1>4, <1>5
  <2>4. Len(connectors') + Cardinality(ScannerOpeners') <= Cardinality(Calls)
    BY <1>1, <1>7, <2>1, <2>2, <2>3, CallsAssumption, ScannerFits DEF ScannerConnectorsFit
  <2> QED
    BY <2>4 DEF ScannerConnectorsFit
<1> QED
  BY <1>8, <1>9, <1>10 DEF ScannerInv

LEMMA ScannerOtherSteps ==
    ASSUME ScannerInv, NEW s \in Calls,
           \/ Scanner!Fetch(s) \/ Scanner!FetchFails(s) \/ Scanner!UpsertApp(s) \/ Scanner!UpsertOAuthApps(s) \/ Scanner!WriteFails(s)
    PROVE  ScannerInv'
<1>1. ScannerShape /\ scan[s] \in ScannerScan /\ apps \subseteq {"own", "shadow"}
  BY DEF ScannerInv, ScannerShape
<1> DEFINE error == [Scanner!Idle EXCEPT !.pc = "connector", !.status = "error"]
<1>2. error \in ScannerScan /\ error.pc = "connector"
  BY ScannerIdleIs
<1>3. CASE Scanner!Fetch(s)
  <2>1. PICK adminsKnown \in {TRUE} \cup IF source.kind \in {"microsoft", "github"} THEN {FALSE} ELSE {} :
            scan' = [scan EXCEPT ![s] = [Scanner!Idle EXCEPT !.pc = "app",
                !.left = {<<m, Scanner!Listed(m, adminsKnown)>> :
                              m \in {n \in Members : Scanner!Listed(n, adminsKnown) # Scanner!Away}}]]
    BY <1>3 DEF Scanner!Fetch
  <2> DEFINE present == {n \in Members : Scanner!Listed(n, adminsKnown) # Scanner!Away}
             others == {<<m, Scanner!Listed(m, adminsKnown)>> : m \in present}
             r == [Scanner!Idle EXCEPT !.pc = "app", !.left = others]
  <2>2. source.of \in [Members -> Scanner!Says \cup {Scanner!Away}]
    BY <1>1 DEF ScannerShape
  <2>3. \A m \in Members : Scanner!Listed(m, adminsKnown) # Scanner!Away =>
          Scanner!Listed(m, adminsKnown) \in Scanner!Says
    BY <2>2 DEF Scanner!Listed, Scanner!Says
  <2>4. others \in SUBSET ScannerPairs
    BY <2>3 DEF ScannerPairs
  <2> HIDE DEF others
  <2>5. r \in ScannerScan /\ r.pc = "app"
    BY <2>4, ScannerIdleIs DEF ScannerScan, ScannerSteps
  <2>6. scan' = [scan EXCEPT ![s] = r]
          /\ UNCHANGED <<source, apps, rows, connectors, changes>>
    BY <1>3, <2>1 DEF Scanner!Fetch, others
  <2> HIDE DEF r
  <2> QED
    BY <1>1, <2>5, <2>6, ScannerElsewhere
<1>4. CASE Scanner!FetchFails(s)
  <2>1. scan' = [scan EXCEPT ![s] = error]
          /\ UNCHANGED <<source, apps, rows, connectors, changes>>
    BY <1>4 DEF Scanner!FetchFails, Scanner!Caught
  <2> HIDE DEF error
  <2> QED
    BY <1>1, <1>2, <2>1, ScannerElsewhere
<1>5. CASE Scanner!UpsertApp(s)
  <2> DEFINE r == [scan[s] EXCEPT !.pc = "find"]
  <2>1. r \in ScannerScan /\ r.pc = "find"
    BY <1>1 DEF ScannerScan, ScannerSteps
  <2>2. scan' = [scan EXCEPT ![s] = r] /\ apps' \subseteq {"own", "shadow"}
        /\ UNCHANGED <<source, rows, connectors, changes>>
    BY <1>1, <1>5 DEF Scanner!UpsertApp, Scanner!Goto
  <2> HIDE DEF r
  <2> QED
    BY <2>1, <2>2, ScannerElsewhere
<1>6. CASE Scanner!UpsertOAuthApps(s)
  <2> DEFINE r == [scan[s] EXCEPT !.pc = "connector"]
  <2>1. r \in ScannerScan /\ r.pc = "connector"
    BY <1>1 DEF ScannerScan, ScannerSteps
  <2>2. scan' = [scan EXCEPT ![s] = r] /\ apps' \subseteq {"own", "shadow"}
        /\ UNCHANGED <<source, rows, connectors, changes>>
    BY <1>1, <1>6 DEF Scanner!UpsertOAuthApps, Scanner!Goto
  <2> HIDE DEF r
  <2> QED
    BY <2>1, <2>2, ScannerElsewhere
<1>7. CASE Scanner!WriteFails(s)
  <2>1. scan' = [scan EXCEPT ![s] = error] \/ scan' = [scan EXCEPT ![s] = Scanner!Idle]
    BY <1>7 DEF Scanner!WriteFails, Scanner!Caught, Scanner!Ends
  <2>2. UNCHANGED <<source, apps, rows, connectors, changes>>
    BY <1>7 DEF Scanner!WriteFails
  <2> HIDE DEF error
  <2>3. CASE scan' = [scan EXCEPT ![s] = error]
    BY <1>1, <1>2, <2>2, <2>3, ScannerElsewhere
  <2>4. CASE scan' = [scan EXCEPT ![s] = Scanner!Idle]
    BY <1>1, <2>2, <2>4, ScannerIdleIs, ScannerElsewhere
  <2> QED
    BY <2>1, <2>3, <2>4
<1> QED
  BY <1>3, <1>4, <1>5, <1>6, <1>7

LEMMA ScannerSameScans ==
    ASSUME ScannerInv, ScannerShape', UNCHANGED <<rows, connectors, scan>>
    PROVE  ScannerInv'
  BY DEF ScannerInv, ScannerRowsFit, ScannerConnectorsFit, ScannerCreators, ScannerOpeners

LEMMA ScannerKept == ASSUME ScannerInv, [Scanner!Next]_scannerVars PROVE ScannerInv'
<1>1. CASE UNCHANGED scannerVars
  <2>1. ScannerShape' /\ UNCHANGED <<rows, connectors, scan>>
    BY <1>1 DEF ScannerInv, ScannerShape, scannerVars
  <2> QED
    BY <2>1, ScannerSameScans
<1>2. CASE Scanner!SourceChanges
  <2>1. PICK m \in Members, says \in Scanner!Says \cup {Scanner!Away} : source' = [source EXCEPT !.of[m] = says]
    BY <1>2 DEF Scanner!SourceChanges
  <2>2. source' \in [kind : Scanner!Kinds, of : [Members -> Scanner!Says \cup {Scanner!Away}]]
    BY <2>1 DEF ScannerInv, ScannerShape
  <2>3. changes' \in 0 .. MaxChanges
    BY <1>2, BoundsAssumption DEF Scanner!SourceChanges, ScannerInv, ScannerShape
  <2>4. UNCHANGED <<apps, rows, connectors, scan>>
    BY <1>2 DEF Scanner!SourceChanges
  <2>5. ScannerShape'
    BY <2>2, <2>3, <2>4 DEF ScannerInv, ScannerShape
  <2> QED
    BY <2>4, <2>5, ScannerSameScans
<1>3. ASSUME NEW s \in Calls, Scanner!FindUser(s) PROVE ScannerInv'
  BY <1>3, ScannerFindUserStep
<1>4. ASSUME NEW s \in Calls, Scanner!WriteUser(s) PROVE ScannerInv'
  BY <1>4, ScannerWriteUserStep
<1>5. ASSUME NEW s \in Calls, Scanner!FindConnector(s) PROVE ScannerInv'
  BY <1>5, ScannerFindConnectorStep
<1>6. ASSUME NEW s \in Calls, Scanner!WriteConnector(s) PROVE ScannerInv'
  BY <1>6, ScannerWriteConnectorStep
<1> QED
  BY <1>1, <1>2, <1>3, <1>4, <1>5, <1>6, ScannerOtherSteps DEF Scanner!Next

LEMMA ScannerFewRows == ScannerInv => Scanner!TypeOK /\ Scanner!DuplicatesBounded
<1> SUFFICES ASSUME ScannerInv PROVE Scanner!TypeOK /\ Scanner!DuplicatesBounded
  OBVIOUS
<1>1. ScannerShape /\ ScannerRowsFit /\ ScannerConnectorsFit
  BY DEF ScannerInv
<1>2. Scanner!TypeOK
  BY <1>1 DEF ScannerShape, Scanner!TypeOK, ScannerScan, ScannerSteps, ScannerPairs
<1>3. \A A \in SUBSET Calls : Cardinality(A) \in Nat
  BY CallsAssumption, FS_Subset, FS_CardinalityType
<1>4. ScannerOpeners \in SUBSET Calls /\ Calls \in SUBSET Calls
      /\ \A m \in Members : ScannerCreators(m) \in SUBSET Calls
  BY DEF ScannerOpeners, ScannerCreators
<1>5. ASSUME NEW m \in Members PROVE Len(rows[m]) <= Cardinality(Calls)
  <2>1. Len(rows[m]) \in Nat /\ Cardinality(ScannerCreators(m)) \in Nat
          /\ Cardinality(Calls) \in Nat
    BY <1>1, <1>3, <1>4, LenProperties DEF ScannerShape
  <2> QED
    BY <1>1, <2>1 DEF ScannerRowsFit
<1>6. Len(connectors) <= Cardinality(Calls)
  <2>1. Len(connectors) \in Nat /\ Cardinality(ScannerOpeners) \in Nat
          /\ Cardinality(Calls) \in Nat
    BY <1>1, <1>3, <1>4, LenProperties DEF ScannerShape
  <2> QED
    BY <1>1, <2>1 DEF ScannerConnectorsFit
<1> QED
  BY <1>2, <1>5, <1>6, ScannerCardinality DEF Scanner!DuplicatesBounded

(***************************************************************************)
(* LegacyRequests: what says ACCEPTED or APPROVED was carried out          *)
(***************************************************************************)

(***************************************************************************)
(* A call that will write the answer has carried it out                    *)
(***************************************************************************)

RequestsOfInvite == {"accept", "revoke", "resend", "delete"}
RequestsWhat     == RequestsOfInvite \cup {"none", "create user", "remove user", "invite", "approve", "reject"}
RequestsPc       == {"idle", "pending", "create", "execute", "mark", "write"}
RequestsRecords  == [what : RequestsWhat, pc : RequestsPc, i : Nat]

\* What is true of a call on its own.
RequestsFits(r) ==
    /\ r \in RequestsRecords
    /\ r.what \in RequestsOfInvite => r.i \in 1 .. Len(invites)
    /\ r.what = "accept" /\ r.pc = "mark" => r.i \in admitted
    /\ r.what = "approve" => request.status # "none"
    /\ r.what = "approve" /\ r.pc = "write" /\ request.type = "ROLE_CHANGE" => applied

RequestsRequest == [type : {"none", "ROLE_CHANGE", "other"}, target : Nat,
            status : {"none", "PENDING", "APPROVED", "REJECTED"}]

RequestsTypes ==
    /\ users \in 0 .. MaxUsers /\ user \in 0 .. users
    /\ invites \in Seq(Requests!Invite) /\ Len(invites) <= MaxInvites
    /\ request \in RequestsRequest /\ request.target \in 0 .. users
    /\ call \in [Calls -> RequestsRecords]
    /\ admitted \subseteq 1 .. Len(invites)
    /\ applied \in BOOLEAN

RequestsInv == RequestsTypes /\ Requests!AnsweredWasCarriedOut /\ \A c \in Calls : RequestsFits(call[c])

LEMMA RequestsIdleNow == RequestsFits(Requests!Idle)
BY DEF RequestsFits, Requests!Idle, RequestsRecords, RequestsWhat, RequestsPc,
       RequestsOfInvite

LEMMA RequestsInitially == ASSUME Requests!Init PROVE RequestsInv
<1>1. invites \in Seq(Requests!Invite) /\ Len(invites) = 0
  BY DEF Requests!Init
<1>2. Requests!Idle \in RequestsRecords
  BY DEF Requests!Idle, RequestsRecords, RequestsWhat, RequestsPc
<1>3. call \in [Calls -> RequestsRecords] /\ \A c \in Calls : call[c] = Requests!Idle
  BY <1>2 DEF Requests!Init
<1>4. RequestsTypes
  <2>1. users = 0 /\ user = 0 /\ admitted = {} /\ applied \in BOOLEAN
    BY DEF Requests!Init, Requests!Nobody
  <2>2. request \in RequestsRequest /\ request.target = 0
    BY DEF Requests!Init, RequestsRequest
  <2> QED
    BY <1>1, <1>3, <2>1, <2>2, BoundsAssumption, BoundsAssumption DEF RequestsTypes
<1>5. Requests!AnsweredWasCarriedOut
  <2>1. DOMAIN invites = {} /\ request.status = "none"
    BY <1>1 DEF Requests!Init
  <2> QED
    BY <2>1 DEF Requests!AnsweredWasCarriedOut
<1>6. \A c \in Calls : RequestsFits(call[c])
  BY <1>3, RequestsIdleNow, Zenon
<1> QED
  BY <1>4, <1>5, <1>6 DEF RequestsInv

\* What the rows become when a call does not answer anything.
RequestsRows ==
    /\ users' \in 0 .. MaxUsers /\ user' \in 0 .. users'
    /\ users <= users' /\ users' \in Nat
    /\ invites' \in Seq(Requests!Invite) /\ Len(invites') <= MaxInvites /\ Len(invites) <= Len(invites')
    /\ admitted \subseteq admitted' /\ admitted' \subseteq 1 .. Len(invites')
    /\ applied' \in BOOLEAN /\ (applied => applied')
    /\ \A i \in 1 .. Len(invites') : invites'[i] = "ACCEPTED" => i \in admitted'

\* The rows keep what is true of the other calls.
LEMMA RequestsFitsStays ==
    ASSUME RequestsTypes, RequestsRows, NEW r, RequestsFits(r), UNCHANGED request
    PROVE  RequestsFits(r)'
<1>1. Len(invites) \in Nat /\ Len(invites') \in Nat
  BY LenProperties DEF RequestsTypes, RequestsRows
<1>2. r \in RequestsRecords /\ (r.what \in RequestsOfInvite => r.i \in 1 .. Len(invites'))
  BY <1>1 DEF RequestsFits, RequestsRows
<1>3. r.what = "accept" /\ r.pc = "mark" => r.i \in admitted'
  BY DEF RequestsFits, RequestsRows
<1>4. /\ r.what = "approve" => request'.status # "none"
      /\ r.what = "approve" /\ r.pc = "write" /\ request'.type = "ROLE_CHANGE" => applied'
  BY DEF RequestsFits, RequestsRows
<1> QED
  BY <1>2, <1>3, <1>4 DEF RequestsFits

LEMMA RequestsRowsChange ==
    ASSUME RequestsInv, RequestsRows, UNCHANGED request, NEW c \in Calls, NEW r,
           RequestsFits(r)',
           call' = [call EXCEPT ![c] = r] \/ call' = call
    PROVE  RequestsInv'
<1>1. RequestsTypes /\ Requests!AnsweredWasCarriedOut
  BY DEF RequestsInv
<1>2. r \in RequestsRecords
  BY DEF RequestsFits
<1>3. /\ call' \in [Calls -> RequestsRecords]
      /\ \A d \in Calls : call'[d] = call[d] \/ call'[d] = r
  BY <1>1, <1>2 DEF RequestsTypes
<1>4. \A d \in Calls : RequestsFits(call[d])'
  <2> SUFFICES ASSUME NEW d \in Calls PROVE RequestsFits(call[d])'
    OBVIOUS
  <2>1. CASE call'[d] = r
    BY <2>1, Zenon DEF RequestsFits
  <2>2. CASE call'[d] = call[d]
    <3> PICK q : q = call[d]
      OBVIOUS
    <3>1. RequestsFits(q)
      BY DEF RequestsInv
    <3>2. RequestsFits(q)'
      BY <1>1, <3>1, RequestsFitsStays
    <3> QED
      BY <2>2, <3>2 DEF RequestsFits
  <2> QED
    BY <1>3, <2>1, <2>2
<1>5. RequestsTypes'
  BY <1>1, <1>3 DEF RequestsTypes, RequestsRows, RequestsRequest
<1>6. Requests!AnsweredWasCarriedOut'
  <2>1. \A i \in DOMAIN invites' : invites'[i] = "ACCEPTED" => i \in admitted'
    BY DEF RequestsRows
  <2>2. request.status = "APPROVED" /\ request.type = "ROLE_CHANGE" => applied'
    BY <1>1 DEF Requests!AnsweredWasCarriedOut, RequestsRows
  <2> QED
    BY <2>1, <2>2 DEF Requests!AnsweredWasCarriedOut
<1> QED
  BY <1>4, <1>5, <1>6 DEF RequestsInv

LEMMA RequestsRowsStay == ASSUME RequestsInv, UNCHANGED <<invites, admitted, applied>>,
                         users' \in 0 .. MaxUsers, user' \in 0 .. users', users <= users'
                  PROVE  RequestsRows
<1>1. RequestsTypes /\ Requests!AnsweredWasCarriedOut
  BY DEF RequestsInv
<1>2. DOMAIN invites = 1 .. Len(invites) /\ Len(invites) \in Nat
  BY <1>1 DEF RequestsTypes
<1>3. \A i \in 1 .. Len(invites) : invites[i] = "ACCEPTED" => i \in admitted
  BY <1>1, <1>2 DEF Requests!AnsweredWasCarriedOut
<1> QED
  BY <1>1, <1>2, <1>3, BoundsAssumption DEF RequestsTypes, RequestsRows

LEMMA RequestsIdleFits == RequestsFits(Requests!Idle)'
BY DEF RequestsFits, Requests!Idle, RequestsRecords, RequestsWhat, RequestsPc,
       RequestsOfInvite

LEMMA RequestsNewUserRows ==
    ASSUME RequestsInv, Requests!NewUser
    PROVE  users' \in 0 .. MaxUsers /\ user' \in 0 .. users' /\ users <= users'
BY BoundsAssumption DEF RequestsInv, RequestsTypes, Requests!NewUser

LEMMA RequestsSameUser == ASSUME RequestsInv, UNCHANGED <<user, users>>
                  PROVE users' \in 0 .. MaxUsers /\ user' \in 0 .. users' /\ users <= users'
BY BoundsAssumption DEF RequestsInv, RequestsTypes

\* A call that starts, goes on, or ends with the rows as they are.
LEMMA RequestsOnlyCalls ==
    ASSUME RequestsInv, UNCHANGED Requests!rows, NEW c \in Calls, NEW r, RequestsFits(r),
           call' = [call EXCEPT ![c] = r]
    PROVE  RequestsInv'
<1>1. RequestsRows /\ RequestsTypes
  BY RequestsRowsStay, RequestsSameUser DEF Requests!rows, RequestsInv
<1>2. RequestsFits(r)'
  BY <1>1, RequestsFitsStays DEF Requests!rows
<1> QED
  BY <1>1, <1>2, RequestsRowsChange DEF Requests!rows

LEMMA RequestsStartFits ==
    ASSUME RequestsInv,
           NEW what \in {"create user", "remove user", "invite", "approve", "reject"} \cup RequestsOfInvite,
           NEW pc \in RequestsPc, NEW i \in Nat,
           what \in RequestsOfInvite => i \in 1 .. Len(invites),
           what = "accept" => pc # "mark",
           what = "approve" => request.status # "none" /\ pc # "write"
    PROVE  RequestsFits([what |-> what, pc |-> pc, i |-> i])
BY DEF RequestsFits, RequestsRecords, RequestsWhat

\* Starts(c, what, pc, i) with the rows as they are.
LEMMA RequestsStartStep ==
    ASSUME RequestsInv, UNCHANGED Requests!rows, NEW c \in Calls,
           NEW what \in {"create user", "remove user", "invite", "approve", "reject"} \cup RequestsOfInvite,
           NEW pc \in RequestsPc, NEW i \in Nat, Requests!Starts(c, what, pc, i),
           what \in RequestsOfInvite => i \in 1 .. Len(invites),
           what = "accept" => pc # "mark",
           what = "approve" => request.status # "none" /\ pc # "write"
    PROVE  RequestsInv'
<1> DEFINE r == [what |-> what, pc |-> pc, i |-> i]
<1>1. RequestsFits(r)
  BY RequestsStartFits
<1>2. call' = [call EXCEPT ![c] = r]
  BY DEF Requests!Starts
<1> HIDE DEF r
<1> QED
  BY <1>1, <1>2, RequestsOnlyCalls

LEMMA RequestsEndStep ==
    ASSUME RequestsInv, UNCHANGED Requests!rows, NEW c \in Calls, Requests!Ends(c)
    PROVE  RequestsInv'
BY RequestsIdleNow, RequestsOnlyCalls DEF Requests!Ends

LEMMA RequestsCreateUserStep ==
    ASSUME RequestsInv, NEW c \in Calls,
           Requests!CreateUserRead(c) \/ Requests!CreateUserWrite(c)
    PROVE  RequestsInv'
<1>1. CASE Requests!CreateUserRead(c)
  BY <1>1, RequestsStartStep DEF Requests!CreateUserRead, RequestsPc, RequestsOfInvite
<1>2. CASE Requests!CreateUserWrite(c)
  <2>1. users' \in 0 .. MaxUsers /\ user' \in 0 .. users' /\ users <= users'
    BY <1>2, RequestsNewUserRows, RequestsSameUser DEF Requests!CreateUserWrite
  <2>2. RequestsRows
    BY <1>2, <2>1, RequestsRowsStay DEF Requests!CreateUserWrite
  <2> QED
    BY <1>2, <2>2, RequestsIdleFits, RequestsRowsChange
       DEF Requests!CreateUserWrite, Requests!Ends
<1> QED
  BY <1>1, <1>2

LEMMA RequestsRemoveUserStep ==
    ASSUME RequestsInv, NEW c \in Calls,
           Requests!RemoveUserRead(c) \/ Requests!RemoveUserWrite(c)
    PROVE  RequestsInv'
<1>1. CASE Requests!RemoveUserRead(c)
  <2>1. user \in Nat
    BY DEF RequestsInv, RequestsTypes
  <2> QED
    BY <1>1, <2>1, RequestsStartStep
       DEF Requests!RemoveUserRead, RequestsPc, RequestsOfInvite
<1>2. CASE Requests!RemoveUserWrite(c)
  <2>1. users' \in 0 .. MaxUsers /\ user' \in 0 .. users' /\ users <= users'
    <3>1. users \in 0 .. MaxUsers /\ user \in 0 .. users /\ users' = users
      BY <1>2 DEF Requests!RemoveUserWrite, RequestsInv, RequestsTypes
    <3>2. user' = 0 \/ user' = user
      BY <1>2 DEF Requests!RemoveUserWrite, Requests!Nobody
    <3> QED
      BY <3>1, <3>2, BoundsAssumption
  <2>2. RequestsRows
    BY <1>2, <2>1, RequestsRowsStay DEF Requests!RemoveUserWrite
  <2> QED
    BY <1>2, <2>2, RequestsIdleFits, RequestsRowsChange
       DEF Requests!RemoveUserWrite, Requests!Ends
<1> QED
  BY <1>1, <1>2

LEMMA RequestsElementIs == ASSUME RequestsInv, NEW c \in Calls
                   PROVE  RequestsFits(call[c]) /\ call[c] \in RequestsRecords
                            /\ call \in [Calls -> RequestsRecords]
BY DEF RequestsInv, RequestsFits, RequestsTypes

\* Goto(c, pc): what a call becomes.
LEMMA RequestsGoesOn ==
    ASSUME RequestsInv, NEW c \in Calls, NEW pc \in RequestsPc, Requests!Goto(c, pc)
    PROVE  \E r \in RequestsRecords : /\ r.what = call[c].what /\ r.pc = pc /\ r.i = call[c].i
                                      /\ call' = [call EXCEPT ![c] = r]
<1> DEFINE r == [call[c] EXCEPT !.pc = pc]
<1>1. r \in RequestsRecords /\ r.what = call[c].what /\ r.pc = pc /\ r.i = call[c].i
  BY RequestsElementIs DEF RequestsRecords
<1>2. call' = [call EXCEPT ![c] = r]
  BY DEF Requests!Goto
<1> HIDE DEF r
<1> QED
  BY <1>1, <1>2

LEMMA RequestsCreateInviteReadStep ==
    ASSUME RequestsInv, NEW c \in Calls, Requests!CreateInviteRead(c)
    PROVE  RequestsInv'
<1>1. CASE Requests!Starts(c, "invite", "pending", 0)
  BY <1>1, RequestsStartStep DEF Requests!CreateInviteRead, RequestsPc, RequestsOfInvite
<1>2. CASE Requests!At(c, "invite", "pending") /\ Requests!Ends(c)
  BY <1>2, RequestsEndStep DEF Requests!CreateInviteRead
<1>3. CASE Requests!At(c, "invite", "pending") /\ Requests!Goto(c, "write")
  <2>1. PICK r \in RequestsRecords : /\ r.what = call[c].what /\ r.pc = "write" /\ r.i = call[c].i
                                     /\ call' = [call EXCEPT ![c] = r]
    BY <1>3, RequestsGoesOn DEF RequestsPc
  <2>2. RequestsFits(r)
    BY <1>3, <2>1 DEF RequestsFits, Requests!At, RequestsOfInvite
  <2> QED
    BY <2>1, <2>2, RequestsOnlyCalls DEF Requests!CreateInviteRead
<1> QED
  BY <1>1, <1>2, <1>3 DEF Requests!CreateInviteRead

LEMMA RequestsCreateInviteWriteStep ==
    ASSUME RequestsInv, NEW c \in Calls, Requests!CreateInviteWrite(c)
    PROVE  RequestsInv'
<1>1. RequestsTypes /\ Requests!AnsweredWasCarriedOut /\ "PENDING" \in Requests!Invite
  BY DEF RequestsInv, Requests!Invite
<1>2. Len(invites) \in Nat /\ DOMAIN invites = 1 .. Len(invites)
        /\ invites \in Seq(Requests!Invite)
  BY <1>1 DEF RequestsTypes
<1>3. /\ invites' \in Seq(Requests!Invite) /\ Len(invites') = Len(invites) + 1
      /\ \A i \in 1 .. Len(invites) : invites'[i] = invites[i]
      /\ invites'[Len(invites) + 1] = "PENDING"
  BY <1>1, <1>2, AppendProperties DEF Requests!CreateInviteWrite
<1>4. \A i \in 1 .. Len(invites') : invites'[i] = "ACCEPTED" => i \in admitted'
  <2> SUFFICES ASSUME NEW i \in 1 .. Len(invites'), invites'[i] = "ACCEPTED"
               PROVE  i \in admitted
    BY DEF Requests!CreateInviteWrite
  <2>1. i \in 1 .. Len(invites)
    BY <1>2, <1>3
  <2> QED
    BY <1>1, <1>2, <1>3, <2>1 DEF Requests!AnsweredWasCarriedOut
<1>5. users' \in 0 .. MaxUsers /\ user' \in 0 .. users' /\ users <= users'
  BY RequestsSameUser DEF Requests!CreateInviteWrite
<1>6. RequestsRows
  BY <1>1, <1>2, <1>3, <1>4, <1>5, BoundsAssumption
     DEF Requests!CreateInviteWrite, RequestsRows, RequestsTypes
<1> QED
  BY <1>6, RequestsIdleFits, RequestsRowsChange
     DEF Requests!CreateInviteWrite, Requests!Ends

LEMMA RequestsInvitesAre ==
    ASSUME RequestsInv
    PROVE  DOMAIN invites = 1 .. Len(invites) /\ Len(invites) \in Nat
BY DEF RequestsInv, RequestsTypes

LEMMA RequestsAcceptReadStep ==
    ASSUME RequestsInv, NEW c \in Calls, NEW i \in DOMAIN invites,
           Requests!AcceptRead(c, i)
    PROVE  RequestsInv'
<1>1. i \in 1 .. Len(invites) /\ i \in Nat
  BY RequestsInvitesAre
<1> QED
  BY <1>1, RequestsStartStep DEF Requests!AcceptRead, RequestsPc, RequestsOfInvite

LEMMA RequestsChangeInviteReadStep ==
    ASSUME RequestsInv, NEW c \in Calls, NEW i \in DOMAIN invites,
           Requests!ChangeInviteRead(c, i)
    PROVE  RequestsInv'
<1>1. i \in 1 .. Len(invites) /\ i \in Nat
  BY RequestsInvitesAre
<1>2. PICK what \in {"revoke", "resend", "delete"} : Requests!Starts(c, what, "write", i)
  BY DEF Requests!ChangeInviteRead
<1> QED
  BY <1>1, <1>2, RequestsStartStep
     DEF Requests!ChangeInviteRead, RequestsPc, RequestsOfInvite

LEMMA RequestsAcceptCreateStep ==
    ASSUME RequestsInv, NEW c \in Calls, Requests!AcceptCreate(c)
    PROVE  RequestsInv'
<1>1. RequestsTypes /\ Requests!AnsweredWasCarriedOut /\ RequestsFits(call[c])
        /\ call[c].what = "accept"
  BY RequestsElementIs DEF RequestsInv, Requests!AcceptCreate, Requests!At
<1>2. DOMAIN invites = 1 .. Len(invites) /\ call[c].i \in 1 .. Len(invites)
  BY <1>1, RequestsInvitesAre DEF RequestsFits, RequestsOfInvite
<1>3. CASE user # Requests!Nobody /\ Requests!Ends(c) /\ UNCHANGED <<user, users, admitted>>
  BY <1>3, RequestsEndStep DEF Requests!AcceptCreate, Requests!rows
<1>4. CASE Requests!NewUser /\ admitted' = admitted \cup {call[c].i}
             /\ Requests!Goto(c, "mark")
  <2>1. PICK r \in RequestsRecords : /\ r.what = call[c].what /\ r.pc = "mark" /\ r.i = call[c].i
                                     /\ call' = [call EXCEPT ![c] = r]
    BY <1>4, RequestsGoesOn DEF RequestsPc
  <2>2. users' \in 0 .. MaxUsers /\ user' \in 0 .. users' /\ users <= users'
    BY <1>4, RequestsNewUserRows
  <2>3. RequestsRows
    <3>1. users' \in Nat /\ Len(invites) \in Nat /\ invites' = invites /\ applied' = applied
      BY <2>2, BoundsAssumption, RequestsInvitesAre DEF Requests!AcceptCreate
    <3>2. admitted \subseteq admitted' /\ admitted' \subseteq 1 .. Len(invites)
      BY <1>1, <1>2, <1>4 DEF RequestsTypes
    <3>3. \A i \in 1 .. Len(invites) : invites[i] = "ACCEPTED" => i \in admitted'
      BY <1>1, <1>2, <3>2 DEF Requests!AnsweredWasCarriedOut
    <3> QED
      BY <1>1, <2>2, <3>1, <3>2, <3>3 DEF RequestsRows, RequestsTypes
  <2>4. RequestsFits(r)'
    BY <1>1, <1>2, <1>4, <2>1 DEF Requests!AcceptCreate, RequestsFits
  <2> QED
    BY <2>1, <2>3, <2>4, RequestsRowsChange DEF Requests!AcceptCreate
<1> QED
  BY <1>3, <1>4 DEF Requests!AcceptCreate

\* An invite whose status changes.
LEMMA RequestsInviteChanges ==
    ASSUME RequestsInv, NEW i \in 1 .. Len(invites), NEW status \in Requests!Invite,
           status = "ACCEPTED" => i \in admitted,
           invites' = [invites EXCEPT ![i] = status] \/ UNCHANGED invites,
           UNCHANGED <<user, users, admitted, applied>>
    PROVE  RequestsRows
<1>1. RequestsTypes /\ Requests!AnsweredWasCarriedOut /\ invites \in Seq(Requests!Invite)
  BY DEF RequestsInv, RequestsTypes
<1>2. Len(invites) \in Nat /\ DOMAIN invites = 1 .. Len(invites)
  BY RequestsInvitesAre
<1>3. invites' \in Seq(Requests!Invite) /\ Len(invites') = Len(invites)
  BY <1>1, ExceptSeq
<1>4. \A j \in 1 .. Len(invites) : invites'[j] = invites[j]
        \/ (j = i /\ invites'[j] = status)
  BY <1>1
<1>5. users' \in 0 .. MaxUsers /\ user' \in 0 .. users' /\ users <= users'
  BY RequestsSameUser
<1>6. \A j \in 1 .. Len(invites') : invites'[j] = "ACCEPTED" => j \in admitted
  BY <1>1, <1>2, <1>3, <1>4 DEF Requests!AnsweredWasCarriedOut
<1>7. Len(invites') <= MaxInvites /\ Len(invites) <= Len(invites')
  BY <1>1, <1>2, <1>3, BoundsAssumption DEF RequestsTypes
<1>8. /\ admitted \subseteq admitted' /\ admitted' \subseteq 1 .. Len(invites')
      /\ applied' \in BOOLEAN /\ (applied => applied')
  BY <1>1, <1>3 DEF RequestsTypes
<1>9. users' \in Nat
  BY <1>5, BoundsAssumption
<1> QED
  BY <1>3, <1>5, <1>6, <1>7, <1>8, <1>9 DEF RequestsRows

LEMMA RequestsAcceptMarkStep ==
    ASSUME RequestsInv, NEW c \in Calls, Requests!AcceptMark(c)
    PROVE  RequestsInv'
<1>1. RequestsFits(call[c]) /\ call[c].what = "accept" /\ call[c].pc = "mark"
  BY RequestsElementIs DEF Requests!AcceptMark, Requests!At
<1>2. call[c].i \in 1 .. Len(invites) /\ call[c].i \in admitted
        /\ "ACCEPTED" \in Requests!Invite
  BY <1>1 DEF RequestsFits, RequestsOfInvite, Requests!Invite
<1>3. RequestsRows
  BY <1>2, RequestsInviteChanges DEF Requests!AcceptMark, Requests!SetInvite
<1> QED
  BY <1>3, RequestsIdleFits, RequestsRowsChange DEF Requests!AcceptMark, Requests!Ends

LEMMA RequestsChangeInviteWriteStep ==
    ASSUME RequestsInv, NEW c \in Calls, Requests!ChangeInviteWrite(c)
    PROVE  RequestsInv'
<1>1. call[c].what \in RequestsOfInvite
  BY DEF Requests!ChangeInviteWrite, RequestsOfInvite
<1>2. PICK i \in 1 .. Len(invites) : i = call[c].i
  BY <1>1, RequestsElementIs DEF RequestsFits
<1>3. invites \in Seq(Requests!Invite) /\ invites[i] \in Requests!Invite
  BY ElementOfSeq DEF RequestsInv, RequestsTypes
<1>4. \E status \in (Requests!Invite \ {"ACCEPTED"}) \cup {invites[i]} :
          invites' = [invites EXCEPT ![i] = status] \/ UNCHANGED invites
  BY <1>2, <1>3 DEF Requests!ChangeInviteWrite, Requests!SetInvite, Requests!Invite
<1>5. PICK status \in (Requests!Invite \ {"ACCEPTED"}) \cup {invites[i]} :
          invites' = [invites EXCEPT ![i] = status] \/ UNCHANGED invites
  BY <1>4
<1>6. status \in Requests!Invite /\ (status = "ACCEPTED" => i \in admitted)
  BY <1>3, RequestsInvitesAre DEF RequestsInv, Requests!AnsweredWasCarriedOut
<1>7. RequestsRows
  BY <1>5, <1>6, RequestsInviteChanges DEF Requests!ChangeInviteWrite
<1> QED
  BY <1>7, RequestsIdleFits, RequestsRowsChange
     DEF Requests!ChangeInviteWrite, Requests!Ends

\* Steps that no call of a caller takes; Callers may be empty.
LEMMA RequestsRowsAlone ==
    ASSUME RequestsInv, RequestsRows, UNCHANGED call, request' \in RequestsRequest,
           request'.target \in 0 .. users',
           \/ UNCHANGED request
           \/ request.status = "none" /\ request'.status = "PENDING"
    PROVE  RequestsInv'
<1>1. RequestsTypes /\ Requests!AnsweredWasCarriedOut
  BY DEF RequestsInv
<1>2. RequestsTypes'
  BY <1>1 DEF RequestsTypes, RequestsRows
<1>3. \A d \in Calls : RequestsFits(call[d])'
  <2> SUFFICES ASSUME NEW d \in Calls PROVE RequestsFits(call[d])'
    OBVIOUS
  <2>1. RequestsFits(call[d]) /\ Len(invites) \in Nat /\ Len(invites') \in Nat
    BY RequestsInvitesAre DEF RequestsInv, RequestsRows
  <2>2. call'[d] \in RequestsRecords
          /\ (call'[d].what \in RequestsOfInvite => call'[d].i \in 1 .. Len(invites'))
    BY <2>1 DEF RequestsFits, RequestsRows
  <2>3. call'[d].what = "accept" /\ call'[d].pc = "mark" => call'[d].i \in admitted'
    BY <2>1 DEF RequestsFits, RequestsRows
  <2>4. call'[d].what = "approve" => request.status # "none" /\ UNCHANGED request
    BY <2>1 DEF RequestsFits
  <2>5. call'[d].what = "approve" /\ call'[d].pc = "write" /\ request'.type = "ROLE_CHANGE" =>
          applied'
    BY <2>1, <2>4 DEF RequestsFits, RequestsRows
  <2> QED
    BY <2>2, <2>3, <2>4, <2>5 DEF RequestsFits
<1>4. Requests!AnsweredWasCarriedOut'
  <2>1. \A i \in DOMAIN invites' : invites'[i] = "ACCEPTED" => i \in admitted'
    BY DEF RequestsRows
  <2>2. request'.status = "APPROVED" /\ request'.type = "ROLE_CHANGE" => applied'
    BY <1>1 DEF Requests!AnsweredWasCarriedOut, RequestsRows
  <2> QED
    BY <2>1, <2>2 DEF Requests!AnsweredWasCarriedOut
<1> QED
  BY <1>2, <1>3, <1>4 DEF RequestsInv

LEMMA RequestsRequestIs ==
    ASSUME RequestsInv
    PROVE  request \in RequestsRequest /\ request.target \in 0 .. users
                                    /\ users \in Nat /\ user \in 0 .. users
BY BoundsAssumption DEF RequestsInv, RequestsTypes

LEMMA RequestsInviteExpiresStep ==
    ASSUME RequestsInv, NEW i \in DOMAIN invites, Requests!InviteExpires(i)
    PROVE  RequestsInv'
<1>1. i \in 1 .. Len(invites) /\ "overdue" \in Requests!Invite
  BY RequestsInvitesAre DEF Requests!Invite
<1>2. RequestsRows
  BY <1>1, RequestsInviteChanges DEF Requests!InviteExpires
<1> QED
  BY <1>2, RequestsRowsAlone, RequestsRequestIs DEF Requests!InviteExpires

LEMMA RequestsCleanupStep == ASSUME RequestsInv, Requests!CleanupExpired PROVE RequestsInv'
<1>1. RequestsTypes /\ Requests!AnsweredWasCarriedOut /\ invites \in Seq(Requests!Invite)
  BY DEF RequestsInv, RequestsTypes
<1>2. Len(invites) \in Nat /\ DOMAIN invites = 1 .. Len(invites)
  BY RequestsInvitesAre
<1>3. invites' = [i \in 1 .. Len(invites) |-> IF invites[i] = "overdue" THEN "EXPIRED" ELSE invites[i]]
  BY <1>2 DEF Requests!CleanupExpired
<1>4. \A i \in 1 .. Len(invites) : invites[i] \in Requests!Invite
  BY <1>1, ElementOfSeq
<1>5. \A i \in 1 .. Len(invites) : invites'[i] \in Requests!Invite
        /\ (invites'[i] = invites[i] \/ invites'[i] = "EXPIRED")
  BY <1>3, <1>4 DEF Requests!Invite
<1>6. invites' \in [1 .. Len(invites) -> Requests!Invite]
  BY <1>3, <1>5
<1>7. invites' \in Seq(Requests!Invite)
  BY <1>2, <1>6, SeqDef
<1>8. Len(invites') = Len(invites)
  BY <1>2, <1>6
<1>9. \A i \in 1 .. Len(invites') : invites'[i] = "ACCEPTED" => i \in admitted
  BY <1>1, <1>2, <1>5, <1>8 DEF Requests!AnsweredWasCarriedOut
<1>10. users' \in 0 .. MaxUsers /\ user' \in 0 .. users' /\ users <= users'
  BY RequestsSameUser DEF Requests!CleanupExpired
<1>11. RequestsRows
  BY <1>1, <1>2, <1>7, <1>8, <1>9, <1>10, BoundsAssumption
     DEF RequestsRows, RequestsTypes, Requests!CleanupExpired
<1> QED
  BY <1>11, RequestsRowsAlone, RequestsRequestIs DEF Requests!CleanupExpired

LEMMA RequestsCreateRequestStep ==
    ASSUME RequestsInv, Requests!CreateRequest
    PROVE  RequestsInv'
<1>1. RequestsRows
  BY RequestsRowsStay, RequestsSameUser DEF Requests!CreateRequest
<1>2. request' \in RequestsRequest /\ request'.target \in 0 .. users'
        /\ request'.status = "PENDING"
  BY RequestsRequestIs DEF Requests!CreateRequest, RequestsRequest
<1> QED
  BY <1>1, <1>2, RequestsRowsAlone DEF Requests!CreateRequest

LEMMA RequestsRequestReadStep ==
    ASSUME RequestsInv, NEW c \in Calls, Requests!RequestRead(c)
    PROVE  RequestsInv'
<1>1. CASE Requests!Starts(c, "approve", "execute", 0)
  BY <1>1, RequestsStartStep DEF Requests!RequestRead, RequestsPc, RequestsOfInvite
<1>2. CASE Requests!Starts(c, "reject", "write", 0)
  BY <1>2, RequestsStartStep DEF Requests!RequestRead, RequestsPc, RequestsOfInvite
<1> QED
  BY <1>1, <1>2 DEF Requests!RequestRead

LEMMA RequestsExecuteApprovalStep ==
    ASSUME RequestsInv, NEW c \in Calls, Requests!ExecuteApproval(c)
    PROVE  RequestsInv'
<1>1. RequestsTypes /\ Requests!AnsweredWasCarriedOut /\ RequestsFits(call[c])
        /\ call[c].what = "approve"
  BY RequestsElementIs DEF RequestsInv, Requests!ExecuteApproval, Requests!At
<1>2. DOMAIN invites = 1 .. Len(invites) /\ Len(invites) \in Nat
  BY RequestsInvitesAre
<1>3. CASE Requests!Ends(c) /\ UNCHANGED applied
  BY <1>3, RequestsEndStep DEF Requests!ExecuteApproval, Requests!rows
<1>4. CASE Requests!Goto(c, "write") /\ applied' \in BOOLEAN /\ (applied => applied')
           /\ (request.type = "ROLE_CHANGE" => applied')
  <2>1. PICK r \in RequestsRecords : /\ r.what = call[c].what /\ r.pc = "write" /\ r.i = call[c].i
                                     /\ call' = [call EXCEPT ![c] = r]
    BY <1>4, RequestsGoesOn DEF RequestsPc
  <2>2. users' \in 0 .. MaxUsers /\ user' \in 0 .. users' /\ users <= users'
    BY RequestsSameUser DEF Requests!ExecuteApproval
  <2>3. RequestsRows
    BY <1>1, <1>2, <1>4, <2>2, BoundsAssumption
       DEF Requests!ExecuteApproval, RequestsRows, RequestsTypes,
           Requests!AnsweredWasCarriedOut
  <2>4. RequestsFits(r)'
    BY <1>1, <1>4, <2>1 DEF Requests!ExecuteApproval, RequestsFits, RequestsOfInvite
  <2> QED
    BY <2>1, <2>3, <2>4, RequestsRowsChange DEF Requests!ExecuteApproval
<1>5. applied \in BOOLEAN
  BY <1>1 DEF RequestsTypes
<1> QED
  BY <1>3, <1>4, <1>5 DEF Requests!ExecuteApproval, Requests!WriteRole

LEMMA RequestsAnswerRequestStep ==
    ASSUME RequestsInv, NEW c \in Calls, Requests!AnswerRequest(c)
    PROVE  RequestsInv'
<1>1. RequestsTypes /\ Requests!AnsweredWasCarriedOut /\ RequestsFits(call[c])
  BY RequestsElementIs DEF RequestsInv
<1>2. /\ request' \in RequestsRequest /\ request'.type = request.type /\ request'.target = request.target
      /\ request'.status # "none"
      /\ (request'.status = "APPROVED" => call[c].what = "approve" /\ call[c].pc = "write")
  BY <1>1 DEF Requests!AnswerRequest, RequestsTypes, RequestsRequest, Requests!At
<1>3. UNCHANGED <<user, users, invites, admitted, applied>>
        /\ call' = [call EXCEPT ![c] = Requests!Idle]
  BY DEF Requests!AnswerRequest, Requests!Ends
<1>4. Requests!Idle \in RequestsRecords
  BY DEF Requests!Idle, RequestsRecords, RequestsWhat, RequestsPc
<1>5. call' \in [Calls -> RequestsRecords]
        /\ \A d \in Calls : call'[d] = call[d] \/ call'[d] = Requests!Idle
  BY <1>1, <1>3, <1>4 DEF RequestsTypes
<1>6. RequestsTypes'
  BY <1>1, <1>2, <1>3, <1>5 DEF RequestsTypes
<1>7. Requests!AnsweredWasCarriedOut'
  BY <1>1, <1>2, <1>3 DEF Requests!AnsweredWasCarriedOut, RequestsFits
<1>8. \A d \in Calls : RequestsFits(call[d])'
  <2> SUFFICES ASSUME NEW d \in Calls PROVE RequestsFits(call[d])'
    OBVIOUS
  <2>1. CASE call'[d] = Requests!Idle
    BY <2>1, RequestsIdleFits DEF RequestsFits
  <2>2. CASE call'[d] = call[d]
    BY <1>2, <1>3, <2>2 DEF RequestsFits, RequestsInv
  <2> QED
    BY <1>5, <2>1, <2>2
<1> QED
  BY <1>6, <1>7, <1>8 DEF RequestsInv

LEMMA RequestsUnchangedStep == ASSUME RequestsInv, UNCHANGED requestsVars PROVE RequestsInv'
BY DEF RequestsInv, RequestsTypes, RequestsFits, Requests!AnsweredWasCarriedOut,
       requestsVars

LEMMA RequestsKept == ASSUME RequestsInv, [Requests!Next]_requestsVars PROVE RequestsInv'
<1>1. ASSUME NEW c \in Calls, Requests!CreateUserRead(c) \/ Requests!CreateUserWrite(c)
      PROVE  RequestsInv'
  BY <1>1, RequestsCreateUserStep
<1>2. ASSUME NEW c \in Calls, Requests!RemoveUserRead(c) \/ Requests!RemoveUserWrite(c)
      PROVE  RequestsInv'
  BY <1>2, RequestsRemoveUserStep
<1>3. ASSUME NEW c \in Calls, Requests!CreateInviteRead(c) PROVE RequestsInv'
  BY <1>3, RequestsCreateInviteReadStep
<1>4. ASSUME NEW c \in Calls, Requests!CreateInviteWrite(c) PROVE RequestsInv'
  BY <1>4, RequestsCreateInviteWriteStep
<1>5. ASSUME NEW c \in Calls, Requests!AcceptCreate(c) PROVE RequestsInv'
  BY <1>5, RequestsAcceptCreateStep
<1>6. ASSUME NEW c \in Calls, Requests!AcceptMark(c) PROVE RequestsInv'
  BY <1>6, RequestsAcceptMarkStep
<1>7. ASSUME NEW c \in Calls, Requests!ChangeInviteWrite(c) PROVE RequestsInv'
  BY <1>7, RequestsChangeInviteWriteStep
<1>8. ASSUME NEW c \in Calls, Requests!RequestRead(c) PROVE RequestsInv'
  BY <1>8, RequestsRequestReadStep
<1>9. ASSUME NEW c \in Calls, Requests!ExecuteApproval(c) PROVE RequestsInv'
  BY <1>9, RequestsExecuteApprovalStep
<1>10. ASSUME NEW c \in Calls, Requests!AnswerRequest(c) PROVE RequestsInv'
  BY <1>10, RequestsAnswerRequestStep
<1>11. ASSUME NEW c \in Calls, Requests!CallFails(c) PROVE RequestsInv'
  BY <1>11, RequestsEndStep DEF Requests!CallFails
<1>12. ASSUME NEW c \in Calls, NEW i \in DOMAIN invites, Requests!AcceptRead(c, i)
       PROVE  RequestsInv'
  BY <1>12, RequestsAcceptReadStep
<1>13. ASSUME NEW c \in Calls, NEW i \in DOMAIN invites, Requests!ChangeInviteRead(c, i)
       PROVE  RequestsInv'
  BY <1>13, RequestsChangeInviteReadStep
<1>14. ASSUME NEW i \in DOMAIN invites, Requests!InviteExpires(i) PROVE RequestsInv'
  BY <1>14, RequestsInviteExpiresStep
<1> QED
  BY <1>1, <1>2, <1>3, <1>4, <1>5, <1>6, <1>7, <1>8, <1>9, <1>10, <1>11, <1>12, <1>13,
     <1>14, RequestsCleanupStep, RequestsCreateRequestStep, RequestsUnchangedStep, Zenon
     DEF Requests!Next

LEMMA RequestsCarriedOut ==
    ASSUME RequestsInv
    PROVE  Requests!TypeOK /\ Requests!AnsweredWasCarriedOut
<1>1. RequestsTypes /\ Requests!AnsweredWasCarriedOut
        /\ \A c \in Calls : call[c] \in RequestsRecords
  BY DEF RequestsInv, RequestsFits
<1>2. DOMAIN invites = 1 .. Len(invites)
  BY <1>1 DEF RequestsTypes
<1> QED
  BY <1>1, <1>2
     DEF Requests!TypeOK, RequestsTypes, RequestsRequest, RequestsRecords, RequestsPc

(***************************************************************************)
(* Settings: what a save set stays, and a rotation leaves a live key       *)
(***************************************************************************)

(***************************************************************************)
(* A save that has read the row has what is owed; and a name whose keys    *)
(* are all revoked has a rotation between its two writes                   *)
(***************************************************************************)

SettingValues(s) == [Setting!Fields -> 0 .. s]
SettingLists(n)  == {q \in Seq(BOOLEAN) : Len(q) <= n}
SettingKey       == [name : Nat, active : BOOLEAN]

\* What a call may be, once s saves began and there are n keys.  Only other
\* clients save, and all they send is of the save.
SettingRecords(s, n) ==
    {Setting!Idle} \cup [pc : {"load"}, by : {"page"}]
    \cup [pc : {"loaded"}, by : {"page"}, row : SettingValues(s), keys : SettingLists(n)]
    \cup [pc : {"refused"}, by : {"page"}, op : {"save", "create", "rotate", "revoke"}]
    \cup [pc : {"sent", "done"}, by : {"page", "client"}, op : {"create", "revoke"}, key : 1 .. n]
    \cup [pc : {"sent", "found", "revoked", "done"}, by : {"page"}, op : {"rotate"}, key : 1 .. n]
    \cup {r \in [pc : {"sent"}, by : {"client"}, op : {"save"}, set : SUBSET Setting!Fields,
                 data : SettingValues(s), save : 0 .. s] : \A f \in Setting!Fields : r.data[f] = r.save}
    \cup {r \in [pc : {"found", "done"}, by : {"client"}, op : {"save"}, set : SUBSET Setting!Fields,
                 data : SettingValues(s), save : 0 .. s, row : SettingValues(s)] :
              \A f \in Setting!Fields : r.data[f] = r.save}
    \cup [pc : {"listed"}, by : {"page"}, op : {"create", "rotate", "revoke"}, keys : SettingLists(n)]

SettingTypes ==
    /\ pane \in {"notifications", "api"}
    /\ row \in SettingValues(saves) /\ form \in SettingValues(saves) /\ due \in SettingValues(saves)
    /\ keys \in Seq(SettingKey) /\ Len(keys) \in 1 .. MaxKeys
    /\ \A k \in 1 .. Len(keys) : keys[k].name \in 1 .. k
    /\ listed \in SettingLists(Len(keys))
    /\ saves \in 1 .. MaxSaves /\ ended \subseteq Setting!Names
    /\ fetching \in BOOLEAN /\ storing \in BOOLEAN
    /\ query \in [Calls -> SettingRecords(saves, Len(keys))]

SettingLoads(r) == r.pc \in {"load", "loaded"}
SettingSaves(r) == r.pc = "refused" /\ r.op = "save"
SettingMerges(r) == r.pc = "found" /\ r.op = "save"

SettingWaits ==
    /\ fetching => \E c \in Calls : SettingLoads(query[c])
    /\ storing => \E c \in Calls : SettingSaves(query[c])

SettingSaved ==
    \A f \in Setting!Fields :
        row[f] >= due[f] /\ \A c \in Calls : SettingMerges(query[c]) => query[c].row[f] >= due[f]

SettingBetween(c, n) == query[c].pc = "revoked" /\ keys[query[c].key].name = n

SettingHasKey(n) == n \in ended \/ Setting!Live(n) # {} \/ \E c \in Calls : SettingBetween(c, n)

SettingKeyed == \A k \in 1 .. Len(keys) : SettingHasKey(keys[k].name)

SettingInv == SettingTypes /\ SettingWaits /\ SettingSaved /\ SettingKeyed

LEMMA SettingIdleIs ==
    Setting!Idle.pc = "idle" /\ ~SettingLoads(Setting!Idle) /\ ~SettingSaves(Setting!Idle) /\ ~SettingMerges(Setting!Idle)
    /\ \A s, n : Setting!Idle \in SettingRecords(s, n)
  BY DEF Setting!Idle, SettingRecords, SettingLoads, SettingSaves, SettingMerges

LEMMA SettingRecordIs ==
    ASSUME NEW s, NEW n, NEW r \in SettingRecords(s, n)
    PROVE  /\ r.pc \in {"idle", "load", "loaded", "sent", "refused", "found", "revoked", "done",
                        "listed"}
           /\ r.pc = "loaded" => r.row \in SettingValues(s) /\ r.keys \in SettingLists(n)
           /\ r.pc = "listed" => r.keys \in SettingLists(n)
           /\ r.pc = "refused" => r.by = "page" /\ r.op \in {"save", "create", "rotate", "revoke"}
           /\ r.pc \in {"sent", "found", "revoked", "done"} =>
                 /\ r.op \in {"save", "create", "rotate", "revoke"} /\ r.by \in {"page", "client"}
                 /\ r.op = "save" => r.by = "client"
                 /\ r.op # "save" => r.key \in 1 .. n
           /\ r.pc = "found" => r.op \in {"save", "rotate"}
           /\ r.pc = "revoked" => r.op = "rotate"
           /\ r.pc \in {"sent", "found"} /\ r.op = "save" =>
                 /\ r.set \in SUBSET Setting!Fields /\ r.data \in SettingValues(s) /\ r.save \in 0 .. s
                 /\ \A f \in Setting!Fields : r.data[f] = r.save
           /\ SettingMerges(r) => r.row \in SettingValues(s)
  BY DEF SettingRecords, Setting!Idle, SettingMerges

LEMMA SettingListsGrow ==
    ASSUME NEW s \in Nat, NEW t \in Nat, s <= t, NEW n \in Nat, NEW m \in Nat, n <= m
    PROVE  SettingValues(s) \subseteq SettingValues(t) /\ SettingLists(n) \subseteq SettingLists(m) /\ 1 .. n \subseteq 1 .. m
           /\ 0 .. s \subseteq 0 .. t
<1>1. 0 .. s \subseteq 0 .. t /\ 1 .. n \subseteq 1 .. m
  OBVIOUS
<1>2. ASSUME NEW q \in SettingLists(n) PROVE q \in SettingLists(m)
  <2>1. Len(q) \in Nat
    BY LenProperties DEF SettingLists
  <2> QED
    BY <2>1 DEF SettingLists
<1>3. SettingValues(s) \subseteq SettingValues(t)
  BY <1>1 DEF SettingValues
<1> QED
  BY <1>1, <1>2, <1>3

LEMMA SettingRecordsGrow ==
    ASSUME NEW s \in Nat, NEW t \in Nat, s <= t, NEW n \in Nat, NEW m \in Nat, n <= m
    PROVE  SettingRecords(s, n) \subseteq SettingRecords(t, m)
<1>1. SettingValues(s) \subseteq SettingValues(t) /\ SettingLists(n) \subseteq SettingLists(m) /\ 1 .. n \subseteq 1 .. m
      /\ 0 .. s \subseteq 0 .. t
  BY SettingListsGrow
<1> SUFFICES ASSUME NEW r \in SettingRecords(s, n) PROVE r \in SettingRecords(t, m)
  OBVIOUS
<1> QED
  BY <1>1 DEF SettingRecords

LEMMA SettingStillWaits ==
    ASSUME SettingWaits, NEW c \in Calls, NEW r, query'[c] = r,
           \A d \in Calls : d # c => query'[d] = query[d],
           fetching' => SettingLoads(r) \/ (fetching /\ ~SettingLoads(query[c])),
           storing' => SettingSaves(r) \/ (storing /\ ~SettingSaves(query[c]))
    PROVE  SettingWaits'
<1>1. fetching' => \E d \in Calls : SettingLoads(query'[d])
  BY DEF SettingWaits
<1>2. storing' => \E d \in Calls : SettingSaves(query'[d])
  BY DEF SettingWaits
<1> QED
  BY <1>1, <1>2 DEF SettingWaits, SettingLoads, SettingSaves

\* A step of one call that leaves the keys alone.
LEMMA SettingElsewhere ==
    ASSUME SettingInv, NEW c \in Calls, NEW r \in SettingRecords(saves', Len(keys)),
           query' = [query EXCEPT ![c] = r], UNCHANGED <<pane, keys>>,
           saves' \in 1 .. MaxSaves, saves <= saves',
           row' \in SettingValues(saves'), form' \in SettingValues(saves'), due' \in SettingValues(saves'),
           listed' \in SettingLists(Len(keys)), ended' \subseteq Setting!Names, ended \subseteq ended',
           fetching' \in BOOLEAN, storing' \in BOOLEAN,
           fetching' => SettingLoads(r) \/ (fetching /\ ~SettingLoads(query[c])),
           storing' => SettingSaves(r) \/ (storing /\ ~SettingSaves(query[c])),
           query[c].pc = "revoked" => keys[query[c].key].name \in ended',
           \A f \in Setting!Fields : row'[f] >= due'[f] /\ (SettingMerges(r) => r.row[f] >= due'[f]),
           \A f \in Setting!Fields : \A d \in Calls : d # c /\ SettingMerges(query[d]) => query[d].row[f] >= due'[f]
    PROVE  SettingInv'
<1>1. SettingTypes /\ SettingWaits /\ SettingSaved /\ SettingKeyed
  BY DEF SettingInv
<1>2. saves \in Nat /\ saves' \in Nat /\ Len(keys) \in Nat /\ Len(keys) <= Len(keys)
  BY <1>1, BoundsAssumption, BoundsAssumption DEF SettingTypes
<1>3. SettingRecords(saves, Len(keys)) \subseteq SettingRecords(saves', Len(keys))
  BY <1>2, SettingRecordsGrow
<1>4. query' \in [Calls -> SettingRecords(saves', Len(keys))] /\ query'[c] = r
      /\ \A d \in Calls : d # c => query'[d] = query[d]
  BY <1>1, <1>3 DEF SettingTypes
<1>5. SettingTypes'
  BY <1>1, <1>4 DEF SettingTypes
<1>6. SettingWaits'
  BY <1>1, <1>4, SettingStillWaits
<1>7. SettingSaved'
  <2> SUFFICES ASSUME NEW f \in Setting!Fields
               PROVE  row'[f] >= due'[f]
                      /\ \A d \in Calls : SettingMerges(query'[d]) => query'[d].row[f] >= due'[f]
    BY DEF SettingSaved, SettingMerges
  <2> QED
    BY <1>4
<1>8. SettingKeyed'
  <2> SUFFICES ASSUME NEW k \in 1 .. Len(keys) PROVE SettingHasKey(keys[k].name)'
    BY DEF SettingKeyed
  <2> DEFINE n == keys[k].name
  <2>1. SettingHasKey(n)
    BY <1>1 DEF SettingKeyed
  <2>2. CASE n \in ended \/ Setting!Live(n) # {}
    BY <2>2 DEF SettingHasKey, Setting!Live
  <2>3. ASSUME NEW d \in Calls, SettingBetween(d, n) PROVE SettingHasKey(n)'
    <3>1. CASE d = c
      BY <2>3, <3>1 DEF SettingBetween, SettingHasKey
    <3>2. CASE d # c
      BY <1>4, <2>3, <3>2 DEF SettingBetween, SettingHasKey
    <3> QED
      BY <3>1, <3>2
  <2> QED
    BY <2>1, <2>2, <2>3 DEF SettingHasKey
<1> QED
  BY <1>5, <1>6, <1>7, <1>8 DEF SettingInv

\* The numbers that the steps below share.
LEMMA SettingSizes ==
    ASSUME SettingInv
    PROVE  /\ saves \in Nat /\ saves \in 1 .. MaxSaves /\ Len(keys) \in Nat
           /\ row \in SettingValues(saves) /\ form \in SettingValues(saves) /\ due \in SettingValues(saves)
           /\ listed \in SettingLists(Len(keys)) /\ ended \subseteq Setting!Names
           /\ fetching \in BOOLEAN /\ storing \in BOOLEAN
           /\ \A c \in Calls : query[c] \in SettingRecords(saves, Len(keys))
           /\ \A f \in Setting!Fields : row[f] >= due[f]
           /\ \A f \in Setting!Fields : \A c \in Calls : SettingMerges(query[c]) => query[c].row[f] >= due[f]
  BY BoundsAssumption, BoundsAssumption DEF SettingInv, SettingTypes, SettingSaved

\* A step of one call that writes no row: the page's, a client's, a refusal.
LEMMA SettingAtThePage ==
    ASSUME SettingInv, NEW c \in Calls, NEW r \in SettingRecords(saves, Len(keys)),
           query' = [query EXCEPT ![c] = r], UNCHANGED <<pane, row, keys, saves, due>>,
           form' \in SettingValues(saves), listed' \in SettingLists(Len(keys)),
           ended' \subseteq Setting!Names, ended \subseteq ended',
           fetching' \in BOOLEAN, storing' \in BOOLEAN,
           fetching' => SettingLoads(r) \/ (fetching /\ ~SettingLoads(query[c])),
           storing' => SettingSaves(r) \/ (storing /\ ~SettingSaves(query[c])),
           query[c].pc = "revoked" => keys[query[c].key].name \in ended', ~SettingMerges(r)
    PROVE  SettingInv'
<1>1. \A f \in Setting!Fields : row'[f] >= due'[f]
  BY SettingSizes
<1>2. \A f \in Setting!Fields : \A d \in Calls : d # c /\ SettingMerges(query[d]) =>
        query[d].row[f] >= due'[f]
  BY SettingSizes
<1>3. saves <= saves'
  BY SettingSizes
<1>4. r \in SettingRecords(saves', Len(keys)) /\ saves' \in 1 .. MaxSaves /\ row' \in SettingValues(saves')
      /\ form' \in SettingValues(saves') /\ due' \in SettingValues(saves')
  BY SettingSizes
<1> QED
  BY <1>1, <1>2, <1>3, <1>4, SettingElsewhere

LEMMA SettingInitially == Setting!Init => SettingInv
<1> SUFFICES ASSUME Setting!Init PROVE SettingInv
  OBVIOUS
<1>1. saves = 1 /\ saves \in 1 .. MaxSaves /\ 0 \in 0 .. saves /\ 1 \in 0 .. saves
  BY BoundsAssumption DEF Setting!Init
<1>2. Setting!Defaults \in SettingValues(saves)
        /\ [f \in Setting!Fields |-> 1] \in SettingValues(saves)
  BY <1>1 DEF Setting!Defaults, SettingValues
<1>3. row \in SettingValues(saves) /\ form = Setting!Defaults /\ due = Setting!Defaults
  BY <1>2 DEF Setting!Init
<1> DEFINE key == [name |-> 1, active |-> TRUE]
<1>4. keys \in Seq(SettingKey) /\ Len(keys) = 1 /\ keys[1] = key /\ key \in SettingKey
  BY DEF Setting!Init, SettingKey
<1>5. Len(keys) \in 1 .. MaxKeys /\ \A k \in 1 .. Len(keys) : k = 1
        /\ keys[k].name \in 1 .. k
  BY <1>4, BoundsAssumption
<1>6. listed \in SettingLists(Len(keys))
  BY <1>4, EmptySeq DEF Setting!Init, SettingLists
<1> DEFINE load == [pc |-> "load", by |-> "page"]
<1>7. PICK c \in Calls : query = [d \in Calls |-> IF d = c THEN load ELSE Setting!Idle]
  BY DEF Setting!Init
<1>8. load \in SettingRecords(saves, Len(keys)) /\ SettingLoads(load)
        /\ ~SettingMerges(load)
  BY DEF SettingRecords, SettingLoads, SettingMerges
<1> HIDE DEF load, key
<1>9. query \in [Calls -> SettingRecords(saves, Len(keys))] /\ SettingLoads(query[c])
      /\ \A d \in Calls : ~SettingMerges(query[d])
  BY <1>7, <1>8, SettingIdleIs
<1>10. SettingTypes
  BY <1>1, <1>2, <1>3, <1>4, <1>5, <1>6, <1>9 DEF Setting!Init, SettingTypes
<1>11. SettingWaits
  BY <1>9 DEF Setting!Init, SettingWaits
<1>12. SettingSaved
  BY <1>3, <1>9, <1>1 DEF SettingSaved, Setting!Defaults, SettingValues
<1>13. SettingKeyed
  <2>1. 1 \in Setting!Live(1)
    BY <1>4 DEF Setting!Live, key
  <2> QED
    BY <1>4, <1>5, <2>1 DEF SettingKeyed, SettingHasKey, key
<1> QED
  BY <1>10, <1>11, <1>12, <1>13 DEF SettingInv

LEMMA SettingActiveOf ==
    ASSUME SettingTypes
    PROVE  Setting!AllActive(keys) \in SettingLists(Len(keys))
<1>1. Setting!AllActive(keys) \in [1 .. Len(keys) -> BOOLEAN] /\ Len(keys) \in Nat
  <2>1. \A k \in 1 .. Len(keys) : keys[k] \in SettingKey
    BY ElementOfSeq DEF SettingTypes
  <2> QED
    BY <2>1, LenProperties DEF SettingTypes, Setting!AllActive, SettingKey
<1>2. Setting!AllActive(keys) \in Seq(BOOLEAN)
  BY <1>1, IsASeq
<1>3. Len(Setting!AllActive(keys)) = Len(keys)
  BY <1>1, <1>2, LenProperties
<1> QED
  BY <1>1, <1>2, <1>3 DEF SettingLists

LEMMA SettingLoadSteps ==
    ASSUME SettingInv, NEW c \in Calls,
           Setting!LoadAgain(c) \/ Setting!LoadReads(c) \/ Setting!LoadEnds(c)
    PROVE  SettingInv'
<1>1. SettingTypes /\ query[c] \in SettingRecords(saves, Len(keys))
  BY SettingSizes DEF SettingInv
<1>2. CASE Setting!LoadAgain(c)
  <2> DEFINE r == [pc |-> "load", by |-> "page"]
  <2>1. r \in SettingRecords(saves, Len(keys)) /\ SettingLoads(r) /\ ~SettingMerges(r)
    BY DEF SettingRecords, SettingLoads, SettingMerges
  <2>2. query' = [query EXCEPT ![c] = r] /\ fetching' = TRUE /\ query[c].pc # "revoked"
        /\ ~SettingSaves(query[c]) /\ UNCHANGED <<Setting!Rows, form, listed, storing, Setting!Past>>
    BY <1>2, SettingIdleIs DEF Setting!LoadAgain
  <2> HIDE DEF r
  <2> QED
    BY <2>1, <2>2, SettingSizes, SettingAtThePage DEF Setting!Rows, Setting!Past
<1>3. CASE Setting!LoadReads(c)
  <2> DEFINE r == [pc |-> "loaded", by |-> "page", row |-> row, keys |-> Setting!AllActive(keys)]
  <2>1. r \in SettingRecords(saves, Len(keys)) /\ SettingLoads(r) /\ ~SettingMerges(r)
    BY <1>1, SettingActiveOf, SettingSizes DEF SettingRecords, SettingLoads, SettingMerges
  <2>2. query' = [query EXCEPT ![c] = r] /\ query[c].pc # "revoked" /\ ~SettingSaves(query[c])
        /\ UNCHANGED <<Setting!Rows, Setting!Page, Setting!Past>>
    BY <1>3 DEF Setting!LoadReads, SettingSaves
  <2> HIDE DEF r
  <2> QED
    BY <2>1, <2>2, SettingSizes, SettingAtThePage
       DEF Setting!Rows, Setting!Page, Setting!Past
<1>4. CASE Setting!LoadEnds(c)
  <2>1. query' = [query EXCEPT ![c] = Setting!Idle] /\ query[c].pc # "revoked" /\ ~SettingSaves(query[c])
        /\ ~fetching' /\ fetching' \in BOOLEAN /\ UNCHANGED <<Setting!Rows, storing, Setting!Past>>
    BY <1>4 DEF Setting!LoadEnds, SettingSaves
  <2>2. form' \in SettingValues(saves) /\ listed' \in SettingLists(Len(keys))
    BY <1>1, <1>4, SettingRecordIs, SettingSizes DEF Setting!LoadEnds
  <2> QED
    BY <2>1, <2>2, SettingIdleIs, SettingSizes, SettingAtThePage
       DEF Setting!Rows, Setting!Past
<1> QED
  BY <1>2, <1>3, <1>4

LEMMA SettingPageSendsStep ==
    ASSUME SettingInv, NEW c \in Calls, NEW op \in {"save", "create", "rotate", "revoke"},
           NEW key \in 1 .. Len(keys), Setting!PageSends(c, op, key)
    PROVE  SettingInv'
<1>1. query[c] = Setting!Idle /\ UNCHANGED <<Setting!Rows, form, listed, fetching, due, ended>>
      /\ storing' = (storing \/ op = "save")
  BY DEF Setting!PageSends
<1>2. ~SettingLoads(query[c]) /\ ~SettingSaves(query[c]) /\ query[c].pc # "revoked"
  BY <1>1, SettingIdleIs
<1>3. CASE op \in {"save", "revoke"}
  <2>1. Setting!PageAsks(op) \notin Setting!Routes
    BY <1>3 DEF Setting!PageAsks, Setting!Routes
  <2> DEFINE r == [pc |-> "refused", by |-> "page", op |-> op]
  <2>2. query' = [query EXCEPT ![c] = r] /\ saves' = saves
    BY <2>1 DEF Setting!PageSends
  <2>3. r \in SettingRecords(saves, Len(keys)) /\ ~SettingMerges(r)
          /\ (op = "save" => SettingSaves(r))
    BY DEF SettingRecords, SettingMerges, SettingSaves
  <2> HIDE DEF r
  <2> QED
    BY <1>1, <1>2, <2>2, <2>3, SettingSizes, SettingAtThePage DEF Setting!Rows
<1>4. CASE op \in {"create", "rotate"}
  <2>1. Setting!PageAsks(op) \in Setting!Routes
    BY <1>4 DEF Setting!PageAsks, Setting!Routes
  <2> DEFINE r == [pc |-> "sent", by |-> "page", op |-> op, key |-> key]
  <2>2. query' = [query EXCEPT ![c] = r] /\ saves' = saves
    BY <1>4, <2>1 DEF Setting!PageSends
  <2>3. r \in SettingRecords(saves, Len(keys)) /\ ~SettingMerges(r)
    BY <1>4 DEF SettingRecords, SettingMerges
  <2> HIDE DEF r
  <2> QED
    BY <1>1, <1>2, <1>4, <2>2, <2>3, SettingSizes, SettingAtThePage DEF Setting!Rows
<1> QED
  BY <1>3, <1>4

LEMMA SettingPageSteps ==
    ASSUME SettingInv, NEW c \in Calls,
           Setting!PageFails(c) \/ Setting!PageLists(c) \/ Setting!PageShows(c) \/ Setting!PageSaved(c)
    PROVE  SettingInv'
<1>1. SettingTypes /\ query[c] \in SettingRecords(saves, Len(keys))
  BY SettingSizes DEF SettingInv
<1>2. CASE Setting!PageFails(c)
  <2>1. query' = [query EXCEPT ![c] = Setting!Idle] /\ ~SettingLoads(query[c]) /\ query[c].pc # "revoked"
        /\ storing' = (storing /\ query[c].op # "save") /\ UNCHANGED <<Setting!Rows, form, listed, fetching, Setting!Past>>
    BY <1>2 DEF Setting!PageFails, SettingLoads
  <2>2. storing' \in BOOLEAN /\ (storing' => storing /\ ~SettingSaves(query[c]))
    BY <2>1, SettingSizes DEF SettingSaves
  <2> QED
    BY <2>1, <2>2, SettingIdleIs, SettingSizes, SettingAtThePage
       DEF Setting!Rows, Setting!Past
<1>3. CASE Setting!PageLists(c)
  <2> DEFINE r == [pc |-> "listed", by |-> "page", op |-> query[c].op, keys |-> Setting!AllActive(keys)]
  <2>1. query[c].pc = "done" /\ query[c].op \in {"create", "rotate", "revoke"}
    BY <1>1, <1>3, SettingRecordIs DEF Setting!PageLists
  <2>2. r \in SettingRecords(saves, Len(keys)) /\ ~SettingMerges(r)
    BY <1>1, <2>1, SettingActiveOf DEF SettingRecords, SettingMerges
  <2>3. query' = [query EXCEPT ![c] = r] /\ ~SettingLoads(query[c]) /\ query[c].pc # "revoked"
        /\ ~SettingSaves(query[c]) /\ UNCHANGED <<Setting!Rows, Setting!Page, Setting!Past>>
    BY <1>3, <2>1 DEF Setting!PageLists, SettingLoads, SettingSaves
  <2> HIDE DEF r
  <2> QED
    BY <2>2, <2>3, SettingSizes, SettingAtThePage
       DEF Setting!Rows, Setting!Page, Setting!Past
<1>4. CASE Setting!PageShows(c)
  <2>1. query' = [query EXCEPT ![c] = Setting!Idle] /\ ~SettingLoads(query[c]) /\ query[c].pc # "revoked"
        /\ ~SettingSaves(query[c]) /\ UNCHANGED <<Setting!Rows, form, fetching, storing, Setting!Past>>
    BY <1>4 DEF Setting!PageShows, SettingLoads, SettingSaves
  <2>2. listed' \in SettingLists(Len(keys))
    BY <1>1, <1>4, SettingRecordIs DEF Setting!PageShows
  <2> QED
    BY <2>1, <2>2, SettingIdleIs, SettingSizes, SettingAtThePage
       DEF Setting!Rows, Setting!Past
<1>5. CASE Setting!PageSaved(c)
  <2>1. query' = [query EXCEPT ![c] = Setting!Idle] /\ ~SettingLoads(query[c]) /\ query[c].pc # "revoked"
        /\ ~storing' /\ storing' \in BOOLEAN /\ UNCHANGED <<Setting!Rows, form, listed, fetching, Setting!Past>>
    BY <1>5 DEF Setting!PageSaved, SettingLoads
  <2> QED
    BY <2>1, SettingIdleIs, SettingSizes, SettingAtThePage DEF Setting!Rows, Setting!Past
<1> QED
  BY <1>2, <1>3, <1>4, <1>5

LEMMA SettingClientSteps ==
    ASSUME SettingInv, NEW c \in Calls, Setting!ClientStep(c)
    PROVE  SettingInv'
<1>1. ASSUME NEW set \in SUBSET Setting!Fields, Setting!ClientSaves(c, set)
      PROVE  SettingInv'
  <2> DEFINE s == saves + 1
             r == [pc |-> "sent", by |-> "client", op |-> "save", set |-> set,
                   data |-> [f \in Setting!Fields |-> s], save |-> s]
  <2>1. query[c] = Setting!Idle /\ saves < MaxSaves /\ saves' = s /\ query' = [query EXCEPT ![c] = r]
        /\ UNCHANGED <<Setting!Rows, Setting!Page, due, ended>>
    BY <1>1 DEF Setting!ClientSaves
  <2>2. s \in 1 .. MaxSaves /\ saves <= s /\ s \in 0 .. s /\ s \in Nat
    BY <2>1, SettingSizes, BoundsAssumption
  <2>3. [f \in Setting!Fields |-> s] \in SettingValues(s)
    BY <2>2 DEF SettingValues
  <2>4. r \in SettingRecords(s, Len(keys)) /\ ~SettingMerges(r)
    BY <2>2, <2>3 DEF SettingRecords, SettingMerges
  <2>5. SettingValues(saves) \subseteq SettingValues(s)
    BY <2>2, SettingSizes, SettingListsGrow
  <2> HIDE DEF r, s
  <2>6. ~SettingLoads(query[c]) /\ ~SettingSaves(query[c]) /\ query[c].pc # "revoked"
    BY <2>1, SettingIdleIs
  <2>7. \A f \in Setting!Fields : row'[f] >= due'[f]
    BY <2>1, SettingSizes DEF Setting!Rows
  <2>8. \A f \in Setting!Fields : \A d \in Calls : d # c /\ SettingMerges(query[d]) =>
          query[d].row[f] >= due'[f]
    BY <2>1, SettingSizes
  <2>9. row' \in SettingValues(saves') /\ form' \in SettingValues(saves')
          /\ due' \in SettingValues(saves')
    BY <2>1, <2>5, SettingSizes DEF Setting!Rows, Setting!Page
  <2> QED
    BY <2>1, <2>2, <2>4, <2>6, <2>7, <2>8, <2>9, SettingSizes, SettingElsewhere
       DEF Setting!Rows, Setting!Page
<1>2. ASSUME NEW key \in 1 .. Len(keys), Setting!ClientRevokes(c, key) PROVE SettingInv'
  <2> DEFINE r == [pc |-> "sent", by |-> "client", op |-> "revoke", key |-> key]
  <2>1. r \in SettingRecords(saves, Len(keys)) /\ ~SettingMerges(r)
    BY DEF SettingRecords, SettingMerges
  <2>2. query[c] = Setting!Idle /\ query' = [query EXCEPT ![c] = r]
          /\ UNCHANGED <<Setting!Rows, Setting!Page, Setting!Past>>
    BY <1>2 DEF Setting!ClientRevokes
  <2> HIDE DEF r
  <2>3. ~SettingLoads(query[c]) /\ ~SettingSaves(query[c]) /\ query[c].pc # "revoked"
    BY <2>2, SettingIdleIs
  <2> QED
    BY <2>1, <2>2, <2>3, SettingSizes, SettingAtThePage
       DEF Setting!Rows, Setting!Page, Setting!Past
<1>3. CASE Setting!ClientEnds(c)
  <2>1. query' = [query EXCEPT ![c] = Setting!Idle] /\ ~SettingLoads(query[c]) /\ query[c].pc # "revoked"
        /\ ~SettingSaves(query[c]) /\ UNCHANGED <<Setting!Rows, Setting!Page, Setting!Past>>
    BY <1>3 DEF Setting!ClientEnds, SettingLoads, SettingSaves
  <2> QED
    BY <2>1, SettingIdleIs, SettingSizes, SettingAtThePage
       DEF Setting!Rows, Setting!Page, Setting!Past
<1> QED
  BY <1>1, <1>2, <1>3 DEF Setting!ClientStep

LEMMA SettingSaveReadsStep ==
    ASSUME SettingInv, NEW c \in Calls, Setting!SaveReads(c)
    PROVE  SettingInv'
<1>1. query[c] \in SettingRecords(saves, Len(keys)) /\ query[c].pc = "sent"
        /\ query[c].op = "save"
  BY SettingSizes DEF Setting!SaveReads
<1>2. /\ query[c].by = "client" /\ query[c].set \in SUBSET Setting!Fields /\ query[c].data \in SettingValues(saves)
      /\ query[c].save \in 0 .. saves /\ \A f \in Setting!Fields : query[c].data[f] = query[c].save
  BY <1>1, SettingRecordIs
<1> DEFINE r == [pc |-> "found", by |-> query[c].by, op |-> "save", set |-> query[c].set,
                 data |-> query[c].data, save |-> query[c].save, row |-> row]
<1>3. r \in SettingRecords(saves, Len(keys)) /\ r.row = row /\ ~SettingLoads(r)
        /\ ~SettingSaves(r)
  BY <1>2, SettingSizes DEF SettingRecords, SettingLoads, SettingSaves
<1>4. query' = [query EXCEPT ![c] = r] /\ UNCHANGED <<Setting!Rows, Setting!Page, saves, ended>>
      /\ (due' = Setting!Defaults \/ due' = due)
  BY DEF Setting!SaveReads
<1> HIDE DEF r
<1>5. due' \in SettingValues(saves) /\ \A f \in Setting!Fields : due'[f] <= due[f]
  BY <1>4, SettingSizes DEF SettingValues, Setting!Defaults
<1>6. \A f \in Setting!Fields : row[f] >= due'[f]
  <2>1. \A f \in Setting!Fields : row[f] \in Nat /\ due[f] \in Nat /\ due'[f] \in Nat
    BY <1>5, SettingSizes DEF SettingValues
  <2> QED
    BY <1>5, <2>1, SettingSizes
<1>7. \A f \in Setting!Fields : \A d \in Calls : d # c /\ SettingMerges(query[d]) =>
        query[d].row[f] >= due'[f]
  <2>1. \A d \in Calls : SettingMerges(query[d]) => query[d].row \in SettingValues(saves)
    BY SettingSizes, SettingRecordIs
  <2>2. \A f \in Setting!Fields : due[f] \in Nat /\ due'[f] \in Nat
    BY <1>5, SettingSizes DEF SettingValues
  <2>3. \A f \in Setting!Fields : \A d \in Calls : SettingMerges(query[d]) =>
          query[d].row[f] \in Nat
    BY <2>1, SettingSizes DEF SettingValues
  <2> QED
    BY <1>5, <2>2, <2>3, SettingSizes
<1>8. ~SettingLoads(query[c]) /\ ~SettingSaves(query[c]) /\ query[c].pc # "revoked"
  BY <1>1 DEF SettingLoads, SettingSaves
<1>9. saves <= saves'
  BY <1>4, SettingSizes
<1> QED
  BY <1>3, <1>4, <1>5, <1>6, <1>7, <1>8, <1>9, SettingSizes, SettingElsewhere
     DEF Setting!Rows, Setting!Page

LEMMA SettingSaveWritesStep ==
    ASSUME SettingInv, NEW c \in Calls, Setting!SaveWrites(c)
    PROVE  SettingInv'
<1>1. query[c] \in SettingRecords(saves, Len(keys)) /\ query[c].pc = "found"
        /\ query[c].op = "save"
  BY SettingSizes DEF Setting!SaveWrites
<1>2. /\ query[c].by = "client" /\ query[c].set \in SUBSET Setting!Fields /\ query[c].data \in SettingValues(saves)
      /\ query[c].save \in 0 .. saves /\ query[c].row \in SettingValues(saves)
      /\ \A f \in Setting!Fields : query[c].data[f] = query[c].save
  BY <1>1, SettingRecordIs DEF SettingMerges
<1> DEFINE r == [query[c] EXCEPT !.pc = "done"]
<1>3. r \in SettingRecords(saves, Len(keys)) /\ r.pc = "done"
  BY <1>1 DEF SettingRecords, Setting!Idle
<1>4. query' = [query EXCEPT ![c] = r] /\ UNCHANGED <<pane, keys, Setting!Page, saves, ended>>
      /\ row' = Setting!Merged(query[c].row, query[c].data, query[c].set)
  BY DEF Setting!SaveWrites, Setting!To
<1> HIDE DEF r
<1>5. row' = [f \in Setting!Fields |-> IF f \in query[c].set THEN query[c].save ELSE query[c].row[f]]
  BY <1>2, <1>4 DEF Setting!Merged
<1>6. row' \in SettingValues(saves)
  BY <1>2, <1>5 DEF SettingValues
<1>7. ~SettingLoads(query[c]) /\ ~SettingSaves(query[c]) /\ query[c].pc # "revoked"
        /\ ~SettingMerges(r) /\ saves <= saves'
  BY <1>1, <1>3, <1>4, SettingSizes DEF SettingLoads, SettingSaves, SettingMerges
<1>8. CASE \A d \in Calls \ {c} : ~(query[d].pc = "found" /\ query[d].op = "save")
  <2>1. due' = [f \in Setting!Fields |-> IF f \in query[c].set THEN query[c].save ELSE due[f]]
    BY <1>2, <1>8 DEF Setting!SaveWrites
  <2>2. due' \in SettingValues(saves)
    BY <1>2, <2>1, SettingSizes DEF SettingValues
  <2>3. SettingMerges(query[c])
    BY <1>1 DEF SettingMerges
  <2>4. \A f \in Setting!Fields : query[c].row[f] >= due[f]
    BY <2>3, SettingSizes
  <2>5. ASSUME NEW f \in Setting!Fields PROVE row'[f] >= due'[f]
    <3>1. CASE f \in query[c].set
      <4>1. row'[f] = query[c].save /\ due'[f] = query[c].save
        BY <1>5, <2>1, <3>1
      <4> QED
        BY <1>2, <4>1, SettingSizes
    <3>2. CASE f \notin query[c].set
      BY <1>5, <2>1, <2>4, <3>2
    <3> QED
      BY <3>1, <3>2
  <2>6. \A d \in Calls : d # c => ~SettingMerges(query[d])
    BY <1>8 DEF SettingMerges
  <2> QED
    BY <1>3, <1>4, <1>6, <1>7, <2>2, <2>5, <2>6, SettingSizes, SettingElsewhere
       DEF Setting!Page
<1>9. CASE ~(\A d \in Calls \ {c} : ~(query[d].pc = "found" /\ query[d].op = "save"))
  <2>1. due' = Setting!Defaults
    BY <1>9 DEF Setting!SaveWrites
  <2>2. due' \in SettingValues(saves) /\ \A f \in Setting!Fields : due'[f] = 0
    BY <2>1, SettingSizes DEF SettingValues, Setting!Defaults
  <2>3. \A f \in Setting!Fields : row'[f] \in Nat
    BY <1>6, SettingSizes DEF SettingValues
  <2>4. \A d \in Calls : SettingMerges(query[d]) => query[d].row \in SettingValues(saves)
    BY SettingSizes, SettingRecordIs
  <2>5. \A f \in Setting!Fields : \A d \in Calls : SettingMerges(query[d]) =>
          query[d].row[f] \in Nat
    BY <2>4, SettingSizes DEF SettingValues
  <2>6. \A f \in Setting!Fields : row'[f] >= due'[f]
    BY <2>2, <2>3
  <2>7. \A f \in Setting!Fields : \A d \in Calls : d # c /\ SettingMerges(query[d]) =>
          query[d].row[f] >= due'[f]
    BY <2>2, <2>5
  <2> QED
    BY <1>3, <1>4, <1>6, <1>7, <2>2, <2>6, <2>7, SettingSizes, SettingElsewhere
       DEF Setting!Page
<1> QED
  BY <1>8, <1>9

LEMMA SettingServiceFailsStep ==
    ASSUME SettingInv, NEW c \in Calls, Setting!ServiceFails(c)
    PROVE  SettingInv'
<1>1. query[c] \in SettingRecords(saves, Len(keys))
        /\ query[c].pc \in {"sent", "found", "revoked"}
  BY SettingSizes DEF Setting!ServiceFails
<1> DEFINE r == IF query[c].by = "page" THEN [pc |-> "refused", by |-> "page", op |-> query[c].op]
                ELSE Setting!Idle
<1>2. r \in SettingRecords(saves, Len(keys)) /\ r.pc \in {"idle", "refused"}
  <2>1. [pc |-> "refused", by |-> "page", op |-> query[c].op] \in SettingRecords(saves, Len(keys))
    BY <1>1, SettingRecordIs DEF SettingRecords
  <2> QED
    BY <2>1, SettingIdleIs
<1>3. query' = [query EXCEPT ![c] = r] /\ UNCHANGED <<Setting!Rows, Setting!Page, saves, due>>
      /\ ended' = (IF query[c].pc = "revoked" THEN ended \cup {keys[query[c].key].name} ELSE ended)
  BY DEF Setting!ServiceFails
<1> HIDE DEF r
<1>4. ~SettingLoads(query[c]) /\ ~SettingSaves(query[c]) /\ ~SettingMerges(r)
  BY <1>1, <1>2 DEF SettingLoads, SettingSaves, SettingMerges
<1>5. query[c].pc = "revoked" => keys[query[c].key].name \in Setting!Names
  <2>1. query[c].pc = "revoked" => query[c].key \in 1 .. Len(keys)
    BY <1>1, SettingRecordIs
  <2>2. \A k \in 1 .. Len(keys) : keys[k].name \in 1 .. k
    BY DEF SettingInv, SettingTypes
  <2>3. Len(keys) \in 1 .. MaxKeys
    BY DEF SettingInv, SettingTypes
  <2>4. \A k \in 1 .. Len(keys) : 1 .. k \subseteq 1 .. MaxKeys
    BY <2>3, BoundsAssumption
  <2> QED
    BY <2>1, <2>2, <2>4 DEF Setting!Names
<1>6. ended' \subseteq Setting!Names /\ ended \subseteq ended'
      /\ (query[c].pc = "revoked" => keys[query[c].key].name \in ended')
  BY <1>3, <1>5, SettingSizes
<1> QED
  BY <1>2, <1>3, <1>4, <1>6, SettingSizes, SettingAtThePage DEF Setting!Rows, Setting!Page

\* A step of the service that changes the keys: none is lost, and who is between
\* the two writes of a rotation stays there, but for c.
LEMMA SettingKeysChange ==
    ASSUME SettingInv, NEW c \in Calls, NEW r \in SettingRecords(saves, Len(keys')),
           query' = [query EXCEPT ![c] = r],
           UNCHANGED <<pane, row, form, listed, fetching, storing, saves, due>>,
           ~SettingLoads(query[c]), ~SettingSaves(query[c]), ~SettingMerges(r),
           keys' \in Seq(SettingKey), Len(keys') \in 1 .. MaxKeys, Len(keys) <= Len(keys'),
           \A k \in 1 .. Len(keys) : keys'[k].name = keys[k].name,
           \A k \in 1 .. Len(keys') : keys'[k].name \in 1 .. k,
           ended \subseteq ended', ended' \subseteq Setting!Names,
           \A k \in 1 .. Len(keys) : (query[c].pc = "revoked" => k # query[c].key) \/ SettingHasKey(keys[k].name)',
           \A k \in 1 .. Len(keys') : k \notin 1 .. Len(keys) => SettingHasKey(keys[k].name)',
           \A k \in 1 .. Len(keys) : keys[k].active => keys'[k].active \/ SettingHasKey(keys[k].name)'
    PROVE  SettingInv'
<1>1. SettingTypes /\ SettingWaits /\ SettingSaved /\ SettingKeyed
  BY DEF SettingInv
<1>2. saves \in Nat /\ saves <= saves /\ Len(keys) \in Nat /\ Len(keys') \in Nat
      /\ 1 .. Len(keys) \subseteq 1 .. Len(keys')
  BY SettingSizes, BoundsAssumption
<1>3. SettingRecords(saves, Len(keys)) \subseteq SettingRecords(saves, Len(keys'))
      /\ SettingLists(Len(keys)) \subseteq SettingLists(Len(keys'))
  BY <1>2, SettingRecordsGrow, SettingListsGrow
<1>4. query' \in [Calls -> SettingRecords(saves, Len(keys'))] /\ query'[c] = r
      /\ \A d \in Calls : d # c => query'[d] = query[d]
  BY <1>1, <1>3 DEF SettingTypes
<1>5. SettingTypes'
  BY <1>1, <1>3, <1>4 DEF SettingTypes
<1>6. SettingWaits'
  BY <1>1, <1>4, SettingStillWaits
<1>7. SettingSaved'
  <2>1. \A d \in Calls : SettingMerges(query'[d]) => query'[d] = query[d]
    BY <1>4
  <2> QED
    BY <1>1, <2>1 DEF SettingSaved, SettingMerges
<1>8. ASSUME NEW k \in 1 .. Len(keys) PROVE SettingHasKey(keys[k].name)'
  <2> DEFINE n == keys[k].name
  <2>1. SettingHasKey(n)
    BY <1>1 DEF SettingKeyed
  <2>2. CASE n \in ended
    BY <2>2 DEF SettingHasKey
  <2>3. ASSUME NEW l \in Setting!Live(n) PROVE SettingHasKey(n)'
    <3>1. l \in 1 .. Len(keys) /\ keys[l].name = n /\ keys[l].active
      BY <2>3 DEF Setting!Live
    <3>2. CASE keys'[l].active
      <4>1. l \in Setting!Live(n)'
        BY <1>2, <3>1, <3>2 DEF Setting!Live
      <4> QED
        BY <4>1 DEF SettingHasKey
    <3>3. CASE SettingHasKey(keys[l].name)'
      BY <3>1, <3>3
    <3> QED
      BY <3>1, <3>2, <3>3
  <2>4. ASSUME NEW d \in Calls, SettingBetween(d, n) PROVE SettingHasKey(n)'
    <3>1. query[d].pc = "revoked" /\ query[d].key \in 1 .. Len(keys)
            /\ keys[query[d].key].name = n
      BY <1>1, <2>4, SettingRecordIs DEF SettingBetween, SettingTypes
    <3>2. CASE d # c
      <4>1. query'[d] = query[d] /\ keys'[query[d].key].name = n
        BY <1>4, <3>1, <3>2
      <4> QED
        BY <3>1, <4>1 DEF SettingHasKey, SettingBetween
    <3>3. CASE d = c
      BY <3>1, <3>3
    <3> QED
      BY <3>2, <3>3
  <2> QED
    BY <2>1, <2>2, <2>3, <2>4 DEF SettingHasKey
<1>9. SettingKeyed'
  <2> SUFFICES ASSUME NEW k \in 1 .. Len(keys') PROVE SettingHasKey(keys[k].name)'
    BY DEF SettingKeyed
  <2>1. CASE k \in 1 .. Len(keys)
    BY <1>8, <2>1
  <2>2. CASE k \notin 1 .. Len(keys)
    BY <2>2
  <2> QED
    BY <2>1, <2>2
<1> QED
  BY <1>5, <1>6, <1>7, <1>9 DEF SettingInv


\* A call goes on with its key.
SettingWithKey(r, q, pc) == q = [r EXCEPT !.pc = pc]

LEMMA SettingGoesOn ==
    ASSUME NEW s, NEW n \in Nat, NEW m \in Nat, n <= m, NEW r \in SettingRecords(s, n),
           r.pc \in {"sent", "found", "revoked", "done"}, r.op \in {"create", "revoke", "rotate"},
           NEW pc \in {"sent", "found", "revoked", "done"},
           r.op = "rotate" \/ pc \in {"sent", "done"}, NEW q, SettingWithKey(r, q, pc)
    PROVE  q \in SettingRecords(s, m) /\ q.pc = pc /\ q.op = r.op /\ q.key = r.key
<1>1. 1 .. n \subseteq 1 .. m
  OBVIOUS
<1>2. CASE r \in [pc : {"sent", "done"}, by : {"page", "client"}, op : {"create", "revoke"}, key : 1 .. n]
  <2>1. q \in [pc : {"sent", "done"}, by : {"page", "client"}, op : {"create", "revoke"}, key : 1 .. m]
    BY <1>1, <1>2 DEF SettingWithKey
  <2>2. q.pc = pc /\ q.op = r.op /\ q.key = r.key
    BY <1>2 DEF SettingWithKey
  <2> QED
    BY <2>1, <2>2 DEF SettingRecords
<1>3. CASE r \in [pc : {"sent", "found", "revoked", "done"}, by : {"page"}, op : {"rotate"}, key : 1 .. n]
  <2>1. q \in [pc : {"sent", "found", "revoked", "done"}, by : {"page"}, op : {"rotate"}, key : 1 .. m]
    BY <1>1, <1>3 DEF SettingWithKey
  <2>2. q.pc = pc /\ q.op = r.op /\ q.key = r.key
    BY <1>3 DEF SettingWithKey
  <2> QED
    BY <2>1, <2>2 DEF SettingRecords
<1> QED
  BY <1>2, <1>3 DEF SettingRecords, Setting!Idle

LEMMA SettingReplaced ==
    ASSUME NEW S, NEW q \in Seq(S), NEW i \in 1 .. Len(q), NEW e \in S, NEW p,
           p = [q EXCEPT ![i] = e]
    PROVE  /\ p \in Seq(S) /\ Len(p) = Len(q) /\ p[i] = e
           /\ \A j \in 1 .. Len(q) : j # i => p[j] = q[j]
<1>1. /\ [q EXCEPT ![i] = e] \in Seq(S)
      /\ Len([q EXCEPT ![i] = e]) = Len(q)
      /\ \A j \in 1 .. Len(q) : [q EXCEPT ![i] = e][j] = IF j = i THEN e ELSE q[j]
  BY ExceptSeq
<1> QED
  BY <1>1

\* A key is revoked.
LEMMA SettingRevoking ==
    ASSUME SettingTypes, NEW k \in 1 .. Len(keys), keys' = [keys EXCEPT ![k].active = FALSE]
    PROVE  /\ keys' \in Seq(SettingKey) /\ Len(keys') = Len(keys)
           /\ \A j \in 1 .. Len(keys) :
                  keys'[j].name = keys[j].name /\ (j # k => keys'[j] = keys[j])
<1>1. keys \in Seq(SettingKey) /\ keys[k] \in SettingKey
  BY ElementOfSeq DEF SettingTypes
<1> DEFINE key == [keys[k] EXCEPT !.active = FALSE]
<1>2. key \in SettingKey /\ key.name = keys[k].name
  BY <1>1 DEF SettingKey
<1>3. keys' = [keys EXCEPT ![k] = key]
  BY <1>1
<1> HIDE DEF key
<1>4. /\ keys' \in Seq(SettingKey) /\ Len(keys') = Len(keys) /\ keys'[k] = key
      /\ \A j \in 1 .. Len(keys) : j # k => keys'[j] = keys[j]
  BY ONLY <1>1, <1>2, <1>3, k \in 1 .. Len(keys), SettingReplaced
<1> QED
  BY <1>2, <1>4

LEMMA SettingRotateRevokesStep ==
    ASSUME SettingInv, NEW c \in Calls, Setting!RotateRevokes(c)
    PROVE  SettingInv'
<1>1. SettingTypes /\ query[c] \in SettingRecords(saves, Len(keys)) /\ query[c].pc = "found" /\ query[c].op = "rotate"
      /\ Len(keys) \in Nat
  BY SettingSizes DEF Setting!RotateRevokes, SettingInv
<1> DEFINE r == [query[c] EXCEPT !.pc = "revoked"]
<1>2. PICK k \in 1 .. Len(keys) : k = query[c].key
  BY <1>1, SettingRecordIs
<1>3. keys' = [keys EXCEPT ![k].active = FALSE] /\ query' = [query EXCEPT ![c] = r]
      /\ UNCHANGED <<pane, row, Setting!Page, Setting!Past>>
  BY <1>2 DEF Setting!RotateRevokes, Setting!To
<1>4. r \in SettingRecords(saves, Len(keys)) /\ r.pc = "revoked" /\ r.key = k
  <2>1. SettingWithKey(query[c], r, "revoked") /\ Len(keys) <= Len(keys)
    BY <1>1 DEF SettingWithKey
  <2> HIDE DEF r
  <2> QED
    BY <1>1, <1>2, <2>1, SettingGoesOn
<1> HIDE DEF r
<1>5. /\ keys' \in Seq(SettingKey) /\ Len(keys') = Len(keys)
      /\ \A j \in 1 .. Len(keys) : keys'[j].name = keys[j].name /\ (j # k => keys'[j] = keys[j])
  BY <1>1, <1>2, <1>3, SettingRevoking
<1>6. ~SettingLoads(query[c]) /\ ~SettingSaves(query[c]) /\ ~SettingMerges(r)
  BY <1>1, <1>4 DEF SettingLoads, SettingSaves, SettingMerges
<1>7. query'[c] = r
  BY <1>1, <1>3 DEF SettingTypes
<1>8. SettingBetween(c, keys[k].name)'
  BY <1>4, <1>5, <1>7, <1>2 DEF SettingBetween
<1>9. ASSUME NEW j \in 1 .. Len(keys), keys[j].active, ~keys'[j].active
      PROVE  SettingHasKey(keys[j].name)'
  <2>1. j = k
    BY <1>5, <1>9
  <2> QED
    BY <1>8, <2>1 DEF SettingHasKey
<1>10. \A j \in 1 .. Len(keys') : keys'[j].name \in 1 .. j
  BY <1>1, <1>5 DEF SettingTypes
<1>11. r \in SettingRecords(saves, Len(keys')) /\ Len(keys') \in 1 .. MaxKeys /\ Len(keys) <= Len(keys')
       /\ ended \subseteq ended' /\ ended' \subseteq Setting!Names
  BY <1>1, <1>3, <1>4, <1>5, SettingSizes DEF SettingTypes, Setting!Past
<1>12. query[c].pc # "revoked"
  BY <1>1
<1> QED
  BY <1>3, <1>5, <1>6, <1>9, <1>10, <1>11, <1>12, SettingKeysChange
     DEF Setting!Page, Setting!Past

LEMMA SettingRevokeKeyStep ==
    ASSUME SettingInv, NEW c \in Calls, Setting!RevokeKey(c)
    PROVE  SettingInv'
<1>1. SettingTypes /\ query[c] \in SettingRecords(saves, Len(keys)) /\ query[c].pc = "sent" /\ query[c].op = "revoke"
      /\ Len(keys) \in Nat
  BY SettingSizes DEF Setting!RevokeKey, SettingInv
<1> DEFINE k == query[c].key
           r == [query[c] EXCEPT !.pc = "done"]
<1>2. k \in 1 .. Len(keys)
  BY <1>1, SettingRecordIs
<1>3. keys' = [keys EXCEPT ![k].active = FALSE] /\ query' = [query EXCEPT ![c] = r]
      /\ ended' = ended \cup {keys[k].name} /\ UNCHANGED <<pane, row, Setting!Page, saves, due>>
  BY DEF Setting!RevokeKey, Setting!To
<1>4. r \in SettingRecords(saves, Len(keys)) /\ r.pc = "done"
  <2>1. SettingWithKey(query[c], r, "done") /\ Len(keys) <= Len(keys)
    BY <1>1 DEF SettingWithKey
  <2> HIDE DEF r
  <2> QED
    BY <1>1, <2>1, SettingGoesOn
<1> HIDE DEF r, k
<1>5. /\ keys' \in Seq(SettingKey) /\ Len(keys') = Len(keys)
      /\ \A j \in 1 .. Len(keys) : keys'[j].name = keys[j].name /\ (j # k => keys'[j] = keys[j])
  BY <1>1, <1>2, <1>3, SettingRevoking
<1>6. ~SettingLoads(query[c]) /\ ~SettingSaves(query[c]) /\ ~SettingMerges(r)
  BY <1>1, <1>4 DEF SettingLoads, SettingSaves, SettingMerges
<1>7. ASSUME NEW j \in 1 .. Len(keys), keys[j].active, ~keys'[j].active
      PROVE  SettingHasKey(keys[j].name)'
  <2>1. j = k
    BY <1>5, <1>7
  <2> QED
    BY <1>2, <1>3, <1>5, <2>1 DEF SettingHasKey
<1>8. \A j \in 1 .. Len(keys') : keys'[j].name \in 1 .. j
  BY <1>1, <1>5 DEF SettingTypes
<1>9. keys[k].name \in Setting!Names
  <2>1. keys[k].name \in 1 .. k /\ Len(keys) \in 1 .. MaxKeys
    BY <1>1, <1>2 DEF SettingTypes
  <2>2. 1 .. k \subseteq 1 .. MaxKeys
    BY <1>2, <2>1, BoundsAssumption
  <2> QED
    BY <2>1, <2>2 DEF Setting!Names
<1>10. r \in SettingRecords(saves, Len(keys')) /\ Len(keys') \in 1 .. MaxKeys /\ Len(keys) <= Len(keys')
       /\ ended \subseteq ended' /\ ended' \subseteq Setting!Names
  BY <1>1, <1>3, <1>4, <1>5, <1>9, SettingSizes DEF SettingTypes
<1>11. query[c].pc # "revoked"
  BY <1>1
<1> QED
  BY <1>3, <1>5, <1>6, <1>7, <1>8, <1>10, <1>11, SettingKeysChange DEF Setting!Page

\* A key is added.
LEMMA SettingAdding ==
    ASSUME SettingTypes, NEW key \in SettingKey, key.name \in 1 .. Len(keys) + 1,
           Len(keys) < MaxKeys,
           keys' = Append(keys, key)
    PROVE  /\ keys' \in Seq(SettingKey) /\ Len(keys') = Len(keys) + 1 /\ Len(keys') \in 1 .. MaxKeys
           /\ Len(keys) <= Len(keys') /\ keys'[Len(keys) + 1] = key
           /\ \A j \in 1 .. Len(keys) : keys'[j] = keys[j]
           /\ \A j \in 1 .. Len(keys') : keys'[j].name \in 1 .. j
<1>1. keys \in Seq(SettingKey) /\ Len(keys) \in Nat
        /\ \A j \in 1 .. Len(keys) : keys[j].name \in 1 .. j
  BY LenProperties DEF SettingTypes
<1>2. /\ keys' \in Seq(SettingKey) /\ Len(keys') = Len(keys) + 1 /\ keys'[Len(keys) + 1] = key
      /\ \A j \in 1 .. Len(keys) : keys'[j] = keys[j]
  BY <1>1, AppendProperties
<1>3. Len(keys') \in 1 .. MaxKeys /\ Len(keys) <= Len(keys')
  BY <1>1, <1>2, BoundsAssumption
<1>4. ASSUME NEW j \in 1 .. Len(keys') PROVE keys'[j].name \in 1 .. j
  <2>1. j \in 1 .. Len(keys) \/ j = Len(keys) + 1
    BY <1>1, <1>2
  <2> QED
    BY <1>1, <1>2, <2>1
<1> QED
  BY <1>2, <1>3, <1>4

LEMMA SettingRotateCreatesStep ==
    ASSUME SettingInv, NEW c \in Calls, Setting!RotateCreates(c)
    PROVE  SettingInv'
<1>1. SettingTypes /\ query[c] \in SettingRecords(saves, Len(keys)) /\ query[c].pc = "revoked" /\ query[c].op = "rotate"
      /\ Len(keys) \in Nat /\ Len(keys) < MaxKeys
  BY SettingSizes, SettingRecordIs DEF Setting!RotateCreates, SettingInv
<1> DEFINE k == query[c].key
           n == keys[k].name
           key == [name |-> n, active |-> TRUE]
           r == [query[c] EXCEPT !.pc = "done"]
<1>2. k \in 1 .. Len(keys)
  BY <1>1, SettingRecordIs
<1>3. n \in 1 .. k
  BY <1>1, <1>2 DEF SettingTypes
<1>4. key \in SettingKey /\ key.name = n /\ key.active /\ n \in 1 .. Len(keys) + 1
  BY <1>1, <1>2, <1>3 DEF SettingKey
<1>5. keys' = Append(keys, key) /\ query' = [query EXCEPT ![c] = r]
        /\ UNCHANGED <<pane, row, Setting!Page, Setting!Past>>
  BY DEF Setting!RotateCreates, Setting!To
<1> HIDE DEF key, n
<1>6. /\ keys' \in Seq(SettingKey) /\ Len(keys') = Len(keys) + 1 /\ Len(keys') \in 1 .. MaxKeys
      /\ Len(keys) <= Len(keys') /\ keys'[Len(keys) + 1] = key
      /\ \A j \in 1 .. Len(keys) : keys'[j] = keys[j]
      /\ \A j \in 1 .. Len(keys') : keys'[j].name \in 1 .. j
  BY <1>1, <1>4, <1>5, SettingAdding
<1>7. Len(keys') \in Nat
  BY <1>1, <1>6
<1>8. r \in SettingRecords(saves, Len(keys')) /\ r.pc = "done"
  <2>1. SettingWithKey(query[c], r, "done") /\ Len(keys) <= Len(keys')
    BY <1>1, <1>6 DEF SettingWithKey
  <2> HIDE DEF r
  <2> QED
    BY <1>1, <1>7, <2>1, SettingGoesOn
<1> HIDE DEF r, k
<1>9. ~SettingLoads(query[c]) /\ ~SettingSaves(query[c]) /\ ~SettingMerges(r)
  BY <1>1, <1>8 DEF SettingLoads, SettingSaves, SettingMerges
<1>10. Len(keys) + 1 \in 1 .. Len(keys')
  BY <1>1, <1>6
<1>11. Setting!Live(n)' # {} /\ n' = n
  <2>1. n' = n
    <3>1. query'[c].key = k
      BY <1>1, <1>5 DEF SettingTypes, r, k
    <3>2. keys'[k] = keys[k]
      BY <1>2, <1>6
    <3> QED
      BY <3>1, <3>2 DEF n, k
  <2>2. Len(keys) + 1 \in {j \in 1 .. Len(keys') : keys'[j].name = n /\ keys'[j].active}
    BY <1>4, <1>6, <1>10
  <2> QED
    BY <2>1, <2>2 DEF Setting!Live
<1>12. \A j \in 1 .. Len(keys) : keys[j].name = n => SettingHasKey(keys[j].name)'
  BY <1>6, <1>11 DEF SettingHasKey
<1>13. \A j \in 1 .. Len(keys') : j \notin 1 .. Len(keys) => SettingHasKey(keys[j].name)'
  <2>1. \A j \in 1 .. Len(keys') : j \notin 1 .. Len(keys) => j = Len(keys) + 1
    BY <1>1, <1>6
  <2>2. keys'[Len(keys) + 1].name = n
    BY <1>4, <1>6
  <2> QED
    BY <1>11, <2>1, <2>2 DEF SettingHasKey
<1>14. \A j \in 1 .. Len(keys) : (query[c].pc = "revoked" => j # query[c].key)
         \/ SettingHasKey(keys[j].name)'
  BY <1>12 DEF n, k
<1>15. \A j \in 1 .. Len(keys) : keys'[j].name = keys[j].name
         /\ (keys[j].active => keys'[j].active)
  BY <1>6
<1>16. ended \subseteq ended' /\ ended' \subseteq Setting!Names
  BY <1>5, SettingSizes DEF Setting!Past
<1> QED
  BY <1>5, <1>6, <1>8, <1>9, <1>13, <1>14, <1>15, <1>16, SettingKeysChange
     DEF Setting!Page, Setting!Past

LEMMA SettingCreateKeyStep ==
    ASSUME SettingInv, NEW c \in Calls, Setting!CreateKey(c)
    PROVE  SettingInv'
<1>1. SettingTypes /\ query[c] \in SettingRecords(saves, Len(keys)) /\ query[c].pc = "sent" /\ query[c].op = "create"
      /\ Len(keys) \in Nat /\ Len(keys) < MaxKeys
  BY SettingSizes DEF Setting!CreateKey, SettingInv
<1> DEFINE n == Len(keys) + 1
           key == [name |-> n, active |-> TRUE]
           r == [query[c] EXCEPT !.pc = "done"]
<1>2. n \in 1 .. Len(keys) + 1
  BY <1>1
<1>3. key \in SettingKey /\ key.name = n /\ key.active
  BY <1>1 DEF SettingKey
<1>4. keys' = Append(keys, key) /\ query' = [query EXCEPT ![c] = r]
        /\ UNCHANGED <<pane, row, Setting!Page, Setting!Past>>
  BY DEF Setting!CreateKey, Setting!To
<1> HIDE DEF key
<1>5. /\ keys' \in Seq(SettingKey) /\ Len(keys') = Len(keys) + 1 /\ Len(keys') \in 1 .. MaxKeys
      /\ Len(keys) <= Len(keys') /\ keys'[Len(keys) + 1] = key
      /\ \A j \in 1 .. Len(keys) : keys'[j] = keys[j]
      /\ \A j \in 1 .. Len(keys') : keys'[j].name \in 1 .. j
  BY <1>1, <1>2, <1>3, <1>4, SettingAdding
<1>6. Len(keys') \in Nat
  BY <1>1, <1>5
<1>7. r \in SettingRecords(saves, Len(keys')) /\ r.pc = "done"
  <2>1. SettingWithKey(query[c], r, "done") /\ Len(keys) <= Len(keys')
    BY <1>1, <1>5 DEF SettingWithKey
  <2> HIDE DEF r
  <2> QED
    BY <1>1, <1>6, <2>1, SettingGoesOn
<1> HIDE DEF r
<1>8. ~SettingLoads(query[c]) /\ ~SettingSaves(query[c]) /\ ~SettingMerges(r)
  BY <1>1, <1>7 DEF SettingLoads, SettingSaves, SettingMerges
<1>9. \A j \in 1 .. Len(keys') : j \notin 1 .. Len(keys) => SettingHasKey(keys[j].name)'
  <2>1. \A j \in 1 .. Len(keys') : j \notin 1 .. Len(keys) => j = n
    BY <1>1, <1>5
  <2>2. n \in 1 .. Len(keys')
    BY <1>1, <1>5
  <2>3. n \in {j \in 1 .. Len(keys') : keys'[j].name = keys'[n].name /\ keys'[j].active}
    BY <1>3, <1>5, <2>2
  <2> HIDE DEF n
  <2> QED
    BY <2>1, <2>3 DEF SettingHasKey, Setting!Live
<1>10. \A j \in 1 .. Len(keys) : keys'[j].name = keys[j].name
         /\ (keys[j].active => keys'[j].active)
  BY <1>5
<1>11. ended \subseteq ended' /\ ended' \subseteq Setting!Names /\ query[c].pc # "revoked"
  BY <1>1, <1>4, SettingSizes DEF Setting!Past
<1> QED
  BY <1>4, <1>5, <1>7, <1>8, <1>9, <1>10, <1>11, SettingKeysChange
     DEF Setting!Page, Setting!Past

LEMMA SettingRotateFindsStep ==
    ASSUME SettingInv, NEW c \in Calls, Setting!RotateFinds(c)
    PROVE  SettingInv'
<1>1. query[c] \in SettingRecords(saves, Len(keys)) /\ query[c].pc = "sent" /\ query[c].op = "rotate"
      /\ Len(keys) \in Nat
  BY SettingSizes DEF Setting!RotateFinds
<1> DEFINE r == [query[c] EXCEPT !.pc = "found"]
<1>2. r \in SettingRecords(saves, Len(keys)) /\ r.pc = "found" /\ r.op = "rotate"
  <2>1. SettingWithKey(query[c], r, "found") /\ Len(keys) <= Len(keys)
    BY <1>1 DEF SettingWithKey
  <2> HIDE DEF r
  <2> QED
    BY <1>1, <2>1, SettingGoesOn
<1>3. query' = [query EXCEPT ![c] = r]
        /\ UNCHANGED <<Setting!Rows, Setting!Page, Setting!Past>>
  BY DEF Setting!RotateFinds, Setting!To
<1> HIDE DEF r
<1>4. ~SettingLoads(query[c]) /\ ~SettingSaves(query[c]) /\ ~SettingMerges(r)
        /\ query[c].pc # "revoked"
  BY <1>1, <1>2 DEF SettingLoads, SettingSaves, SettingMerges
<1> QED
  BY <1>2, <1>3, <1>4, SettingSizes, SettingAtThePage
     DEF Setting!Rows, Setting!Page, Setting!Past

LEMMA SettingKept == ASSUME SettingInv, [Setting!Next]_settingVars PROVE SettingInv'
<1>1. CASE UNCHANGED settingVars
  <2>1. SettingTypes' /\ SettingWaits' /\ SettingSaved'
    BY <1>1 DEF SettingInv, SettingTypes, SettingWaits, SettingSaved, settingVars
  <2>2. SettingKeyed'
    BY <1>1
       DEF SettingInv, SettingKeyed, SettingHasKey, Setting!Live, SettingBetween,
           settingVars
  <2> QED
    BY <2>1, <2>2 DEF SettingInv
<1>2. ASSUME NEW c \in Calls, Setting!PageStep(c) PROVE SettingInv'
  BY <1>2, SettingLoadSteps, SettingPageSendsStep, SettingPageSteps DEF Setting!PageStep
<1>3. ASSUME NEW c \in Calls, Setting!ServiceStep(c) PROVE SettingInv'
  BY <1>3, SettingSaveReadsStep, SettingSaveWritesStep, SettingRotateFindsStep,
     SettingRotateRevokesStep, SettingRotateCreatesStep, SettingCreateKeyStep,
     SettingRevokeKeyStep, SettingServiceFailsStep
     DEF Setting!ServiceStep
<1> QED
  BY <1>1, <1>2, <1>3, SettingClientSteps DEF Setting!Next

LEMMA SettingPromises == SettingInv => Setting!TypeOK /\ Setting!SavedIsKept /\ Setting!RotationKeepsAKey
<1> SUFFICES ASSUME SettingInv
             PROVE  Setting!TypeOK /\ Setting!SavedIsKept /\ Setting!RotationKeepsAKey
  OBVIOUS
<1>1. SettingTypes /\ SettingWaits /\ SettingSaved /\ SettingKeyed
  BY DEF SettingInv
<1>2. \A c \in Calls : query[c] \in SettingRecords(saves, Len(keys))
  BY <1>1 DEF SettingTypes
<1>3. Setting!TypeOK
  <2>1. (\A c \in Calls : query[c] = Setting!Idle) => ~fetching /\ ~storing
    BY <1>1, SettingIdleIs DEF SettingWaits
  <2>2. \A c \in Calls : query[c].pc \in
           {"idle", "load", "loaded", "sent", "refused", "found", "revoked", "done", "listed"}
    BY <1>2, SettingRecordIs
  <2> QED
    BY <1>1, <2>1, <2>2 DEF SettingTypes, Setting!TypeOK, SettingValues, SettingLists
<1>4. Setting!SavedIsKept
  BY <1>1 DEF SettingSaved, Setting!SavedIsKept
<1>5. Setting!RotationKeepsAKey
  <2> SUFFICES ASSUME NEW k \in 1 .. Len(keys)
               PROVE  LET n == keys[k].name IN n \in ended \/ Setting!Rotating(n) \/ Setting!Live(n) # {}
    BY DEF Setting!RotationKeepsAKey
  <2> DEFINE n == keys[k].name
  <2>1. SettingHasKey(n)
    BY <1>1 DEF SettingKeyed
  <2>2. \A c \in Calls : SettingBetween(c, n) => Setting!Rotating(n)
    BY <1>2, SettingRecordIs DEF SettingBetween, Setting!Rotating
  <2> QED
    BY <2>1, <2>2 DEF SettingHasKey
<1> QED
  BY <1>3, <1>4, <1>5

(***************************************************************************)
(* TenantAccount: a second factor that is on can be used                   *)
(***************************************************************************)

(***************************************************************************)
(* The row's secret was shown, was lost or is under way, whether or not    *)
(* the factor is on; and a row whose first password was written belongs to *)
(* a tenant that is active, or a call that still has to write that         *)
(***************************************************************************)

AccountShows(r, s) == r.kind = "setup" /\ r.pc = "answer" /\ r.copy.secret = s

\* What is true of a call on its own.
AccountFits(r) ==
    /\ r \in Account!Call
    /\ r.kind = "setup" /\ r.pc = "answer" => r.copy.secret \in 1 .. secrets
    /\ r.kind = "change" /\ r.pc = "read" /\ ~r.copy.force => ~entry.force
    /\ r.pc = "activate" => r.kind = "change"

AccountTypes ==
    /\ desk \in {"tenant", "operator"} /\ entry \in Account!Row /\ owner \in {"PENDING", "ACTIVE"}
    /\ link \in BOOLEAN /\ cookie \in BOOLEAN /\ raced \in BOOLEAN /\ halfway \in BOOLEAN
    /\ dial \in [Calls -> Account!Call]
    /\ secrets \in 0 .. MaxSecrets
    /\ known \subseteq 1 .. secrets /\ lost \subseteq 1 .. secrets

AccountTraced  == entry.secret \in {0} \cup known \cup lost \/ \E c \in Calls : AccountShows(dial[c], entry.secret)
AccountRaced   == entry.enabled /\ entry.secret = 0 => raced
AccountActive  == ~entry.force => owner = "ACTIVE" \/ halfway \/ \E c \in Calls : dial[c].pc = "activate"

AccountInv == AccountTypes /\ AccountTraced /\ AccountRaced /\ AccountActive /\ \A c \in Calls : AccountFits(dial[c])

LEMMA AccountNoRowIs == Account!NoRow \in Account!Row /\ Account!NoRow.secret = 0 /\ ~Account!NoRow.force /\ ~Account!NoRow.enabled
BY BoundsAssumption DEF Account!NoRow, Account!Row

LEMMA AccountIdleIs == Account!Idle \in Account!Call /\ Account!Idle.kind = "none" /\ Account!Idle.pc = "idle"
BY AccountNoRowIs DEF Account!Idle, Account!Call

LEMMA AccountInitially == ASSUME Account!Init PROVE AccountInv
<1>1. entry = [Account!NoRow EXCEPT !.force = (desk = "tenant")]
        /\ desk \in {"tenant", "operator"}
  BY DEF Account!Init
<1>2. entry \in Account!Row /\ entry.secret = 0 /\ ~entry.enabled
        /\ (entry.force <=> desk = "tenant")
  BY <1>1, AccountNoRowIs DEF Account!Row
<1>3. dial \in [Calls -> Account!Call] /\ \A c \in Calls : dial[c] = Account!Idle
  BY AccountIdleIs DEF Account!Init
<1>4. \A c \in Calls : AccountFits(dial[c])
  BY <1>3, AccountIdleIs DEF AccountFits
<1>5. owner \in {"PENDING", "ACTIVE"} /\ (desk = "operator" => owner = "ACTIVE")
  BY DEF Account!Init
<1>6. link \in BOOLEAN /\ cookie \in BOOLEAN /\ raced \in BOOLEAN /\ halfway \in BOOLEAN
  BY DEF Account!Init
<1>7. known = {} /\ lost = {} /\ secrets \in 0 .. MaxSecrets
  BY BoundsAssumption DEF Account!Init
<1>8. AccountTypes
  BY <1>1, <1>2, <1>3, <1>5, <1>6, <1>7 DEF AccountTypes
<1>9. AccountTraced /\ AccountRaced
  BY <1>2 DEF AccountTraced, AccountRaced
<1>10. AccountActive
  BY <1>1, <1>2, <1>5 DEF AccountActive
<1> QED
  BY <1>4, <1>8, <1>9, <1>10 DEF AccountInv

\* One call takes a step: what it shows is kept, and the tenant is active when the
\* first password is written and the call does not go on to say so.
LEMMA AccountChange ==
    ASSUME AccountInv, NEW c \in Calls, NEW r, dial' = [dial EXCEPT ![c] = r],
           AccountFits(r)',
           UNCHANGED desk, entry' \in Account!Row, ~entry.force => ~entry'.force,
           owner' \in {"PENDING", "ACTIVE"}, owner = "ACTIVE" => owner' = "ACTIVE",
           link' \in BOOLEAN, cookie' \in BOOLEAN, raced' \in BOOLEAN, halfway' \in BOOLEAN,
           halfway => halfway',
           secrets' \in 0 .. MaxSecrets, secrets <= secrets',
           known \subseteq known', known' \subseteq 1 .. secrets',
           lost \subseteq lost', lost' \subseteq 1 .. secrets',
           entry'.secret \in {0, entry.secret} \cup known' \cup lost' \/ AccountShows(r, entry'.secret),
           \A s : AccountShows(dial[c], s) => s \in known' \cup lost' \/ AccountShows(r, s),
           entry'.enabled /\ entry'.secret = 0 => raced',
           \/ entry'.force \/ r.pc = "activate" \/ owner' = "ACTIVE" \/ halfway'
           \/ ~entry.force /\ dial[c].pc # "activate"
    PROVE  AccountInv'
<1>1. AccountTypes /\ AccountTraced /\ AccountRaced /\ AccountActive
  BY DEF AccountInv
<1>2. r \in Account!Call
  BY DEF AccountFits
<1>3. /\ dial' \in [Calls -> Account!Call] /\ dial'[c] = r
      /\ \A d \in Calls : d # c => dial'[d] = dial[d]
  BY <1>1, <1>2 DEF AccountTypes
<1>4. AccountTypes'
  BY <1>1, <1>3 DEF AccountTypes
<1>5. AccountTraced'
  <2>1. CASE entry'.secret \in {0} \cup known' \cup lost'
    BY <2>1 DEF AccountTraced
  <2>2. CASE AccountShows(r, entry'.secret)
    BY <1>3, <2>2 DEF AccountTraced, AccountShows
  <2>3. CASE entry'.secret = entry.secret
    <3>1. CASE entry.secret \in {0} \cup known \cup lost
      BY <2>3, <3>1 DEF AccountTraced
    <3>2. CASE \E d \in Calls : AccountShows(dial[d], entry.secret)
      <4>1. PICK d \in Calls : AccountShows(dial[d], entry.secret)
        BY <3>2
      <4>2. CASE d = c
        <5>1. entry'.secret \in known' \cup lost' \/ AccountShows(r, entry'.secret)
          BY <2>3, <4>1, <4>2
        <5> QED
          BY <1>3, <5>1 DEF AccountTraced, AccountShows
      <4>3. CASE d # c
        BY <1>3, <2>3, <4>1, <4>3 DEF AccountTraced, AccountShows
      <4> QED
        BY <4>2, <4>3
    <3> QED
      BY <1>1, <3>1, <3>2 DEF AccountTraced
  <2> QED
    BY <2>1, <2>2, <2>3
<1>6. AccountRaced'
  BY DEF AccountRaced
<1>7. AccountActive'
  <2> SUFFICES ASSUME ~entry'.force, owner' # "ACTIVE", ~halfway'
               PROVE  \E d \in Calls : dial'[d].pc = "activate"
    BY DEF AccountActive
  <2>1. CASE r.pc = "activate"
    BY <1>3, <2>1
  <2>2. CASE r.pc # "activate"
    <3>1. ~entry.force /\ dial[c].pc # "activate"
      BY <2>2
    <3>2. PICK d \in Calls : dial[d].pc = "activate"
      BY <1>1, <3>1 DEF AccountActive
    <3> QED
      BY <1>3, <3>1, <3>2
  <2> QED
    BY <2>1, <2>2
<1>8. \A d \in Calls : AccountFits(dial[d])'
  <2> SUFFICES ASSUME NEW d \in Calls PROVE AccountFits(dial[d])'
    OBVIOUS
  <2>1. CASE d = c
    BY <1>3, <2>1, Zenon DEF AccountFits
  <2>2. CASE d # c
    <3>1. AccountFits(dial[d]) /\ dial'[d] = dial[d] /\ secrets \in 0 .. MaxSecrets
      BY <1>1, <1>3, <2>2 DEF AccountInv, AccountTypes
    <3>2. 1 .. secrets \subseteq 1 .. secrets'
      BY <3>1, BoundsAssumption
    <3> QED
      BY <3>1, <3>2 DEF AccountFits
  <2> QED
    BY <2>1, <2>2
<1> QED
  BY <1>4, <1>5, <1>6, <1>7, <1>8 DEF AccountInv

\* A step that leaves the row, the tenant and what is known alone.
LEMMA AccountQuiet ==
    ASSUME AccountInv, NEW c \in Calls, NEW r, dial' = [dial EXCEPT ![c] = r],
           AccountFits(r)',
           UNCHANGED <<desk, entry, owner, known, Account!Past>>,
           link' \in BOOLEAN, cookie' \in BOOLEAN,
           \A s : ~AccountShows(dial[c], s), dial[c].pc # "activate"
    PROVE  AccountInv'
<1>1. AccountTypes /\ AccountRaced /\ AccountActive
  BY DEF AccountInv
<1>2. secrets \in Nat /\ known \subseteq 1 .. secrets /\ lost \subseteq 1 .. secrets
        /\ entry \in Account!Row
  BY <1>1, BoundsAssumption DEF AccountTypes
<1>3. UNCHANGED <<secrets, lost, raced, halfway>>
  BY DEF Account!Past
<1>4. entry'.secret \in {0, entry.secret} \cup known' \cup lost'
        \/ AccountShows(r, entry'.secret)
  OBVIOUS
<1>5. \/ entry'.force \/ r.pc = "activate" \/ owner' = "ACTIVE" \/ halfway'
      \/ ~entry.force /\ dial[c].pc # "activate"
  BY <1>2 DEF Account!Row
<1>6. entry'.enabled /\ entry'.secret = 0 => raced'
  BY <1>1, <1>3 DEF AccountRaced
<1>7. /\ secrets' \in 0 .. MaxSecrets /\ secrets <= secrets'
      /\ known \subseteq known' /\ known' \subseteq 1 .. secrets'
      /\ lost \subseteq lost' /\ lost' \subseteq 1 .. secrets'
  BY <1>1, <1>2, <1>3 DEF AccountTypes
<1>8. /\ entry' \in Account!Row /\ (~entry.force => ~entry'.force) /\ UNCHANGED desk
      /\ owner' \in {"PENDING", "ACTIVE"} /\ (owner = "ACTIVE" => owner' = "ACTIVE")
      /\ raced' \in BOOLEAN /\ halfway' \in BOOLEAN /\ (halfway => halfway')
  BY <1>1, <1>3 DEF AccountTypes
<1> QED
  BY <1>4, <1>5, <1>6, <1>7, <1>8, AccountChange

LEMMA AccountUsedIs ==
    ASSUME NEW r \in Account!Row,
           NEW kind \in {"login", "change", "onboard", "setup", "enable", "disable"}
    PROVE  Account!Used(kind, r) \in Account!Row
             /\ (kind = "change" => (Account!Used(kind, r).force <=> r.force))
<1>1. CASE kind = "login"
  BY <1>1, AccountNoRowIs DEF Account!Used, Account!Row
<1>2. CASE kind = "change"
  BY <1>2, AccountNoRowIs DEF Account!Used, Account!Row
<1>3. CASE kind \in {"enable", "disable"}
  BY <1>3, AccountNoRowIs DEF Account!Used, Account!Row
<1>4. CASE kind \in {"onboard", "setup"}
  BY <1>4, AccountNoRowIs DEF Account!Used
<1> QED
  BY <1>1, <1>2, <1>3, <1>4

LEMMA AccountBeginsStep ==
    ASSUME AccountInv, NEW c \in Calls, NEW kind, Account!Begins(c, kind)
    PROVE  AccountInv'
<1>1. AccountTypes
  BY DEF AccountInv
<1>2. kind \in {"login", "change", "onboard", "setup", "enable", "disable"}
        /\ dial[c] = Account!Idle
  BY DEF Account!Begins, Account!Kinds
<1> DEFINE r == [pc |-> "read", kind |-> kind, copy |-> Account!Used(kind, entry)]
<1>3. entry \in Account!Row /\ UNCHANGED entry
  BY <1>1 DEF AccountTypes, Account!Begins
<1>4. AccountFits(r)'
  <2>1. r \in Account!Call
    BY <1>2, <1>3, AccountUsedIs DEF Account!Call
  <2>2. r.kind = "change" /\ ~r.copy.force => ~entry.force
    BY <1>2, <1>3, AccountUsedIs
  <2>3. r.pc = "read"
    OBVIOUS
  <2>4. r' = r
    BY <1>3 DEF Account!Used
  <2> HIDE DEF r
  <2> QED
    BY <1>3, <2>1, <2>2, <2>3, <2>4 DEF AccountFits
<1>5. dial' = [dial EXCEPT ![c] = r]
  BY DEF Account!Begins
<1>6. PICK q : q = r
  OBVIOUS
<1>7. AccountFits(q)'
  <2>1. r' = r
    BY <1>3 DEF Account!Used
  <2> HIDE DEF r
  <2> QED
    BY <1>4, <1>6, <2>1
<1>8. (\A s : ~AccountShows(dial[c], s)) /\ dial[c].pc # "activate"
  BY <1>2, AccountIdleIs DEF AccountShows
<1> HIDE DEF r
<1>9. UNCHANGED <<desk, entry, owner, link, cookie, known, Account!Past>>
  BY DEF Account!Begins
<1> QED
  BY <1>1, <1>5, <1>6, <1>7, <1>8, <1>9, AccountQuiet DEF AccountTypes

\* To(c, pc): what a call becomes.
LEMMA AccountGoesOn ==
    ASSUME AccountInv, NEW c \in Calls, NEW pc \in {"activate", "answer"},
           Account!To(c, pc),
           dial[c].kind # "setup", pc = "activate" => dial[c].kind = "change"
    PROVE  \E r : dial' = [dial EXCEPT ![c] = r] /\ AccountFits(r)' /\ r.pc = pc
<1> DEFINE r == [dial[c] EXCEPT !.pc = pc, !.copy = Account!NoRow]
<1>1. dial[c] \in Account!Call
  BY DEF AccountInv, AccountTypes
<1>2. r \in Account!Call /\ r.pc = pc /\ r.kind # "setup"
        /\ (pc = "activate" => r.kind = "change")
  BY <1>1, AccountNoRowIs DEF Account!Call
<1>3. dial' = [dial EXCEPT ![c] = r]
  BY DEF Account!To
<1> HIDE DEF r
<1>4. PICK q : q = r
  OBVIOUS
<1>5. AccountFits(q)'
  BY <1>2, <1>4 DEF AccountFits
<1> QED
  BY <1>2, <1>3, <1>4, <1>5

LEMMA AccountIdleFits == AccountFits(Account!Idle)'
BY AccountIdleIs DEF AccountFits

\* A handler writes the row: the secret and what is known are the same.
LEMMA AccountRowWritten ==
    ASSUME AccountInv, NEW c \in Calls, NEW r, dial' = [dial EXCEPT ![c] = r],
           AccountFits(r)',
           dial[c].pc = "read",
           UNCHANGED <<desk, known, secrets, lost, halfway>>,
           entry' \in Account!Row, entry'.secret \in {0, entry.secret}, ~entry.force => ~entry'.force,
           owner' \in {"PENDING", "ACTIVE"}, owner = "ACTIVE" => owner' = "ACTIVE",
           link' \in BOOLEAN, cookie' \in BOOLEAN, raced' \in BOOLEAN,
           entry'.enabled /\ entry'.secret = 0 => raced',
           entry'.force \/ r.pc = "activate" \/ owner' = "ACTIVE" \/ ~entry.force
    PROVE  AccountInv'
<1>1. AccountTypes
  BY DEF AccountInv
<1>2. secrets \in Nat /\ known \subseteq 1 .. secrets /\ lost \subseteq 1 .. secrets
      /\ secrets \in 0 .. MaxSecrets
  BY <1>1, BoundsAssumption DEF AccountTypes
<1>3. entry'.secret \in {0, entry.secret} \cup known' \cup lost'
        \/ AccountShows(r, entry'.secret)
  OBVIOUS
<1>4. \A s : ~AccountShows(dial[c], s)
  BY DEF AccountShows
<1>5. halfway' \in BOOLEAN /\ (halfway => halfway')
  BY <1>1 DEF AccountTypes
<1>6. \/ entry'.force \/ r.pc = "activate" \/ owner' = "ACTIVE" \/ halfway'
      \/ ~entry.force /\ dial[c].pc # "activate"
  OBVIOUS
<1>7. /\ secrets' \in 0 .. MaxSecrets /\ secrets <= secrets'
      /\ known \subseteq known' /\ known' \subseteq 1 .. secrets'
      /\ lost \subseteq lost' /\ lost' \subseteq 1 .. secrets'
  BY <1>2
<1> QED
  BY <1>3, <1>4, <1>5, <1>6, <1>7, AccountChange

LEMMA AccountLoginSteps ==
    ASSUME AccountInv, NEW c \in Calls,
           Account!WrongPassword(c) \/ Account!ValidateTenantUser(c) \/ Account!OperatorLogin(c)
    PROVE  AccountInv'
<1>1. AccountTypes /\ AccountRaced /\ entry \in Account!Row /\ dial[c].pc = "read"
        /\ dial[c].kind = "login"
  BY DEF AccountInv, AccountTypes, Account!WrongPassword, Account!ValidateTenantUser,
         Account!OperatorLogin, Account!At
<1>2. \E r : dial' = [dial EXCEPT ![c] = r] /\ AccountFits(r)'
  <2>1. CASE Account!Ends(c)
    BY <2>1, AccountIdleFits DEF Account!Ends
  <2>2. CASE Account!To(c, "answer")
    BY <1>1, <2>2, AccountGoesOn
  <2> QED
    BY <2>1, <2>2
       DEF Account!WrongPassword, Account!ValidateTenantUser, Account!OperatorLogin
<1>3. PICK r : dial' = [dial EXCEPT ![c] = r] /\ AccountFits(r)'
  BY <1>2
<1>4. (\E l \in BOOLEAN : entry' = [entry EXCEPT !.locked = l]) \/ UNCHANGED entry
  BY DEF Account!WrongPassword, Account!ValidateTenantUser, Account!OperatorLogin
<1>5. /\ entry' \in Account!Row /\ entry'.secret = entry.secret
      /\ (entry'.force <=> entry.force) /\ (entry'.enabled <=> entry.enabled)
  BY <1>1, <1>4 DEF Account!Row
<1>6. UNCHANGED <<desk, owner, link, cookie, known, Account!Past>>
  BY DEF Account!WrongPassword, Account!ValidateTenantUser, Account!OperatorLogin
<1>7. UNCHANGED <<secrets, lost, raced, halfway>>
  BY <1>6 DEF Account!Past
<1>8. entry'.enabled /\ entry'.secret = 0 => raced'
  BY <1>1, <1>5, <1>7 DEF AccountRaced
<1>9. entry.force \in BOOLEAN /\ (entry'.force \/ ~entry.force)
  BY <1>1, <1>5 DEF Account!Row
<1> QED
  BY <1>1, <1>3, <1>5, <1>6, <1>7, <1>8, <1>9, AccountRowWritten DEF AccountTypes

LEMMA AccountChangePasswordStep ==
    ASSUME AccountInv, NEW c \in Calls, Account!ChangeTenantUserPassword(c)
    PROVE  AccountInv'
<1>1. AccountTypes /\ AccountRaced /\ entry \in Account!Row /\ dial[c].pc = "read"
        /\ dial[c].kind = "change" /\ AccountFits(dial[c])
  BY DEF AccountInv, AccountTypes, Account!ChangeTenantUserPassword, Account!At
<1>2. PICK pc \in {"activate", "answer"} : Account!To(c, pc)
        /\ (dial[c].copy.force => pc = "activate")
  BY DEF Account!ChangeTenantUserPassword, Account!WasForced
<1>3. PICK r : dial' = [dial EXCEPT ![c] = r] /\ AccountFits(r)' /\ r.pc = pc
  BY <1>1, <1>2, AccountGoesOn
<1>4. /\ entry' \in Account!Row /\ entry'.secret = entry.secret
      /\ ~entry'.force /\ (entry'.enabled <=> entry.enabled)
  BY <1>1 DEF Account!ChangeTenantUserPassword, Account!Row
<1>5. UNCHANGED <<desk, owner, link, cookie, known, secrets, lost, raced, halfway>>
  BY DEF Account!ChangeTenantUserPassword, Account!Past
<1>6. entry'.enabled /\ entry'.secret = 0 => raced'
  BY <1>1, <1>4, <1>5 DEF AccountRaced
<1>7. r.pc = "activate" \/ ~entry.force
  BY <1>1, <1>2, <1>3 DEF AccountFits
<1> QED
  BY <1>1, <1>3, <1>4, <1>5, <1>6, <1>7, AccountRowWritten DEF AccountTypes

LEMMA AccountOnboardingStep ==
    ASSUME AccountInv, NEW c \in Calls, Account!OnboardingWrites(c)
    PROVE  AccountInv'
<1>1. AccountTypes /\ AccountRaced /\ entry \in Account!Row /\ dial[c].pc = "read"
        /\ dial[c].kind = "onboard"
  BY DEF AccountInv, AccountTypes, Account!OnboardingWrites, Account!At
<1>2. PICK r : dial' = [dial EXCEPT ![c] = r] /\ AccountFits(r)' /\ r.pc = "answer"
  BY <1>1, AccountGoesOn DEF Account!OnboardingWrites
<1>3. /\ entry' \in Account!Row /\ entry'.secret = entry.secret
      /\ ~entry'.force /\ (entry'.enabled <=> entry.enabled)
  BY <1>1 DEF Account!OnboardingWrites, Account!Row
<1>4. /\ UNCHANGED <<desk, cookie, known, secrets, lost, raced, halfway>>
      /\ owner' = "ACTIVE" /\ ~link' /\ link' \in BOOLEAN
  BY DEF Account!OnboardingWrites, Account!Past
<1>5. entry'.enabled /\ entry'.secret = 0 => raced'
  BY <1>1, <1>3, <1>4 DEF AccountRaced
<1> QED
  BY <1>1, <1>2, <1>3, <1>4, <1>5, AccountRowWritten DEF AccountTypes

LEMMA AccountActivateStep ==
    ASSUME AccountInv, NEW c \in Calls, Account!ActivateTenant(c)
    PROVE  AccountInv'
<1>1. AccountTypes /\ AccountRaced /\ entry \in Account!Row /\ dial[c].pc = "activate"
        /\ dial[c] \in Account!Call
  BY DEF AccountInv, AccountTypes, Account!ActivateTenant
<1> DEFINE r == [dial[c] EXCEPT !.pc = "answer", !.copy = Account!NoRow]
<1>2. r \in Account!Call /\ r.pc = "answer" /\ r.kind = dial[c].kind /\ r.copy.secret = 0
  BY <1>1, AccountNoRowIs DEF Account!Call
<1>3. dial' = [dial EXCEPT ![c] = r]
  BY DEF Account!ActivateTenant, Account!To
<1> HIDE DEF r
<1>4. PICK q : q = r
  OBVIOUS
<1>5. dial[c].kind # "setup" => AccountFits(q)'
  BY <1>2, <1>4 DEF AccountFits
<1>6. UNCHANGED <<desk, entry, link, cookie, known, secrets, lost, raced>>
  BY DEF Account!ActivateTenant
<1>7. secrets \in Nat /\ known \subseteq 1 .. secrets /\ lost \subseteq 1 .. secrets
      /\ secrets \in 0 .. MaxSecrets
  BY <1>1, BoundsAssumption DEF AccountTypes
<1>8. /\ owner' \in {"PENDING", "ACTIVE"} /\ (owner = "ACTIVE" => owner' = "ACTIVE")
      /\ halfway' \in BOOLEAN /\ (halfway => halfway')
      /\ (owner' = "ACTIVE" \/ halfway')
  BY <1>1 DEF Account!ActivateTenant, AccountTypes
<1>9. \A s : ~AccountShows(dial[c], s)
  BY <1>1 DEF AccountShows
<1>10. entry'.enabled /\ entry'.secret = 0 => raced'
  BY <1>1, <1>6 DEF AccountRaced
<1>11. entry'.secret \in {0, entry.secret} \cup known' \cup lost'
         \/ AccountShows(q, entry'.secret)
  BY <1>6
<1>12. dial[c].kind # "setup"
  BY <1>1 DEF AccountInv, AccountFits
<1>13. /\ entry' \in Account!Row /\ (~entry.force => ~entry'.force)
       /\ link' \in BOOLEAN /\ cookie' \in BOOLEAN /\ raced' \in BOOLEAN
       /\ secrets' \in 0 .. MaxSecrets /\ secrets <= secrets'
       /\ known \subseteq known' /\ known' \subseteq 1 .. secrets'
       /\ lost \subseteq lost' /\ lost' \subseteq 1 .. secrets'
  BY <1>1, <1>6, <1>7 DEF AccountTypes
<1>14. dial' = [dial EXCEPT ![c] = q] /\ AccountFits(q)' /\ UNCHANGED desk
  BY <1>3, <1>4, <1>5, <1>6, <1>12
<1> QED
  BY <1>8, <1>9, <1>10, <1>11, <1>13, <1>14, AccountChange

LEMMA AccountSetupStep ==
    ASSUME AccountInv, NEW c \in Calls, Account!CreateMfaSetup(c)
    PROVE  AccountInv'
<1>1. AccountTypes /\ AccountRaced /\ entry \in Account!Row /\ dial[c].pc = "read"
        /\ dial[c].kind = "setup" /\ dial[c] \in Account!Call
  BY DEF AccountInv, AccountTypes, Account!CreateMfaSetup, Account!At
<1>2. PICK n : n = secrets + 1
  OBVIOUS
<1> DEFINE r == [dial[c] EXCEPT !.pc = "answer", !.copy.secret = n]
<1>3. /\ secrets' = n /\ n \in 1 .. n /\ n \in 0 .. MaxSecrets /\ secrets <= n
      /\ 1 .. secrets \subseteq 1 .. n /\ n # 0
  BY <1>1, <1>2, BoundsAssumption DEF Account!CreateMfaSetup, AccountTypes
<1>4. r \in Account!Call /\ r.pc = "answer" /\ r.kind = "setup" /\ r.copy.secret = n
  BY <1>1, <1>3 DEF Account!Call, Account!Row
<1>5. dial' = [dial EXCEPT ![c] = r]
  BY <1>3 DEF Account!CreateMfaSetup
<1> HIDE DEF r
<1>6. PICK q : q = r
  OBVIOUS
<1>7. AccountFits(q)'
  BY <1>3, <1>4, <1>6 DEF AccountFits
<1>8. entry' \in Account!Row /\ entry'.secret = n /\ (entry'.force <=> entry.force)
  BY <1>1, <1>3 DEF Account!CreateMfaSetup, Account!Row
<1>9. UNCHANGED <<desk, owner, link, cookie, known, lost, raced, halfway>>
  BY DEF Account!CreateMfaSetup
<1>10. known \subseteq 1 .. n /\ lost \subseteq 1 .. n
  BY <1>1, <1>3 DEF AccountTypes
<1>11. AccountShows(q, entry'.secret) /\ \A s : ~AccountShows(dial[c], s)
  BY <1>1, <1>4, <1>6, <1>8 DEF AccountShows
<1>12. entry'.force \/ ~entry.force
  BY <1>1, <1>8 DEF Account!Row
<1> QED
  BY <1>1, <1>3, <1>5, <1>6, <1>7, <1>8, <1>9, <1>10, <1>11, <1>12, AccountChange
     DEF AccountTypes

LEMMA AccountEnableStep ==
    ASSUME AccountInv, NEW c \in Calls, Account!EnableMfa(c)
    PROVE  AccountInv'
<1>1. AccountTypes /\ entry \in Account!Row /\ dial[c].pc = "read"
        /\ dial[c].kind = "enable" /\ dial[c].copy.secret # 0
  BY DEF AccountInv, AccountTypes, Account!EnableMfa, Account!At, Account!ValidTotp
<1>2. PICK r : dial' = [dial EXCEPT ![c] = r] /\ AccountFits(r)' /\ r.pc = "answer"
  BY <1>1, AccountGoesOn DEF Account!EnableMfa
<1>3. entry' \in Account!Row /\ entry'.secret = entry.secret
        /\ (entry'.force <=> entry.force)
  BY <1>1 DEF Account!EnableMfa, Account!Row
<1>4. UNCHANGED <<desk, owner, link, cookie, known, secrets, lost, halfway>>
  BY DEF Account!EnableMfa
<1>5. raced' \in BOOLEAN /\ (entry.secret = 0 => raced')
  BY <1>1 DEF Account!EnableMfa
<1>6. entry'.force \/ ~entry.force
  BY <1>1, <1>3 DEF Account!Row
<1> QED
  BY <1>1, <1>2, <1>3, <1>4, <1>5, <1>6, AccountRowWritten DEF AccountTypes

LEMMA AccountDisableStep ==
    ASSUME AccountInv, NEW c \in Calls, Account!DisableMfa(c)
    PROVE  AccountInv'
<1>1. AccountTypes /\ entry \in Account!Row /\ dial[c].pc = "read"
        /\ dial[c].kind = "disable"
  BY DEF AccountInv, AccountTypes, Account!DisableMfa, Account!At
<1>2. PICK r : dial' = [dial EXCEPT ![c] = r] /\ AccountFits(r)' /\ r.pc = "answer"
  BY <1>1, AccountGoesOn DEF Account!DisableMfa
<1>3. 0 \in 0 .. MaxSecrets
  BY BoundsAssumption
<1>4. entry' \in Account!Row /\ entry'.secret = 0 /\ (entry'.force <=> entry.force)
        /\ ~entry'.enabled
  BY <1>1, <1>3 DEF Account!DisableMfa, Account!WithoutMfa, Account!Row
<1>5. UNCHANGED <<desk, owner, link, cookie, known, secrets, lost, halfway>>
      /\ raced' \in BOOLEAN
  BY DEF Account!DisableMfa
<1>6. entry'.force \/ ~entry.force
  BY <1>1, <1>4 DEF Account!Row
<1> QED
  BY <1>1, <1>2, <1>4, <1>5, <1>6, AccountRowWritten DEF AccountTypes

\* The call ends, and what it had to show is shown or lost.
LEMMA AccountAnswerSteps ==
    ASSUME AccountInv, NEW c \in Calls,
           \/ Account!LoginAnswered(c) \/ Account!OnboardingAnswered(c) \/ Account!ChangeAnswered(c) \/ Account!MfaAnswered(c)
           \/ Account!NotAnswered(c)
    PROVE  AccountInv'
<1>1. AccountTypes /\ AccountRaced /\ entry \in Account!Row /\ AccountFits(dial[c])
  BY DEF AccountInv, AccountTypes
<1>2. dial' = [dial EXCEPT ![c] = Account!Idle]
        /\ UNCHANGED <<desk, entry, owner, link, secrets, raced>>
  BY DEF Account!LoginAnswered, Account!OnboardingAnswered, Account!ChangeAnswered,
         Account!MfaAnswered, Account!NotAnswered, Account!Answered, Account!Ends,
         Account!Past
<1>3. secrets \in Nat /\ secrets \in 0 .. MaxSecrets /\ known \subseteq 1 .. secrets
        /\ lost \subseteq 1 .. secrets
  BY <1>1, BoundsAssumption DEF AccountTypes
<1>4. cookie' \in BOOLEAN
  BY <1>1
     DEF Account!LoginAnswered, Account!OnboardingAnswered, Account!ChangeAnswered,
         Account!MfaAnswered, Account!NotAnswered, AccountTypes, Account!Past
<1>5. /\ known \subseteq known' /\ known' \subseteq 1 .. secrets
      /\ lost \subseteq lost' /\ lost' \subseteq 1 .. secrets
      /\ \A s : AccountShows(dial[c], s) => s \in known' \cup lost'
  <2>1. CASE Account!LoginAnswered(c) \/ Account!OnboardingAnswered(c)
               \/ Account!ChangeAnswered(c)
    BY <1>3, <2>1
       DEF Account!LoginAnswered, Account!OnboardingAnswered, Account!ChangeAnswered,
           Account!Answered, AccountShows, Account!Past
  <2>2. CASE Account!MfaAnswered(c)
    <3>1. dial[c].pc = "answer" /\ UNCHANGED lost
      BY <2>2 DEF Account!MfaAnswered, Account!Answered
    <3>2. CASE dial[c].kind = "setup"
      <4>1. known' = known \cup {dial[c].copy.secret}
              /\ dial[c].copy.secret \in 1 .. secrets
        BY <1>1, <2>2, <3>1, <3>2 DEF Account!MfaAnswered, AccountFits
      <4> QED
        BY <1>3, <3>1, <4>1 DEF AccountShows
    <3>3. CASE dial[c].kind # "setup"
      BY <1>3, <2>2, <3>1, <3>3 DEF Account!MfaAnswered, AccountShows
    <3> QED
      BY <3>2, <3>3
  <2>3. CASE Account!NotAnswered(c)
    <3>1. UNCHANGED known
      BY <2>3 DEF Account!NotAnswered
    <3>2. CASE dial[c].kind = "setup" /\ dial[c].pc = "answer"
      <4>1. lost' = lost \cup {dial[c].copy.secret} /\ dial[c].copy.secret \in 1 .. secrets
        BY <1>1, <2>3, <3>2 DEF Account!NotAnswered, AccountFits
      <4> QED
        BY <1>3, <3>1, <4>1 DEF AccountShows
    <3>3. CASE ~(dial[c].kind = "setup" /\ dial[c].pc = "answer")
      BY <1>3, <2>3, <3>1, <3>3 DEF Account!NotAnswered, AccountShows
    <3> QED
      BY <3>2, <3>3
  <2> QED
    BY <2>1, <2>2, <2>3
<1>6. halfway' \in BOOLEAN /\ (halfway => halfway') /\ (dial[c].pc = "activate" => halfway')
  <2>1. CASE Account!NotAnswered(c)
    BY <1>1, <2>1 DEF Account!NotAnswered, AccountTypes
  <2>2. CASE ~Account!NotAnswered(c)
    BY <1>1, <2>2
       DEF Account!LoginAnswered, Account!OnboardingAnswered, Account!ChangeAnswered,
           Account!MfaAnswered, Account!Answered, AccountTypes, Account!Past
  <2> QED
    BY <2>1, <2>2
<1>7. entry'.enabled /\ entry'.secret = 0 => raced'
  BY <1>1, <1>2 DEF AccountRaced
<1>8. \/ entry'.force \/ Account!Idle.pc = "activate" \/ owner' = "ACTIVE" \/ halfway'
      \/ ~entry.force /\ dial[c].pc # "activate"
  BY <1>1, <1>2, <1>6 DEF Account!Row
<1>9. entry'.secret \in {0, entry.secret} \cup known' \cup lost'
        \/ AccountShows(Account!Idle, entry'.secret)
  BY <1>2
<1>10. owner' \in {"PENDING", "ACTIVE"} /\ link' \in BOOLEAN /\ raced' \in BOOLEAN
  BY <1>1, <1>2 DEF AccountTypes
<1>11. secrets' \in 0 .. MaxSecrets /\ secrets <= secrets'
  BY <1>2, <1>3
<1> QED
  BY <1>1, <1>2, <1>3, <1>4, <1>5, <1>6, <1>7, <1>8, <1>9, <1>10, <1>11, AccountIdleFits,
     AccountChange

\* The session or the lock ends.
LEMMA AccountEndSteps ==
    ASSUME AccountInv, Account!SessionEnds \/ Account!LockEnds
    PROVE  AccountInv'
<1>1. AccountTypes /\ AccountTraced /\ AccountRaced /\ AccountActive
        /\ entry \in Account!Row
  BY DEF AccountInv, AccountTypes
<1>2. entry' \in Account!Row /\ entry'.secret = entry.secret /\ (entry'.force <=> entry.force)
      /\ (entry'.enabled <=> entry.enabled)
  BY <1>1 DEF Account!SessionEnds, Account!LockEnds, Account!Row
<1>3. UNCHANGED <<desk, owner, link, dial, known, secrets, lost, raced, halfway>>
        /\ cookie' \in BOOLEAN
  BY <1>1 DEF Account!SessionEnds, Account!LockEnds, Account!Past, AccountTypes
<1>4. AccountTypes'
  BY <1>1, <1>2, <1>3 DEF AccountTypes
<1>5. AccountTraced'
  BY <1>1, <1>2, <1>3 DEF AccountTraced, AccountShows
<1>6. AccountRaced' /\ AccountActive'
  BY <1>1, <1>2, <1>3 DEF AccountRaced, AccountActive
<1>7. \A c \in Calls : AccountFits(dial[c])'
  BY <1>2, <1>3 DEF AccountInv, AccountFits
<1> QED
  BY <1>4, <1>5, <1>6, <1>7 DEF AccountInv

LEMMA AccountUnchangedStep == ASSUME AccountInv, UNCHANGED accountVars PROVE AccountInv'
BY DEF AccountInv, AccountTypes, AccountTraced, AccountRaced, AccountActive, AccountFits,
       AccountShows, accountVars, Account!Past

LEMMA AccountKept == ASSUME AccountInv, [Account!Next]_accountVars PROVE AccountInv'
<1>1. ASSUME NEW c \in Calls, Account!CallStep(c) PROVE AccountInv'
  <2>1. CASE Account!Login(c) \/ Account!ChangePassword(c) \/ Account!CompleteOnboarding(c)
               \/ Account!MfaRoutes(c)
    BY <2>1, AccountBeginsStep
       DEF Account!Login, Account!ChangePassword, Account!CompleteOnboarding,
           Account!MfaRoutes
  <2>2. CASE Account!WrongPassword(c) \/ Account!ValidateTenantUser(c)
               \/ Account!OperatorLogin(c)
    BY <2>2, AccountLoginSteps
  <2>3. CASE Account!OperatorMfa(c) \/ Account!TenantMfa(c)
    BY <2>3, AccountSetupStep, AccountEnableStep, AccountDisableStep
       DEF Account!OperatorMfa, Account!TenantMfa
  <2>4. CASE Account!LoginAnswered(c) \/ Account!OnboardingAnswered(c) \/ Account!ChangeAnswered(c) \/ Account!MfaAnswered(c)
             \/ Account!NotAnswered(c)
    BY <2>4, AccountAnswerSteps
  <2>5. CASE Account!ChangeTenantUserPassword(c) \/ Account!ActivateTenant(c)
               \/ Account!OnboardingWrites(c)
    BY <2>5, AccountChangePasswordStep, AccountActivateStep, AccountOnboardingStep
  <2> QED
    BY <1>1, <2>1, <2>2, <2>3, <2>4, <2>5 DEF Account!CallStep
<1> QED
  BY <1>1, AccountEndSteps, AccountUnchangedStep DEF Account!Next

LEMMA AccountUsable ==
    ASSUME AccountInv
    PROVE  Account!TypeOK /\ Account!SecondFactorUsable /\ Account!FirstPasswordActivates
<1>1. AccountTypes /\ AccountTraced /\ AccountRaced /\ AccountActive
  BY DEF AccountInv
<1>2. Account!TypeOK
  BY <1>1 DEF Account!TypeOK, AccountTypes
<1>3. Account!SecondFactorUsable
  BY <1>1
     DEF Account!SecondFactorUsable, AccountTraced, AccountRaced, AccountShows,
         Account!Pending
<1>4. Account!FirstPasswordActivates
  BY <1>1 DEF Account!FirstPasswordActivates, AccountActive
<1> QED
  BY <1>2, <1>3, <1>4

(***************************************************************************)
(* PersonalData: few notices are active and exports are whole              *)
(***************************************************************************)

LEMMA PersonalCardinality == \A S : Personal!Cardinality(S) = Cardinality(S)
BY DEF Personal!Cardinality, Cardinality

(***************************************************************************)
(* Every active notice belongs to a call of its own, whose next            *)
(* publication withdraws it: the call read after it had published it       *)
(***************************************************************************)

\* What a call may be, once n notices were published and those of `acc` accepted.
PersonalData(acc)  == {d \in [version : Nat, accepted : SUBSET acc] : d.version # 0 => d.version \in d.accepted}
PersonalRecords(n, acc) ==
    {Personal!Idle} \cup [pc : {"answer", "rectified"}]
    \cup [pc : {"publish"}, on : BOOLEAN, seen : SUBSET Personal!Notices]
    \cup [pc : {"accept"}, notice : 1 .. n]
    \cup [pc : {"reads"}, version : {0} \cup acc]
    \cup [pc : {"collected", "exported"}, data : PersonalData(acc)]
    \cup [pc : Personal!InFiles, files : SUBSET {"dir", "zip"}]

PersonalRows ==
    /\ topic \in {"notices", "rows", "files"}
    /\ notices \in Personal!Notices
    /\ current \subseteq 1 .. notices /\ accepted \subseteq 1 .. notices
    /\ person \in Personal!Person /\ person.version \in {0} \cup accepted
    /\ consent \in {"none", "granted", "revoked"}
    /\ filed \subseteq {"rectify", "export"}
    /\ left \subseteq {"dir", "zip"} /\ broken \in BOOLEAN
    /\ left # {} => broken

PersonalInFlight == plea \in [Calls -> PersonalRecords(notices, accepted)]

PersonalPublishes(r) == r.pc = "publish" /\ r.on

PersonalIsOwner(own) ==
    /\ own \in [current -> Calls]
    /\ \A a, b \in current : own[a] = own[b] => a = b
    /\ \A a \in current, c \in Calls : own[a] = c /\ PersonalPublishes(plea[c]) => a \in plea[c].seen

PersonalOwned == \E own : PersonalIsOwner(own)

PersonalInv == PersonalRows /\ PersonalInFlight /\ PersonalOwned

LEMMA PersonalIdleIs == Personal!Idle.pc = "idle" /\ \A n, acc : Personal!Idle \in PersonalRecords(n, acc)
  BY DEF Personal!Idle, PersonalRecords

\* What the fields of a call are.
LEMMA PersonalRecordIs ==
    ASSUME NEW n, NEW acc, NEW r \in PersonalRecords(n, acc)
    PROVE  /\ r.pc = "publish" => r.on \in BOOLEAN /\ r.seen \in SUBSET Personal!Notices
           /\ r.pc = "accept" => r.notice \in 1 .. n
           /\ r.pc = "reads" => r.version \in {0} \cup acc
           /\ r.pc \in {"collected", "exported"} => r.data \in PersonalData(acc)
           /\ r.pc \in Personal!InFiles => r.files \in SUBSET {"dir", "zip"}
           /\ r.pc \in Personal!InFiles \cup {"idle", "publish", "accept", "rectified", "reads",
                                     "collected", "exported", "answer"}
           /\ r.pc = "idle" => r = Personal!Idle
  BY DEF PersonalRecords, Personal!Idle, Personal!InFiles

LEMMA PersonalRecordsGrow ==
    ASSUME NEW n \in Nat, NEW m \in Nat, n <= m, NEW acc, NEW bcc, acc \subseteq bcc
    PROVE  PersonalRecords(n, acc) \subseteq PersonalRecords(m, bcc)
<1>1. 1 .. n \subseteq 1 .. m
  OBVIOUS
<1>2. PersonalData(acc) \subseteq PersonalData(bcc)
  BY DEF PersonalData
<1> SUFFICES ASSUME NEW r \in PersonalRecords(n, acc) PROVE r \in PersonalRecords(m, bcc)
  OBVIOUS
<1> QED
  BY <1>1, <1>2 DEF PersonalRecords

LEMMA PersonalCallIs ==
    ASSUME PersonalRows, PersonalInFlight, NEW c \in Calls,
           NEW r \in PersonalRecords(notices', accepted'),
           notices' \in Nat, notices <= notices', accepted \subseteq accepted',
           plea' = [plea EXCEPT ![c] = r]
    PROVE  PersonalInFlight' /\ plea'[c] = r /\ \A d \in Calls : d # c => plea'[d] = plea[d]
<1>1. notices \in Nat
  BY DEF PersonalRows, Personal!Notices
<1>2. PersonalRecords(notices, accepted) \subseteq PersonalRecords(notices', accepted')
  BY <1>1, PersonalRecordsGrow
<1> QED
  BY <1>2 DEF PersonalInFlight

\* A call that publishes nothing, or has just read, owns what it owned.
LEMMA PersonalOwnersStay ==
    ASSUME PersonalOwned, UNCHANGED current, NEW c \in Calls,
           \A d \in Calls : d # c => plea'[d] = plea[d],
           ~PersonalPublishes(plea'[c]) \/ plea'[c].seen = current
    PROVE  PersonalOwned'
<1>1. PICK own : PersonalIsOwner(own)
  BY DEF PersonalOwned
<1>2. PersonalIsOwner(own)'
  BY <1>1 DEF PersonalIsOwner
<1> QED
  BY <1>2 DEF PersonalOwned

\* A step of a call that leaves the notices alone.
LEMMA PersonalQuiet ==
    ASSUME PersonalInv, NEW c \in Calls, NEW r \in PersonalRecords(notices, accepted'),
           plea' = [plea EXCEPT ![c] = r], accepted \subseteq accepted',
           UNCHANGED <<notices, current>>, r.pc # "publish" \/ r.seen = current, PersonalRows'
    PROVE  PersonalInv'
<1>1. PersonalRows /\ PersonalInFlight /\ PersonalOwned
  BY DEF PersonalInv
<1>2. notices \in Nat /\ notices <= notices'
  BY <1>1 DEF PersonalRows, Personal!Notices
<1>3. PersonalInFlight' /\ plea'[c] = r /\ \A d \in Calls : d # c => plea'[d] = plea[d]
  BY <1>1, <1>2, PersonalCallIs
<1>4. PersonalOwned'
  BY <1>1, <1>3, PersonalOwnersStay DEF PersonalPublishes
<1> QED
  BY <1>1, <1>3, <1>4 DEF PersonalInv

LEMMA PersonalRowsStay ==
    ASSUME PersonalRows,
           UNCHANGED <<topic, notices, current, person, accepted, consent, filed, left, broken>>
    PROVE  PersonalRows'
  BY DEF PersonalRows

LEMMA PersonalInitially == Personal!Init => PersonalInv
<1> SUFFICES ASSUME Personal!Init PROVE PersonalInv
  OBVIOUS
<1>1. notices \in Personal!Notices /\ 1 \in 1 .. notices
  BY BoundsAssumption DEF Personal!Init, Personal!Notices
<1>2. PersonalRows
  <2>1. person \in Personal!Person /\ person.version = 0
    BY BoundsAssumption DEF Personal!Init, Personal!Person
  <2>2. current \subseteq 1 .. notices
    BY <1>1 DEF Personal!Init
  <2> QED
    BY <1>1, <2>1, <2>2 DEF Personal!Init, PersonalRows
<1>3. PersonalInFlight
  BY PersonalIdleIs DEF Personal!Init, PersonalInFlight
<1>4. PICK c \in Calls : TRUE
  BY CallsAssumption
<1>5. PersonalIsOwner([a \in current |-> c])
  BY <1>4, PersonalIdleIs DEF Personal!Init, PersonalIsOwner, PersonalPublishes
<1> QED
  BY <1>2, <1>3, <1>5 DEF PersonalInv, PersonalOwned

LEMMA PersonalPublishReadsStep ==
    ASSUME PersonalInv, NEW c \in Calls, Personal!PublishReads(c)
    PROVE  PersonalInv'
<1>1. PersonalRows /\ PersonalInFlight /\ PersonalOwned
  BY DEF PersonalInv
<1>2. PICK on \in BOOLEAN :
          plea' = [plea EXCEPT ![c] = [pc |-> "publish", on |-> on, seen |-> IF on THEN current ELSE {}]]
  BY DEF Personal!PublishReads, Personal!To
<1> DEFINE r == [pc |-> "publish", on |-> on, seen |-> IF on THEN current ELSE {}]
<1>3. current \subseteq Personal!Notices
  BY <1>1, BoundsAssumption DEF PersonalRows, Personal!Notices
<1>4. r \in PersonalRecords(notices, accepted) /\ (PersonalPublishes(r) => r.seen = current)
  BY <1>3 DEF PersonalRecords, PersonalPublishes
<1>5. plea' = [plea EXCEPT ![c] = r]
  BY <1>2
<1> HIDE DEF r
<1>6. UNCHANGED <<topic, notices, current, Personal!Person_, Personal!Files>>
  BY DEF Personal!PublishReads
<1>7. notices \in Nat
  BY <1>1 DEF PersonalRows, Personal!Notices
<1>8. PersonalInFlight' /\ plea'[c] = r /\ \A d \in Calls : d # c => plea'[d] = plea[d]
  <2>1. notices' = notices /\ accepted' = accepted
    BY <1>6 DEF Personal!Person_
  <2>2. notices' \in Nat /\ notices <= notices' /\ accepted \subseteq accepted'
    BY <1>7, <2>1
  <2>3. r \in PersonalRecords(notices', accepted')
    BY <1>4, <2>1
  <2> QED
    BY <1>1, <1>5, <2>2, <2>3, PersonalCallIs
<1>9. PersonalOwned'
  BY <1>1, <1>4, <1>6, <1>8, PersonalOwnersStay
<1>10. PersonalRows'
  BY <1>1, <1>6, PersonalRowsStay DEF Personal!Person_, Personal!Files
<1> QED
  BY <1>8, <1>9, <1>10 DEF PersonalInv

LEMMA PersonalPublishCommitsStep ==
    ASSUME PersonalInv, NEW c \in Calls, Personal!PublishCommits(c)
    PROVE  PersonalInv'
<1>1. PersonalRows /\ PersonalInFlight /\ PersonalOwned
  BY DEF PersonalInv
<1> DEFINE r == [pc |-> "answer"]
<1>2. plea[c].pc = "publish" /\ notices < MaxNotices /\ notices' = notices + 1
      /\ current' = (IF plea[c].on THEN (current \ plea[c].seen) \cup {notices + 1} ELSE current)
      /\ plea' = [plea EXCEPT ![c] = r] /\ UNCHANGED <<topic, Personal!Person_, Personal!Files>>
  BY DEF Personal!PublishCommits, Personal!At, Personal!To, Personal!Replaced
<1>3. notices \in Nat /\ notices' \in Personal!Notices /\ 1 .. notices \subseteq 1 .. notices'
      /\ notices + 1 \in 1 .. notices' /\ notices + 1 \notin 1 .. notices
  BY <1>1, <1>2, BoundsAssumption DEF PersonalRows, Personal!Notices
<1>4. r \in PersonalRecords(notices', accepted') /\ ~PersonalPublishes(r)
  BY DEF PersonalRecords, PersonalPublishes
<1> HIDE DEF r
<1>5. PersonalInFlight' /\ plea'[c] = r /\ \A d \in Calls : d # c => plea'[d] = plea[d]
  <2>1. notices' \in Nat /\ notices <= notices'
    BY <1>2, <1>3
  <2>2. accepted \subseteq accepted'
    BY <1>2 DEF Personal!Person_
  <2> QED
    BY <1>1, <1>2, <1>4, <2>1, <2>2, PersonalCallIs
<1>6. current \subseteq 1 .. notices
  BY <1>1 DEF PersonalRows
<1>7. current' \subseteq 1 .. notices'
  BY <1>2, <1>3, <1>6
<1>8. PersonalRows'
  BY <1>1, <1>2, <1>3, <1>7 DEF PersonalRows, Personal!Person_, Personal!Files
<1>9. PersonalOwned'
  <2>1. CASE plea[c].on
    <3>1. PICK own : PersonalIsOwner(own)
      BY <1>1 DEF PersonalOwned
    <3>. PICK new : new = [a \in current' |-> IF a = notices + 1 THEN c ELSE own[a]]
      OBVIOUS
    <3>2. current' = (current \ plea[c].seen) \cup {notices + 1}
            /\ notices + 1 \notin current
      BY <1>2, <1>3, <1>6, <2>1
    <3>3. PersonalPublishes(plea[c])
      BY <1>2, <2>1 DEF PersonalPublishes
    <3>4. \A a \in current' : a # notices + 1 => a \in current /\ own[a] # c
      BY <3>1, <3>2, <3>3 DEF PersonalIsOwner
    <3>5. new \in [current' -> Calls]
      BY <3>1, <3>4 DEF PersonalIsOwner
    <3>6. \A a, b \in current' : new[a] = new[b] => a = b
      BY <3>1, <3>4 DEF PersonalIsOwner
    <3>7. ASSUME NEW a \in current', NEW d \in Calls, new[a] = d,
                 PersonalPublishes(plea'[d])
          PROVE  a \in plea'[d].seen
      <4>1. d # c /\ plea'[d] = plea[d]
        BY <1>4, <1>5, <3>7
      <4>2. a \in current /\ own[a] = d
        BY <3>4, <3>7, <4>1
      <4> QED
        BY <3>1, <3>7, <4>1, <4>2 DEF PersonalIsOwner
    <3>8. PersonalIsOwner(new)'
      BY <3>5, <3>6, <3>7 DEF PersonalIsOwner, PersonalPublishes
    <3> QED
      BY <3>8 DEF PersonalOwned
  <2>2. CASE ~plea[c].on
    BY <1>1, <1>2, <1>4, <1>5, <2>2, PersonalOwnersStay
  <2> QED
    BY <2>1, <2>2
<1> QED
  BY <1>5, <1>8, <1>9 DEF PersonalInv

LEMMA PersonalLeastNatural ==
    ASSUME NEW S, S \subseteq Nat, S # {}
    PROVE  \E x \in S : \A y \in S : x <= y
<1>1. PICK x \in S : \A y \in S : ~ (<<y, x>> \in OpToRel(<, Nat))
  BY NatLessThanWellFounded, WFMin
<1>2. \A y \in S : ~ (y < x)
  BY <1>1 DEF OpToRel
<1> QED
  BY <1>2

LEMMA PersonalNewestIsActive ==
    ASSUME NEW n \in Nat, NEW S, S \subseteq 1 .. n, S # {}
    PROVE  \E x \in S : \A y \in S : y <= x
<1> DEFINE T == {k \in 0 .. n : \E x \in S : k = n - x}
<1>1. T \subseteq Nat /\ T # {}
  <2>1. PICK x \in S : x \in 1 .. n
    OBVIOUS
  <2>2. n - x \in 0 .. n
    BY <2>1
  <2>3. n - x \in T
    BY <2>1, <2>2
  <2>4. 0 .. n \subseteq Nat /\ T \subseteq 0 .. n
    OBVIOUS
  <2> QED
    BY <2>3, <2>4, Zenon
<1>2. PICK k \in T : \A l \in T : k <= l
  BY <1>1, PersonalLeastNatural
<1>3. PICK x \in S : k = n - x
  BY <1>2
<1>4. ASSUME NEW y \in S PROVE y <= x
  <2>1. n - y \in T
    <3>1. y \in 1 .. n
      OBVIOUS
    <3>2. n - y \in 0 .. n
      BY <3>1
    <3> QED
      BY <3>2
  <2>2. k <= n - y
    BY <1>2, <2>1
  <2>3. x \in Nat /\ y \in Nat
    OBVIOUS
  <2> QED
    BY <1>3, <2>2, <2>3
<1> QED
  BY <1>4

LEMMA PersonalAcceptStep ==
    ASSUME PersonalInv, NEW c \in Calls,
           Personal!AcceptFinds(c) \/ Personal!AcceptCommits(c)
    PROVE  PersonalInv'
<1>1. PersonalRows /\ PersonalInFlight /\ PersonalOwned /\ notices \in Nat
        /\ plea[c] \in PersonalRecords(notices, accepted)
  BY DEF PersonalInv, PersonalRows, Personal!Notices, PersonalInFlight
<1>2. CASE Personal!AcceptFinds(c)
  <2> DEFINE r == [pc |-> "accept", notice |-> Personal!ActiveNotice]
  <2>1. current # {} /\ current \subseteq 1 .. notices
    BY <1>1, <1>2 DEF Personal!AcceptFinds, PersonalRows
  <2>2. \E n \in current : \A m \in current : m <= n
    BY <1>1, <2>1, PersonalNewestIsActive
  <2>3. Personal!ActiveNotice \in current
    BY <2>2 DEF Personal!ActiveNotice
  <2>4. r \in PersonalRecords(notices, accepted) /\ r.pc = "accept"
    BY <2>1, <2>3 DEF PersonalRecords
  <2>5. plea' = [plea EXCEPT ![c] = r]
          /\ UNCHANGED <<topic, notices, current, Personal!Person_, Personal!Files>>
    BY <1>2 DEF Personal!AcceptFinds, Personal!To
  <2> HIDE DEF r
  <2>6. PersonalRows'
    BY <1>1, <2>5, PersonalRowsStay DEF Personal!Person_, Personal!Files
  <2> QED
    BY <2>4, <2>5, <2>6, PersonalQuiet DEF Personal!Person_
<1>3. CASE Personal!AcceptCommits(c)
  <2> DEFINE r == [pc |-> "answer"]
             n == plea[c].notice
  <2>1. n \in 1 .. notices
    BY <1>1, <1>3, PersonalRecordIs DEF Personal!AcceptCommits, Personal!At
  <2>2. accepted' = accepted \cup {n} /\ person' = [person EXCEPT !.version = n]
        /\ plea' = [plea EXCEPT ![c] = r]
        /\ UNCHANGED <<topic, notices, current, consent, filed, Personal!Files>>
    BY <1>3 DEF Personal!AcceptCommits, Personal!To
  <2>3. r \in PersonalRecords(notices, accepted') /\ r.pc = "answer"
    BY DEF PersonalRecords
  <2> HIDE DEF r, n
  <2>4. person' \in Personal!Person /\ person'.version = n
    <3>1. n \in 0 .. MaxNotices
      BY <1>1, <2>1, BoundsAssumption DEF PersonalRows, Personal!Notices
    <3> QED
      BY <1>1, <2>2, <3>1 DEF PersonalRows, Personal!Person
  <2>5. PersonalRows'
    BY <1>1, <2>1, <2>2, <2>4 DEF PersonalRows, Personal!Files
  <2> QED
    BY <2>2, <2>3, <2>5, PersonalQuiet
<1> QED
  BY <1>2, <1>3

LEMMA PersonalRightsStep ==
    ASSUME PersonalInv, NEW c \in Calls,
           Personal!RecordConsent(c) \/ Personal!RectifyWrites(c) \/ Personal!RectifyRecords(c) \/ Personal!Answered(c) \/ Personal!Fails(c)
    PROVE  PersonalInv'
<1>1. PersonalRows /\ PersonalInFlight /\ PersonalOwned
  BY DEF PersonalInv
<1>2. PICK r \in {Personal!Idle, [pc |-> "answer"], [pc |-> "rectified"]} : plea' = [plea EXCEPT ![c] = r]
  BY DEF Personal!RecordConsent, Personal!RectifyWrites, Personal!RectifyRecords,
         Personal!Answered, Personal!Fails, Personal!To
<1>3. r \in PersonalRecords(notices, accepted) /\ r.pc # "publish"
  BY <1>2 DEF PersonalRecords, Personal!Idle
<1>4. UNCHANGED <<topic, notices, current, accepted, left, broken>>
  BY DEF Personal!RecordConsent, Personal!RectifyWrites, Personal!RectifyRecords,
         Personal!Answered, Personal!Fails, Personal!Files, Personal!Serves,
         Personal!Person_
<1>5. person' \in Personal!Person /\ person'.version = person.version
  <2>1. person' = person \/ person' = [person EXCEPT !.name = "new"]
    BY DEF Personal!RecordConsent, Personal!RectifyWrites, Personal!RectifyRecords,
           Personal!Answered, Personal!Fails, Personal!Files, Personal!Serves,
           Personal!Person_
  <2> QED
    BY <1>1, <2>1 DEF PersonalRows, Personal!Person
<1>6. consent' \in {"none", "granted", "revoked"} /\ filed' \subseteq {"rectify", "export"}
  BY <1>1
     DEF PersonalRows, Personal!RecordConsent, Personal!RectifyWrites,
         Personal!RectifyRecords, Personal!Answered, Personal!Fails, Personal!Serves,
         Personal!Person_
<1>7. PersonalRows'
  BY <1>1, <1>4, <1>5, <1>6 DEF PersonalRows
<1> QED
  BY <1>2, <1>3, <1>4, <1>7, PersonalQuiet

LEMMA PersonalExportStep ==
    ASSUME PersonalInv, NEW c \in Calls,
           Personal!ExportReads(c) \/ Personal!ExportRecords(c)
    PROVE  PersonalInv'
<1>1. PersonalRows /\ PersonalInFlight /\ PersonalOwned /\ plea[c] \in PersonalRecords(notices, accepted)
      /\ person.version \in {0} \cup accepted /\ accepted \subseteq Nat
  BY DEF PersonalInv, PersonalRows, PersonalInFlight
<1>2. UNCHANGED <<topic, notices, current, person, accepted, consent, left, broken>>
  BY DEF Personal!ExportReads, Personal!ExportRecords, Personal!Person_, Personal!Files
<1>3. filed' \subseteq {"rectify", "export"}
  BY <1>1 DEF PersonalRows, Personal!ExportReads, Personal!ExportRecords, Personal!Person_
<1>4. PersonalRows'
  BY <1>1, <1>2, <1>3 DEF PersonalRows
<1>5. CASE Personal!Begins(c, "notices")
             /\ Personal!To(c, [pc |-> "reads", version |-> person.version])
  <2> DEFINE r == [pc |-> "reads", version |-> person.version]
  <2>1. r \in PersonalRecords(notices, accepted) /\ r.pc = "reads"
          /\ plea' = [plea EXCEPT ![c] = r]
    BY <1>1, <1>5 DEF PersonalRecords, Personal!To
  <2> HIDE DEF r
  <2> QED
    BY <1>2, <1>4, <2>1, PersonalQuiet
<1>6. CASE Personal!At(c, "reads") /\ Personal!To(c, [pc |-> "collected",
                                             data |-> [version |-> plea[c].version, accepted |-> accepted]])
  <2> DEFINE d == [version |-> plea[c].version, accepted |-> accepted]
             r == [pc |-> "collected", data |-> d]
  <2>1. plea[c].version \in {0} \cup accepted
    BY <1>1, <1>6, PersonalRecordIs DEF Personal!At
  <2>2. d \in PersonalData(accepted)
    <3>1. accepted \subseteq Nat
      BY <1>1 DEF PersonalRows
    <3>2. PICK v \in {0} \cup accepted : v = plea[c].version
      BY <2>1
    <3>4. v \in Nat /\ (v # 0 => v \in accepted)
      BY <3>1
    <3>3. d = [version |-> v, accepted |-> accepted]
      BY <3>2
    <3> HIDE DEF d
    <3> QED
      BY ONLY <3>3, <3>4 DEF PersonalData
  <2>3. plea' = [plea EXCEPT ![c] = r]
    BY <1>6 DEF Personal!To
  <2> HIDE DEF d
  <2>4. r \in PersonalRecords(notices, accepted) /\ r.pc = "collected"
    BY <2>2 DEF PersonalRecords
  <2> HIDE DEF r
  <2> QED
    BY <1>2, <1>4, <2>3, <2>4, PersonalQuiet
<1>7. CASE Personal!ExportRecords(c)
  <2> DEFINE r == [pc |-> "exported", data |-> plea[c].data]
  <2>1. plea[c].data \in PersonalData(accepted) /\ plea' = [plea EXCEPT ![c] = r]
    BY <1>1, <1>7, PersonalRecordIs DEF Personal!ExportRecords, Personal!At, Personal!To
  <2>2. r \in PersonalRecords(notices, accepted) /\ r.pc = "exported"
    BY <2>1 DEF PersonalRecords
  <2> HIDE DEF r
  <2> QED
    BY <1>2, <1>4, <2>1, <2>2, PersonalQuiet
<1> QED
  BY <1>5, <1>6, <1>7 DEF Personal!ExportReads

\* A step of the export as files that goes on with some files on the disk.
LEMMA PersonalOnDisk ==
    ASSUME PersonalInv, NEW c \in Calls, NEW pc \in Personal!InFiles,
           NEW files \in SUBSET {"dir", "zip"},
           Personal!Step(c, pc, files), UNCHANGED <<Personal!Serves, Personal!Files>>
    PROVE  PersonalInv'
<1> DEFINE r == [pc |-> pc, files |-> files]
<1>1. r \in PersonalRecords(notices, accepted) /\ r.pc # "publish"
  BY DEF PersonalRecords, Personal!InFiles
<1>2. plea' = [plea EXCEPT ![c] = r] /\ UNCHANGED <<Personal!Serves, Personal!Files>>
  BY DEF Personal!Step, Personal!To
<1> HIDE DEF r
<1>3. PersonalRows'
  BY <1>2, PersonalRowsStay DEF PersonalInv, Personal!Serves, Personal!Files
<1> QED
  BY <1>1, <1>2, <1>3, PersonalQuiet DEF Personal!Serves

\* One that throws.
LEMMA PersonalThrowsStep ==
    ASSUME PersonalInv, NEW c \in Calls, NEW files \in SUBSET {"dir", "zip"},
           Personal!Throws(c, files),
           broken' \in BOOLEAN, broken => broken', files # {} => broken', UNCHANGED Personal!Serves
    PROVE  PersonalInv'
<1>1. Personal!Idle \in PersonalRecords(notices, accepted) /\ Personal!Idle.pc # "publish"
  BY PersonalIdleIs
<1>2. plea' = [plea EXCEPT ![c] = Personal!Idle] /\ left' = left \cup files
  BY DEF Personal!Throws, Personal!To
<1>3. PersonalRows'
  BY <1>2 DEF PersonalInv, PersonalRows, Personal!Serves
<1> QED
  BY <1>1, <1>2, <1>3, PersonalQuiet DEF Personal!Serves

LEMMA PersonalFilesStep ==
    ASSUME PersonalInv, NEW c \in Calls,
           \/ Personal!FilesBegin(c) \/ Personal!MakeDirectory(c) \/ Personal!GenerateFiles(c) \/ Personal!MakeZip(c)
           \/ Personal!RemoveDirectory(c) \/ Personal!CleanDirectory(c) \/ Personal!CleanZip(c)
    PROVE  PersonalInv'
<1>1. PersonalRows /\ plea[c] \in PersonalRecords(notices, accepted) /\ broken \in BOOLEAN
  BY DEF PersonalInv, PersonalInFlight, PersonalRows
<1>2. CASE \/ Personal!FilesBegin(c) \/ Personal!MakeDirectory(c) \/ Personal!GenerateFiles(c) \/ Personal!MakeZip(c)
           \/ Personal!RemoveDirectory(c) /\ ~Personal!To(c, [pc |-> "answer"])
  <2>1. PICK pc \in Personal!InFiles, files \in SUBSET {"dir", "zip"} : Personal!Step(c, pc, files)
    BY <1>2
       DEF Personal!FilesBegin, Personal!MakeDirectory, Personal!GenerateFiles,
           Personal!MakeZip, Personal!RemoveDirectory, Personal!InFiles
  <2>2. UNCHANGED <<Personal!Serves, Personal!Files>>
    BY <1>2
       DEF Personal!FilesBegin, Personal!MakeDirectory, Personal!GenerateFiles,
           Personal!MakeZip, Personal!RemoveDirectory
  <2> QED
    BY <2>1, <2>2, PersonalOnDisk
<1>3. CASE Personal!RemoveDirectory(c) /\ Personal!To(c, [pc |-> "answer"])
  <2> DEFINE r == [pc |-> "answer"]
  <2>1. r \in PersonalRecords(notices, accepted) /\ r.pc # "publish"
    BY DEF PersonalRecords
  <2>2. plea' = [plea EXCEPT ![c] = r] /\ UNCHANGED <<Personal!Serves, Personal!Files>>
    BY <1>3 DEF Personal!RemoveDirectory, Personal!To
  <2> HIDE DEF r
  <2>3. PersonalRows'
    BY <1>1, <2>2, PersonalRowsStay DEF Personal!Serves, Personal!Files
  <2> QED
    BY <2>1, <2>2, <2>3, PersonalQuiet DEF Personal!Serves
<1>4. CASE Personal!CleanDirectory(c)
  <2>1. plea[c].files \in SUBSET {"dir", "zip"} /\ UNCHANGED Personal!Serves
    BY <1>1, <1>4, PersonalRecordIs
       DEF Personal!CleanDirectory, Personal!At, Personal!InFiles
  <2>2. CASE Personal!Step(c, "cleanzip", plea[c].files \ {"dir"})
               /\ UNCHANGED Personal!Files
    <3>1. "cleanzip" \in Personal!InFiles
            /\ plea[c].files \ {"dir"} \in SUBSET {"dir", "zip"}
      BY <2>1 DEF Personal!InFiles
    <3> QED
      BY <2>1, <2>2, <3>1, PersonalOnDisk
  <2>3. CASE Personal!Throws(c, plea[c].files) /\ broken' = (broken \/ plea[c].files # {})
    BY <1>1, <2>1, <2>3, PersonalThrowsStep
  <2> QED
    BY <1>4, <2>2, <2>3 DEF Personal!CleanDirectory
<1>5. CASE Personal!CleanZip(c)
  <2>1. plea[c].files \in SUBSET {"dir", "zip"} /\ UNCHANGED Personal!Serves
    BY <1>1, <1>5, PersonalRecordIs DEF Personal!CleanZip, Personal!At, Personal!InFiles
  <2>2. CASE Personal!Throws(c, {}) /\ UNCHANGED broken
    BY <1>1, <2>1, <2>2, PersonalThrowsStep
  <2>3. CASE Personal!Throws(c, plea[c].files) /\ broken' = (broken \/ plea[c].files # {})
    BY <1>1, <2>1, <2>3, PersonalThrowsStep
  <2> QED
    BY <1>5, <2>2, <2>3 DEF Personal!CleanZip
<1> QED
  BY <1>2, <1>3, <1>4, <1>5

LEMMA PersonalCrashStep ==
    ASSUME PersonalInv, Personal!Crash
    PROVE  PersonalInv'
<1>1. PersonalRows /\ PersonalInFlight /\ PersonalOwned
  BY DEF PersonalInv
<1>2. plea' = [c \in Calls |-> Personal!Idle] /\ broken' = TRUE /\ UNCHANGED Personal!Serves
      /\ left' = left \cup UNION {IF plea[c].pc \in Personal!InFiles THEN plea[c].files ELSE {} : c \in Calls}
  BY DEF Personal!Crash
<1>3. \A c \in Calls : (IF plea[c].pc \in Personal!InFiles THEN plea[c].files ELSE {}) \subseteq {"dir", "zip"}
  BY <1>1, PersonalRecordIs DEF PersonalInFlight
<1>4. left' \subseteq {"dir", "zip"}
  BY <1>1, <1>2, <1>3 DEF PersonalRows
<1>5. PersonalRows'
  BY <1>1, <1>2, <1>4 DEF PersonalRows, Personal!Serves
<1>6. PersonalInFlight'
  BY <1>2, PersonalIdleIs DEF PersonalInFlight
<1>7. PICK own : PersonalIsOwner(own)
  BY <1>1 DEF PersonalOwned
<1>8. PersonalIsOwner(own)'
  BY <1>2, <1>7, PersonalIdleIs DEF PersonalIsOwner, Personal!Serves, PersonalPublishes
<1> QED
  BY <1>5, <1>6, <1>8 DEF PersonalInv, PersonalOwned

LEMMA PersonalSameCalls ==
    ASSUME PersonalInv, PersonalRows', UNCHANGED <<notices, current, accepted, plea>>
    PROVE  PersonalInv'
<1>1. PersonalInFlight' /\ PersonalOwned'
  BY DEF PersonalInv, PersonalInFlight, PersonalOwned, PersonalIsOwner
<1> QED
  BY <1>1 DEF PersonalInv

LEMMA PersonalKept == ASSUME PersonalInv, [Personal!Next]_personalVars PROVE PersonalInv'
<1>1. CASE UNCHANGED personalVars
  <2>1. PersonalRows'
    BY <1>1, PersonalRowsStay DEF PersonalInv, personalVars
  <2> QED
    BY <1>1, <2>1, PersonalSameCalls DEF personalVars
<1>2. CASE Personal!Anonymize
  <2>1. person' \in Personal!Person /\ person'.version = 0
    BY <1>2, BoundsAssumption DEF Personal!Anonymize, Personal!Person
  <2>2. PersonalRows'
    BY <1>2, <2>1 DEF Personal!Anonymize, PersonalInv, PersonalRows, Personal!Files
  <2> QED
    BY <1>2, <2>2, PersonalSameCalls DEF Personal!Anonymize
<1>3. ASSUME NEW c \in Calls, Personal!CallStep(c) PROVE PersonalInv'
  BY <1>3, PersonalPublishReadsStep, PersonalPublishCommitsStep, PersonalAcceptStep,
     PersonalRightsStep, PersonalExportStep, PersonalFilesStep
     DEF Personal!CallStep
<1> QED
  BY <1>1, <1>2, <1>3, PersonalCrashStep DEF Personal!Next

LEMMA PersonalPromises == PersonalInv => Personal!TypeOK /\ Personal!ActiveNoticesBounded /\ Personal!ExportIsWhole /\ Personal!NothingLeftBehind
<1> SUFFICES ASSUME PersonalInv
             PROVE  Personal!TypeOK /\ Personal!ActiveNoticesBounded
                      /\ Personal!ExportIsWhole /\ Personal!NothingLeftBehind
  OBVIOUS
<1>1. PersonalRows /\ PersonalInFlight /\ PersonalOwned
  BY DEF PersonalInv
<1>2. Personal!TypeOK
  BY <1>1, PersonalRecordIs DEF PersonalRows, PersonalInFlight, Personal!TypeOK
<1>3. Personal!ActiveNoticesBounded
  <2>1. PICK own : PersonalIsOwner(own)
    BY <1>1 DEF PersonalOwned
  <2>2. own \in Injection(current, Calls)
    BY <2>1 DEF PersonalIsOwner, Injection, IsInjective
  <2> QED
    BY <2>2, CallsAssumption, FS_Injection, PersonalCardinality
       DEF Personal!ActiveNoticesBounded
<1>4. Personal!ExportIsWhole
  BY <1>1, PersonalRecordIs
     DEF PersonalInFlight, Personal!ExportIsWhole, Personal!At, PersonalData
<1>5. Personal!NothingLeftBehind
  BY <1>1 DEF PersonalRows, Personal!NothingLeftBehind
<1> QED
  BY <1>2, <1>3, <1>4, <1>5
===========================================================================
