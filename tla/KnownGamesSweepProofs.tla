------------------------ MODULE KnownGamesSweepProofs ------------------------
(***************************************************************************)
(* Proofs about the sweep over the known games, for any catalogue, page    *)
(* size, number of requests in flight, sessions and faults: the cursor     *)
(* passes only games that came back, and a pass that says it has seen the  *)
(* whole list has.                                                         *)
(***************************************************************************)
EXTENDS KnownGamesSweep, FiniteSetTheorems, WellFoundedInduction, TLAPS

(***************************************************************************)
(* Numbers, pages and what is out of them                                  *)
(***************************************************************************)

LEMMA LeastOne ==
  ASSUME NEW S \in SUBSET Nat, S # {}
  PROVE  \E s \in S : \A t \in S : s <= t
<1> DEFINE R == {ss \in Nat \X Nat : ss[1] < ss[2]}
<1>1. IsWellFoundedOn(R, Nat)
  BY NatLessThanWellFounded DEF OpToRel
<1>2. PICK s \in S : \A t \in S : ~(<<t, s>> \in R)
  <2> HIDE DEF R
  <2> QED BY <1>1, WFMin
<1>3. ASSUME NEW t \in S PROVE s <= t
  <2>1. s \in Nat /\ t \in Nat /\ <<t, s>> \notin R
    BY <1>2
  <2> QED BY <2>1
<1> QED BY <1>3

\* A finite set of numbers has a k-th lowest for every k up to its size.
LEMMA KthLowest ==
  ASSUME NEW S \in SUBSET Nat, IsFiniteSet(S), NEW k \in 1 .. Cardinality(S)
  PROVE  Lowest(S, k) \in S /\ Cardinality({t \in S : t < Lowest(S, k)}) = k - 1
<1> DEFINE Below(s) == {t \in S : t < s}
           Found(j) == \E s \in S : Cardinality(Below(s)) = j - 1
           Bad == {j \in 1 .. Cardinality(S) : ~Found(j)}
<1>0. Cardinality(S) \in Nat
  BY FS_CardinalityType
<1>1. Bad = {}
  <2> SUFFICES ASSUME Bad # {} PROVE FALSE
    OBVIOUS
  <2>1. PICK b \in Bad : \A j \in Bad : b <= j
    <3> HIDE DEF Found
    <3>1. Bad \in SUBSET Nat
      BY <1>0
    <3> QED BY <3>1, LeastOne
  <2>2. CASE b = 1
    <3>1. S # {}
      BY <1>0, FS_EmptySet
    <3>2. PICK s \in S : \A t \in S : s <= t
      BY <3>1, LeastOne
    <3>3. Below(s) = {}
      <4> SUFFICES ASSUME NEW t \in S, t < s PROVE FALSE
        OBVIOUS
      <4>1. s <= t /\ s \in Nat /\ t \in Nat
        BY <3>2
      <4> QED BY <4>1
    <3>4. Cardinality(Below(s)) = 0
      BY <3>3, FS_EmptySet
    <3> QED BY <2>2, <3>4
  <2>3. CASE b # 1
    <3>1. b \in Nat /\ b - 1 \in 1 .. Cardinality(S) /\ b - 1 \notin Bad
      BY <1>0, <2>1, <2>3
    <3>2. PICK r \in S : Cardinality(Below(r)) = b - 2
      BY <3>1
    <3> DEFINE upTo == Below(r) \cup {r}
    <3>3. IsFiniteSet(upTo) /\ Cardinality(upTo) = b - 1
      <4>1. IsFiniteSet(Below(r)) /\ r \notin Below(r)
        BY FS_Subset
      <4> HIDE DEF Below
      <4> QED BY <3>1, <3>2, <4>1, FS_AddElement
    <3>4. S \ upTo # {}
      <4> SUFFICES ASSUME S \ upTo = {} PROVE FALSE
        OBVIOUS
      <4>1. upTo = S
        OBVIOUS
      <4>2. b \in 1 .. Cardinality(S)
        BY <2>1
      <4> HIDE DEF upTo, Bad
      <4> QED BY <1>0, <3>1, <3>3, <4>1, <4>2
    <3>5. PICK s \in S \ upTo : \A t \in S \ upTo : s <= t
      <4> HIDE DEF upTo
      <4>1. S \ upTo \in SUBSET Nat
        OBVIOUS
      <4> QED BY <3>4, <4>1, LeastOne
    <3>6. Below(s) = upTo
      <4>1. r \in Nat /\ s \in Nat /\ \A t \in S : t \in Nat
        OBVIOUS
      <4>2. r < s
        BY <3>5, <4>1
      <4>3. \A t \in S : t < s => t \in upTo
        BY <3>5, <4>1
      <4>4. \A t \in upTo : t \in S /\ t < s
        BY <4>1, <4>2
      <4> HIDE DEF upTo
      <4> QED BY <4>3, <4>4
    <3> QED BY <3>1, <3>3, <3>6
  <2> QED BY <2>2, <2>3
<1>2. Found(k)
  BY <1>1
<1> QED BY <1>2 DEF Lowest

\* A page of finitely many games in order names each of them once.
LEMMA OrderedGames ==
  ASSUME NEW S \in SUBSET Games, NEW size, size = Cardinality(S)
  PROVE  /\ IsFiniteSet(S) /\ size \in Nat
         /\ \A k \in 1 .. size : Lowest(S, k) \in S
         /\ \A j, k \in 1 .. size : Lowest(S, j) = Lowest(S, k) => j = k
         /\ \A g \in S : \E k \in 1 .. size : Lowest(S, k) = g
<1>0. IsFiniteSet(Games)
  BY FS_Interval, SweepAssumption DEF Games
<1>1. IsFiniteSet(S) /\ S \in SUBSET Nat
  <2>1. Games \in SUBSET Nat
    BY SweepAssumption DEF Games
  <2> QED BY <1>0, <2>1, FS_Subset
<1>2. size \in Nat
  BY <1>1, FS_CardinalityType
<1>3. \A k \in 1 .. size : Lowest(S, k) \in S /\ Cardinality({t \in S : t < Lowest(S, k)}) = k - 1
  BY <1>1, KthLowest
<1>4. \A j, k \in 1 .. size : Lowest(S, j) = Lowest(S, k) => j = k
  <2> SUFFICES ASSUME NEW j \in 1 .. size, NEW k \in 1 .. size, Lowest(S, j) = Lowest(S, k)
               PROVE  j = k
    OBVIOUS
  <2>1. j - 1 = k - 1
    BY <1>3
  <2> QED BY <1>2, <2>1
<1> DEFINE f == [k \in 1 .. size |-> Lowest(S, k)]
<1>5. f \in Injection(1 .. size, S)
  BY <1>3, <1>4 DEF Injection, IsInjective
<1>6. Cardinality(1 .. size) = size
  BY <1>2, FS_Interval
<1>7. f \in Surjection(1 .. size, S)
  <2> HIDE DEF f
  <2> QED BY <1>1, <1>5, <1>6, FS_Injection
<1>8. \A g \in S : \E k \in 1 .. size : Lowest(S, k) = g
  BY <1>7 DEF Surjection
<1> QED BY <1>1, <1>2, <1>3, <1>4, <1>8

LEMMA QueuedGames ==
  ASSUME SweepTyped, NEW i \in DOMAIN queued
  PROVE  /\ queued[i].page \in Nat /\ queued[i].game \in Games
         /\ queued[i] = [page |-> queued[i].page, game |-> queued[i].game]
<1> DEFINE R == [page : Nat, game : Games]
<1>1. queued[i] \in R
  <2>1. queued \in Seq(R)
    BY DEF SweepTyped
  <2> HIDE DEF R
  <2>2. i \in 1 .. Len(queued)
    BY <2>1
  <2> QED BY <2>1, <2>2
<1> QED BY <1>1

LEMMA PageTyped ==
  ASSUME SweepTyped, NEW n \in Numbers
  PROVE  /\ n - done + 1 \in 1 .. Len(pages)
         /\ At(n) \in [position : Games, outstanding : Nat, unserved : BOOLEAN]
         /\ At(n).position \in Games /\ At(n).outstanding \in Nat /\ At(n).unserved \in BOOLEAN
<1> DEFINE R == [position : Games, outstanding : Nat, unserved : BOOLEAN]
<1>1. pages \in Seq(R) /\ done \in Nat
  BY DEF SweepTyped
<1>2. n - done + 1 \in 1 .. Len(pages)
  BY <1>1 DEF Numbers
<1>3. At(n) \in R
  <2> HIDE DEF R
  <2> QED BY <1>1, <1>2 DEF At
<1> QED BY <1>2, <1>3

LEMMA OutIsFinite ==
  ASSUME NEW n
  PROVE  IsFiniteSet(OutOf(n)) /\ IsFiniteSet(OutOf(n)')
<1>1. IsFiniteSet(Games)
  BY FS_Interval, SweepAssumption DEF Games
<1>2. OutOf(n) \in SUBSET Games /\ OutOf(n)' \in SUBSET Games
  BY DEF OutOf
<1> QED BY <1>1, <1>2, FS_Subset

LEMMA FetchingIsFinite == IsFiniteSet(Fetching) /\ IsFiniteSet(Fetching') /\ IsFiniteSet(Games)
<1>1. IsFiniteSet(Games)
  BY FS_Interval, SweepAssumption DEF Games
<1>2. Fetching \in SUBSET Games /\ Fetching' \in SUBSET Games
  BY DEF Fetching
<1> QED BY <1>1, <1>2, FS_Subset

\* Some number of pages at the front is finished, and the next one is not.
LEMMA FinishedFront ==
  ASSUME SweepTyped
  PROVE  /\ Prefix \in 0 .. Len(pages)
         /\ \A i \in 1 .. Prefix : Finished(pages[i])
<1> DEFINE U == {i \in 1 .. Len(pages) : ~Finished(pages[i])}
<1>1. Len(pages) \in Nat
  BY DEF SweepTyped
<1>2. \E n \in 0 .. Len(pages) :
          /\ \A i \in 1 .. n : Finished(pages[i])
          /\ n < Len(pages) => ~Finished(pages[n + 1])
  <2>1. CASE U = {}
    BY <1>1, <2>1
  <2>2. CASE U # {}
    <3>1. PICK u \in U : \A i \in U : u <= i
      <4> HIDE DEF Finished
      <4>1. U \in SUBSET Nat
        BY <1>1
      <4> QED BY <2>2, <4>1, LeastOne
    <3>2. u \in 1 .. Len(pages) /\ ~Finished(pages[u])
      BY <3>1
    <3>3. \A i \in 1 .. u - 1 : Finished(pages[i])
      <4> SUFFICES ASSUME NEW i \in 1 .. u - 1, ~Finished(pages[i]) PROVE FALSE
        OBVIOUS
      <4>1. i \in U
        BY <1>1, <3>2
      <4> QED BY <3>1, <3>2, <4>1, <1>1
    <3> WITNESS u - 1 \in 0 .. Len(pages)
    <3>4. (u - 1) + 1 = u
      BY <1>1, <3>2
    <3> QED BY <3>2, <3>3, <3>4
  <2> QED BY <2>1, <2>2
<1> HIDE DEF U
<1> QED BY <1>2 DEF Prefix

(***************************************************************************)
(* Steps that read and drop no page                                        *)
(***************************************************************************)

\* A step of a request: what is out stays out, and only games that are out
\* are booked anew.
LEMMA QuietStep ==
  ASSUME SweepInv,
         UNCHANGED <<cursor, walk, reading, pages, done, queued, listed, unserved, pageOf>>,
         verdict' \in [Games -> {"none", "refused", "unconvertible", "transport",
                                 "unserved", "nobody", "failed"}],
         task' \in [Games -> Outcomes \cup {"none", "waiting", "serving", "ingest"}],
         serving' \in [Sessions -> 0 .. NumGames],
         \A g \in Games : task'[g] = "none" <=> task[g] = "none",
         \A g \in Games : Booked(g) => Booked(g)' \/ task[g] # "none",
         \A g \in Games : task'[g] \in Outcomes \ {"Unserved"} => Booked(g)',
         HeldOnce'
  PROVE  SweepInv'
<1>1. Fetching' = Fetching
  BY DEF Fetching
<1>2. \A n : OutOf(n)' = OutOf(n)
  BY DEF OutOf
<1>3. Numbers' = Numbers /\ (\A n : At(n)' = At(n)) /\ (\A g, n : On(g, n)' = On(g, n))
  BY DEF Numbers, At, On
<1>4. \A n : Stuck(n)' = Stuck(n)
  BY <1>2, <1>3 DEF Stuck
<1>5. SweepTyped'
  BY DEF SweepInv, SweepTyped
<1>6. \A g \in Fetching : g > cursor
  BY DEF SweepInv, PrefixIsFinished, IdleIsEmpty
<1>7. PrefixIsFinished'
  <2>1. ASSUME NEW g \in Games, g <= cursor PROVE Booked(g)'
    <3>1. Booked(g)
      BY <2>1 DEF SweepInv, PrefixIsFinished
    <3>2. g \notin Fetching
      BY <1>6, <2>1, SweepAssumption DEF SweepInv, SweepTyped, Games
    <3> QED BY <3>1, <3>2 DEF Fetching
  <2> QED BY <1>1, <1>6, <2>1 DEF PrefixIsFinished
<1>8. IdleIsEmpty' /\ PagesInOrder' /\ OutOnce' /\ OutIsAhead'
  <2>1. Running' = Running
    BY DEF Running
  <2>2. IdleIsEmpty'
    BY <1>1, <2>1 DEF SweepInv, IdleIsEmpty
  <2>3. PagesInOrder'
    BY <1>3, <2>1 DEF SweepInv, PagesInOrder
  <2>4. OutOnce'
    <3>1. \A i \in DOMAIN queued : queued[i].game \in Games
      BY QueuedGames DEF SweepInv
    <3> QED BY <1>1, <3>1 DEF SweepInv, OutOnce
  <2>5. OutIsAhead'
    BY <1>1, <1>3 DEF SweepInv, OutIsAhead
  <2> QED BY <2>2, <2>3, <2>4, <2>5
<1>9. OutIsCounted'
  BY <1>2, <1>3, <1>4 DEF SweepInv, OutIsCounted
<1>10. ReadIsAccountedFor'
  <2>1. ASSUME NEW g \in 1 .. reading
        PROVE  Booked(g)' \/ \E n \in Numbers : On(g, n) /\ (g \in OutOf(n) \/ Stuck(n))
    <3>0. g \in Games
      BY SweepAssumption DEF SweepInv, SweepTyped, Games
    <3>1. CASE Booked(g) /\ task[g] # "none"
      <4>1. g \in Fetching
        BY <3>0, <3>1 DEF Fetching
      <4>2. pageOf[g] \in Numbers /\ On(g, pageOf[g])
        BY <4>1 DEF SweepInv, OutIsAhead
      <4>3. g \in OutOf(pageOf[g])
        BY <3>0, <3>1 DEF OutOf
      <4> QED BY <4>2, <4>3
    <3>2. CASE Booked(g) /\ task[g] = "none"
      BY <3>0, <3>2
    <3>3. CASE ~Booked(g)
      BY <3>3 DEF SweepInv, ReadIsAccountedFor
    <3> QED BY <3>1, <3>2, <3>3
  <2> QED BY <1>2, <1>3, <1>4, <2>1 DEF ReadIsAccountedFor
<1> QED BY <1>5, <1>7, <1>8, <1>9, <1>10 DEF SweepInv

\* The request of game g ends.
LEMMA EndsStep ==
  ASSUME SweepInv, NEW g \in Games, NEW outcome \in Outcomes,
         NEW why \in {"refused", "unconvertible", "transport", "unserved", "nobody", "failed"},
         (why = "unserved") => (outcome = "Unserved"),
         task[g] \in {"waiting", "serving", "ingest"}, Ends(g, outcome, why),
         UNCHANGED <<cursor, walk, reading, pages, done, queued, listed, unserved, pageOf, stored>>
  PROVE  SweepInv'
<1>1. /\ task' = [task EXCEPT ![g] = outcome] /\ verdict' = [verdict EXCEPT ![g] = why]
      /\ serving' = [s \in Sessions |-> IF serving[s] = g THEN 0 ELSE serving[s]]
  BY DEF Ends
<1>2. SweepTyped /\ HeldOnce
  BY DEF SweepInv
<1>3. /\ verdict' \in [Games -> {"none", "refused", "unconvertible", "transport",
                                 "unserved", "nobody", "failed"}]
      /\ task' \in [Games -> Outcomes \cup {"none", "waiting", "serving", "ingest"}]
      /\ serving' \in [Sessions -> 0 .. NumGames]
  <2>1. 0 \in 0 .. NumGames
    BY SweepAssumption
  <2> QED BY <1>1, <1>2, <2>1 DEF SweepTyped
<1>4. \A h \in Games : task'[h] = IF h = g THEN outcome ELSE task[h]
  BY <1>1, <1>2 DEF SweepTyped
<1>5. \A h \in Games : verdict'[h] = IF h = g THEN why ELSE verdict[h]
  BY <1>1, <1>2 DEF SweepTyped
<1>6. \A h \in Games : task'[h] = "none" <=> task[h] = "none"
  BY <1>4 DEF Outcomes
<1>7. \A h \in Games : Booked(h) => Booked(h)' \/ task[h] # "none"
  BY <1>5 DEF Booked
<1>8. \A h \in Games : task'[h] \in Outcomes \ {"Unserved"} => Booked(h)'
  <2> SUFFICES ASSUME NEW h \in Games, task'[h] \in Outcomes \ {"Unserved"} PROVE Booked(h)'
    OBVIOUS
  <2>1. CASE h = g
    BY <1>4, <1>5, <2>1 DEF Booked
  <2>2. CASE h # g
    <3>1. Booked(h)
      BY <1>4, <2>2 DEF SweepInv, ReadIsAccountedFor
    <3> QED BY <1>5, <2>2, <3>1 DEF Booked
  <2> QED BY <2>1, <2>2
<1>9. HeldOnce'
  <2>1. \A s \in Sessions : serving'[s] # 0 => serving'[s] = serving[s] /\ serving[s] # g
    BY <1>1
  <2>2. \A s \in Sessions : serving[s] # 0 => serving[s] \in Games
    BY <1>2, SweepAssumption DEF SweepTyped, Games
  <2> QED BY <1>2, <1>4, <2>1, <2>2 DEF HeldOnce
<1> QED BY <1>3, <1>6, <1>7, <1>8, <1>9, QuietStep

LEMMA ClaimStep ==
  ASSUME SweepInv, NEW s \in Sessions, NEW g \in Games, Claim(s, g)
  PROVE  SweepInv'
<1>1. SweepTyped /\ HeldOnce
  BY DEF SweepInv
<1>2. /\ task' = [task EXCEPT ![g] = "serving"] /\ serving' = [serving EXCEPT ![s] = g]
      /\ task[g] = "waiting" /\ UNCHANGED <<storeVars, walkVars, pageOf>>
  BY DEF Claim
<1>3. g \in 0 .. NumGames
  BY SweepAssumption DEF Games
<1>4. /\ task' \in [Games -> Outcomes \cup {"none", "waiting", "serving", "ingest"}]
      /\ serving' \in [Sessions -> 0 .. NumGames]
  BY <1>1, <1>2, <1>3 DEF SweepTyped
<1>5. \A h \in Games : task'[h] = IF h = g THEN "serving" ELSE task[h]
  BY <1>1, <1>2 DEF SweepTyped
<1>6. \A t \in Sessions : serving'[t] = IF t = s THEN g ELSE serving[t]
  BY <1>1, <1>2 DEF SweepTyped
<1>7. \A t \in Sessions : serving[t] # 0 => serving[t] \in Games /\ serving[t] # g
  BY <1>1, <1>2, SweepAssumption DEF SweepTyped, Games, HeldOnce
<1>8. HeldOnce'
  BY <1>1, <1>5, <1>6, <1>7 DEF HeldOnce
<1>9. \A h \in Games : Booked(h)' = Booked(h)
  BY <1>2 DEF Booked, storeVars
<1>10. \A h \in Games : task'[h] \in Outcomes \ {"Unserved"} => Booked(h)'
  BY <1>5, <1>9 DEF SweepInv, ReadIsAccountedFor, Outcomes
<1>11. \A h \in Games : task'[h] = "none" <=> task[h] = "none"
  BY <1>2, <1>5
<1>12. UNCHANGED <<cursor, walk, reading, pages, done, queued, listed, unserved, pageOf, verdict>>
  BY <1>2 DEF storeVars, walkVars, passVars
<1>13. verdict' \in [Games -> {"none", "refused", "unconvertible", "transport",
                               "unserved", "nobody", "failed"}]
  BY <1>1, <1>12 DEF SweepTyped
<1> QED BY <1>4, <1>8, <1>9, <1>10, <1>11, <1>12, <1>13, QuietStep

\* The game has arrived and is stored next.
LEMMA FetchedStep ==
  ASSUME SweepInv, NEW s \in Sessions, NEW g \in Games, Fetched(s, g)
  PROVE  SweepInv'
<1>1. SweepTyped /\ HeldOnce
  BY DEF SweepInv
<1>2. serving[s] = g /\ task[g] = "serving" /\ UNCHANGED <<cursor, stored, walkVars, pageOf>>
  BY DEF Fetched
<1>3. UNCHANGED <<cursor, walk, reading, pages, done, queued, listed, unserved, pageOf, stored>>
  BY <1>2 DEF walkVars, passVars
<1>4. CASE Ends(g, "Unconvertible", "unconvertible")
  BY <1>2, <1>3, <1>4, EndsStep DEF Outcomes
<1>5. CASE /\ task' = [task EXCEPT ![g] = "ingest"] /\ serving' = [serving EXCEPT ![s] = 0]
           /\ UNCHANGED verdict
  <2>1. /\ task' \in [Games -> Outcomes \cup {"none", "waiting", "serving", "ingest"}]
        /\ serving' \in [Sessions -> 0 .. NumGames]
        /\ verdict' \in [Games -> {"none", "refused", "unconvertible", "transport",
                                   "unserved", "nobody", "failed"}]
    <3>1. 0 \in 0 .. NumGames
      BY SweepAssumption
    <3> QED BY <1>1, <1>5, <3>1 DEF SweepTyped
  <2>2. \A h \in Games : task'[h] = IF h = g THEN "ingest" ELSE task[h]
    BY <1>1, <1>5 DEF SweepTyped
  <2>3. \A t \in Sessions : serving'[t] = IF t = s THEN 0 ELSE serving[t]
    BY <1>1, <1>5 DEF SweepTyped
  <2>4. \A t \in Sessions \ {s} : serving[t] # 0 => serving[t] \in Games /\ serving[t] # g
    BY <1>1, <1>2, SweepAssumption DEF SweepTyped, Games, HeldOnce
  <2>5. HeldOnce'
    BY <1>1, <2>2, <2>3, <2>4 DEF HeldOnce
  <2>6. \A h \in Games : Booked(h)' = Booked(h)
    BY <1>3, <1>5 DEF Booked
  <2>7. \A h \in Games : task'[h] \in Outcomes \ {"Unserved"} => Booked(h)'
    BY <2>2, <2>6 DEF SweepInv, ReadIsAccountedFor, Outcomes
  <2>8. \A h \in Games : task'[h] = "none" <=> task[h] = "none"
    BY <1>2, <2>2
  <2> QED BY <1>3, <2>1, <2>5, <2>6, <2>7, <2>8, QuietStep
<1> QED BY <1>4, <1>5 DEF Fetched

\* A request nobody answered.
LEMMA GiveUpStep ==
  ASSUME SweepInv, NEW g \in Games, NEW left, task[g] \in Waiting, GiveUp(g, left),
         UNCHANGED <<cursor, stored, walkVars, pageOf>>
  PROVE  SweepInv'
<1>1. UNCHANGED <<cursor, walk, reading, pages, done, queued, listed, unserved, pageOf, stored>>
  BY DEF walkVars, passVars
<1>2. task[g] \in {"waiting", "serving", "ingest"}
  BY DEF Waiting
<1>3. CASE Ends(g, "Error", "nobody")
  BY <1>1, <1>2, <1>3, EndsStep DEF Outcomes
<1>4. CASE Ends(g, "Unserved", "unserved")
  BY <1>1, <1>2, <1>4, EndsStep DEF Outcomes
<1> QED BY <1>3, <1>4 DEF GiveUp

LEMMA LogoutStep ==
  ASSUME SweepInv, NEW s \in Sessions, Logout(s)
  PROVE  SweepInv'
<1>1. UNCHANGED <<cursor, stored, walkVars, pageOf>>
  BY DEF Logout
<1>2. SweepTyped /\ HeldOnce
  BY DEF SweepInv
<1>3. CASE serving[s] = 0
  <2>1. UNCHANGED <<verdict, task, serving>>
    BY <1>3 DEF Logout
  <2>2. UNCHANGED <<cursor, walk, reading, pages, done, queued, listed, unserved, pageOf>>
    BY <1>1 DEF walkVars, passVars
  <2>3. HeldOnce' /\ \A h \in Games : Booked(h)' = Booked(h)
    BY <1>1, <1>2, <2>1 DEF HeldOnce, Booked
  <2>4. \A h \in Games : task'[h] \in Outcomes \ {"Unserved"} => Booked(h)'
    BY <2>1, <2>3 DEF SweepInv, ReadIsAccountedFor
  <2>5. /\ task' \in [Games -> Outcomes \cup {"none", "waiting", "serving", "ingest"}]
        /\ serving' \in [Sessions -> 0 .. NumGames]
        /\ verdict' \in [Games -> {"none", "refused", "unconvertible", "transport",
                                   "unserved", "nobody", "failed"}]
    BY <1>2, <2>1 DEF SweepTyped
  <2> QED BY <2>1, <2>2, <2>3, <2>4, <2>5, QuietStep
<1>4. CASE serving[s] # 0
  <2>1. serving[s] \in Games /\ task[serving[s]] \in Waiting
    BY <1>2, <1>4, SweepAssumption DEF SweepTyped, HeldOnce, Games, Waiting
  <2>2. GiveUp(serving[s], up')
    BY <1>4 DEF Logout
  <2> QED BY <1>1, <2>1, <2>2, GiveUpStep
<1> QED BY <1>3, <1>4

\* A game is stored, by its own request or by somebody else.
LEMMA StoredStep ==
  ASSUME SweepInv, NEW g \in Games, stored' = stored \cup {g},
         \/ UNCHANGED task
         \/ /\ task[g] = "ingest"
            /\ task' = [task EXCEPT ![g] = IF g \in stored THEN "Duplicate" ELSE "Replaced"],
         UNCHANGED <<cursor, verdict, walkVars, pageOf, serving>>
  PROVE  SweepInv'
<1>1. SweepTyped /\ HeldOnce
  BY DEF SweepInv
<1>2. UNCHANGED <<cursor, walk, reading, pages, done, queued, listed, unserved, pageOf>>
  BY DEF walkVars, passVars
<1>3. /\ task' \in [Games -> Outcomes \cup {"none", "waiting", "serving", "ingest"}]
      /\ serving' \in [Sessions -> 0 .. NumGames]
      /\ verdict' \in [Games -> {"none", "refused", "unconvertible", "transport",
                                 "unserved", "nobody", "failed"}]
  BY <1>1 DEF SweepTyped, Outcomes
<1>4. \A h \in Games \ {g} : task'[h] = task[h]
  BY <1>1 DEF SweepTyped
<1>5. task'[g] = task[g] \/ (task[g] = "ingest" /\ task'[g] \in {"Duplicate", "Replaced"})
  BY <1>1 DEF SweepTyped
<1>6. (\A h \in Games : Booked(h) => Booked(h)') /\ Booked(g)'
  BY DEF Booked
<1>7. \A h \in Games : task'[h] \in Outcomes \ {"Unserved"} => Booked(h)'
  BY <1>4, <1>6 DEF SweepInv, ReadIsAccountedFor
<1>8. \A h \in Games : task'[h] = "none" <=> task[h] = "none"
  BY <1>4, <1>5
<1>9. HeldOnce'
  <2>1. \A s \in Sessions : serving[s] # 0 => serving[s] \in Games
    BY <1>1, SweepAssumption DEF SweepTyped, Games
  <2> QED BY <1>1, <1>4, <1>5, <2>1 DEF HeldOnce
<1> QED BY <1>2, <1>3, <1>6, <1>7, <1>8, <1>9, QuietStep

LEMMA TaskSteps ==
  ASSUME SweepInv, NEW g \in Games, TaskStep(g) \/ StoredElsewhere(g)
  PROVE  SweepInv'
<1>1. CASE Timeout(g)
  BY <1>1, GiveUpStep DEF Timeout
<1>2. CASE Ingest(g)
  BY <1>2, StoredStep DEF Ingest, sessionVars
<1>3. CASE IngestFails(g)
  <2>1. UNCHANGED <<cursor, walk, reading, pages, done, queued, listed, unserved, pageOf, stored>>
    BY <1>3 DEF IngestFails, walkVars, passVars
  <2> QED BY <1>3, <2>1, EndsStep DEF IngestFails, Outcomes
<1>4. CASE DetachedIngest(g)
  BY <1>4, StoredStep DEF DetachedIngest, sessionVars
<1>5. CASE StoredElsewhere(g)
  BY <1>5, StoredStep DEF StoredElsewhere, sessionVars, taskVars
<1>6. ASSUME NEW s \in Sessions,
             Claim(s, g) \/ Fetched(s, g) \/ Refused(s, g) \/ TransportFails(s, g)
      PROVE  SweepInv'
  <2>1. CASE Claim(s, g)
    BY <2>1, ClaimStep
  <2>2. CASE Fetched(s, g)
    BY <2>2, FetchedStep
  <2>3. CASE Refused(s, g)
    <3>1. UNCHANGED <<cursor, walk, reading, pages, done, queued, listed, unserved, pageOf, stored>>
      BY <2>3 DEF Refused, walkVars, passVars
    <3> QED BY <2>3, <3>1, EndsStep DEF Refused, Outcomes
  <2>4. CASE TransportFails(s, g)
    <3>1. UNCHANGED <<cursor, walk, reading, pages, done, queued, listed, unserved, pageOf, stored>>
      BY <2>4 DEF TransportFails, walkVars, passVars
    <3> QED BY <2>4, <3>1, EndsStep DEF TransportFails, Outcomes
  <2> QED BY <1>6, <2>1, <2>2, <2>3, <2>4
<1> QED BY <1>1, <1>2, <1>3, <1>4, <1>5, <1>6 DEF TaskStep

(***************************************************************************)
(* A pass begins and ends                                                  *)
(***************************************************************************)

\* Between two passes the rest follows from the cursor.
LEMMA EmptyPass ==
  ASSUME walk \in {"stopped", "settle"}, pages = <<>>, done = 0, queued = <<>>, reading = 0, unserved = FALSE, listed = FALSE,
         task = [g \in Games |-> "none"], pageOf = [g \in Games |-> 0],
         serving = [s \in Sessions |-> 0],
         cursor \in 0 .. NumGames,
         verdict \in [Games -> {"none", "refused", "unconvertible", "transport",
                               "unserved", "nobody", "failed"}],
         \A g \in Games : g <= cursor => Booked(g)
  PROVE  SweepInv
<1>1. Fetching = {} /\ Numbers = {} /\ DOMAIN queued = {} /\ 1 .. reading = {}
  BY DEF Fetching, Numbers
<1>2. Cardinality(Fetching) <= InFlight
  BY <1>1, FS_EmptySet, SweepAssumption
<1>3. SweepTyped
  <2>1. /\ pages \in Seq([position : Games, outstanding : Nat, unserved : BOOLEAN])
        /\ queued \in Seq([page : Nat, game : Games])
    OBVIOUS
  <2>2. /\ task \in [Games -> Outcomes \cup {"none", "waiting", "serving", "ingest"}]
        /\ pageOf \in [Games -> Nat]
    OBVIOUS
  <2>3. serving \in [Sessions -> 0 .. NumGames] /\ reading \in 0 .. NumGames
    BY SweepAssumption
  <2> QED BY <2>1, <2>2, <2>3 DEF SweepTyped
<1>4. PrefixIsFinished /\ IdleIsEmpty /\ HeldOnce
  BY <1>1 DEF PrefixIsFinished, IdleIsEmpty, HeldOnce
<1>5. PagesInOrder /\ OutOnce /\ OutIsAhead /\ OutIsCounted
  BY <1>1, <1>2 DEF Running, PagesInOrder, OutOnce, OutIsAhead, OutIsCounted
<1>6. ReadIsAccountedFor
  BY <1>1 DEF ReadIsAccountedFor, Outcomes
<1> QED BY <1>3, <1>4, <1>5, <1>6 DEF SweepInv

LEMMA EmptyPassNext ==
  ASSUME walk' \in {"stopped", "settle"}, DropPass, task' = [g \in Games |-> "none"], serving' = [s \in Sessions |-> 0],
         cursor' \in 0 .. NumGames,
         verdict' \in [Games -> {"none", "refused", "unconvertible", "transport",
                                "unserved", "nobody", "failed"}],
         \A g \in Games : g <= cursor' => Booked(g)'
  PROVE  SweepInv'
<1>0. /\ pages' = <<>> /\ done' = 0 /\ queued' = <<>> /\ reading' = 0
      /\ unserved' = FALSE /\ listed' = FALSE /\ pageOf' = [g \in Games |-> 0]
  BY DEF DropPass
<1>1. Fetching' = {} /\ Numbers' = {} /\ DOMAIN (queued') = {} /\ 1 .. reading' = {}
  BY <1>0 DEF Fetching, Numbers
<1>2. Cardinality(Fetching') <= InFlight
  BY <1>1, FS_EmptySet, SweepAssumption
<1>3. SweepTyped'
  <2>1. /\ pages' \in Seq([position : Games, outstanding : Nat, unserved : BOOLEAN])
        /\ queued' \in Seq([page : Nat, game : Games])
    BY <1>0
  <2>2. /\ task' \in [Games -> Outcomes \cup {"none", "waiting", "serving", "ingest"}]
        /\ pageOf' \in [Games -> Nat]
    BY <1>0
  <2>3. serving' \in [Sessions -> 0 .. NumGames] /\ reading' \in 0 .. NumGames
    BY <1>0, SweepAssumption
  <2> QED BY <1>0, <2>1, <2>2, <2>3 DEF SweepTyped
<1>4. PrefixIsFinished' /\ IdleIsEmpty' /\ HeldOnce'
  BY <1>0, <1>1 DEF PrefixIsFinished, IdleIsEmpty, HeldOnce
<1>5. PagesInOrder' /\ OutOnce' /\ OutIsAhead' /\ OutIsCounted'
  BY <1>0, <1>1, <1>2 DEF Running, PagesInOrder, OutOnce, OutIsAhead, OutIsCounted
<1>6. ReadIsAccountedFor'
  BY <1>1 DEF ReadIsAccountedFor, Outcomes
<1> QED BY <1>3, <1>4, <1>5, <1>6 DEF SweepInv

LEMMA NothingOut ==
  ASSUME SweepInv, Fetching = {}
  PROVE  task = [g \in Games |-> "none"] /\ serving = [s \in Sessions |-> 0]
<1>1. task = [g \in Games |-> "none"]
  BY DEF SweepInv, SweepTyped, Fetching
<1>2. \A s \in Sessions : serving[s] = 0
  <2>1. \A s \in Sessions : serving[s] # 0 => serving[s] \in Games
    BY SweepAssumption DEF SweepInv, SweepTyped, Games
  <2> QED BY <1>1, <2>1 DEF SweepInv, HeldOnce
<1> QED BY <1>1, <1>2 DEF SweepInv, SweepTyped

LEMMA StopSteps == ASSUME SweepInv, Stop \/ Crash PROVE SweepInv'
<1>1. /\ DropPass /\ task' = [g \in Games |-> "none"] /\ serving' = [s \in Sessions |-> 0]
      /\ UNCHANGED storeVars /\ walk' = "stopped"
  BY DEF Stop, Crash, EndWalk
<1>2. \A g \in Games : Booked(g)' = Booked(g)
  BY <1>1 DEF storeVars, Booked
<1>3. \A g \in Games : g <= cursor' => Booked(g)'
  BY <1>1, <1>2 DEF SweepInv, PrefixIsFinished, storeVars
<1>4. /\ cursor' \in 0 .. NumGames
      /\ verdict' \in [Games -> {"none", "refused", "unconvertible", "transport",
                                 "unserved", "nobody", "failed"}]
  BY <1>1 DEF SweepInv, SweepTyped, storeVars
<1> QED BY <1>1, <1>3, <1>4, EmptyPassNext

LEMMA InterruptedStep == ASSUME SweepInv, Interrupted PROVE SweepInv'
<1>1. DropPass /\ Fetching = {} /\ UNCHANGED storeVars
  BY DEF Interrupted, PassOver
<1>2. /\ task' = [g \in Games |-> "none"] /\ serving' = [s \in Sessions |-> 0]
      /\ walk' \in {"stopped", "settle"}
  BY <1>1, NothingOut DEF Interrupted, EndWalk, sessionVars
<1>3. \A g \in Games : Booked(g)' = Booked(g)
  BY <1>1 DEF storeVars, Booked
<1>4. \A g \in Games : g <= cursor' => Booked(g)'
  BY <1>1, <1>3 DEF SweepInv, PrefixIsFinished, storeVars
<1>5. /\ cursor' \in 0 .. NumGames
      /\ verdict' \in [Games -> {"none", "refused", "unconvertible", "transport",
                                 "unserved", "nobody", "failed"}]
  BY <1>1 DEF SweepInv, SweepTyped, storeVars
<1> QED BY <1>1, <1>2, <1>4, <1>5, EmptyPassNext

LEMMA CompletedStep == ASSUME SweepInv, Completed PROVE SweepInv'
<1>1. DropPass /\ Fetching = {} /\ cursor' = 0 /\ verdict' = [g \in Games |-> "none"]
  BY DEF Completed, SawTheEnd, PassOver
<1>2. /\ task' = [g \in Games |-> "none"] /\ serving' = [s \in Sessions |-> 0]
      /\ walk' \in {"stopped", "settle"}
  BY <1>1, NothingOut DEF Completed, EndWalk, sessionVars
<1>3. \A g \in Games : g <= cursor' => Booked(g)'
  BY <1>1, SweepAssumption DEF Games
<1>4. cursor' \in 0 .. NumGames
  BY <1>1, SweepAssumption
<1> QED BY <1>1, <1>2, <1>3, <1>4, EmptyPassNext

LEMMA BeginStep ==
  ASSUME SweepInv, walk \in {"stopped", "settle"}, BeginPass,
         UNCHANGED <<storeVars, taskVars, sessionVars>>
  PROVE  SweepInv'
<1>0. /\ ~Running /\ reading' = cursor
      /\ UNCHANGED <<pages, done, queued, listed, unserved, task, pageOf, serving>>
      /\ UNCHANGED <<cursor, stored, verdict>> /\ Running'
  BY DEF Running, BeginPass, taskVars, sessionVars, storeVars
<1>1. /\ Fetching = {} /\ pages = <<>> /\ queued = <<>> /\ unserved = FALSE /\ listed = FALSE
  BY <1>0 DEF SweepInv, SweepTyped, IdleIsEmpty
<1>2. Fetching' = {} /\ Numbers' = {} /\ DOMAIN (queued') = {}
  BY <1>0, <1>1 DEF Fetching, Numbers, SweepInv, SweepTyped
<1>3. Cardinality(Fetching') <= InFlight
  BY <1>2, FS_EmptySet, SweepAssumption
<1>4. \A g \in Games : Booked(g)' = Booked(g)
  BY <1>0 DEF Booked
<1>5. SweepTyped'
  BY <1>0 DEF SweepInv, SweepTyped
<1>6. PrefixIsFinished' /\ IdleIsEmpty' /\ HeldOnce'
  BY <1>0, <1>2, <1>4 DEF SweepInv, PrefixIsFinished, IdleIsEmpty, HeldOnce
<1>7. PagesInOrder' /\ OutOnce' /\ OutIsAhead' /\ OutIsCounted'
  BY <1>0, <1>1, <1>2, <1>3 DEF SweepInv, SweepTyped, PagesInOrder, OutOnce, OutIsAhead, OutIsCounted
<1>8. ReadIsAccountedFor'
  <2>1. \A g \in 1 .. reading' : g \in Games /\ g <= cursor
    BY <1>0, SweepAssumption DEF SweepInv, SweepTyped, Games
  <2>2. \A g \in Games : task'[g] = "none"
    BY <1>2 DEF Fetching
  <2> QED BY <1>4, <2>1, <2>2 DEF SweepInv, PrefixIsFinished, ReadIsAccountedFor, Outcomes
<1> QED BY <1>5, <1>6, <1>7, <1>8 DEF SweepInv

(***************************************************************************)
(* The turns of a pass                                                     *)
(***************************************************************************)

\* A turn in which no page is read and nothing comes back.
LEMMA IdleTurn ==
  ASSUME SweepInv, Running, walk' \in {"read", "commit", "join"},
         UNCHANGED <<cursor, stored, verdict, reading, pages, done, queued, unserved,
                     task, pageOf, serving>>,
         listed' \in BOOLEAN, listed' => listed \/ reading = NumGames
  PROVE  SweepInv'
<1>1. Fetching' = Fetching /\ Running'
  BY DEF Fetching, Running
<1>2. \A n : OutOf(n)' = OutOf(n)
  BY DEF OutOf
<1>3. Numbers' = Numbers /\ (\A n : At(n)' = At(n)) /\ (\A g, n : On(g, n)' = On(g, n))
  BY DEF Numbers, At, On
<1>4. (\A n : Stuck(n)' = Stuck(n)) /\ (\A g : Booked(g)' = Booked(g))
  BY <1>2, <1>3 DEF Stuck, Booked
<1>5. SweepTyped'
  BY DEF SweepInv, SweepTyped
<1>6. PrefixIsFinished' /\ IdleIsEmpty' /\ HeldOnce'
  BY <1>1, <1>4 DEF SweepInv, PrefixIsFinished, IdleIsEmpty, HeldOnce
<1>7. PagesInOrder' /\ OutOnce' /\ OutIsAhead'
  BY <1>1, <1>3 DEF SweepInv, PagesInOrder, OutOnce, OutIsAhead
<1>8. OutIsCounted' /\ ReadIsAccountedFor'
  BY <1>2, <1>3, <1>4 DEF SweepInv, OutIsCounted, ReadIsAccountedFor
<1> QED BY <1>5, <1>6, <1>7, <1>8 DEF SweepInv

\* What is out was read, and is out of a page that is there.
LEMMA OutWasRead ==
  ASSUME SweepInv, NEW n \in Nat, NEW g \in OutOf(n)
  PROVE  n \in Numbers /\ On(g, n) /\ g <= reading /\ cursor < g /\ g \in Games
<1>1. g \in Games
  BY DEF OutOf
<1>2. n \in Numbers /\ On(g, n) /\ cursor < g
  <2>1. CASE task[g] # "none" /\ pageOf[g] = n
    BY <1>1, <2>1 DEF SweepInv, OutIsAhead, Fetching
  <2>2. CASE \E i \in DOMAIN queued : queued[i] = [page |-> n, game |-> g]
    <3>1. PICK i \in DOMAIN queued : queued[i] = [page |-> n, game |-> g]
      BY <2>2
    <3>2. queued[i].page = n /\ queued[i].game = g
      BY <3>1
    <3> QED BY <3>2 DEF SweepInv, OutIsAhead
  <2> QED BY <2>1, <2>2 DEF OutOf
<1>3. At(n).position \in Games /\ At(n).position <= reading
  BY <1>2, PageTyped DEF SweepInv, PagesInOrder
<1> QED BY <1>1, <1>2, <1>3, SweepAssumption DEF On, Games, SweepInv, SweepTyped

\* A page is read: its games that are not stored are out of it.
LEMMA ReadPageStep ==
  ASSUME SweepInv, walk = "read", walk' = "commit", ReadPage, reading # NumGames,
         UNCHANGED <<cursor, stored, verdict, done, unserved, task, pageOf, serving>>
  PROVE  SweepInv'
<1> DEFINE last   == IF reading + PageSize > NumGames THEN NumGames ELSE reading + PageSize
           wanted == {g \in reading + 1 .. last : g \notin stored}
           size   == Cardinality(wanted)
           page   == [position |-> last, outstanding |-> size, unserved |-> FALSE]
<1>0. PICK number \in Int : number = done + Len(pages)
  BY DEF SweepInv, SweepTyped
<1> DEFINE new == [k \in 1 .. size |-> [page |-> number, game |-> Lowest(wanted, k)]]
<1>1. SweepTyped /\ Running /\ Running'
  BY DEF SweepInv, Running
<1>2. /\ reading \in Nat /\ last \in Nat /\ reading < last /\ last <= NumGames
      /\ Len(pages) \in Nat /\ done \in Nat /\ number \in Nat /\ cursor \in Nat
  BY <1>0, <1>1, SweepAssumption DEF SweepTyped
<1>3. /\ pages' = Append(pages, page) /\ queued' = queued \o new /\ reading' = last
      /\ UNCHANGED listed
  BY <1>0 DEF ReadPage
<1>4. wanted \in SUBSET Games /\ \A g \in wanted : g \in Nat /\ reading < g /\ g <= last
  BY <1>2, SweepAssumption DEF Games
<1>5. /\ IsFiniteSet(wanted) /\ size \in Nat
      /\ \A k \in 1 .. size : Lowest(wanted, k) \in wanted
      /\ \A j, k \in 1 .. size : Lowest(wanted, j) = Lowest(wanted, k) => j = k
      /\ \A g \in wanted : \E k \in 1 .. size : Lowest(wanted, k) = g
  <2>1. wanted \in SUBSET Games /\ size = Cardinality(wanted)
    BY <1>4
  <2> HIDE DEF wanted, size
  <2> QED BY <2>1, OrderedGames
<1>6. \A g \in (reading + 1 .. last) \ wanted : g \in stored
  OBVIOUS
<1>7. page = [position |-> last, outstanding |-> size, unserved |-> FALSE] /\ last \in Games
  BY <1>2, SweepAssumption DEF Games
<1>8. last = reading' /\ reading' \in 0 .. NumGames
  BY <1>2, <1>3, SweepAssumption
<1> HIDE DEF last, wanted, size
<1>9. new \in Seq([page : Nat, game : Games]) /\ Len(new) = size
  BY <1>2, <1>4, <1>5
<1>10. \A k \in 1 .. size : new[k].page = number /\ new[k].game = Lowest(wanted, k)
  OBVIOUS
<1>11. \A k \in 1 .. size : new[k] = [page |-> number, game |-> Lowest(wanted, k)]
  OBVIOUS
<1> HIDE DEF new, page
<1>12. queued \in Seq([page : Nat, game : Games]) /\ Len(queued) \in Nat
  BY <1>1 DEF SweepTyped
<1>13. /\ queued' \in Seq([page : Nat, game : Games])
       /\ DOMAIN (queued') = 1 .. Len(queued) + size /\ DOMAIN queued = 1 .. Len(queued)
       /\ \A i \in 1 .. Len(queued) : queued'[i] = queued[i]
       /\ \A i \in Len(queued) + 1 .. Len(queued) + size : queued'[i] = new[i - Len(queued)]
  <2> DEFINE R == [page : Nat, game : Games]
  <2>1. queued \in Seq(R) /\ new \in Seq(R)
    BY <1>9, <1>12
  <2> HIDE DEF R
  <2>2. queued \o new \in Seq(R)
    BY <2>1
  <2>3. Len(queued \o new) = Len(queued) + size
    BY <2>1, <1>9
  <2>4. /\ \A i \in 1 .. Len(queued) : (queued \o new)[i] = queued[i]
        /\ \A i \in Len(queued) + 1 .. Len(queued) + size : (queued \o new)[i] = new[i - Len(queued)]
    BY <2>1, <1>9, <1>12, <1>5
  <2>5. DOMAIN (queued \o new) = 1 .. Len(queued) + size /\ DOMAIN queued = 1 .. Len(queued)
    BY <2>1, <2>2, <2>3
  <2> QED BY <1>3, <2>2, <2>4, <2>5 DEF R
\* the games that were out before were read before
<1>20. \A g \in Games : (task[g] # "none" => g <= reading /\ cursor < g)
  <2> SUFFICES ASSUME NEW g \in Games, task[g] # "none" PROVE g <= reading /\ cursor < g
    OBVIOUS
  <2>1. g \in OutOf(pageOf[g]) /\ pageOf[g] \in Nat
    BY <1>1 DEF OutOf, SweepTyped
  <2> QED BY <2>1, OutWasRead
<1>21. \A i \in 1 .. Len(queued) : queued[i].game <= reading /\ queued[i].page # number
  <2> SUFFICES ASSUME NEW i \in 1 .. Len(queued)
               PROVE  queued[i].game <= reading /\ queued[i].page # number
    OBVIOUS
  <2>1. i \in DOMAIN queued
    BY <1>13
  <2>2. /\ queued[i].page \in Nat /\ queued[i].game \in Games
        /\ queued[i] = [page |-> queued[i].page, game |-> queued[i].game]
    BY <1>1, <2>1, QueuedGames
  <2>3. queued[i].game \in OutOf(queued[i].page)
    BY <2>1, <2>2 DEF OutOf
  <2>4. queued[i].page \in Numbers /\ queued[i].game <= reading
    BY <2>2, <2>3, OutWasRead
  <2> QED BY <1>0, <1>2, <2>4 DEF Numbers
<1>22. \A g \in wanted : task[g] = "none"
  BY <1>2, <1>4, <1>20
\* the pages
<1>23. Numbers' = Numbers \cup {number} /\ number \notin Numbers
  <2>1. Len(pages') = Len(pages) + 1
    BY <1>1, <1>3 DEF SweepTyped
  <2> QED BY <1>0, <1>2, <2>1 DEF Numbers
<1>24. (\A n \in Numbers : At(n)' = At(n)) /\ At(number)' = page
  <2> DEFINE R == [position : Games, outstanding : Nat, unserved : BOOLEAN]
  <2>1. pages \in Seq(R) /\ page \in R
    BY <1>1, <1>5, <1>7 DEF SweepTyped
  <2> HIDE DEF R
  <2>2. \A i \in 1 .. Len(pages) : pages'[i] = pages[i]
    BY <1>3, <2>1
  <2>3. pages'[Len(pages) + 1] = page
    BY <1>3, <2>1
  <2>4. number - done + 1 = Len(pages) + 1
    BY <1>0, <1>2
  <2> QED BY <1>1, <2>2, <2>3, <2>4, PageTyped DEF At
<1>25. pages' \in Seq([position : Games, outstanding : Nat, unserved : BOOLEAN])
  BY <1>1, <1>3, <1>5, <1>7 DEF SweepTyped
<1>26. \A n \in Numbers : \A g : On(g, n)' = On(g, n)
  <2>1. \A n \in Numbers : \A m \in done .. n - 1 : m \in Numbers
    BY <1>2 DEF Numbers
  <2> QED BY <1>24, <2>1 DEF On
<1>27. \A g \in reading + 1 .. last : On(g, number)'
  <2> SUFFICES ASSUME NEW g \in reading + 1 .. last PROVE On(g, number)'
    OBVIOUS
  <2>1. g <= At(number)'.position
    BY <1>2, <1>7, <1>24
  <2>2. ASSUME NEW m \in done .. number - 1 PROVE At(m)'.position < g
    <3>1. m \in Numbers
      BY <1>0, <1>2 DEF Numbers
    <3>2. At(m).position \in Games /\ At(m).position <= reading
      BY <1>1, <3>1, PageTyped DEF SweepInv, PagesInOrder
    <3> QED BY <1>2, <1>24, <3>1, <3>2, SweepAssumption DEF Games
  <2> QED BY <2>1, <2>2 DEF On
\* what is out
<1>28. \A n \in Nat \ {number} : OutOf(n)' = OutOf(n)
  <2> SUFFICES ASSUME NEW n \in Nat \ {number}, NEW g \in Games
               PROVE  (\E i \in DOMAIN (queued') : queued'[i] = [page |-> n, game |-> g])
                        <=> (\E i \in DOMAIN queued : queued[i] = [page |-> n, game |-> g])
    BY DEF OutOf
  <2>1. ASSUME NEW i \in DOMAIN (queued'), queued'[i] = [page |-> n, game |-> g]
        PROVE  i \in DOMAIN queued /\ queued[i] = [page |-> n, game |-> g]
    <3>1. CASE i \in 1 .. Len(queued)
      BY <1>13, <2>1, <3>1
    <3>2. CASE i \in Len(queued) + 1 .. Len(queued) + size
      <4>1. i - Len(queued) \in 1 .. size
        BY <1>5, <1>12, <3>2
      <4>2. queued'[i].page = number
        BY <1>10, <1>13, <3>2, <4>1
      <4> QED BY <2>1, <4>2
    <3> QED BY <1>5, <1>12, <1>13, <3>1, <3>2
  <2>2. ASSUME NEW i \in DOMAIN queued, queued[i] = [page |-> n, game |-> g]
        PROVE  i \in DOMAIN (queued') /\ queued'[i] = [page |-> n, game |-> g]
    BY <1>5, <1>12, <1>13, <2>2
  <2> QED BY <2>1, <2>2
<1>29. OutOf(number)' = wanted
  <2>1. ASSUME NEW g \in OutOf(number)' PROVE g \in wanted
    <3>1. g \in Games
      BY <2>1 DEF OutOf
    <3>2. ~(task[g] # "none" /\ pageOf[g] = number)
      <4> SUFFICES ASSUME task[g] # "none", pageOf[g] = number PROVE FALSE
        OBVIOUS
      <4>1. g \in OutOf(number) /\ number \in Nat
        BY <1>2, <3>1 DEF OutOf
      <4> QED BY <1>23, <4>1, OutWasRead
    <3>3. PICK i \in DOMAIN (queued') : queued'[i] = [page |-> number, game |-> g]
      BY <2>1, <3>2 DEF OutOf
    <3>4. CASE i \in 1 .. Len(queued)
      <4>1. queued[i].page = number
        BY <1>13, <3>3, <3>4
      <4> QED BY <1>21, <3>4, <4>1
    <3>5. CASE i \in Len(queued) + 1 .. Len(queued) + size
      <4>1. i - Len(queued) \in 1 .. size
        BY <1>5, <1>12, <3>5
      <4>2. queued'[i].game = Lowest(wanted, i - Len(queued))
        BY <1>10, <1>13, <3>5, <4>1
      <4>3. queued'[i].game = g
        BY <3>3
      <4> QED BY <1>5, <4>1, <4>2, <4>3
    <3> QED BY <1>5, <1>12, <1>13, <3>4, <3>5
  <2>2. ASSUME NEW g \in wanted PROVE g \in OutOf(number)'
    <3>1. PICK k \in 1 .. size : Lowest(wanted, k) = g
      BY <1>5
    <3>2. /\ Len(queued) + k \in Len(queued) + 1 .. Len(queued) + size
          /\ (Len(queued) + k) - Len(queued) = k /\ Len(queued) + k \in DOMAIN (queued')
      BY <1>5, <1>12, <1>13
    <3>3. queued'[Len(queued) + k] = [page |-> number, game |-> g]
      BY <1>11, <1>13, <3>1, <3>2
    <3> QED BY <1>4, <3>2, <3>3 DEF OutOf
  <2> QED BY <2>1, <2>2
<1>30. \A n \in Numbers : n \in Nat /\ n # number
  BY <1>2, <1>23 DEF Numbers
<1>31. (\A n \in Numbers : Stuck(n)' = Stuck(n)) /\ ~Stuck(number)'
  <2>1. ~Stuck(number)'
    BY <1>5, <1>7, <1>24, <1>29 DEF Stuck, size
  <2> QED BY <1>24, <1>28, <1>30, <2>1 DEF Stuck
\* the invariant
<1>40. SweepTyped'
  BY <1>1, <1>3, <1>8, <1>13, <1>25 DEF SweepTyped
<1>41. Fetching' = Fetching /\ \A g : Booked(g)' = Booked(g)
  BY DEF Fetching, Booked
<1>42. PrefixIsFinished' /\ IdleIsEmpty' /\ HeldOnce'
  BY <1>1, <1>41 DEF SweepInv, PrefixIsFinished, IdleIsEmpty, HeldOnce
<1>43. PagesInOrder'
  <2>1. cursor' <= reading'
    BY <1>1, <1>2, <1>8 DEF SweepInv, PagesInOrder
  <2>2. \A n \in Numbers : At(n).position \in Nat /\ At(n).position <= reading
    BY <1>1, PageTyped, SweepAssumption DEF SweepInv, PagesInOrder, Games
  <2>3. \A n \in Numbers' : At(n)'.position <= reading'
    BY <1>2, <1>7, <1>8, <1>23, <1>24, <2>2
  <2>4. ASSUME NEW m \in Numbers', NEW n \in Numbers', m < n
        PROVE  At(m)'.position < At(n)'.position
    <3>1. m \in Numbers
      BY <1>0, <1>2, <1>23, <2>4 DEF Numbers
    <3>2. CASE n \in Numbers
      BY <1>24, <2>4, <3>1, <3>2 DEF SweepInv, PagesInOrder
    <3>3. CASE n = number
      BY <1>2, <1>7, <1>24, <2>2, <3>1, <3>3
    <3> QED BY <1>23, <3>2, <3>3
  <2>5. listed' => reading' = NumGames
    BY <1>3 DEF SweepInv, PagesInOrder
  <2> QED BY <2>1, <2>3, <2>4, <2>5 DEF PagesInOrder
<1>44. OutOnce'
  <2>1. \A i \in Len(queued) + 1 .. Len(queued) + size :
           i - Len(queued) \in 1 .. size /\ queued'[i].game = Lowest(wanted, i - Len(queued))
    <3> SUFFICES ASSUME NEW i \in Len(queued) + 1 .. Len(queued) + size
                 PROVE  /\ i - Len(queued) \in 1 .. size
                        /\ queued'[i].game = Lowest(wanted, i - Len(queued))
      OBVIOUS
    <3>1. i - Len(queued) \in 1 .. size
      BY <1>5, <1>12
    <3> QED BY <1>10, <1>13, <3>1
  <2>2. \A i \in DOMAIN (queued') :
           i \in 1 .. Len(queued) \/ i \in Len(queued) + 1 .. Len(queued) + size
    BY <1>5, <1>12, <1>13
  <2>3. \A i \in 1 .. Len(queued) : queued[i].game \in Nat
    <3>1. \A i \in DOMAIN queued : queued[i].game \in Games
      BY <1>1, QueuedGames
    <3> QED BY <1>13, <3>1, SweepAssumption DEF Games
  <2>4. ASSUME NEW i \in DOMAIN (queued'), NEW j \in DOMAIN (queued'),
               queued'[i].game = queued'[j].game
        PROVE  i = j
    <3>1. CASE i \in 1 .. Len(queued) /\ j \in 1 .. Len(queued)
      BY <1>13, <2>4, <3>1 DEF SweepInv, OutOnce
    <3>2. CASE /\ i \in Len(queued) + 1 .. Len(queued) + size
               /\ j \in Len(queued) + 1 .. Len(queued) + size
      <4>1. i - Len(queued) = j - Len(queued)
        BY <1>5, <2>1, <2>4, <3>2
      <4> QED BY <1>12, <1>5, <3>2, <4>1
    <3>3. CASE i \in 1 .. Len(queued) /\ j \in Len(queued) + 1 .. Len(queued) + size
      <4>1. queued'[j].game \in wanted /\ queued'[i].game = queued[i].game
        BY <1>5, <1>13, <2>1, <3>3
      <4> QED BY <1>2, <1>4, <1>21, <2>3, <2>4, <3>3, <4>1
    <3>4. CASE j \in 1 .. Len(queued) /\ i \in Len(queued) + 1 .. Len(queued) + size
      <4>1. queued'[i].game \in wanted /\ queued'[j].game = queued[j].game
        BY <1>5, <1>13, <2>1, <3>4
      <4> QED BY <1>2, <1>4, <1>21, <2>3, <2>4, <3>4, <4>1
    <3> QED BY <2>2, <3>1, <3>2, <3>3, <3>4
  <2>5. ASSUME NEW i \in DOMAIN (queued') PROVE task'[queued'[i].game] = "none"
    <3>1. CASE i \in 1 .. Len(queued)
      BY <1>13, <3>1 DEF SweepInv, OutOnce
    <3>2. CASE i \in Len(queued) + 1 .. Len(queued) + size
      BY <1>5, <1>22, <2>1, <3>2
    <3> QED BY <2>2, <3>1, <3>2
  <2> QED BY <1>41, <2>4, <2>5 DEF SweepInv, OutOnce
<1>45. OutIsAhead'
  <2>1. ASSUME NEW i \in DOMAIN (queued')
        PROVE  \E n \in Numbers', g \in Games :
                 queued'[i] = [page |-> n, game |-> g] /\ On(g, n)' /\ cursor < g
    <3>1. CASE i \in 1 .. Len(queued)
      <4>1. PICK n \in Numbers, g \in Games :
               queued[i] = [page |-> n, game |-> g] /\ On(g, n) /\ cursor < g
        BY <1>13, <3>1 DEF SweepInv, OutIsAhead
      <4>2. queued'[i] = queued[i] /\ n \in Numbers' /\ On(g, n)'
        BY <1>13, <1>23, <1>26, <3>1, <4>1
      <4> QED BY <4>1, <4>2
    <3>2. CASE i \in Len(queued) + 1 .. Len(queued) + size
      <4>1. PICK k \in 1 .. size : k = i - Len(queued)
        BY <1>5, <1>12, <3>2
      <4>2. PICK g \in wanted : g = Lowest(wanted, k)
        BY <1>5
      <4>3. queued'[i] = [page |-> number, game |-> g]
        BY <1>11, <1>13, <3>2, <4>1, <4>2
      <4>4. cursor <= reading
        BY <1>1 DEF SweepInv, PagesInOrder
      <4>5. cursor < g /\ g \in reading + 1 .. last /\ g \in Games
        BY <1>2, <1>4, <4>4
      <4>6. number \in Numbers' /\ On(g, number)'
        BY <1>23, <1>27, <4>5
      <4> QED BY <4>3, <4>5, <4>6
    <3> QED BY <1>5, <1>12, <1>13, <3>1, <3>2
  <2>2. ASSUME NEW g \in Fetching
        PROVE  \E n \in Numbers' : pageOf[g] = n /\ On(g, n)' /\ cursor < g
    <3>1. PICK n \in Numbers : pageOf[g] = n /\ On(g, n) /\ cursor < g
      BY DEF SweepInv, OutIsAhead
    <3> QED BY <1>23, <1>26, <3>1
  <2> QED BY <1>41, <2>1, <2>2 DEF OutIsAhead
<1>46. OutIsCounted'
  <2>1. Cardinality(OutOf(number)') <= At(number)'.outstanding
    BY <1>5, <1>7, <1>24, <1>29 DEF size
  <2> QED BY <1>23, <1>24, <1>28, <1>30, <1>31, <2>1 DEF SweepInv, OutIsCounted
<1>47. ReadIsAccountedFor'
  <2>1. ASSUME NEW g \in 1 .. reading'
        PROVE  Booked(g)' \/ \E n \in Numbers' : On(g, n)' /\ (g \in OutOf(n)' \/ Stuck(n)')
    <3>1. CASE g \in 1 .. reading
      <4>1. Booked(g) \/ \E n \in Numbers : On(g, n) /\ (g \in OutOf(n) \/ Stuck(n))
        BY <3>1 DEF SweepInv, ReadIsAccountedFor
      <4> QED BY <1>23, <1>26, <1>28, <1>30, <1>31, <1>41, <4>1
    <3>2. CASE g \in reading + 1 .. last
      <4>1. g \in wanted \/ g \in stored
        BY <1>6, <3>2
      <4>2. g \in stored => Booked(g)
        BY DEF Booked
      <4> QED BY <1>23, <1>27, <1>29, <1>41, <3>2, <4>1, <4>2
    <3> QED BY <1>2, <1>8, <3>1, <3>2
  <2> QED BY <1>41, <2>1 DEF SweepInv, ReadIsAccountedFor
<1> QED BY <1>40, <1>42, <1>43, <1>44, <1>45, <1>46, <1>47 DEF SweepInv

LEMMA ReadStep == ASSUME SweepInv, Read PROVE SweepInv'
<1>1. /\ walk = "read" /\ walk' = "commit" /\ Running
      /\ UNCHANGED <<cursor, stored, verdict, done, unserved, task, pageOf, serving>>
  BY DEF Read, Running, storeVars, taskVars, sessionVars
<1>2. CASE ReadPage /\ reading # NumGames
  BY <1>1, <1>2, ReadPageStep
<1>3. CASE ~(ReadPage /\ reading # NumGames)
  <2>1. /\ UNCHANGED <<pages, queued, reading>>
        /\ listed' = listed \/ (listed' = TRUE /\ reading = NumGames)
    BY <1>3 DEF Read, ReadPage
  <2>2. listed' \in BOOLEAN /\ (listed' => listed \/ reading = NumGames)
    <3>1. CASE listed' = listed
      BY <3>1 DEF SweepInv, SweepTyped
    <3>2. CASE listed' = TRUE /\ reading = NumGames
      BY <3>2
    <3> QED BY <2>1, <3>1, <3>2
  <2> QED BY <1>1, <2>1, <2>2, IdleTurn
<1> QED BY <1>2, <1>3

\* A game comes back: its page counts one less, and the page is stuck if nobody
\* served it or if games of it were dropped from the queue.
LEMMA JoinStep == ASSUME SweepInv, NEW g \in Games, Join(g) PROVE SweepInv'
<1> DEFINE nobody == task[g] = "Unserved"
<1>1. /\ walk = "join" /\ walk' = "read" /\ task[g] \in Outcomes
      /\ task' = [task EXCEPT ![g] = "none"] /\ pageOf' = [pageOf EXCEPT ![g] = 0]
      /\ Answered(pageOf[g], nobody)
      /\ unserved' = (unserved \/ nobody)
      /\ queued' = IF nobody THEN <<>> ELSE queued
      /\ UNCHANGED <<cursor, stored, verdict, reading, done, listed, serving>>
  BY DEF Join, storeVars, sessionVars
<1>2. SweepTyped /\ Running /\ Running'
  BY <1>1 DEF SweepInv, Running
<1>3. g \in Fetching
  BY <1>1 DEF Fetching, Outcomes
<1>4. PICK n \in Numbers : pageOf[g] = n /\ On(g, n) /\ cursor < g
  BY <1>3 DEF SweepInv, OutIsAhead
<1>5. PICK k \in 1 .. Len(pages) : k = n - done + 1
  BY <1>2, PageTyped
<1> DEFINE back == [position |-> pages[k].position, outstanding |-> pages[k].outstanding - 1,
                    unserved |-> pages[k].unserved \/ nobody]
           R == [position : Games, outstanding : Nat, unserved : BOOLEAN]
<1>6. pages \in Seq(R) /\ Len(pages) \in Nat /\ done \in Nat /\ pages[k] \in R
  <2>1. pages \in Seq(R) /\ done \in Nat
    BY <1>2 DEF SweepTyped
  <2> HIDE DEF R
  <2> QED BY <2>1
<1>7. DOMAIN (pages') = 1 .. Len(pages) /\ pages'[k] = back
      /\ \A i \in 1 .. Len(pages) : i # k => pages'[i] = pages[i]
  <2>1. pages' = [pages EXCEPT ![k].outstanding = @ - 1, ![k].unserved = @ \/ nobody]
    BY <1>1, <1>4, <1>5 DEF Answered
  <2> HIDE DEF nobody
  <2> DEFINE mid == [pages EXCEPT ![k].outstanding = @ - 1]
  <2>2. pages' = [mid EXCEPT ![k].unserved = @ \/ nobody]
    BY <2>1
  <2>3. DOMAIN pages = 1 .. Len(pages)
    <3> HIDE DEF R
    <3> QED BY <1>6
  <2>4. /\ DOMAIN mid = 1 .. Len(pages) /\ mid[k] = [pages[k] EXCEPT !.outstanding = @ - 1]
        /\ \A i \in 1 .. Len(pages) : i # k => mid[i] = pages[i]
    BY <2>3
  <2> HIDE DEF mid
  <2>5. /\ DOMAIN (pages') = 1 .. Len(pages) /\ pages'[k] = [mid[k] EXCEPT !.unserved = @ \/ nobody]
        /\ \A i \in 1 .. Len(pages) : i # k => pages'[i] = mid[i]
    BY <2>2, <2>4
  <2>6. pages[k] = [position |-> pages[k].position, outstanding |-> pages[k].outstanding,
                    unserved |-> pages[k].unserved]
    BY <1>6
  <2>7. mid[k] = [position |-> pages[k].position, outstanding |-> pages[k].outstanding - 1,
                  unserved |-> pages[k].unserved]
    BY ONLY <2>4, <2>6
  <2>8. pages'[k] = back
    BY <2>5, <2>7
  <2> QED BY <2>4, <2>5, <2>8
\* what is out
<1>8. \A i \in DOMAIN queued : queued[i].game # g
  BY <1>1 DEF SweepInv, OutOnce, Outcomes
<1>9. \A h \in Games : task'[h] = (IF h = g THEN "none" ELSE task[h])
                       /\ pageOf'[h] = (IF h = g THEN 0 ELSE pageOf[h])
  BY <1>1, <1>2 DEF SweepTyped
<1>10. g \in OutOf(n) /\ \A m : m # n => g \notin OutOf(m)
  <2>1. g \in OutOf(n)
    BY <1>3, <1>4 DEF OutOf, Fetching
  <2>2. ASSUME NEW m, g \in OutOf(m), m # n PROVE FALSE
    <3>1. PICK i \in DOMAIN queued : queued[i] = [page |-> m, game |-> g]
      BY <1>4, <2>2 DEF OutOf
    <3> QED BY <1>8, <3>1
  <2> QED BY <2>1, <2>2
<1>11. \A m : OutOf(m)' \subseteq OutOf(m) \ {g}
  <2> SUFFICES ASSUME NEW m, NEW h \in OutOf(m)' PROVE h \in OutOf(m) \ {g}
    OBVIOUS
  <2>1. h \in Games
    BY DEF OutOf
  <2>2. CASE task'[h] # "none" /\ pageOf'[h] = m
    BY <1>9, <2>1, <2>2 DEF OutOf
  <2>3. CASE \E i \in DOMAIN (queued') : queued'[i] = [page |-> m, game |-> h]
    <3>1. PICK i \in DOMAIN (queued') : queued'[i] = [page |-> m, game |-> h]
      BY <2>3
    <3>2. queued' = queued
      BY <1>1, <3>1
    <3>3. queued[i].game = h
      BY <3>1, <3>2
    <3> QED BY <1>8, <2>1, <3>1, <3>2, <3>3 DEF OutOf
  <2> QED BY <2>2, <2>3 DEF OutOf
<1>12. ~nobody => \A m : OutOf(m)' = OutOf(m) \ {g}
  <2> SUFFICES ASSUME ~nobody, NEW m, NEW h \in OutOf(m) \ {g} PROVE h \in OutOf(m)'
    BY <1>11
  <2>1. h \in Games /\ queued' = queued
    BY <1>1 DEF OutOf
  <2> QED BY <1>9, <2>1 DEF OutOf
<1> HIDE DEF back, nobody
\* the pages and their counts
<1>13. Numbers' = Numbers
  <2>1. Len(pages') = Len(pages)
    <3>1. pages' \in [1 .. Len(pages) -> {pages'[i] : i \in 1 .. Len(pages)}]
      <4>1. pages' = [i \in DOMAIN (pages') |-> pages'[i]]
        BY <1>1, <1>4, <1>5 DEF Answered
      <4> QED BY <1>7, <4>1
    <3> QED BY <1>6, <1>7, <3>1
  <2> QED BY <1>1, <2>1 DEF Numbers
<1>14. At(n)' = back /\ \A m \in Numbers : m # n => At(m)' = At(m)
  <2>1. At(n)' = back
    BY <1>1, <1>5, <1>7 DEF At
  <2>2. ASSUME NEW m \in Numbers, m # n PROVE At(m)' = At(m)
    <3>1. PICK j \in 1 .. Len(pages) : j = m - done + 1
      BY <1>2, PageTyped
    <3>2. j # k
      BY <1>5, <1>6, <2>2, <3>1 DEF Numbers
    <3> QED BY <1>1, <1>7, <3>1, <3>2 DEF At
  <2> QED BY <2>1, <2>2
<1>15. At(n) = pages[k]
  BY <1>5 DEF At
<1>16. \A m \in Numbers : At(m)'.position = At(m).position
  <2>1. back.position = pages[k].position
    BY DEF back
  <2> QED BY <1>14, <1>15, <2>1
<1>17. \A m \in Numbers : \A h : On(h, m)' = On(h, m)
  <2>1. \A m \in Numbers : \A j \in done .. m - 1 : j \in Numbers
    BY <1>6 DEF Numbers
  <2> QED BY <1>1, <1>16, <2>1 DEF On
<1>18. \A m : /\ Cardinality(OutOf(m)) \in Nat /\ Cardinality(OutOf(m)') \in Nat
              /\ IsFiniteSet(OutOf(m) \ {g}) /\ Cardinality(OutOf(m) \ {g}) \in Nat
  <2> TAKE m
  <2>1. IsFiniteSet(OutOf(m)) /\ IsFiniteSet(OutOf(m)')
    BY OutIsFinite
  <2>2. IsFiniteSet(OutOf(m) \ {g})
    BY <2>1, FS_RemoveElement
  <2> QED BY <2>1, <2>2, FS_CardinalityType
<1>19. /\ Cardinality(OutOf(n) \ {g}) = Cardinality(OutOf(n)) - 1
       /\ \A m : m # n => OutOf(m) \ {g} = OutOf(m)
  <2>1. Cardinality(OutOf(n) \ {g}) = Cardinality(OutOf(n)) - 1
    BY <1>10, OutIsFinite, FS_RemoveElement
  <2> QED BY <1>10, <2>1
<1>20. \A m : /\ Cardinality(OutOf(m)') <= Cardinality(OutOf(m) \ {g})
              /\ \A h \in OutOf(m) \ {g} : h \notin OutOf(m)' =>
                     Cardinality(OutOf(m)') < Cardinality(OutOf(m) \ {g})
  <2> TAKE m
  <2> DEFINE A == OutOf(m) \ {g}
             B == OutOf(m)'
  <2>1. IsFiniteSet(A) /\ B \in SUBSET A
    BY <1>11, <1>18
  <2>2. Cardinality(A) \in Nat /\ Cardinality(B) \in Nat
    BY <1>18
  <2> HIDE DEF A, B
  <2>3. Cardinality(B) <= Cardinality(A) /\ (Cardinality(A) = Cardinality(B) => A = B)
    BY <2>1, FS_Subset
  <2>4. \A h \in A : h \notin B => Cardinality(B) < Cardinality(A)
    BY <2>2, <2>3
  <2> QED BY <2>3, <2>4 DEF A, B
<1>21. \A m \in Numbers : /\ At(m).outstanding \in Nat /\ At(m).unserved \in BOOLEAN
                          /\ Cardinality(OutOf(m)) <= At(m).outstanding
  BY <1>2, PageTyped DEF SweepInv, OutIsCounted
<1>22. back.outstanding = At(n).outstanding - 1 /\ back.unserved = (At(n).unserved \/ nobody)
  BY <1>15 DEF back
<1>23. ASSUME NEW m \in Numbers
       PROVE  \E c, d, e, o, p \in Int :
                /\ c = Cardinality(OutOf(m)) /\ d = Cardinality(OutOf(m)')
                /\ e = Cardinality(OutOf(m) \ {g})
                /\ o = At(m).outstanding /\ p = At(m)'.outstanding
                /\ d <= e /\ c <= o /\ o - p = c - e
  <2>0. /\ Cardinality(OutOf(m)) \in Nat /\ Cardinality(OutOf(m)') \in Nat
        /\ Cardinality(OutOf(m) \ {g}) \in Nat
    BY <1>18
  <2>1. PICK c \in Nat : c = Cardinality(OutOf(m))
    BY <2>0
  <2>2. PICK d \in Nat : d = Cardinality(OutOf(m)')
    BY <2>0
  <2>3. PICK e \in Nat : e = Cardinality(OutOf(m) \ {g})
    BY <2>0
  <2>4. PICK o \in Int : o = At(m).outstanding
    BY <1>21
  <2>5. d <= e
    BY <1>20, <2>2, <2>3
  <2>6. c <= o
    BY <1>21, <2>1, <2>4
  <2>7. CASE m = n
    <3>1. e = c - 1
      BY <1>19, <2>1, <2>3, <2>7
    <3>2. At(m)'.outstanding = o - 1
      BY <1>14, <1>22, <2>4, <2>7
    <3> WITNESS c \in Int, d \in Int, e \in Int, o \in Int, o - 1 \in Int
    <3>3. o - (o - 1) = c - e
      BY <3>1
    <3> QED BY <2>1, <2>2, <2>3, <2>4, <2>5, <2>6, <3>2, <3>3
  <2>8. CASE m # n
    <3>1. e = c
      BY <1>19, <2>1, <2>3, <2>8
    <3>2. At(m)'.outstanding = o
      BY <1>14, <2>4, <2>8
    <3> WITNESS c \in Int, d \in Int, e \in Int, o \in Int, o \in Int
    <3>3. o - o = c - e
      BY <3>1
    <3> QED BY <2>1, <2>2, <2>3, <2>4, <2>5, <2>6, <3>2, <3>3
  <2> QED BY <2>7, <2>8
<1>25. \A m \in Numbers : Cardinality(OutOf(m)') <= At(m)'.outstanding
  <2> TAKE m \in Numbers
  <2>1. PICK c, d, e, o, p \in Int :
           /\ c = Cardinality(OutOf(m)) /\ d = Cardinality(OutOf(m)')
           /\ e = Cardinality(OutOf(m) \ {g})
           /\ o = At(m).outstanding /\ p = At(m)'.outstanding
           /\ d <= e /\ c <= o /\ o - p = c - e
    BY <1>23
  <2>2. d <= p
    BY <2>1
  <2> QED BY <2>1, <2>2
<1>26. \A m \in Numbers : Stuck(m) => Stuck(m)'
  <2> SUFFICES ASSUME NEW m \in Numbers, Stuck(m) PROVE Stuck(m)'
    OBVIOUS
  <2>1. CASE At(m).unserved
    BY <1>14, <1>22, <2>1 DEF Stuck
  <2>2. CASE Cardinality(OutOf(m)) < At(m).outstanding
    <3>1. PICK c, d, e, o, p \in Int :
             /\ c = Cardinality(OutOf(m)) /\ d = Cardinality(OutOf(m)')
             /\ e = Cardinality(OutOf(m) \ {g})
             /\ o = At(m).outstanding /\ p = At(m)'.outstanding
             /\ d <= e /\ c <= o /\ o - p = c - e
      BY <1>23
    <3>2. c < o
      BY <2>2, <3>1
    <3>3. d < p
      BY <3>1, <3>2
    <3> QED BY <3>1, <3>3 DEF Stuck
  <2> QED BY <2>1, <2>2 DEF Stuck
<1>27. \A m \in Numbers : \A h \in OutOf(m) \ {g} : h \notin OutOf(m)' => Stuck(m)'
  <2> SUFFICES ASSUME NEW m \in Numbers, NEW h \in OutOf(m) \ {g}, h \notin OutOf(m)'
               PROVE  Stuck(m)'
    OBVIOUS
  <2>1. PICK c, d, e, o, p \in Int :
           /\ c = Cardinality(OutOf(m)) /\ d = Cardinality(OutOf(m)')
           /\ e = Cardinality(OutOf(m) \ {g})
           /\ o = At(m).outstanding /\ p = At(m)'.outstanding
           /\ d <= e /\ c <= o /\ o - p = c - e
    BY <1>23
  <2>2. d < e
    BY <1>20, <2>1
  <2>3. d < p
    BY <2>1, <2>2
  <2> QED BY <2>1, <2>3 DEF Stuck
<1>28. ~unserved' => \A m \in Numbers : ~Stuck(m)'
  <2> SUFFICES ASSUME ~unserved', NEW m \in Numbers PROVE ~Stuck(m)'
    OBVIOUS
  <2>1. ~unserved /\ ~nobody
    BY <1>1
  <2>2. ~At(m).unserved /\ ~(Cardinality(OutOf(m)) < At(m).outstanding)
    BY <2>1 DEF SweepInv, OutIsCounted, Stuck
  <2>3. PICK c, d, e, o, p \in Int :
           /\ c = Cardinality(OutOf(m)) /\ d = Cardinality(OutOf(m)')
           /\ e = Cardinality(OutOf(m) \ {g})
           /\ o = At(m).outstanding /\ p = At(m)'.outstanding
           /\ d <= e /\ c <= o /\ o - p = c - e
    BY <1>23
  <2>4. d = e
    BY <1>12, <2>1, <2>3
  <2>5. ~(c < o)
    BY <2>2, <2>3
  <2>6. ~(d < p)
    BY <2>3, <2>4, <2>5
  <2>7. ~At(m)'.unserved
    BY <1>14, <1>22, <2>1, <2>2
  <2> QED BY <2>3, <2>6, <2>7 DEF Stuck
\* the invariant
<1>29. Fetching' = Fetching \ {g}
  BY <1>9 DEF Fetching
<1>30. SweepTyped'
  <2>1. back \in R
    <3>1. Cardinality(OutOf(n)) # 0
      <4>1. IsFiniteSet(OutOf(n)) /\ OutOf(n) # {}
        BY <1>10, OutIsFinite
      <4> QED BY <4>1, FS_EmptySet
    <3>2. pages[k].outstanding - 1 \in Nat
      <4>1. PICK c \in Nat : c = Cardinality(OutOf(n))
        BY <1>18
      <4>2. PICK o \in Nat : o = pages[k].outstanding
        BY <1>15, <1>21
      <4>3. c <= o /\ c # 0
        BY <1>15, <1>21, <3>1, <4>1, <4>2
      <4>4. o - 1 \in Nat
        BY <4>3
      <4> QED BY <4>2, <4>4
    <3>3. (pages[k].unserved \/ nobody) \in BOOLEAN
      BY <1>6
    <3> QED BY <1>6, <3>2, <3>3 DEF back
  <2>2. pages' \in Seq(R)
    <3>1. \A i \in 1 .. Len(pages) : pages'[i] \in R
      <4> HIDE DEF R
      <4> QED BY <1>6, <1>7, <2>1
    <3>2. pages' = [i \in 1 .. Len(pages) |-> pages'[i]]
      <4>1. pages' = [i \in DOMAIN (pages') |-> pages'[i]]
        BY <1>1, <1>4, <1>5 DEF Answered
      <4> QED BY <1>7, <4>1
    <3> HIDE DEF R
    <3> QED BY <1>6, <3>1, <3>2
  <2>3. queued' \in Seq([page : Nat, game : Games])
    BY <1>1, <1>2 DEF SweepTyped
  <2>4. unserved' \in BOOLEAN
    BY <1>1, <1>2 DEF SweepTyped
  <2>5. pageOf' \in [Games -> Nat]
        /\ task' \in [Games -> Outcomes \cup {"none", "waiting", "serving", "ingest"}]
    BY <1>1, <1>2 DEF SweepTyped
  <2> QED BY <1>1, <1>2, <2>2, <2>3, <2>4, <2>5 DEF SweepTyped
<1>31. \A h : Booked(h)' = Booked(h)
  BY <1>1 DEF Booked
<1>32. PrefixIsFinished' /\ IdleIsEmpty'
  BY <1>1, <1>2, <1>29, <1>31 DEF SweepInv, PrefixIsFinished, IdleIsEmpty
<1>33. HeldOnce'
  <2>1. \A s \in Sessions : serving[s] # 0 =>
           serving[s] \in Games /\ task[serving[s]] = "serving" /\ serving[s] # g
    <3> SUFFICES ASSUME NEW s \in Sessions, serving[s] # 0
                 PROVE  serving[s] \in Games /\ task[serving[s]] = "serving" /\ serving[s] # g
      OBVIOUS
    <3>1. serving[s] \in Games
      BY <1>2, SweepAssumption DEF SweepTyped, Games
    <3>2. task[serving[s]] = "serving"
      BY DEF SweepInv, HeldOnce
    <3> QED BY <1>1, <3>1, <3>2 DEF Outcomes
  <2> QED BY <1>1, <1>9, <2>1 DEF SweepInv, HeldOnce
<1>34. PagesInOrder'
  BY <1>1, <1>2, <1>13, <1>16 DEF SweepInv, PagesInOrder
<1>35. OutOnce'
  <2>1. Cardinality(Fetching') <= InFlight
    <3>1. Cardinality(Fetching) \in Nat /\ Cardinality(Fetching') \in Nat
      BY FetchingIsFinite, FS_CardinalityType
    <3>2. Fetching' \in SUBSET Fetching
      BY <1>29
    <3>3. Cardinality(Fetching') <= Cardinality(Fetching)
      BY <3>2, FetchingIsFinite, FS_Subset
    <3> QED BY <3>1, <3>3, SweepAssumption DEF SweepInv, OutOnce
  <2>2. \A i \in DOMAIN queued : queued[i].game \in Games
    BY <1>2, QueuedGames
  <2>3. CASE nobody
    BY <1>1, <2>1, <2>3 DEF OutOnce
  <2>4. CASE ~nobody
    <3>1. queued' = queued
      BY <1>1, <2>4
    <3>2. \A i \in DOMAIN queued : task'[queued[i].game] = "none"
      BY <1>9, <2>2 DEF SweepInv, OutOnce
    <3>3. \A i, j \in DOMAIN queued : queued[i].game = queued[j].game => i = j
      BY DEF SweepInv, OutOnce
    <3> QED BY <2>1, <3>1, <3>2, <3>3 DEF OutOnce
  <2> QED BY <2>3, <2>4
<1>36. OutIsAhead'
  <2>1. ASSUME NEW h \in Fetching'
        PROVE  \E m \in Numbers' : pageOf'[h] = m /\ On(h, m)' /\ cursor' < h
    <3>1. h \in Fetching /\ h # g /\ h \in Games
      BY <1>29 DEF Fetching
    <3>2. PICK m \in Numbers : pageOf[h] = m /\ On(h, m) /\ cursor < h
      BY <3>1 DEF SweepInv, OutIsAhead
    <3> QED BY <1>1, <1>9, <1>13, <1>17, <3>1, <3>2
  <2>2. ASSUME NEW i \in DOMAIN (queued')
        PROVE  \E m \in Numbers', h \in Games :
                 queued'[i] = [page |-> m, game |-> h] /\ On(h, m)' /\ cursor' < h
    <3>1. queued' = queued
      BY <1>1, <2>2
    <3>2. PICK m \in Numbers, h \in Games :
             queued[i] = [page |-> m, game |-> h] /\ On(h, m) /\ cursor < h
      BY <3>1 DEF SweepInv, OutIsAhead
    <3> QED BY <1>1, <1>13, <1>17, <3>1, <3>2
  <2> QED BY <2>1, <2>2 DEF OutIsAhead
<1>37. OutIsCounted'
  BY <1>13, <1>25, <1>28 DEF OutIsCounted
<1>38. ReadIsAccountedFor'
  <2>1. ASSUME NEW h \in Games, task'[h] \in Outcomes \ {"Unserved"} PROVE Booked(h)'
    BY <1>9, <1>31, <2>1 DEF SweepInv, ReadIsAccountedFor, Outcomes
  <2>2. ASSUME NEW h \in 1 .. reading
        PROVE  Booked(h) \/ \E m \in Numbers : On(h, m)' /\ (h \in OutOf(m)' \/ Stuck(m)')
    <3>1. CASE Booked(h)
      BY <3>1
    <3>2. CASE ~Booked(h)
      <4>1. PICK m \in Numbers : On(h, m) /\ (h \in OutOf(m) \/ Stuck(m))
        BY <3>2 DEF SweepInv, ReadIsAccountedFor
      <4>2. CASE h = g
        <5>1. nobody
          BY <1>1, <3>2, <4>2 DEF SweepInv, ReadIsAccountedFor, nobody
        <5>2. Stuck(n)'
          BY <1>14, <1>22, <5>1 DEF Stuck
        <5> QED BY <1>4, <1>17, <4>2, <5>2
      <4>3. CASE h # g
        <5>1. h \in OutOf(m)' \/ Stuck(m)'
          BY <1>26, <1>27, <4>1, <4>3
        <5> QED BY <1>17, <4>1, <5>1
      <4> QED BY <4>2, <4>3
    <3> QED BY <3>1, <3>2
  <2> QED BY <1>1, <1>13, <1>31, <2>1, <2>2 DEF ReadIsAccountedFor
<1> QED BY <1>30, <1>32, <1>33, <1>34, <1>35, <1>36, <1>37, <1>38 DEF SweepInv

\* Spawning moves games from the queue into flight: what is out of each page
\* stays what it was, and no more than InFlight are in flight.
LEMMA FeedStep ==
  ASSUME SweepInv, Feed
  PROVE  /\ \A m : OutOf(m)' = OutOf(m)
         /\ Cardinality(Fetching') <= InFlight
         /\ queued' \in Seq([page : Nat, game : Games])
         /\ task' \in [Games -> Outcomes \cup {"none", "waiting", "serving", "ingest"}]
         /\ pageOf' \in [Games -> Nat]
         /\ \A i \in DOMAIN (queued') : /\ queued'[i].game \in Games
                                        /\ task'[queued'[i].game] = "none"
                                        /\ \E j \in DOMAIN queued : queued'[i] = queued[j]
         /\ \A i, j \in DOMAIN (queued') : queued'[i].game = queued'[j].game => i = j
         /\ \A g \in Games : task'[g] # "waiting" => task'[g] = task[g]
         /\ \A g \in Games : task[g] # "none" => task'[g] = task[g]
<1>1. SweepTyped
  BY DEF SweepInv
<1>2. PICK c \in Nat : c = Cardinality(Fetching) /\ c <= InFlight
  BY FetchingIsFinite, FS_CardinalityType DEF SweepInv, OutOnce
<1>3. PICK l \in Nat : l = Len(queued) /\ DOMAIN queued = 1 .. l
  BY <1>1 DEF SweepTyped
<1>4. PICK n \in Nat : n = IF InFlight - c < l THEN InFlight - c ELSE l
  BY <1>2, <1>3, SweepAssumption
<1>5. n <= l /\ c + n <= InFlight
  BY <1>2, <1>3, <1>4, SweepAssumption
<1> DEFINE taken == {queued[i] : i \in 1 .. n}
<1>6. /\ queued' = SubSeq(queued, n + 1, l)
      /\ task' = [g \in Games |-> IF \E q \in taken : q.game = g THEN "waiting" ELSE task[g]]
      /\ pageOf' = [g \in Games |-> IF \E q \in taken : q.game = g
                                    THEN (CHOOSE q \in taken : q.game = g).page
                                    ELSE pageOf[g]]
  BY <1>2, <1>3, <1>4 DEF Feed
<1>7. \A i \in 1 .. l : /\ queued[i].page \in Nat /\ queued[i].game \in Games
                        /\ queued[i] = [page |-> queued[i].page, game |-> queued[i].game]
                        /\ task[queued[i].game] = "none"
  BY <1>1, <1>3, QueuedGames DEF SweepInv, OutOnce
<1>8. \A i, j \in 1 .. l : queued[i].game = queued[j].game => i = j
  BY <1>3 DEF SweepInv, OutOnce
<1>9. 1 .. n \subseteq 1 .. l
  BY <1>5
\* the games that are spawned, and the others
<1>10. \A i \in 1 .. n : /\ task'[queued[i].game] = "waiting"
                         /\ pageOf'[queued[i].game] = queued[i].page
  <2> SUFFICES ASSUME NEW i \in 1 .. n
               PROVE  task'[queued[i].game] = "waiting" /\ pageOf'[queued[i].game] = queued[i].page
    OBVIOUS
  <2>1. queued[i] \in taken /\ queued[i].game \in Games
    BY <1>7, <1>9
  <2>2. \A q \in taken : q.game = queued[i].game => q = queued[i]
    BY <1>8, <1>9
  <2> HIDE DEF taken
  <2>3. (CHOOSE q \in taken : q.game = queued[i].game) = queued[i]
    BY <2>1, <2>2
  <2> QED BY <1>6, <2>1, <2>3
<1>11. \A g \in Games : (\A i \in 1 .. n : queued[i].game # g)
                          => task'[g] = task[g] /\ pageOf'[g] = pageOf[g]
  BY <1>6
<1>12. \A g \in Games : (task'[g] = task[g] /\ pageOf'[g] = pageOf[g])
                        \/ \E i \in 1 .. n : queued[i].game = g
  BY <1>11
<1>13. task' = [g \in Games |-> task'[g]] /\ pageOf' = [g \in Games |-> pageOf'[g]]
  BY <1>6
<1>14. /\ task' \in [Games -> Outcomes \cup {"none", "waiting", "serving", "ingest"}]
       /\ pageOf' \in [Games -> Nat]
  <2>1. \A g \in Games : /\ task'[g] \in Outcomes \cup {"none", "waiting", "serving", "ingest"}
                         /\ pageOf'[g] \in Nat
    <3> SUFFICES ASSUME NEW g \in Games
                 PROVE  /\ task'[g] \in Outcomes \cup {"none", "waiting", "serving", "ingest"}
                        /\ pageOf'[g] \in Nat
      OBVIOUS
    <3>1. CASE task'[g] = task[g] /\ pageOf'[g] = pageOf[g]
      BY <1>1, <3>1 DEF SweepTyped
    <3>2. CASE \E i \in 1 .. n : queued[i].game = g
      BY <1>7, <1>9, <1>10, <3>2
    <3> QED BY <1>12, <3>1, <3>2
  <2> HIDE DEF taken
  <2> QED BY <1>13, <2>1
<1>15. \A g \in Games : (task'[g] # "waiting" => task'[g] = task[g])
                        /\ (task[g] # "none" => task'[g] = task[g])
  <2> SUFFICES ASSUME NEW g \in Games
               PROVE  (task'[g] # "waiting" => task'[g] = task[g])
                      /\ (task[g] # "none" => task'[g] = task[g])
    OBVIOUS
  <2>1. CASE \E i \in 1 .. n : queued[i].game = g
    <3>1. PICK i \in 1 .. n : queued[i].game = g
      BY <2>1
    <3>2. task'[g] = "waiting" /\ task[g] = "none"
      BY <1>7, <1>9, <1>10, <3>1
    <3> QED BY <3>2
  <2> QED BY <1>12, <2>1
\* the queue
<1>16. /\ queued' \in Seq([page : Nat, game : Games]) /\ DOMAIN (queued') = 1 .. l - n
       /\ \A i \in 1 .. l - n : queued'[i] = queued[i + n] /\ i + n \in 1 .. l /\ i + n \notin 1 .. n
  <2> DEFINE R == [page : Nat, game : Games]
  <2>1. queued \in Seq(R)
    BY <1>1 DEF SweepTyped
  <2> HIDE DEF R
  <2>2. Len(SubSeq(queued, n + 1, l)) = l - n
    BY <1>3, <1>5, <2>1
  <2>3. SubSeq(queued, n + 1, l) \in Seq(R)
    BY <1>3, <1>5, <2>1
  <2>4. \A i \in 1 .. l - n : SubSeq(queued, n + 1, l)[i] = queued[i + n]
    BY <1>3, <1>5, <2>1
  <2>5. \A i \in 1 .. l - n : i + n \in 1 .. l /\ i + n \notin 1 .. n
    BY <1>5
  <2>6. queued' \in Seq(R) /\ Len(queued') = l - n
    BY <1>6, <2>2, <2>3
  <2>7. DOMAIN (queued') = 1 .. l - n
    BY <2>6
  <2> QED BY <1>6, <2>4, <2>5, <2>6, <2>7 DEF R
<1>17. \A i \in 1 .. l - n : \A j \in 1 .. n : queued'[i].game # queued[j].game
  BY <1>8, <1>9, <1>16
<1>18. \A i \in DOMAIN (queued') : /\ queued'[i].game \in Games
                                   /\ task'[queued'[i].game] = "none"
                                   /\ \E j \in DOMAIN queued : queued'[i] = queued[j]
  <2> SUFFICES ASSUME NEW i \in 1 .. l - n
               PROVE  /\ queued'[i].game \in Games /\ task'[queued'[i].game] = "none"
                      /\ \E j \in DOMAIN queued : queued'[i] = queued[j]
    BY <1>16
  <2>1. PICK j \in 1 .. l : queued'[i] = queued[j]
    BY <1>16
  <2>2. queued'[i].game \in Games /\ task[queued'[i].game] = "none"
    BY <1>7, <2>1
  <2>3. task'[queued'[i].game] = task[queued'[i].game]
    BY <1>11, <1>17, <2>2
  <2> QED BY <1>3, <2>1, <2>2, <2>3
<1>19. \A i, j \in DOMAIN (queued') : queued'[i].game = queued'[j].game => i = j
  <2> SUFFICES ASSUME NEW i \in 1 .. l - n, NEW j \in 1 .. l - n,
                      queued'[i].game = queued'[j].game
               PROVE  i = j
    BY <1>16
  <2>1. i + n = j + n
    BY <1>8, <1>16
  <2> QED BY <2>1
\* what is out
<1>20. ASSUME NEW m PROVE OutOf(m)' = OutOf(m)
  <2>1. ASSUME NEW g \in OutOf(m) PROVE g \in OutOf(m)'
    <3>0. g \in Games
      BY DEF OutOf
    <3>1. CASE task[g] # "none" /\ pageOf[g] = m
      <4>1. task'[g] = task[g] /\ pageOf'[g] = pageOf[g]
        BY <1>7, <1>9, <1>11, <3>0, <3>1
      <4> QED BY <3>0, <3>1, <4>1 DEF OutOf
    <3>2. CASE \E i \in DOMAIN queued : queued[i] = [page |-> m, game |-> g]
      <4>1. PICK i \in 1 .. l : queued[i] = [page |-> m, game |-> g]
        BY <1>3, <3>2
      <4>2. queued[i].page = m /\ queued[i].game = g
        BY <4>1
      <4>3. CASE i \in 1 .. n
        <5>1. task'[g] # "none" /\ pageOf'[g] = m
          BY <1>10, <4>2, <4>3
        <5> QED BY <3>0, <5>1 DEF OutOf
      <4>4. CASE i \notin 1 .. n
        <5>1. i - n \in 1 .. l - n /\ (i - n) + n = i
          BY <1>5, <4>4
        <5>2. queued'[i - n] = [page |-> m, game |-> g]
          BY <1>16, <4>1, <5>1
        <5> QED BY <1>16, <3>0, <5>1, <5>2 DEF OutOf
      <4> QED BY <4>3, <4>4
    <3> QED BY <3>1, <3>2 DEF OutOf
  <2>2. ASSUME NEW g \in OutOf(m)' PROVE g \in OutOf(m)
    <3>0. g \in Games
      BY DEF OutOf
    <3>1. CASE task'[g] # "none" /\ pageOf'[g] = m
      <4>1. CASE task'[g] = task[g] /\ pageOf'[g] = pageOf[g]
        BY <3>0, <3>1, <4>1 DEF OutOf
      <4>2. CASE \E i \in 1 .. n : queued[i].game = g
        <5>1. PICK i \in 1 .. n : queued[i].game = g
          BY <4>2
        <5>2. queued[i].page = m /\ i \in DOMAIN queued
          BY <1>3, <1>9, <1>10, <3>1, <5>1
        <5>3. queued[i] = [page |-> m, game |-> g]
          BY <1>7, <1>9, <5>1, <5>2
        <5> QED BY <3>0, <5>2, <5>3 DEF OutOf
      <4> QED BY <1>12, <3>0, <4>1, <4>2
    <3>2. CASE \E i \in DOMAIN (queued') : queued'[i] = [page |-> m, game |-> g]
      BY <1>18, <3>0, <3>2 DEF OutOf
    <3> QED BY <3>1, <3>2 DEF OutOf
  <2> QED BY <2>1, <2>2
<1>21. Cardinality(Fetching') <= InFlight
  <2> DEFINE T == {queued[i].game : i \in 1 .. n}
             f == [i \in 1 .. n |-> queued[i].game]
  <2>1. Fetching' \in SUBSET (Fetching \cup T)
    BY <1>12 DEF Fetching
  <2>2. f \in Surjection(1 .. n, T)
    BY DEF Surjection
  <2>3. IsFiniteSet(1 .. n) /\ Cardinality(1 .. n) = n
    BY FS_Interval
  <2>4. IsFiniteSet(T) /\ Cardinality(T) <= n
    <3> HIDE DEF T, f
    <3> QED BY <2>2, <2>3, FS_Surjection
  <2> HIDE DEF T, f
  <2>5. PICK t \in Nat : t = Cardinality(T) /\ t <= n
    BY <2>4, FS_CardinalityType
  <2>6. IsFiniteSet(Fetching \cup T) /\ IsFiniteSet(Fetching \cap T)
        /\ Cardinality(Fetching \cup T) = Cardinality(Fetching) + Cardinality(T)
                                            - Cardinality(Fetching \cap T)
    BY <2>4, FetchingIsFinite, FS_Union, FS_Intersection
  <2>7. PICK x \in Nat : x = Cardinality(Fetching \cap T)
    BY <2>6, FS_CardinalityType
  <2>8. PICK u \in Nat : u = Cardinality(Fetching \cup T)
    BY <2>6, FS_CardinalityType
  <2>9. u <= InFlight
    BY <1>2, <1>5, <2>5, <2>6, <2>7, <2>8, SweepAssumption
  <2>10. PICK v \in Nat : v = Cardinality(Fetching') /\ v <= u
    <3>1. Cardinality(Fetching') <= Cardinality(Fetching \cup T)
      BY <2>1, <2>6, FS_Subset
    <3> QED BY <2>8, <3>1, FetchingIsFinite, FS_CardinalityType
  <2> QED BY <2>9, <2>10, SweepAssumption
<1> QED BY <1>14, <1>15, <1>16, <1>18, <1>19, <1>20, <1>21

\* The finished pages at the front are dropped, and the cursor moves to the end
\* of them if it can be written: nothing of them is out or missing.
LEMMA CommitStep == ASSUME SweepInv, Commit PROVE SweepInv'
<1>1. /\ walk = "commit" /\ walk' = "join" /\ Feed
      /\ UNCHANGED <<stored, verdict, reading, listed, unserved, serving>>
  BY DEF Commit, sessionVars
<1>2. SweepTyped /\ Running /\ Running'
  BY <1>1 DEF SweepInv, Running
<1>3. PICK P \in 0 .. Len(pages) : P = Prefix /\ \A i \in 1 .. P : Finished(pages[i])
  BY <1>2, FinishedFront
<1>4. /\ pages' = SubSeq(pages, P + 1, Len(pages)) /\ done' = done + P
      /\ cursor' = cursor \/ (P # 0 /\ cursor' = pages[P].position)
  BY <1>3 DEF Commit
<1>5. PICK l \in Nat : l = Len(pages)
  BY <1>2 DEF SweepTyped
<1>6. P \in Nat /\ P <= l /\ done \in Nat
  BY <1>2, <1>3, <1>5 DEF SweepTyped
\* the pages that stay
<1>7. /\ pages' \in Seq([position : Games, outstanding : Nat, unserved : BOOLEAN])
      /\ Len(pages') = l - P /\ \A i \in 1 .. l - P : pages'[i] = pages[i + P]
  <2> DEFINE R == [position : Games, outstanding : Nat, unserved : BOOLEAN]
  <2>1. pages \in Seq(R)
    BY <1>2 DEF SweepTyped
  <2> HIDE DEF R
  <2>2. /\ SubSeq(pages, P + 1, l) \in Seq(R) /\ Len(SubSeq(pages, P + 1, l)) = l - P
        /\ \A i \in 1 .. l - P : SubSeq(pages, P + 1, l)[i] = pages[i + P]
    BY <1>5, <1>6, <2>1
  <2> QED BY <1>4, <1>5, <2>2 DEF R
<1>8. Numbers' = done + P .. done + l - 1 /\ Numbers = done .. done + l - 1
  <2>1. Numbers' = done' .. done' + Len(pages') - 1
    BY DEF Numbers
  <2>2. done' + Len(pages') - 1 = done + l - 1
    BY <1>4, <1>6, <1>7
  <2> QED BY <1>4, <1>5, <2>1, <2>2 DEF Numbers
<1>9. \A m \in Numbers' : m \in Numbers /\ m \in Int /\ done + P <= m /\ At(m)' = At(m)
  <2> SUFFICES ASSUME NEW m \in done + P .. done + l - 1
               PROVE  m \in Numbers /\ m \in Int /\ done + P <= m /\ At(m)' = At(m)
    BY <1>8
  <2>1. m \in Numbers /\ m \in Int /\ done + P <= m
    BY <1>6, <1>8
  <2>2. m - (done + P) + 1 \in 1 .. l - P /\ m - (done + P) + 1 + P = m - done + 1
    BY <1>6
  <2>3. At(m)' = pages'[m - (done + P) + 1]
    BY <1>4 DEF At
  <2>4. At(m)' = pages[m - done + 1]
    BY <1>7, <2>2, <2>3
  <2> QED BY <2>1, <2>4 DEF At
<1>10. \A m \in Numbers' : \A g : On(g, m) => On(g, m)'
  <2> SUFFICES ASSUME NEW m \in Numbers', NEW g, On(g, m) PROVE On(g, m)'
    OBVIOUS
  <2>1. g <= At(m)'.position
    BY <1>9 DEF On
  <2>2. ASSUME NEW j \in done' .. m - 1 PROVE At(j)'.position < g
    <3>1. j \in Numbers' /\ j \in done .. m - 1
      BY <1>4, <1>6, <1>8
    <3> QED BY <1>9, <3>1 DEF On
  <2> QED BY <2>1, <2>2 DEF On
\* the pages that go
<1>11. /\ \A m : OutOf(m)' = OutOf(m)
       /\ Cardinality(Fetching') <= InFlight
       /\ queued' \in Seq([page : Nat, game : Games])
       /\ task' \in [Games -> Outcomes \cup {"none", "waiting", "serving", "ingest"}]
       /\ pageOf' \in [Games -> Nat]
       /\ \A i \in DOMAIN (queued') : /\ queued'[i].game \in Games
                                      /\ task'[queued'[i].game] = "none"
                                      /\ \E j \in DOMAIN queued : queued'[i] = queued[j]
       /\ \A i, j \in DOMAIN (queued') : queued'[i].game = queued'[j].game => i = j
       /\ \A g \in Games : task'[g] # "waiting" => task'[g] = task[g]
       /\ \A g \in Games : task[g] # "none" => task'[g] = task[g]
  BY <1>1, FeedStep
<1>12. \A m \in Numbers : m \notin Numbers' => OutOf(m) = {} /\ ~Stuck(m)
  <2> SUFFICES ASSUME NEW m \in Numbers, m \notin Numbers' PROVE OutOf(m) = {} /\ ~Stuck(m)
    OBVIOUS
  <2>1. m - done + 1 \in 1 .. P
    BY <1>6, <1>8
  <2>2. At(m).outstanding = 0 /\ ~At(m).unserved
    BY <1>3, <2>1 DEF Finished, At
  <2>3. Cardinality(OutOf(m)) <= 0
    BY <2>2 DEF SweepInv, OutIsCounted
  <2>4. PICK c \in Nat : c = Cardinality(OutOf(m))
    BY OutIsFinite, FS_CardinalityType
  <2>5. c = 0
    BY <2>3, <2>4
  <2>6. OutOf(m) = {}
    BY <2>4, <2>5, OutIsFinite, FS_EmptySet
  <2>7. ~(c < 0)
    BY <2>5
  <2> QED BY <2>2, <2>4, <2>6, <2>7 DEF Stuck
<1>13. \A m : Stuck(m)' = (At(m)'.unserved \/ Cardinality(OutOf(m)) < At(m)'.outstanding)
  BY <1>11 DEF Stuck
<1>14. \A m \in Numbers' : Stuck(m)' = Stuck(m)
  BY <1>9, <1>13 DEF Stuck
<1>15. \A g : Booked(g)' = Booked(g)
  BY <1>1 DEF Booked
\* what is out, or on a page that stays, is ahead of the cursor
<1>16. cursor' \in 0 .. NumGames /\ cursor' <= reading /\ reading \in Nat /\ cursor' \in Nat
       /\ cursor <= reading /\ cursor \in Nat
  <2>1. cursor \in 0 .. NumGames /\ cursor <= reading /\ reading \in 0 .. NumGames
    BY <1>2 DEF SweepInv, SweepTyped, PagesInOrder
  <2>2. CASE cursor' = cursor
    BY <2>1, <2>2, SweepAssumption
  <2>3. CASE P # 0 /\ cursor' = pages[P].position
    <3>1. done + P - 1 \in Numbers /\ (done + P - 1) - done + 1 = P
      BY <1>6, <1>8, <2>3
    <3>2. At(done + P - 1) = pages[P]
      BY <3>1 DEF At
    <3>3. pages[P].position \in Games /\ pages[P].position <= reading
      BY <1>2, <3>1, <3>2, PageTyped DEF SweepInv, PagesInOrder
    <3> QED BY <2>1, <2>3, <3>3, SweepAssumption DEF Games
  <2> QED BY <1>4, <2>2, <2>3
<1>17. \A m \in Numbers' : \A g \in Games : On(g, m) /\ cursor < g => cursor' < g
  <2> SUFFICES ASSUME NEW m \in Numbers', NEW g \in Games, On(g, m), cursor < g PROVE cursor' < g
    OBVIOUS
  <2>1. CASE P # 0 /\ cursor' = pages[P].position
    <3>1. done + P - 1 \in done .. m - 1 /\ (done + P - 1) - done + 1 = P
      BY <1>6, <1>9, <2>1
    <3>2. At(done + P - 1).position < g
      BY <3>1 DEF On
    <3>3. At(done + P - 1) = pages[P]
      BY <3>1 DEF At
    <3> QED BY <2>1, <3>2, <3>3
  <2> QED BY <1>4, <2>1
<1>18. \A m \in Nat, g \in Games : g \in OutOf(m) => m \in Numbers' /\ On(g, m)' /\ cursor' < g
  <2> SUFFICES ASSUME NEW m \in Nat, NEW g \in Games, g \in OutOf(m)
               PROVE  m \in Numbers' /\ On(g, m)' /\ cursor' < g
    OBVIOUS
  <2>1. m \in Numbers /\ On(g, m) /\ cursor < g
    BY OutWasRead
  <2>2. m \in Numbers'
    BY <1>12, <2>1
  <2> QED BY <1>10, <1>17, <2>1, <2>2
\* the invariant
<1>19. SweepTyped'
  <2>1. done' \in Nat
    BY <1>4, <1>6
  <2>2. /\ reading' \in 0 .. NumGames /\ listed' \in BOOLEAN /\ unserved' \in BOOLEAN
        /\ serving' \in [Sessions -> 0 .. NumGames]
        /\ verdict' \in [Games -> {"none", "refused", "unconvertible", "transport",
                                   "unserved", "nobody", "failed"}]
    BY <1>1, <1>2 DEF SweepTyped
  <2> QED BY <1>7, <1>11, <1>16, <2>1, <2>2 DEF SweepTyped
<1>20. \A g \in Fetching' : pageOf'[g] \in Nat /\ g \in Games /\ g \in OutOf(pageOf'[g])
  <2> SUFFICES ASSUME NEW g \in Games, task'[g] # "none"
               PROVE  pageOf'[g] \in Nat /\ g \in OutOf(pageOf'[g])
    BY DEF Fetching
  <2>1. PICK m \in Nat : m = pageOf'[g]
    BY <1>11
  <2>2. g \in OutOf(m)'
    BY <2>1 DEF OutOf
  <2>3. g \in OutOf(m)
    BY <1>11, <2>2
  <2> QED BY <2>1, <2>3
<1>21. ReadIsAccountedFor'
  <2>1. ASSUME NEW g \in Games, task'[g] \in Outcomes \ {"Unserved"} PROVE Booked(g)'
    <3>1. task'[g] = task[g]
      BY <1>11, <2>1 DEF Outcomes
    <3> QED BY <1>15, <2>1, <3>1 DEF SweepInv, ReadIsAccountedFor
  <2>2. ASSUME NEW g \in 1 .. reading
        PROVE  Booked(g)' \/ \E m \in Numbers' : On(g, m)' /\ (g \in OutOf(m)' \/ Stuck(m)')
    <3>1. CASE Booked(g)
      BY <1>15, <3>1
    <3>2. CASE ~Booked(g)
      <4>1. PICK m \in Numbers : On(g, m) /\ (g \in OutOf(m) \/ Stuck(m))
        BY <3>2 DEF SweepInv, ReadIsAccountedFor
      <4>2. m \in Numbers'
        BY <1>12, <4>1
      <4> QED BY <1>10, <1>11, <1>14, <4>1, <4>2
    <3> QED BY <3>1, <3>2
  <2> QED BY <1>1, <2>1, <2>2 DEF ReadIsAccountedFor
<1>22. PrefixIsFinished'
  <2>1. ASSUME NEW g \in Games, g <= cursor' PROVE Booked(g)'
    <3> SUFFICES ASSUME ~Booked(g) PROVE FALSE
      BY <1>15
    <3>1. g \in 1 .. reading /\ g \in Nat
      BY <1>16, <2>1, SweepAssumption DEF Games
    <3>2. PICK m \in Numbers : On(g, m) /\ (g \in OutOf(m) \/ Stuck(m))
      BY <3>1 DEF SweepInv, ReadIsAccountedFor
    <3>3. m \in Numbers'
      BY <1>12, <3>2
    <3>4. cursor < g
      <4>1. ~(g <= cursor)
        BY DEF SweepInv, PrefixIsFinished
      <4> QED BY <1>16, <3>1, <4>1
    <3>5. cursor' < g
      BY <1>17, <3>2, <3>3, <3>4
    <3> QED BY <1>16, <2>1, <3>1, <3>5
  <2>2. \A g \in Fetching' : g > cursor'
    <3> SUFFICES ASSUME NEW g \in Fetching' PROVE g > cursor'
      OBVIOUS
    <3>1. cursor' < g /\ g \in Nat
      BY <1>18, <1>20, SweepAssumption DEF Games
    <3> QED BY <1>16, <3>1
  <2> QED BY <2>1, <2>2 DEF PrefixIsFinished
<1>23. IdleIsEmpty' /\ HeldOnce'
  <2>1. IdleIsEmpty'
    BY <1>2 DEF IdleIsEmpty
  <2>2. \A s \in Sessions : serving[s] # 0 => serving[s] \in Games /\ task[serving[s]] = "serving"
    <3>1. \A s \in Sessions : serving[s] # 0 => serving[s] \in Games
      BY <1>2, SweepAssumption DEF SweepTyped, Games
    <3> QED BY <3>1 DEF SweepInv, HeldOnce
  <2>3. \A s \in Sessions : serving[s] # 0 => task'[serving[s]] = "serving"
    <3> SUFFICES ASSUME NEW s \in Sessions, serving[s] # 0 PROVE task'[serving[s]] = "serving"
      OBVIOUS
    <3>1. serving[s] \in Games /\ task[serving[s]] = "serving"
      BY <2>2
    <3> QED BY <1>11, <3>1
  <2>4. HeldOnce'
    BY <1>1, <2>3 DEF SweepInv, HeldOnce
  <2> QED BY <2>1, <2>4
<1>24. PagesInOrder'
  <2>1. \A m \in Numbers' : At(m)'.position <= reading
    BY <1>9 DEF SweepInv, PagesInOrder
  <2>2. \A m, j \in Numbers' : m < j => At(m)'.position < At(j)'.position
    BY <1>9 DEF SweepInv, PagesInOrder
  <2>3. listed => reading = NumGames
    BY DEF SweepInv, PagesInOrder
  <2> QED BY <1>1, <1>16, <2>1, <2>2, <2>3 DEF PagesInOrder
<1>25. OutOnce'
  BY <1>11 DEF OutOnce
<1>26. OutIsAhead'
  <2>1. \A g \in Fetching' : \E m \in Numbers' : pageOf'[g] = m /\ On(g, m)' /\ cursor' < g
    <3> SUFFICES ASSUME NEW g \in Fetching'
                 PROVE  \E m \in Numbers' : pageOf'[g] = m /\ On(g, m)' /\ cursor' < g
      OBVIOUS
    <3>1. PICK m \in Nat : m = pageOf'[g] /\ g \in Games /\ g \in OutOf(m)
      BY <1>20
    <3> QED BY <1>18, <3>1
  <2>2. ASSUME NEW i \in DOMAIN (queued')
        PROVE  \E m \in Numbers', g \in Games :
                  queued'[i] = [page |-> m, game |-> g] /\ On(g, m)' /\ cursor' < g
    <3>1. PICK j \in DOMAIN queued : queued'[i] = queued[j]
      BY <1>11
    <3>2. PICK m \in Nat, g \in Games : queued[j] = [page |-> m, game |-> g]
      BY <1>2, QueuedGames
    <3>3. g \in OutOf(m)
      BY <3>2 DEF OutOf
    <3> QED BY <1>18, <3>1, <3>2, <3>3
  <2> QED BY <2>1, <2>2 DEF OutIsAhead
<1>27. OutIsCounted'
  BY <1>1, <1>9, <1>11, <1>14 DEF SweepInv, OutIsCounted
<1> QED BY <1>19, <1>21, <1>22, <1>23, <1>24, <1>25, <1>26, <1>27 DEF SweepInv

(***************************************************************************)
(* The theorems                                                            *)
(***************************************************************************)

LEMMA LoginStep == ASSUME SweepInv, NEW s \in Sessions, Login(s) PROVE SweepInv'
<1>1. UNCHANGED <<cursor, stored, verdict, walk, reading, pages, done, queued, listed,
                  unserved, task, pageOf, serving>>
  BY DEF Login, storeVars, walkVars, passVars, taskVars
<1>2. HeldOnce' /\ \A h \in Games : Booked(h)' = Booked(h)
  BY <1>1 DEF SweepInv, HeldOnce, Booked
<1>3. \A h \in Games : task'[h] \in Outcomes \ {"Unserved"} => Booked(h)'
  BY <1>1, <1>2 DEF SweepInv, ReadIsAccountedFor
<1>4. /\ task' \in [Games -> Outcomes \cup {"none", "waiting", "serving", "ingest"}]
      /\ serving' \in [Sessions -> 0 .. NumGames]
      /\ verdict' \in [Games -> {"none", "refused", "unconvertible", "transport",
                                 "unserved", "nobody", "failed"}]
  BY <1>1 DEF SweepInv, SweepTyped
<1> QED BY <1>1, <1>2, <1>3, <1>4, QuietStep

LEMMA IdleStep == ASSUME SweepInv, UNCHANGED vars PROVE SweepInv'
<1>1. UNCHANGED <<cursor, stored, verdict, walk, reading, pages, done, queued, listed,
                  unserved, task, pageOf, serving>>
  BY DEF vars, storeVars, walkVars, passVars, taskVars, sessionVars
<1>2. HeldOnce' /\ \A h \in Games : Booked(h)' = Booked(h)
  BY <1>1 DEF SweepInv, HeldOnce, Booked
<1>3. \A h \in Games : task'[h] \in Outcomes \ {"Unserved"} => Booked(h)'
  BY <1>1, <1>2 DEF SweepInv, ReadIsAccountedFor
<1>4. /\ task' \in [Games -> Outcomes \cup {"none", "waiting", "serving", "ingest"}]
      /\ serving' \in [Sessions -> 0 .. NumGames]
      /\ verdict' \in [Games -> {"none", "refused", "unconvertible", "transport",
                                 "unserved", "nobody", "failed"}]
  BY <1>1 DEF SweepInv, SweepTyped
<1> QED BY <1>1, <1>2, <1>3, <1>4, QuietStep

LEMMA SweepInvInit == Init => SweepInv
<1> SUFFICES ASSUME Init PROVE SweepInv
  OBVIOUS
<1>1. cursor = 0 /\ cursor \in 0 .. NumGames /\ \A g \in Games : g <= cursor => Booked(g)
  BY SweepAssumption DEF Init, Games
<1>2. verdict \in [Games -> {"none", "refused", "unconvertible", "transport",
                             "unserved", "nobody", "failed"}]
  BY DEF Init
<1> QED BY <1>1, <1>2, EmptyPass DEF Init

LEMMA SweepInvStep == SweepInv /\ [Next]_vars => SweepInv'
<1> SUFFICES ASSUME SweepInv, [Next]_vars PROVE SweepInv'
  OBVIOUS
<1>1. CASE Start
  BY <1>1, BeginStep DEF Start
<1>2. CASE NextPass
  BY <1>2, BeginStep DEF NextPass
<1>3. CASE Read
  BY <1>3, ReadStep
<1>4. CASE Commit
  BY <1>4, CommitStep
<1>5. CASE JoinNothing
  <2>1. /\ Running /\ walk' \in {"read", "commit", "join"}
        /\ UNCHANGED <<cursor, stored, verdict, reading, pages, done, queued, unserved,
                       task, pageOf, serving, listed>>
    BY <1>5 DEF JoinNothing, Running, storeVars, passVars, taskVars, sessionVars
  <2>2. listed' \in BOOLEAN
    BY <2>1 DEF SweepInv, SweepTyped
  <2> QED BY <2>1, <2>2, IdleTurn
<1>6. CASE Interrupted
  BY <1>6, InterruptedStep
<1>7. CASE Completed
  BY <1>7, CompletedStep
<1>8. ASSUME NEW g \in Games, Join(g) PROVE SweepInv'
  BY <1>8, JoinStep
<1>9. CASE Stop \/ Crash
  BY <1>9, StopSteps
<1>10. ASSUME NEW g \in Games, TaskStep(g) \/ StoredElsewhere(g) PROVE SweepInv'
  BY <1>10, TaskSteps
<1>11. ASSUME NEW s \in Sessions, Login(s) \/ Logout(s) PROVE SweepInv'
  BY <1>11, LoginStep, LogoutStep
<1>12. CASE UNCHANGED vars
  BY <1>12, IdleStep
<1> QED BY <1>1, <1>2, <1>3, <1>4, <1>5, <1>6, <1>7, <1>8, <1>9, <1>10, <1>11, <1>12
        DEF Next, WalkStep

\* Whatever the order in which sessions answer, whatever stops, crashes and
\* cursor writes that fail: every game behind the cursor is stored or was
\* booked, and none is in flight (PendingPages::committable).
THEOREM CursorPassesWhatCameBack == Spec => []PrefixIsFinished
<1>1. SweepInv => PrefixIsFinished
  BY DEF SweepInv
<1> QED BY <1>1, SweepInvInit, SweepInvStep, PTL DEF Spec

\* At the end of a pass nothing is out and, with nobody missed, no page is
\* stuck: every game is accounted for by being booked.
LEMMA CompletedAccounts ==
  ASSUME SweepInv, Completed
  PROVE  \A g \in Games : Booked(g)
<1> SUFFICES ASSUME NEW g \in Games, ~Booked(g) PROVE FALSE
  OBVIOUS
<1>1. Fetching = {} /\ queued = <<>> /\ listed /\ ~unserved
  BY DEF Completed, SawTheEnd, PassOver
<1>2. g \in 1 .. reading
  BY <1>1, SweepAssumption DEF SweepInv, PagesInOrder, Games
<1>3. PICK n \in Numbers : On(g, n) /\ (g \in OutOf(n) \/ Stuck(n))
  BY <1>2 DEF SweepInv, ReadIsAccountedFor
<1>4. ~Stuck(n)
  BY <1>1 DEF SweepInv, OutIsCounted
<1>5. DOMAIN queued = {} /\ task[g] = "none"
  BY <1>1 DEF Fetching
<1> QED BY <1>3, <1>4, <1>5 DEF OutOf

\* A pass that reports the list read to its end has every game of it stored or
\* booked (the PassOutcome::finished of one_known_games_pass).
THEOREM CompletedPassesSawAll == Spec => CompletedSawEverything
<1>1. SweepInv /\ [Next]_vars => [Completed => \A g \in Games : Booked(g)]_vars
  BY CompletedAccounts
<1> QED BY <1>1, SweepInvInit, SweepInvStep, PTL DEF Spec, CompletedSawEverything

\* A game that comes back finds the page it is tagged with still pending, and
\* that page counts at least the games of it that are in flight (the
\* debug_assert of PendingPages::answered, whose subtraction never saturates).
THEOREM AnswersFindTheirPage == Spec => []CompletionFindsItsPage
<1>1. SweepInv => CompletionFindsItsPage
  <2> SUFFICES ASSUME SweepInv, NEW g \in Fetching
               PROVE  LET slot == pageOf[g] - done + 1
                      IN  /\ slot \in 1 .. Len(pages)
                          /\ pages[slot].outstanding >=
                                 Cardinality({h \in Fetching : pageOf[h] = pageOf[g]})
    BY DEF CompletionFindsItsPage
  <2>1. SweepTyped
    BY DEF SweepInv
  <2>2. PICK n \in Numbers : pageOf[g] = n
    BY DEF SweepInv, OutIsAhead
  <2>3. n - done + 1 \in 1 .. Len(pages) /\ At(n).outstanding \in Nat
    BY <2>1, PageTyped
  <2>4. Cardinality(OutOf(n)) <= At(n).outstanding
    BY DEF SweepInv, OutIsCounted
  <2> DEFINE flying == {h \in Fetching : pageOf[h] = n}
  <2>5. flying \in SUBSET OutOf(n) /\ IsFiniteSet(OutOf(n))
    BY OutIsFinite DEF OutOf, Fetching
  <2> HIDE DEF flying
  <2>6. /\ IsFiniteSet(flying) /\ Cardinality(flying) <= Cardinality(OutOf(n))
        /\ Cardinality(flying) \in Nat /\ Cardinality(OutOf(n)) \in Nat
    BY <2>5, FS_Subset, FS_CardinalityType
  <2>7. pages[n - done + 1].outstanding >= Cardinality(flying)
    BY <2>3, <2>4, <2>6 DEF At
  <2> QED BY <2>2, <2>3, <2>7 DEF flying
<1> QED BY <1>1, SweepInvInit, SweepInvStep, PTL DEF Spec

=============================================================================
