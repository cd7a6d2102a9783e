------------------------- MODULE RegistrationProofs -------------------------
(***************************************************************************)
(* Proofs about the exits and the registration run that borrows some, for  *)
(* any nodes, slots, subscriptions and batches: no two nodes share a port, *)
(* a lease ends with its run, and a registration keeps the exit it dials.  *)
(***************************************************************************)
EXTENDS Registration, FiniteSetTheorems, WellFoundedInduction, TLAPS

(***************************************************************************)
(* Filing the slots                                                        *)
(***************************************************************************)

LEMMA LeastOne ==
  ASSUME NEW S \in SUBSET Nat, S # {}
  PROVE  \E s \in S : \A t \in S : s <= t
<1> DEFINE R == {ss \in Nat \X Nat : ss[1] < ss[2]}
<1>1. IsWellFoundedOn(R, Nat)
  BY NatLessThanWellFounded DEF OpToRel
<1>2. PICK s \in S : \A t \in S : ~(<<t, s>> \in R)
  <2> HIDE DEF R
  <2> QED BY <1>1, WFMin
<1>3. ASSUME NEW t \in S PROVE s <= t
  <2>1. s \in Nat /\ t \in Nat /\ <<t, s>> \notin R
    BY <1>2
  <2> QED BY <2>1
<1> QED BY <1>3

\* A finite set of numbers has a k-th lowest for every k up to its size.
LEMMA KthLowest ==
  ASSUME NEW S \in SUBSET Nat, IsFiniteSet(S), NEW k \in 1 .. Cardinality(S)
  PROVE  Lowest(S, k) \in S /\ Cardinality({t \in S : t < Lowest(S, k)}) = k - 1
<1> DEFINE Below(s) == {t \in S : t < s}
           Found(j) == \E s \in S : Cardinality(Below(s)) = j - 1
           Bad == {j \in 1 .. Cardinality(S) : ~Found(j)}
<1>0. Cardinality(S) \in Nat
  BY FS_CardinalityType
<1>1. Bad = {}
  <2> SUFFICES ASSUME Bad # {} PROVE FALSE
    OBVIOUS
  <2>1. PICK b \in Bad : \A j \in Bad : b <= j
    <3> HIDE DEF Found
    <3>1. Bad \in SUBSET Nat
      BY <1>0
    <3> QED BY <3>1, LeastOne
  <2>2. CASE b = 1
    <3>1. S # {}
      BY <1>0, FS_EmptySet
    <3>2. PICK s \in S : \A t \in S : s <= t
      BY <3>1, LeastOne
    <3>3. Below(s) = {}
      <4> SUFFICES ASSUME NEW t \in S, t < s PROVE FALSE
        OBVIOUS
      <4>1. s <= t /\ s \in Nat /\ t \in Nat
        BY <3>2
      <4> QED BY <4>1
    <3>4. Cardinality(Below(s)) = 0
      BY <3>3, FS_EmptySet
    <3> QED BY <2>2, <3>4
  <2>3. CASE b # 1
    <3>1. b \in Nat /\ b - 1 \in 1 .. Cardinality(S) /\ b - 1 \notin Bad
      BY <1>0, <2>1, <2>3
    <3>2. PICK r \in S : Cardinality(Below(r)) = b - 2
      BY <3>1
    <3> DEFINE upTo == Below(r) \cup {r}
    <3>3. IsFiniteSet(upTo) /\ Cardinality(upTo) = b - 1
      <4>1. IsFiniteSet(Below(r)) /\ r \notin Below(r)
        BY FS_Subset
      <4> HIDE DEF Below
      <4> QED BY <3>1, <3>2, <4>1, FS_AddElement
    <3>4. S \ upTo # {}
      <4> SUFFICES ASSUME S \ upTo = {} PROVE FALSE
        OBVIOUS
      <4>1. upTo = S
        OBVIOUS
      <4>2. b \in 1 .. Cardinality(S)
        BY <2>1
      <4> HIDE DEF upTo, Bad
      <4> QED BY <1>0, <3>1, <3>3, <4>1, <4>2
    <3>5. PICK s \in S \ upTo : \A t \in S \ upTo : s <= t
      <4> HIDE DEF upTo
      <4>1. S \ upTo \in SUBSET Nat
        OBVIOUS
      <4> QED BY <3>4, <4>1, LeastOne
    <3>6. Below(s) = upTo
      <4>1. r \in Nat /\ s \in Nat /\ \A t \in S : t \in Nat
        OBVIOUS
      <4>2. r < s
        BY <3>5, <4>1
      <4>3. \A t \in S : t < s => t \in upTo
        BY <3>5, <4>1
      <4>4. \A t \in upTo : t \in S /\ t < s
        BY <4>1, <4>2
      <4> HIDE DEF upTo
      <4> QED BY <4>3, <4>4
    <3> QED BY <3>1, <3>3, <3>6
  <2> QED BY <2>2, <2>3
<1>2. Found(k)
  BY <1>1
<1> QED BY <1>2 DEF Lowest

LEMMA SlotsAreFinite == Slots \in SUBSET Nat /\ IsFiniteSet(Slots) /\ NoSlot \notin Slots
<1>1. IsFiniteSet(1 .. MaxSlot)
  BY FS_Interval, SlotsAssumption
<1> QED BY <1>1, FS_Subset, SlotsAssumption DEF Slots, NoSlot

\* The nodes of a finite set in order: a sequence that names each of them.
LEMMA OrderedNodes ==
  ASSUME NEW S \in SUBSET Nodes
  PROVE  InOrder(S) \in Seq(Nodes)
<1>1. IsFiniteSet(S) /\ S \in SUBSET Nat
  BY FS_Subset, SlotsAssumption
<1>2. Cardinality(S) \in Nat
  BY <1>1, FS_CardinalityType
<1>3. \A k \in 1 .. Cardinality(S) : Lowest(S, k) \in Nodes
  BY <1>1, KthLowest
<1> QED BY <1>2, <1>3 DEF InOrder

LEMMA WantedNodes ==
  ASSUME NEW nodes \in SUBSET Nodes, NEW borrowed \in Seq(Nodes)
  PROVE  /\ Wanted(nodes, borrowed) \in Seq(Nodes)
         /\ Range(borrowed) \subseteq Range(Wanted(nodes, borrowed))
<1> DEFINE o == InOrder(nodes)
<1>1. o \in Seq(Nodes)
  BY OrderedNodes
<1> HIDE DEF o
<1>2. o \o borrowed \in Seq(Nodes)
  BY <1>1
<1>3. \A k \in 1 .. Len(borrowed) : /\ Len(o) + k \in DOMAIN (o \o borrowed)
                                    /\ (o \o borrowed)[Len(o) + k] = borrowed[k]
  BY <1>1
<1>4. Range(borrowed) \subseteq Range(o \o borrowed)
  <2> SUFFICES ASSUME NEW k \in DOMAIN borrowed PROVE borrowed[k] \in Range(o \o borrowed)
    BY DEF Range
  <2>1. k \in 1 .. Len(borrowed)
    OBVIOUS
  <2> QED BY <1>3, <2>1 DEF Range
<1> QED BY <1>2, <1>4 DEF Wanted, o

\* Turns are numbers and two nodes never have the same one.
LEMMA TurnsDiffer ==
  ASSUME NEW w \in Seq(Nodes), NEW n \in Range(w)
  PROVE  Turn(w, n) \in Nat /\ w[Turn(w, n)] = n
<1> DEFINE K == {k \in DOMAIN w : w[k] = n}
<1>1. K \in SUBSET Nat /\ K # {}
  BY DEF Range
<1>2. \E k \in K : \A j \in K : k <= j
  BY <1>1, LeastOne
<1>3. \E k \in DOMAIN w : w[k] = n /\ \A j \in DOMAIN w : w[j] = n => k <= j
  BY <1>2
<1> QED BY <1>3 DEF Turn

\* What refile comes to, a slot at a time: a node that stays, one that is filed
\* or one that has no slot.
LEMMA RefileCases ==
  ASSUME NEW old \in [Nodes -> Slots \cup {NoSlot}], NEW w \in Seq(Nodes)
  PROVE  LET kept  == {n \in Range(w) : old[n] # NoSlot}
             fresh == Range(w) \ kept
             free  == Slots \ {old[n] : n \in kept}
         IN  \E p \in [fresh -> Nat] :
               /\ \A m, n \in fresh : p[m] = p[n] => m = n
               /\ \A n \in fresh : p[n] >= 1
               /\ Refile(old, w) = [n \in Nodes |->
                    IF n \in kept THEN old[n]
                    ELSE IF n \in fresh /\ p[n] <= Cardinality(free) THEN Lowest(free, p[n])
                    ELSE NoSlot]
<1> DEFINE kept  == {n \in Range(w) : old[n] # NoSlot}
           fresh == Range(w) \ kept
           free  == Slots \ {old[n] : n \in kept}
           upTo(n) == {m \in fresh : Turn(w, m) <= Turn(w, n)}
           p == [n \in fresh |-> Cardinality(upTo(n))]
<1>1. Range(w) \subseteq Nodes
  BY DEF Range
<1>2. \A n \in fresh : Turn(w, n) \in Nat /\ w[Turn(w, n)] = n
  BY TurnsDiffer
<1>3. IsFiniteSet(fresh)
  BY <1>1, FS_Subset, SlotsAssumption
<1>4. \A n \in fresh : IsFiniteSet(upTo(n)) /\ n \in upTo(n)
  <2> HIDE DEF fresh
  <2> QED BY <1>2, <1>3, FS_Subset
<1>5. p \in [fresh -> Nat]
  <2> HIDE DEF fresh, upTo
  <2> QED BY <1>4, FS_CardinalityType
<1>6. \A n \in fresh : p[n] >= 1
  <2> SUFFICES ASSUME NEW n \in fresh PROVE p[n] >= 1
    OBVIOUS
  <2>1. upTo(n) # {} /\ IsFiniteSet(upTo(n))
    BY <1>4
  <2> HIDE DEF upTo, fresh
  <2>2. Cardinality(upTo(n)) \in Nat /\ Cardinality(upTo(n)) # 0
    BY <2>1, FS_CardinalityType, FS_EmptySet
  <2> QED BY <2>2
<1>7. ASSUME NEW m \in fresh, NEW n \in fresh, p[m] = p[n], Turn(w, m) < Turn(w, n) PROVE FALSE
  <2>1. upTo(m) \subseteq upTo(n) /\ n \notin upTo(m) /\ n \in upTo(n)
    BY <1>2, <1>7, <1>4
  <2>2. Cardinality(upTo(m)) = Cardinality(upTo(n))
    BY <1>7
  <2> HIDE DEF upTo, fresh
  <2>3. upTo(m) = upTo(n)
    BY <1>4, <2>1, <2>2, FS_Subset
  <2> QED BY <2>1, <2>3
<1>8. \A m, n \in fresh : p[m] = p[n] => m = n
  <2> SUFFICES ASSUME NEW m \in fresh, NEW n \in fresh, p[m] = p[n] PROVE m = n
    OBVIOUS
  <2> HIDE DEF fresh, p
  <2>1. ~(Turn(w, m) < Turn(w, n)) /\ ~(Turn(w, n) < Turn(w, m))
    BY <1>7
  <2>2. Turn(w, m) = Turn(w, n)
    BY <1>2, <2>1
  <2> QED BY <1>2, <2>2
<1>9. Refile(old, w) = [n \in Nodes |->
        IF n \in kept THEN old[n]
        ELSE IF n \in fresh /\ p[n] <= Cardinality(free) THEN Lowest(free, p[n])
        ELSE NoSlot]
  BY DEF Refile
<1> QED BY <1>5, <1>6, <1>8, <1>9

\* refile keeps two nodes off one port, uses allowed slots only and leaves a
\* node that is still wanted where it was.
LEMMA RefileKeepsApart ==
  ASSUME NEW old \in [Nodes -> Slots \cup {NoSlot}], NEW w \in Seq(Nodes),
         \A m, n \in Filed(old) : old[m] = old[n] => m = n
  PROVE  /\ Refile(old, w) \in [Nodes -> Slots \cup {NoSlot}]
         /\ \A m, n \in Filed(Refile(old, w)) : Refile(old, w)[m] = Refile(old, w)[n] => m = n
         /\ \A n \in Range(w) : old[n] # NoSlot => Refile(old, w)[n] = old[n]
<1> DEFINE kept  == {n \in Range(w) : old[n] # NoSlot}
           fresh == Range(w) \ kept
           free  == Slots \ {old[n] : n \in kept}
           f == Refile(old, w)
<1>1. PICK p \in [fresh -> Nat] :
        /\ \A m, n \in fresh : p[m] = p[n] => m = n
        /\ \A n \in fresh : p[n] >= 1
        /\ f = [n \in Nodes |->
             IF n \in kept THEN old[n]
             ELSE IF n \in fresh /\ p[n] <= Cardinality(free) THEN Lowest(free, p[n])
             ELSE NoSlot]
  BY RefileCases
<1>2. free \in SUBSET Nat /\ IsFiniteSet(free) /\ NoSlot \notin free /\ free \subseteq Slots
  BY SlotsAreFinite, FS_Subset
<1>3. Cardinality(free) \in Nat
  BY <1>2, FS_CardinalityType
<1>4. Range(w) \subseteq Nodes
  BY DEF Range
<1>5. \A n \in fresh : p[n] <= Cardinality(free) =>
        /\ Lowest(free, p[n]) \in free
        /\ Cardinality({t \in free : t < Lowest(free, p[n])}) = p[n] - 1
  <2> SUFFICES ASSUME NEW n \in fresh, p[n] <= Cardinality(free)
               PROVE  /\ Lowest(free, p[n]) \in free
                      /\ Cardinality({t \in free : t < Lowest(free, p[n])}) = p[n] - 1
    OBVIOUS
  <2> HIDE DEF free, fresh
  <2>1. p[n] \in 1 .. Cardinality(free)
    BY <1>1, <1>3
  <2> QED BY <1>2, <2>1, KthLowest
<1>6. \A n \in Nodes :
        \/ n \in kept /\ f[n] = old[n] /\ f[n] \notin free
        \/ n \in fresh /\ p[n] <= Cardinality(free) /\ f[n] = Lowest(free, p[n])
        \/ f[n] = NoSlot
  BY <1>1
<1>7. f \in [Nodes -> Slots \cup {NoSlot}]
  <2>1. \A n \in Nodes : f[n] \in Slots \cup {NoSlot}
    <3> HIDE DEF f, free, fresh
    <3> QED BY <1>2, <1>5, <1>6
  <2>2. f = [n \in Nodes |-> f[n]]
    BY <1>1
  <2> HIDE DEF f
  <2> QED BY <2>1, <2>2
<1>8. ASSUME NEW m \in Filed(f), NEW n \in Filed(f), f[m] = f[n] PROVE m = n
  <2>0. m \in Nodes /\ n \in Nodes /\ f[m] # NoSlot /\ f[n] # NoSlot
    BY <1>8 DEF Filed
  <2>1. CASE m \in kept /\ n \in kept /\ f[m] = old[m] /\ f[n] = old[n]
    BY <1>4, <1>8, <2>0, <2>1 DEF Filed
  <2>2. CASE /\ m \in fresh /\ p[m] <= Cardinality(free) /\ f[m] = Lowest(free, p[m])
             /\ n \in fresh /\ p[n] <= Cardinality(free) /\ f[n] = Lowest(free, p[n])
    <3> HIDE DEF f, fresh, free
    <3>1. p[m] - 1 = p[n] - 1
      BY <1>5, <1>8, <2>2
    <3>2. p[m] = p[n]
      BY <1>1, <2>2, <3>1
    <3> QED BY <1>1, <2>2, <3>2
  <2> HIDE DEF f, fresh, free, kept
  <2> QED BY <1>5, <1>6, <1>8, <2>0, <2>1, <2>2
<1>9. \A n \in Range(w) : old[n] # NoSlot => f[n] = old[n]
  BY <1>1, <1>4
<1> QED BY <1>7, <1>8, <1>9

(***************************************************************************)
(* The invariant                                                           *)
(***************************************************************************)

USE DEF RunRecord, ProgressRecord, JobRecord

LEMMA SetOutboundKeepsApart ==
  ASSUME RunInv, NEW nodes \in SUBSET Nodes, NEW borrowed \in Seq(Nodes), NEW went,
         SetOutbound(nodes, borrowed, went)
  PROVE  /\ leased' = borrowed
         /\ slot' \in [Nodes -> Slots \cup {NoSlot}] /\ slotDisk' \in [Nodes -> Slots \cup {NoSlot}]
         /\ OneNodePerPort' /\ OneNodePerPortOnDisk'
         /\ \A n \in Range(borrowed) : slot[n] # NoSlot => slot'[n] = slot[n]
<1> DEFINE w == Wanted(nodes, borrowed)
           next == Refile(slot, w)
<1>1. w \in Seq(Nodes) /\ Range(borrowed) \subseteq Range(w)
  BY WantedNodes
<1>2. /\ slot \in [Nodes -> Slots \cup {NoSlot}]
      /\ \A m, n \in Filed(slot) : slot[m] = slot[n] => m = n
  BY DEF RunInv, RunTyped, OneNodePerPort
<1>3. leased' = borrowed /\ slot' = next /\ slotDisk' \in {slotDisk, next}
  BY DEF SetOutbound
<1> HIDE DEF w
<1>4. /\ next \in [Nodes -> Slots \cup {NoSlot}]
      /\ \A m, n \in Filed(next) : next[m] = next[n] => m = n
      /\ \A n \in Range(w) : slot[n] # NoSlot => next[n] = slot[n]
  BY <1>1, <1>2, RefileKeepsApart
<1> HIDE DEF next
<1>5. OneNodePerPort'
  BY <1>3, <1>4 DEF OneNodePerPort, Filed
<1>6. OneNodePerPortOnDisk'
  BY <1>3, <1>4 DEF OneNodePerPortOnDisk, Filed, RunInv
<1> QED BY <1>1, <1>3, <1>4, <1>5, <1>6 DEF RunInv, RunTyped

\* The console, the pool and mihomo move the exits and never the run.
LEMMA ExitsMove ==
  ASSUME RunInv, UNCHANGED runVars, bound' \subseteq Nodes, leased' = leased,
         slot' \in [Nodes -> Slots \cup {NoSlot}], slotDisk' \in [Nodes -> Slots \cup {NoSlot}],
         OneNodePerPort', OneNodePerPortOnDisk',
         \A n \in Range(leased) : slot[n] # NoSlot => slot'[n] = slot[n]
  PROVE  RunInv'
<1>1. UNCHANGED <<run, gen, progress, job, leaked, leased>>
  BY DEF runVars
<1>2. RunTyped'
  BY <1>1 DEF RunInv, RunTyped
<1>3. LeaseIsHeld'
  BY <1>1 DEF RunInv, LeaseIsHeld
<1>4. InFlightInTheBatch' /\ DialsAPort'
  BY <1>1 DEF RunInv, InFlightInTheBatch, DialsAPort, InFlight
<1>5. BorrowedExitStays'
  <2> SUFFICES ASSUME NEW j \in Jobs, job[j].at = "working", job[j].node \in Range(leased)
               PROVE  slot'[job[j].node] = job[j].port
    BY <1>1 DEF BorrowedExitStays
  <2>1. job[j].node # Shared
    BY SlotsAssumption DEF RunInv, RunTyped, Range, Shared
  <2>2. slot[job[j].node] = job[j].port /\ job[j].port # NoSlot
    BY <2>1 DEF RunInv, BorrowedExitStays, DialsAPort
  <2> QED BY <2>2
<1> QED BY <1>2, <1>3, <1>4, <1>5 DEF RunInv

LEMMA ExitNextStep == ASSUME RunInv, ExitNext, UNCHANGED runVars PROVE RunInv'
<1>t. /\ bound \subseteq Nodes /\ leased \in Seq(Nodes)
      /\ slot \in [Nodes -> Slots \cup {NoSlot}] /\ slotDisk \in [Nodes -> Slots \cup {NoSlot}]
  BY DEF RunInv, RunTyped
<1>1. CASE SaveAccounts
  <2>1. PICK went \in BOOLEAN : SetOutbound(bound', leased, went)
    BY <1>1 DEF SaveAccounts
  <2>2. bound' \in SUBSET Nodes
    BY <1>1 DEF SaveAccounts
  <2> QED BY <1>t, <2>1, <2>2, SetOutboundKeepsApart, ExitsMove
<1>2. ASSUME UNCHANGED <<slot, slotDisk, leased>>, bound' \subseteq bound
      PROVE  RunInv'
  <2>1. OneNodePerPort' /\ OneNodePerPortOnDisk'
    BY <1>2 DEF RunInv, OneNodePerPort, OneNodePerPortOnDisk, Filed
  <2> QED BY <1>t, <1>2, <2>1, ExitsMove
<1>3. ASSUME NEW t \in Tasks, Applies(t)
      PROVE  UNCHANGED <<slot, slotDisk, leased, bound>>
  BY <1>3 DEF Applies, Reload, SeeLanes, SelectNode, Applied, slotVars
<1>4. CASE RetireNode \/ ConsolePolls \/ ConsoleSees \/ ChangeSubs \/ SubsReload
           \/ MihomoStops \/ MihomoStarts
  <2>1. UNCHANGED <<slot, slotDisk, leased>> /\ bound' \subseteq bound
    BY <1>4 DEF RetireNode, ConsolePolls, PollReads, ConsoleSees, ChangeSubs, SubsReload,
                MihomoStops, MihomoStarts, slotVars
  <2> QED BY <1>2, <2>1
<1> QED BY <1>1, <1>2, <1>3, <1>4 DEF ExitNext

\* The run's own steps: the exits stay, or are filed anew with another lease
\* while no account is in flight.
LEMMA RunMoves ==
  ASSUME RunInv,
         \/ UNCHANGED <<bound, slot, slotDisk, leased>>
         \/ /\ bound' = bound /\ leased' \in Seq(Nodes) /\ InFlight' = {}
            /\ slot' \in [Nodes -> Slots \cup {NoSlot}]
            /\ slotDisk' \in [Nodes -> Slots \cup {NoSlot}]
            /\ OneNodePerPort' /\ OneNodePerPortOnDisk',
         run' \in RunRecord,
         progress' \in ProgressRecord,
         job' \in [Jobs -> JobRecord],
         gen' \in Nat, LeaseIsHeld', InFlightInTheBatch',
         \A j \in Jobs : job'[j].at = "working" =>
            \/ job[j] = job'[j]
            \/ job'[j].node # Shared =>
                 job'[j].port # NoSlot /\ job'[j].port = slot'[job'[j].node]
  PROVE  RunInv'
<1>1. OneNodePerPort' /\ OneNodePerPortOnDisk'
  BY DEF RunInv, OneNodePerPort, OneNodePerPortOnDisk, Filed
<1>2. RunTyped'
  BY DEF RunInv, RunTyped
<1>3. DialsAPort'
  BY DEF RunInv, DialsAPort
<1>4. BorrowedExitStays'
  <2> SUFFICES ASSUME NEW j \in Jobs, job'[j].at = "working", job'[j].node \in Range(leased')
               PROVE  slot'[job'[j].node] = job'[j].port
    BY DEF BorrowedExitStays
  <2>1. j \in InFlight'
    BY DEF InFlight
  <2>2. UNCHANGED <<slot, leased>>
    BY <2>1
  <2>3. job'[j].node # Shared
    BY <1>2, SlotsAssumption DEF RunTyped, Range, Shared
  <2> QED BY <2>2, <2>3 DEF RunInv, BorrowedExitStays
<1> QED BY <1>1, <1>2, <1>3, <1>4 DEF RunInv

LEMMA NoRunTyped == NoRun \in RunRecord
BY DEF NoRun, RunPcs

\* A run that ends has no account in flight, and no lease but one that leaked.
LEMMA RunEnds ==
  ASSUME RunInv, EndRun, InFlight = {},
         UNCHANGED <<bound, slot, slotDisk, leased, gen, job, leaked>>,
         leased # << >> => leaked
  PROVE  RunInv'
<1>1. run' = NoRun /\ run'.pc = "idle"
  BY DEF EndRun, NoRun
<1>2. progress' \in ProgressRecord
  BY DEF EndRun, RunInv, RunTyped
<1>3. progress'.running = FALSE
  BY DEF EndRun, RunInv, RunTyped
<1>4. LeaseIsHeld'
  BY <1>1, <1>3 DEF LeaseIsHeld
<1>5. InFlightInTheBatch'
  BY DEF InFlightInTheBatch, InFlight
<1>6. gen' \in Nat /\ job' = job
      /\ job \in [Jobs -> JobRecord]
  BY DEF RunInv, RunTyped
<1> QED BY <1>1, <1>2, <1>4, <1>5, <1>6, NoRunTyped, RunMoves

\* A run that goes on from one of its steps to another and keeps its exits.
LEMMA RunGoesOn ==
  ASSUME RunInv, NEW pc \in RunPcs \ {"idle", "status", "lease", "releasing"}, run.pc # "idle",
         run' \in RunRecord,
         run'.pc = pc, run'.random = run.random,
         UNCHANGED <<bound, slot, slotDisk, leased, gen, progress, job, leaked>>,
         InFlight = {} \/ pc \in {"loop", "join"}
  PROVE  RunInv'
<1>1. LeaseIsHeld'
  BY DEF RunInv, LeaseIsHeld
<1>2. InFlightInTheBatch'
  BY DEF InFlightInTheBatch, InFlight
<1>3. /\ gen \in Nat
      /\ progress \in ProgressRecord
      /\ job \in [Jobs -> JobRecord]
  BY DEF RunInv, RunTyped
<1> QED BY <1>1, <1>2, <1>3, RunMoves

LEMMA GoTyped ==
  ASSUME RunInv, NEW pc \in RunPcs, Go(pc)
  PROVE  /\ run' \in RunRecord
         /\ run'.pc = pc /\ run'.random = run.random
BY DEF RunInv, RunTyped, Go

LEMMA StartRunStep == ASSUME RunInv, StartRun PROVE RunInv'
<1>1. PICK random \in BOOLEAN :
        run' = [NoRun EXCEPT !.pc = IF random THEN "status" ELSE "prepare",
                             !.gen = gen, !.random = random]
  BY DEF StartRun
<1>2. /\ UNCHANGED <<gen, leaked, bound, slot, slotDisk, leased>> /\ gen \in Nat
      /\ progress' = [Fresh0 EXCEPT !.running = TRUE] /\ job' = [j \in Jobs |-> Waiting]
  BY DEF StartRun, exitVars, slotVars, RunInv, RunTyped
<1>3. /\ run' \in RunRecord
      /\ run'.pc \in {"status", "prepare"} /\ (run'.pc = "status" => run'.random)
  <2>1. CASE random = TRUE
    <3>1. run' = [pc |-> "status", gen |-> gen, random |-> TRUE, exits |-> << >>, next |-> 1]
      BY <1>1, <2>1 DEF NoRun
    <3> QED BY <1>2, <3>1 DEF RunPcs
  <2>2. CASE random = FALSE
    <3>1. run' = [pc |-> "prepare", gen |-> gen, random |-> FALSE, exits |-> << >>, next |-> 1]
      BY <1>1, <2>2 DEF NoRun
    <3> QED BY <1>2, <3>1 DEF RunPcs
  <2> QED BY <2>1, <2>2
<1>4. /\ progress' \in ProgressRecord
      /\ progress'.running = TRUE
  BY <1>2 DEF Fresh0
<1>5. run.pc = "idle"
  BY DEF StartRun, RunInv, LeaseIsHeld
<1>6. LeaseIsHeld'
  BY <1>2, <1>3, <1>4, <1>5 DEF RunInv, LeaseIsHeld
<1>7. /\ job' \in [Jobs -> JobRecord]
      /\ \A j \in Jobs : job'[j].at = "todo"
  BY <1>2 DEF Waiting
<1>8. InFlightInTheBatch'
  BY <1>7 DEF InFlightInTheBatch, InFlight
<1> QED BY <1>2, <1>3, <1>4, <1>6, <1>7, <1>8, RunMoves

LEMMA StopRunStep == ASSUME RunInv, StopRun PROVE RunInv'
<1>1. /\ gen' \in Nat /\ UNCHANGED <<run, progress, job, leaked, bound, slot, slotDisk, leased>>
  BY DEF StopRun, exitVars, slotVars, RunInv, RunTyped
<1>2. LeaseIsHeld' /\ InFlightInTheBatch'
  BY <1>1 DEF RunInv, LeaseIsHeld, InFlightInTheBatch, InFlight
<1> QED BY <1>1, <1>2, RunMoves DEF RunInv, RunTyped

\* Outside the batch nothing is in flight.
LEMMA NoneInFlight == ASSUME RunInv, run.pc \notin {"loop", "join"} PROVE InFlight = {}
BY DEF RunInv, InFlightInTheBatch

LEMMA AskStatusStep == ASSUME RunInv, AskStatus PROVE RunInv'
<1>1. run.pc \in {"status", "check"} /\ InFlight = {}
      /\ UNCHANGED <<bound, slot, slotDisk, leased, gen, job, leaked>>
  BY NoneInFlight DEF AskStatus, PollReads, Settled, exitVars, slotVars, runVars
<1>2. CASE UNCHANGED runVars
  BY <1>1, <1>2, ExitsMove DEF RunInv, RunTyped, OneNodePerPort, OneNodePerPortOnDisk, Filed
<1>3. CASE At("status") /\ EndRun
  <2>1. leased # << >> => leaked
    BY <1>3 DEF At, RunInv, LeaseIsHeld
  <2> QED BY <1>1, <1>3, <2>1, RunEnds
<1>4. CASE Go("release") /\ progress' = progress
  <2>1. "release" \in RunPcs \ {"idle", "status", "lease", "releasing"} /\ run.pc # "idle"
    BY <1>1 DEF RunPcs
  <2> QED BY <1>1, <1>4, <2>1, GoTyped, RunGoesOn
<1> QED BY <1>2, <1>3, <1>4 DEF AskStatus, Settled

LEMMA SeeStatusStep == ASSUME RunInv, SeeStatus PROVE RunInv'
<1> DEFINE ready == InOrder({n \in Filed(slot) : Usable(polling["run"], n)})
<1>1. run.pc \in {"status", "check"} /\ InFlight = {}
      /\ UNCHANGED <<bound, slot, slotDisk, leased, gen, progress, job, leaked>>
  BY NoneInFlight DEF SeeStatus, Settled
<1>2. ready \in Seq(Nodes)
  BY OrderedNodes DEF Filed
<1>3. run' = IF At("status") THEN [run EXCEPT !.pc = "lease"]
             ELSE [run EXCEPT !.pc = IF ready = << >> THEN "release" ELSE "prepare",
                              !.exits = ready]
  BY DEF SeeStatus
<1> HIDE DEF ready
<1>4. CASE At("status")
  <2>1. /\ run' \in RunRecord
        /\ run'.pc = "lease" /\ run'.random = run.random
    BY <1>3, <1>4 DEF RunInv, RunTyped, RunPcs
  <2>2. leased # << >> => leaked
    BY <1>4 DEF At, RunInv, LeaseIsHeld
  <2>3. LeaseIsHeld' /\ InFlightInTheBatch'
    BY <1>1, <1>4, <2>1, <2>2 DEF RunInv, LeaseIsHeld, InFlightInTheBatch, InFlight, At
  <2> QED BY <1>1, <2>1, <2>3, RunMoves DEF RunInv, RunTyped
<1>5. CASE ~At("status")
  <2>1. /\ run' \in RunRecord
        /\ run'.pc \in {"release", "prepare"} /\ run'.random = run.random
    BY <1>2, <1>3, <1>5 DEF RunInv, RunTyped, RunPcs
  <2>2. run'.pc \in RunPcs \ {"idle", "status", "lease", "releasing"} /\ run.pc # "idle"
    BY <1>1, <2>1 DEF RunPcs
  <2> QED BY <1>1, <2>1, <2>2, RunGoesOn
<1> QED BY <1>4, <1>5

LEMMA LeaseExitsStep == ASSUME RunInv, LeaseExits PROVE RunInv'
<1>1. run.pc = "lease" /\ InFlight = {} /\ bound' = bound /\ gen' = gen /\ job' = job
      /\ bound \in SUBSET Nodes /\ (leased # << >> => leaked)
  BY NoneInFlight DEF LeaseExits, At, exitVars, RunInv, RunTyped, LeaseIsHeld
<1>2. CASE EndRun /\ UNCHANGED <<gen, job, streak, leaked, runs, exitVars>>
  BY <1>1, <1>2, RunEnds DEF exitVars, slotVars
<1>3. ASSUME NEW alive \in UsableNodes, NEW borrowed \in NodesToBorrow(alive, bound),
             NEW went \in BOOLEAN,
             SetOutbound(bound, borrowed, went), leaked' = ~went,
             IF went THEN Go("applying") /\ UNCHANGED progress ELSE EndRun
      PROVE  RunInv'
  <2>1. borrowed \in Seq(Nodes)
    <3> DEFINE spare == alive \ bound
    <3>1. IsFiniteSet(spare) /\ spare \subseteq Nodes
      BY FS_Subset, SlotsAssumption DEF UsableNodes, Offered
    <3> HIDE DEF spare
    <3>2. Cardinality(spare) \in Nat /\ Want \in Nat
      BY <3>1, FS_CardinalityType, RunAssumption DEF Want
    <3>3. PICK many \in Nat : borrowed \in [1 .. many -> spare]
      BY <3>2 DEF NodesToBorrow, spare
    <3> QED BY <3>1, <3>3
  <2>2. /\ leased' = borrowed
        /\ slot' \in [Nodes -> Slots \cup {NoSlot}] /\ slotDisk' \in [Nodes -> Slots \cup {NoSlot}]
        /\ OneNodePerPort' /\ OneNodePerPortOnDisk'
    BY <1>1, <1>3, <2>1, SetOutboundKeepsApart
  <2>3. InFlight' = {} /\ InFlightInTheBatch'
    BY <1>1 DEF InFlight, InFlightInTheBatch
  <2>4. CASE went
    <3>1. /\ run' \in RunRecord
          /\ run'.pc = "applying" /\ run'.random = run.random /\ progress' = progress
      BY <1>3, <2>4, GoTyped DEF RunPcs
    <3>2. run.random
      BY <1>1 DEF RunInv, LeaseIsHeld
    <3>3. LeaseIsHeld'
      BY <1>1, <3>1, <3>2 DEF RunInv, LeaseIsHeld, RunPcs
    <3> QED BY <1>1, <2>1, <2>2, <2>3, <3>1, <3>3, RunMoves DEF RunInv, RunTyped
  <2>5. CASE ~went
    <3>1. run' = NoRun /\ run'.pc = "idle"
      BY <1>3, <2>5 DEF EndRun, NoRun
    <3>2. progress' = [progress EXCEPT !.running = FALSE]
      BY <1>3, <2>5 DEF EndRun
    <3>3. progress' \in ProgressRecord
      BY <3>2 DEF RunInv, RunTyped
    <3>4. progress'.running = FALSE
      BY <3>2 DEF RunInv, RunTyped
    <3>5. leaked'
      BY <1>3, <2>5
    <3>6. LeaseIsHeld'
      BY <3>1, <3>4, <3>5 DEF LeaseIsHeld
    <3> QED BY <1>1, <2>1, <2>2, <2>3, <3>1, <3>3, <3>6, NoRunTyped, RunMoves DEF RunInv, RunTyped
  <2> QED BY <2>4, <2>5
<1> QED BY <1>2, <1>3 DEF LeaseExits

LEMMA LeaseAppliedStep == ASSUME RunInv, LeaseApplied PROVE RunInv'
<1>1. run.pc = "applying" /\ InFlight = {} /\ Go("check")
      /\ UNCHANGED <<bound, slot, slotDisk, leased, gen, progress, job, leaked>>
  BY NoneInFlight DEF LeaseApplied, At, Settled, exitVars, slotVars
<1>2. "check" \in RunPcs \ {"idle", "status", "lease", "releasing"}
  BY DEF RunPcs
<1> QED BY <1>1, <1>2, GoTyped, RunGoesOn

\* The end of the batch: a run that borrowed has its exits to release, and
\* one that did not has no lease but one that leaked.
LEMMA AfterBatchEnds ==
  ASSUME RunInv, AfterBatch, InFlight = {}, run.pc # "idle",
         UNCHANGED <<bound, slot, slotDisk, leased, gen, job, leaked>>
  PROVE  RunInv'
<1>1. CASE run.random
  <2>1. "release" \in RunPcs \ {"idle", "status", "lease", "releasing"}
    BY DEF RunPcs
  <2>2. Go("release") /\ progress' = progress
    BY <1>1 DEF AfterBatch
  <2> QED BY <2>1, <2>2, GoTyped, RunGoesOn
<1>2. CASE ~run.random
  <2>1. EndRun /\ (leased # << >> => leaked)
    BY <1>2 DEF AfterBatch, RunInv, LeaseIsHeld
  <2> QED BY <2>1, RunEnds
<1> QED BY <1>1, <1>2

LEMMA PrepareStep == ASSUME RunInv, Prepare PROVE RunInv'
<1>1. run.pc = "prepare" /\ InFlight = {}
      /\ UNCHANGED <<bound, slot, slotDisk, leased, gen, job, leaked>>
  BY NoneInFlight DEF Prepare, At, exitVars, slotVars
<1>2. CASE Go("loop") /\ UNCHANGED progress
  <2>1. "loop" \in RunPcs \ {"idle", "status", "lease", "releasing"}
    BY DEF RunPcs
  <2> QED BY <1>1, <1>2, <2>1, GoTyped, RunGoesOn
<1>3. CASE AfterBatch
  BY <1>1, <1>3, AfterBatchEnds
<1> QED BY <1>2, <1>3 DEF Prepare

LEMMA JoinAllStep == ASSUME RunInv, JoinAll PROVE RunInv'
BY AfterBatchEnds DEF JoinAll, At, exitVars, slotVars

LEMMA LaunchStep == ASSUME RunInv, Launch PROVE RunInv'
<1>1. run.pc = "loop" /\ UNCHANGED <<bound, slot, slotDisk, leased, gen, progress, leaked>>
  BY DEF Launch, At, exitVars, slotVars
<1>2. CASE Go("join") /\ UNCHANGED job
  <2>1. "join" \in RunPcs \ {"idle", "status", "lease", "releasing"}
    BY DEF RunPcs
  <2> QED BY <1>1, <1>2, <2>1, GoTyped, RunGoesOn
<1>3. CASE ~(run.next \notin Jobs \/ gen # run.gen \/ streak >= GiveUpAfter)
  <2> DEFINE node == IF run.exits = << >> THEN Shared
                     ELSE run.exits[((run.next - 1) % Len(run.exits)) + 1]
             new == [at |-> "spawned", port |-> NoSlot, node |-> node]
  <2>1. /\ run.next \in Jobs /\ run' = [run EXCEPT !.next = @ + 1]
        /\ job' = [job EXCEPT ![run.next] = new]
    BY <1>3 DEF Launch
  <2>2. node \in Nodes \cup {Shared}
    <3>1. CASE run.exits = << >>
      BY <3>1
    <3>2. CASE run.exits # << >>
      <4>0. run.exits \in Seq(Nodes)
        BY DEF RunInv, RunTyped
      <4>a. Len(run.exits) \in Nat /\ Len(run.exits) # 0
        BY <3>2, <4>0
      <4>b. run.next \in Nat \ {0}
        BY <2>1, RunAssumption DEF Jobs
      <4>1. Len(run.exits) \in Nat \ {0} /\ run.next - 1 \in Nat
        BY ONLY <4>a, <4>b
      <4>2. (run.next - 1) % Len(run.exits) \in 0 .. Len(run.exits) - 1
        BY <4>1
      <4>3. ((run.next - 1) % Len(run.exits)) + 1 \in 1 .. Len(run.exits)
        BY <4>1, <4>2
      <4> QED BY <3>2, <4>0, <4>3
    <3> QED BY <3>1, <3>2
  <2> HIDE DEF node
  <2>3. /\ run' \in RunRecord
        /\ run'.pc = run.pc /\ run'.random = run.random
    <3>1. run.next + 1 \in Nat /\ run' = [run EXCEPT !.next = run.next + 1]
      BY <2>1 DEF RunInv, RunTyped
    <3> QED BY <3>1 DEF RunInv, RunTyped
  <2>4. /\ job' \in [Jobs -> JobRecord]
        /\ \A j \in Jobs : job'[j].at = "working" => job'[j] = job[j]
    BY <2>1, <2>2 DEF RunInv, RunTyped
  <2>5. LeaseIsHeld' /\ InFlightInTheBatch'
    BY <1>1, <2>3 DEF RunInv, LeaseIsHeld, InFlightInTheBatch
  <2> QED BY <1>1, <2>3, <2>4, <2>5, RunMoves DEF RunInv, RunTyped
<1> QED BY <1>2, <1>3 DEF Launch

\* An account that settles.
LEMMA SettleStep ==
  ASSUME RunInv, NEW j \in Jobs, NEW ok \in BOOLEAN, Settle(j, ok),
         job[j].at \in {"spawned", "working"},
         UNCHANGED <<bound, slot, slotDisk, leased, gen, run, leaked>>
  PROVE  RunInv'
<1>1. /\ job' \in [Jobs -> JobRecord]
      /\ \A i \in Jobs : job'[i].at = "working" => job'[i] = job[i]
      /\ InFlight' \subseteq InFlight
  <2>1. PICK end \in {"ok", "failed"} : job' = [job EXCEPT ![j].at = end]
    BY DEF Settle
  <2>2. job[j] \in JobRecord
    BY DEF RunInv, RunTyped
  <2>3. job' = [i \in Jobs |-> IF i = j THEN [job[j] EXCEPT !.at = end] ELSE job[i]]
    BY <2>1 DEF RunInv, RunTyped
  <2>4. [job[j] EXCEPT !.at = end] \in JobRecord /\ [job[j] EXCEPT !.at = end].at = end
    BY <2>2
  <2> QED BY <2>3, <2>4 DEF RunInv, RunTyped, InFlight
<1>2. /\ progress' \in ProgressRecord
      /\ progress'.running = progress.running
  <2>0. progress \in ProgressRecord
    BY DEF RunInv, RunTyped
  <2>1. PICK s \in Nat, f \in Nat :
          progress' = [progress EXCEPT !.done = progress.done + 1, !.succeeded = s, !.failed = f]
    <3>1. /\ progress.succeeded \in Nat /\ progress.succeeded + 1 \in Nat
          /\ progress.failed \in Nat /\ progress.failed + 1 \in Nat
      BY <2>0
    <3>2. CASE ok = TRUE
      BY <3>1, <3>2 DEF Settle
    <3>3. CASE ok = FALSE
      BY <3>1, <3>3 DEF Settle
    <3> QED BY <3>2, <3>3
  <2>2. progress' = [running |-> progress.running, done |-> progress.done + 1,
                     succeeded |-> s, failed |-> f]
    BY <2>0, <2>1
  <2> QED BY <2>0, <2>2
<1>3. LeaseIsHeld' /\ InFlightInTheBatch'
  BY <1>1, <1>2 DEF RunInv, LeaseIsHeld, InFlightInTheBatch
<1> QED BY <1>1, <1>2, <1>3, RunMoves DEF RunInv, RunTyped

LEMMA StartAccountStep == ASSUME RunInv, NEW j \in Jobs, StartAccount(j) PROVE RunInv'
<1>1. job[j].at = "spawned" /\ UNCHANGED <<bound, slot, slotDisk, leased, gen, run, leaked>>
  BY DEF StartAccount, exitVars, slotVars
<1>2. CASE Settle(j, FALSE)
  BY <1>1, <1>2, SettleStep
<1>3. CASE ~(job[j].node # Shared /\ ProxyFor(job[j].node) = NoSlot)
  <2> DEFINE port == IF job[j].node = Shared THEN NoSlot ELSE ProxyFor(job[j].node)
  <2>1. job' = [job EXCEPT ![j].at = "working", ![j].port = port] /\ progress' = progress
    BY <1>3 DEF StartAccount
  <2>2. /\ port \in Slots \cup {NoSlot}
        /\ job[j].node # Shared => port # NoSlot /\ port = slot[job[j].node]
    BY <1>3 DEF RunInv, RunTyped, ProxyFor
  <2> HIDE DEF port
  <2>3. /\ job' \in [Jobs -> JobRecord]
        /\ \A i \in Jobs \ {j} : job'[i] = job[i]
        /\ job'[j].node = job[j].node /\ job'[j].port = port
    <3>1. job[j] \in JobRecord
      BY DEF RunInv, RunTyped
    <3> DEFINE new == [job[j] EXCEPT !.at = "working", !.port = port]
    <3>2. job' = [i \in Jobs |-> IF i = j THEN new ELSE job[i]]
      BY <2>1 DEF RunInv, RunTyped
    <3>3. new \in JobRecord /\ new.node = job[j].node /\ new.port = port
      BY <2>2, <3>1
    <3> QED BY <3>2, <3>3 DEF RunInv, RunTyped
  <2>4. InFlight # {}
    BY <1>1 DEF InFlight
  <2>5. LeaseIsHeld' /\ InFlightInTheBatch'
    BY <1>1, <2>1, <2>4 DEF RunInv, LeaseIsHeld, InFlightInTheBatch
  <2> QED BY <1>1, <2>1, <2>2, <2>3, <2>5, RunMoves DEF RunInv, RunTyped
<1> QED BY <1>2, <1>3 DEF StartAccount

LEMMA AccountAnswersStep == ASSUME RunInv, NEW j \in Jobs, AccountAnswers(j) PROVE RunInv'
BY SettleStep DEF AccountAnswers, exitVars, slotVars

LEMMA ReleaseExitsStep == ASSUME RunInv, ReleaseExits PROVE RunInv'
<1>1. run.pc = "release" /\ InFlight = {} /\ bound' = bound /\ gen' = gen /\ job' = job
      /\ bound \in SUBSET Nodes
  BY NoneInFlight DEF ReleaseExits, At, RunInv, RunTyped
<1>2. PICK went \in BOOLEAN : SetOutbound(bound, << >>, went)
  BY DEF ReleaseExits
<1>3. << >> \in Seq(Nodes)
  OBVIOUS
<1>4. /\ leased' = << >>
      /\ slot' \in [Nodes -> Slots \cup {NoSlot}] /\ slotDisk' \in [Nodes -> Slots \cup {NoSlot}]
      /\ OneNodePerPort' /\ OneNodePerPortOnDisk'
  BY <1>1, <1>2, <1>3, SetOutboundKeepsApart
<1>5. InFlight' = {} /\ InFlightInTheBatch'
  BY <1>1 DEF InFlight, InFlightInTheBatch
<1>6. CASE Go("releasing") /\ UNCHANGED progress
  <2>1. /\ run' \in RunRecord
        /\ run'.pc = "releasing"
    BY <1>6, GoTyped DEF RunPcs
  <2>2. LeaseIsHeld'
    BY <1>1, <1>4, <1>6, <2>1 DEF RunInv, LeaseIsHeld
  <2> QED BY <1>1, <1>3, <1>4, <1>5, <1>6, <2>1, <2>2, RunMoves DEF RunInv, RunTyped
<1>7. CASE EndRun
  <2>1. run' = NoRun /\ run'.pc = "idle"
    BY <1>7 DEF EndRun, NoRun
  <2>2. progress' \in ProgressRecord
    BY <1>7 DEF EndRun, RunInv, RunTyped
  <2>3. progress'.running = FALSE
    BY <1>7 DEF EndRun, RunInv, RunTyped
  <2>4. LeaseIsHeld'
    BY <1>4, <2>1, <2>3 DEF LeaseIsHeld
  <2> QED BY <1>1, <1>3, <1>4, <1>5, <2>1, <2>2, <2>4, NoRunTyped, RunMoves DEF RunInv, RunTyped
<1> QED BY <1>6, <1>7 DEF ReleaseExits

LEMMA ReleasedStep == ASSUME RunInv, Released PROVE RunInv'
<1>1. run.pc = "releasing" /\ InFlight = {} /\ EndRun
      /\ UNCHANGED <<bound, slot, slotDisk, leased, gen, job, leaked>>
  BY NoneInFlight DEF Released, At, exitVars, slotVars
<1>2. leased # << >> => leaked
  BY <1>1 DEF RunInv, LeaseIsHeld
<1> QED BY <1>1, <1>2, RunEnds

\* A run that has not begun
LEMMA NothingRuns ==
  ASSUME run = NoRun, gen = 0, progress = Fresh0, job = [j \in Jobs |-> Waiting],
         leased = << >>, bound \subseteq Nodes,
         slot \in [Nodes -> Slots \cup {NoSlot}], slotDisk \in [Nodes -> Slots \cup {NoSlot}],
         OneNodePerPort, OneNodePerPortOnDisk
  PROVE  RunInv
<1>1. /\ job \in [Jobs -> JobRecord]
      /\ \A j \in Jobs : job[j].at = "todo"
  BY DEF Waiting
<1>2. progress \in ProgressRecord
  BY DEF Fresh0
<1>3. RunTyped
  BY <1>1, <1>2, NoRunTyped DEF RunTyped
<1>4. LeaseIsHeld
  BY DEF LeaseIsHeld, Fresh0, NoRun
<1>5. InFlightInTheBatch /\ DialsAPort /\ BorrowedExitStays
  BY <1>1 DEF InFlightInTheBatch, InFlight, DialsAPort, BorrowedExitStays
<1> QED BY <1>3, <1>4, <1>5 DEF RunInv

\* What a process starts from: the slots of its file, filed for the pool alone.
LEMMA FiledForThePool ==
  ASSUME NEW old \in [Nodes -> Slots \cup {NoSlot}], NEW nodes \in SUBSET Nodes,
         \A m, n \in Filed(old) : old[m] = old[n] => m = n
  PROVE  LET f == Refile(old, Wanted(nodes, << >>))
         IN  /\ f \in [Nodes -> Slots \cup {NoSlot}]
             /\ \A m, n \in Filed(f) : f[m] = f[n] => m = n
<1>1. << >> \in Seq(Nodes)
  OBVIOUS
<1>2. Wanted(nodes, << >>) \in Seq(Nodes)
  BY <1>1, WantedNodes
<1> QED BY <1>2, RefileKeepsApart

LEMMA RunInitially == Init => RunInv
<1> SUFFICES ASSUME Init PROVE RunInv
  OBVIOUS
<1> DEFINE none == [n \in Nodes |-> NoSlot]
<1>1. /\ none \in [Nodes -> Slots \cup {NoSlot}]
      /\ \A m, n \in Filed(none) : none[m] = none[n] => m = n
  BY DEF Filed
<1>2. bound \in SUBSET Nodes /\ slot = Refile(none, Wanted(bound, << >>))
      /\ slotDisk = slot /\ leased = << >>
  BY SlotsAssumption DEF Init, ExitInit
<1> HIDE DEF none
<1>3. /\ slot \in [Nodes -> Slots \cup {NoSlot}] /\ OneNodePerPort
  BY <1>1, <1>2, FiledForThePool DEF OneNodePerPort
<1>4. OneNodePerPortOnDisk
  BY <1>2, <1>3 DEF OneNodePerPort, OneNodePerPortOnDisk
<1> QED BY <1>2, <1>3, <1>4, NothingRuns DEF Init

LEMMA RestartAllStep == ASSUME RunInv, RestartAll PROVE RunInv'
<1>1. /\ slotDisk \in [Nodes -> Slots \cup {NoSlot}] /\ bound \in SUBSET Nodes
      /\ \A m, n \in Filed(slotDisk) : slotDisk[m] = slotDisk[n] => m = n
  BY DEF RunInv, RunTyped, OneNodePerPortOnDisk
<1>2. /\ Booted \in [Nodes -> Slots \cup {NoSlot}]
      /\ \A m, n \in Filed(Booted) : Booted[m] = Booted[n] => m = n
  BY <1>1, FiledForThePool DEF Booted
<1>3. /\ slot' = Booted /\ slotDisk' = Booted /\ leased' = << >> /\ bound' = bound
      /\ run' = NoRun /\ gen' = 0 /\ progress' = Fresh0 /\ job' = [j \in Jobs |-> Waiting]
  BY DEF RestartAll, Restart
<1>4. OneNodePerPort' /\ OneNodePerPortOnDisk'
  BY <1>2, <1>3 DEF OneNodePerPort, OneNodePerPortOnDisk, Filed
<1>5. /\ job' \in [Jobs -> JobRecord]
      /\ \A j \in Jobs : job'[j].at = "todo"
  BY <1>3 DEF Waiting
<1>6. /\ progress' \in ProgressRecord
      /\ progress'.running = FALSE
  BY <1>3 DEF Fresh0
<1>7. run'.pc = "idle"
  BY <1>3 DEF NoRun
<1>8. InFlight' = {} /\ InFlightInTheBatch' /\ LeaseIsHeld'
  BY <1>3, <1>5, <1>6, <1>7 DEF InFlight, InFlightInTheBatch, LeaseIsHeld
<1> QED BY <1>1, <1>2, <1>3, <1>4, <1>5, <1>6, <1>8, NoRunTyped, RunMoves

LEMMA RunInvStep == ASSUME RunInv, [Next]_vars PROVE RunInv'
<1>1. CASE UNCHANGED vars
  <2>1. UNCHANGED <<runVars, bound, slot, slotDisk, leased>>
    BY <1>1 DEF vars, exitVars, slotVars
  <2> QED BY <2>1, ExitsMove DEF RunInv, RunTyped, OneNodePerPort, OneNodePerPortOnDisk, Filed
<1>2. CASE RunStep
  BY <1>2, AskStatusStep, SeeStatusStep, LeaseExitsStep, LeaseAppliedStep, PrepareStep,
     LaunchStep, JoinAllStep, ReleaseExitsStep, ReleasedStep DEF RunStep
<1>3. ASSUME NEW j \in Jobs, JobStep(j) PROVE RunInv'
  BY <1>3, StartAccountStep, AccountAnswersStep DEF JobStep
<1> QED BY <1>1, <1>2, <1>3, ExitNextStep, StartRunStep, StopRunStep, RestartAllStep DEF Next

LEMMA RunAlways == Spec => []RunInv
<1>1. RunInv /\ [Next]_vars => RunInv'
  BY RunInvStep
<1> QED BY <1>1, RunInitially, PTL DEF Spec

(***************************************************************************)
(* The theorems                                                            *)
(***************************************************************************)

\* Two nodes never answer on one port (OutboundSlots::refile), whatever is
\* saved, leased, released or lost by a failing write or a crash.
THEOREM PortsAreNotShared == Spec => []OneNodePerPort
<1>1. RunInv => OneNodePerPort
  BY DEF RunInv
<1> QED BY <1>1, RunAlways, PTL

\* Borrowed exits go back with the run that borrowed them (lease_exits,
\* release_exits), however it ends, unless the lease could not be written.
THEOREM LeasesAreReturned == Spec => []LeaseEndsWithItsRun
<1>1. RunInv => LeaseEndsWithItsRun
  BY DEF RunInv, LeaseIsHeld, LeaseEndsWithItsRun
<1> QED BY <1>1, RunAlways, PTL

\* A registration dials the port of the exit it borrowed for as long as it
\* runs: no save of the account pool takes a leased slot (set_outbound_nodes).
THEOREM BorrowedExitsStay == Spec => []BorrowedExitStays
<1>1. RunInv => BorrowedExitStays
  BY DEF RunInv
<1> QED BY <1>1, RunAlways, PTL
=============================================================================
