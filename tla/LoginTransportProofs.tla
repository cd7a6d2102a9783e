------------------------ MODULE LoginTransportProofs ------------------------
(***************************************************************************)
(* Proofs about how a session reaches the game, one part after the other:  *)
(* the installed modules, the version floor, the builtin connection and    *)
(* the pipe to a module process.  What is proved of a part holds of the    *)
(* composition too: each of its steps is one of theirs or leaves their     *)
(* variables alone.                                                        *)
(***************************************************************************)
EXTENDS LoginTransport, FiniteSetTheorems, TLAPS

(***************************************************************************)
(* The installed modules, for any versions and any number of installs and  *)
(* restarts                                                                *)
(***************************************************************************)

\* A version's directory is its own.
LEMMA OwnIsItsOwn == ASSUME NEW v, NEW w, Own(v) = Own(w) PROVE v = w
BY DEF Own

LEMMA StoreInitially == StoreInit => StoreInv
<1> SUFFICES ASSUME StoreInit PROVE StoreInv
  OBVIOUS
<1>1. \A v \in Versions : Own(v) \in disk => v \in Healthy
  BY OwnIsItsOwn DEF StoreInit
<1> QED
  BY <1>1 DEF StoreInit, StoreInv, StoreTyped, RenamedIsHealthy, LoadableIsHealthy, Loadable,
              SyncIsAlone, OnlyTheBundled

\* A temporary directory is in no version's place.
LEMMA TempIsNotOwn ==
  ASSUME NEW n \in Nat, NEW v, NEW w
  PROVE  [dir |-> n + 1, version |-> v] # Own(w)
BY DEF Own

LEMMA SyncStartStep == ASSUME StoreInv, SyncStart PROVE StoreInv'
<1>1. CASE Own(Bundled) \in disk
  BY <1>1 DEF SyncStart, StoreInv, StoreTyped, RenamedIsHealthy, LoadableIsHealthy, Loadable,
              SyncIsAlone, OnlyTheBundled, Own
<1>2. CASE Own(Bundled) \notin disk
  <2> DEFINE i == [dir |-> made + 1, version |-> Bundled, by |-> "sync", step |-> "health"]
  <2>1. /\ made' = made + 1 /\ installs' = {i} /\ boot' = "syncing" /\ disturbed' = FALSE
        /\ disk' = disk \union {[dir |-> made + 1, version |-> Bundled]}
    BY <1>2 DEF SyncStart, Unpack, StoreInv, SyncIsAlone
  <2>2. made \in Nat
    BY DEF StoreInv, StoreTyped
  <2>3. \A v \in Versions : Own(v) \in disk' => Own(v) \in disk
    BY <2>1, <2>2, TempIsNotOwn
  <2>4. StoreTyped'
    <3>1. i \in [dir : Nat \ {0}, version : Versions, by : {"sync", "operator"},
                 step : {"health", "rename"}]
      BY <2>2, StoreAssumption
    <3> QED BY <2>1, <2>2, <3>1 DEF StoreTyped
  <2>5. Own(Bundled) \notin disk'
    BY <1>2, <2>3, StoreAssumption
  <2> QED
    BY <2>1, <2>3, <2>4, <2>5
       DEF StoreInv, RenamedIsHealthy, LoadableIsHealthy, Loadable, SyncIsAlone, OnlyTheBundled
<1> QED BY <1>1, <1>2

LEMMA OperatorInstallStep ==
  ASSUME StoreInv, NEW v \in Versions, OperatorInstall(v)
  PROVE  StoreInv'
<1> DEFINE i == [dir |-> made + 1, version |-> v, by |-> "operator", step |-> "health"]
<1>1. /\ made' = made + 1 /\ installs' = installs \union {i} /\ boot = "serving"
      /\ boot' = boot /\ disturbed' = TRUE
      /\ disk' = disk \union {[dir |-> made + 1, version |-> v]}
  BY DEF OperatorInstall, Unpack
<1>2. made \in Nat
  BY DEF StoreInv, StoreTyped
<1>3. \A w \in Versions : Own(w) \in disk' => Own(w) \in disk
  BY <1>1, <1>2, TempIsNotOwn
<1>4. StoreTyped'
  BY <1>1, <1>2 DEF StoreInv, StoreTyped
<1> QED
  BY <1>1, <1>3, <1>4
     DEF StoreInv, RenamedIsHealthy, LoadableIsHealthy, Loadable, SyncIsAlone, OnlyTheBundled

LEMMA HealthFailsStep ==
  ASSUME StoreInv, NEW i \in installs, HealthFails(i)
  PROVE  StoreInv'
BY DEF HealthFails, AfterInstall, StoreInv, StoreTyped, RenamedIsHealthy, LoadableIsHealthy,
       Loadable, SyncIsAlone, OnlyTheBundled

LEMMA HealthPassesStep ==
  ASSUME StoreInv, NEW i \in installs, HealthPasses(i)
  PROVE  StoreInv'
<1>1. CASE Own(i.version) \in disk
  BY <1>1 DEF HealthPasses, AfterInstall, StoreInv, StoreTyped, RenamedIsHealthy,
     LoadableIsHealthy, Loadable, SyncIsAlone, OnlyTheBundled
<1>2. CASE Own(i.version) \notin disk
  <2> DEFINE j == [i EXCEPT !.step = "rename"]
  <2>1. /\ installs' = (installs \ {i}) \union {j} /\ i.version \in Healthy
        /\ UNCHANGED <<disk, boot, disturbed, made>>
    BY <1>2 DEF HealthPasses, Answers
  <2>2. /\ j \in [dir : Nat \ {0}, version : Versions, by : {"sync", "operator"},
                  step : {"health", "rename"}]
        /\ j.version = i.version /\ j.by = i.by
    BY DEF StoreInv, StoreTyped
  <2> QED
    BY <2>1, <2>2 DEF StoreInv, StoreTyped, RenamedIsHealthy, LoadableIsHealthy, Loadable,
       SyncIsAlone, OnlyTheBundled
<1> QED BY <1>1, <1>2

LEMMA RenameStep ==
  ASSUME StoreInv, NEW i \in installs, Rename(i)
  PROVE  StoreInv'
<1>0. i.version \in Healthy /\ i.version \in Versions
  BY DEF Rename, StoreInv, StoreTyped, RenamedIsHealthy
<1>1. CASE i.by = "sync"
  <2>1. boot = "syncing" /\ installs = {i} /\ i.version = Bundled /\ Own(Bundled) \notin disk
    BY <1>1 DEF StoreInv, StoreTyped, SyncIsAlone
  <2> QED
    BY <1>0, <1>1, <2>1
       DEF Rename, Retired, AfterInstall, StoreInv, StoreTyped, RenamedIsHealthy,
           LoadableIsHealthy, Loadable, SyncIsAlone, OnlyTheBundled, Own
<1>2. CASE i.by # "sync"
  <2>1. boot = "serving" /\ disturbed
    BY <1>2 DEF StoreInv, StoreTyped, SyncIsAlone, OnlyTheBundled
  <2>2. \A v \in Versions : Own(v) \in disk' => Own(v) \in disk \/ v = i.version
    BY <1>2 DEF Rename, Own
  <2> QED
    BY <1>0, <1>2, <2>1, <2>2
       DEF Rename, AfterInstall, StoreInv, StoreTyped, RenamedIsHealthy, LoadableIsHealthy,
           Loadable, SyncIsAlone, OnlyTheBundled
<1> QED BY <1>1, <1>2

LEMMA StoreStep == StoreInv /\ [StoreNext]_storeVars => StoreInv'
<1> SUFFICES ASSUME StoreInv, [StoreNext]_storeVars PROVE StoreInv'
  OBVIOUS
<1>1. CASE Restart \/ UNCHANGED storeVars
  BY <1>1 DEF Restart, storeVars, StoreInv, StoreTyped, RenamedIsHealthy, LoadableIsHealthy,
              Loadable, SyncIsAlone, OnlyTheBundled
<1> QED
  BY <1>1, SyncStartStep, OperatorInstallStep, HealthFailsStep, HealthPassesStep, RenameStep
     DEF StoreNext

LEMMA StoreInvariant == StoreSpec => []StoreInv
BY StoreInitially, StoreStep, PTL DEF StoreSpec

\* What a configuration can load has answered its health check
\* (ModuleStore::install), however installs race and processes die.
THEOREM LoadableWasHealthy == StoreSpec => []LoadableIsHealthy
<1>1. StoreInv => LoadableIsHealthy
  BY DEF StoreInv
<1> QED BY <1>1, StoreInvariant, PTL

\* A sync that installed leaves the bundled version alone on the disk
\* (sync_bundled), whatever earlier processes left there.
THEOREM BundledIsSole == StoreSpec => []SyncLeavesTheBundledOne
<1>1. Cardinality({Own(Bundled)}) = 1
  BY FS_Singleton
<1>2. Own(Bundled).version = Bundled
  BY DEF Own
<1>3. StoreInv => SyncLeavesTheBundledOne
  BY <1>1, <1>2 DEF StoreInv, OnlyTheBundled, SyncLeavesTheBundledOne, Sole, Listed, Loadable
<1> QED BY <1>3, StoreInvariant, PTL

(***************************************************************************)
(* The version floor: sessions that search for it side by side, for any    *)
(* number of sessions and hosts and any span and steps of the search       *)
(***************************************************************************)

\* The initial versions are the compiled-in one or none.
LEMMA FloorInitially == FloorInit => FloorInv
BY VersionAssumption
   DEF FloorInit, FloorInv, VersionsTyped, Stages, NeverAboveTheFloor, CarriedIsDemanded,
       HintIsCarried, RefusedStaysRefused, ResultIsDemanded, Searching

\* A step that leaves the sessions alone may only raise the floor.
LEMMA RisingFloor ==
  ASSUME FloorInv, floor' \in Nat, floor <= floor',
         UNCHANGED <<published, pin, loop, tried, searchVars>>
  PROVE  FloorInv'
BY VersionAssumption
   DEF FloorInv, VersionsTyped, Stages, NeverAboveTheFloor, CarriedIsDemanded, HintIsCarried,
       RefusedStaysRefused, ResultIsDemanded, Searching, searchVars

\* A session that gives up its search, or begins its loop anew, carries what
\* it carried.
LEMMA BackToIdle ==
  ASSUME FloorInv, NEW s \in Sessions, GoTo(s, "idle"), EndSearch(s),
         UNCHANGED <<published, pin, tried, floor>>
  PROVE  FloorInv'
BY DEF FloorInv, VersionsTyped, Stages, NeverAboveTheFloor, CarriedIsDemanded, HintIsCarried,
       RefusedStaysRefused, ResultIsDemanded, Searching, GoTo, EndSearch

LEMMA WorldStep ==
  ASSUME FloorInv,
         \/ RaiseFloor \/ GatewayMoves
         \/ \E h \in Sites : SiteDown(h) \/ SiteBack(h)
  PROVE  FloorInv'
<1>1. floor' \in Nat /\ floor <= floor'
  BY VersionAssumption DEF FloorInv, VersionsTyped, RaiseFloor, GatewayMoves, SiteDown, SiteBack
<1>2. UNCHANGED <<published, pin, loop, tried, searchVars>>
  BY DEF RaiseFloor, GatewayMoves, SiteDown, SiteBack
<1> QED BY <1>1, <1>2, RisingFloor

LEMMA LoggingInStep ==
  ASSUME FloorInv, NEW s \in Sessions, Resolve(s) \/ Login(s) \/ Disconnect(s)
  PROVE  FloorInv'
<1>1. CASE Resolve(s)
  BY <1>1, VersionAssumption
     DEF Resolve, Effective, GoTo, FloorInv, VersionsTyped, Stages, NeverAboveTheFloor,
         CarriedIsDemanded, HintIsCarried, RefusedStaysRefused, ResultIsDemanded,
         Searching, searchVars, worldVars
<1>2. CASE Login(s)
  <2>1. \E where \in {"up", "rejected", "idle"} : GoTo(s, where)
    BY <1>2 DEF Login
  <2> QED
    BY <1>2, <2>1
       DEF Login, GoTo, FloorInv, VersionsTyped, Stages, NeverAboveTheFloor, CarriedIsDemanded,
           HintIsCarried, RefusedStaysRefused, ResultIsDemanded, Searching, searchVars
<1>3. CASE Disconnect(s)
  BY <1>3 DEF Disconnect, GoTo, FloorInv, VersionsTyped, Stages, NeverAboveTheFloor,
              CarriedIsDemanded, HintIsCarried, RefusedStaysRefused, ResultIsDemanded,
              Searching, searchVars
<1> QED BY <1>1, <1>2, <1>3

LEMMA RefreshStep ==
  ASSUME FloorInv, NEW s \in Sessions, Refresh(s)
  PROVE  FloorInv'
BY VersionAssumption
   DEF Refresh, Newer, SearchStart, GoTo, FloorInv, VersionsTyped, Stages, NeverAboveTheFloor,
       CarriedIsDemanded, HintIsCarried, RefusedStaysRefused, ResultIsDemanded, Searching,
       searchVars, worldVars

\* A probe that answers is believed, one that fails ends the search.
LEMMA CheckStep ==
  ASSUME FloorInv, ~ProbesMisread, NEW s \in Sessions, Check(s)
  PROVE  FloorInv'
<1>1. CASE GoTo(s, "idle") /\ EndSearch(s)
  BY <1>1, BackToIdle DEF Check, Probe
<1>2. CASE /\ Accepts(low[s]) /\ high' = [high EXCEPT ![s] = low[s]]
           /\ GoTo(s, "publish") /\ UNCHANGED <<low, step>>
  BY <1>2 DEF Check, Probe, GoTo, FloorInv, VersionsTyped, Stages, NeverAboveTheFloor,
       CarriedIsDemanded, HintIsCarried, RefusedStaysRefused, ResultIsDemanded, Searching
<1>3. CASE ~Accepts(low[s]) /\ GoTo(s, "escalate") /\ UNCHANGED searchVars
  BY <1>3 DEF Check, Probe, Accepts, GoTo, FloorInv, VersionsTyped, Stages, NeverAboveTheFloor,
       CarriedIsDemanded, HintIsCarried, RefusedStaysRefused, ResultIsDemanded, Searching,
       searchVars
<1> QED BY <1>1, <1>2, <1>3 DEF Check, Probe

LEMMA EscalateStep ==
  ASSUME FloorInv, ~ProbesMisread, NEW s \in Sessions, Escalate(s)
  PROVE  FloorInv'
<1> DEFINE v == tried[s] + step[s]
<1>0. loop[s] = "escalate" /\ v \in Nat
  BY DEF Escalate, FloorInv, VersionsTyped
<1>u. UNCHANGED <<published, pin, tried, floor>>
  BY DEF Escalate, Probe, worldVars
<1>1. CASE GoTo(s, "idle") /\ EndSearch(s)
  BY <1>1, <1>u, BackToIdle
<1>2. CASE /\ high' = [high EXCEPT ![s] = v]
           /\ GoTo(s, "bisect") /\ UNCHANGED <<low, step>>
  BY <1>0, <1>u, <1>2 DEF GoTo, FloorInv, VersionsTyped, Stages, NeverAboveTheFloor,
       CarriedIsDemanded, HintIsCarried, RefusedStaysRefused, ResultIsDemanded, Searching
<1>3. CASE /\ ~Accepts(v) /\ low' = [low EXCEPT ![s] = v]
           /\ step' = [step EXCEPT ![s] = step[s] * Factor]
           /\ UNCHANGED <<loop, high>>
  <2>1. step[s] * Factor \in Nat
    BY VersionAssumption DEF FloorInv, VersionsTyped
  <2> QED
    BY <1>0, <1>u, <1>3, <2>1 DEF Accepts, FloorInv, VersionsTyped, Stages, NeverAboveTheFloor,
       CarriedIsDemanded, HintIsCarried, RefusedStaysRefused, ResultIsDemanded, Searching
<1> QED BY <1>1, <1>2, <1>3 DEF Escalate, Probe

LEMMA BisectStep ==
  ASSUME FloorInv, ~ProbesMisread, NEW s \in Sessions, Bisect(s)
  PROVE  FloorInv'
<1> DEFINE v == low[s] + (high[s] - low[s]) \div 2
<1>0. loop[s] = "bisect" /\ low[s] \in Nat /\ high[s] \in Nat /\ low[s] < floor /\ floor \in Nat
  BY DEF Bisect, FloorInv, VersionsTyped, RefusedStaysRefused, Searching
<1>u. UNCHANGED <<published, pin, tried, floor>>
  BY DEF Bisect, Probe, worldVars
<1>1. CASE low[s] + 1 >= high[s]
  BY <1>0, <1>1, <1>u DEF Bisect, GoTo, FloorInv, VersionsTyped, Stages, NeverAboveTheFloor,
       CarriedIsDemanded, HintIsCarried, RefusedStaysRefused, ResultIsDemanded, Searching,
       searchVars
<1>2. CASE ~(low[s] + 1 >= high[s])
  <2>0. v \in Nat
    BY <1>0, <1>2
  <2>1. CASE GoTo(s, "idle") /\ EndSearch(s)
    BY <2>1, <1>u, BackToIdle
  <2>2. CASE high' = [high EXCEPT ![s] = v] /\ UNCHANGED <<loop, low, step>>
    BY <1>0, <1>u, <2>0, <2>2 DEF FloorInv, VersionsTyped, Stages, NeverAboveTheFloor,
       CarriedIsDemanded, HintIsCarried, RefusedStaysRefused, ResultIsDemanded, Searching
  <2>3. CASE ~Accepts(v) /\ low' = [low EXCEPT ![s] = v] /\ UNCHANGED <<loop, high, step>>
    BY <1>0, <1>u, <2>0, <2>3 DEF Accepts, FloorInv, VersionsTyped, Stages, NeverAboveTheFloor,
       CarriedIsDemanded, HintIsCarried, RefusedStaysRefused, ResultIsDemanded, Searching
  <2> QED BY <1>2, <2>1, <2>2, <2>3 DEF Bisect, Probe
<1> QED BY <1>1, <1>2

LEMMA PublishStep ==
  ASSUME FloorInv, NEW s \in Sessions, Publish(s)
  PROVE  FloorInv'
BY DEF Publish, GoTo, EndSearch, FloorInv, VersionsTyped, Stages, NeverAboveTheFloor,
       CarriedIsDemanded, HintIsCarried, RefusedStaysRefused, ResultIsDemanded, Searching,
       worldVars

LEMMA FloorStep ==
  ASSUME FloorInv, ~ProbesMisread, [FloorNext]_floorVars
  PROVE  FloorInv'
<1>1. CASE \/ RaiseFloor \/ GatewayMoves
           \/ \E h \in Sites : SiteDown(h) \/ SiteBack(h)
  BY <1>1, WorldStep
<1>2. ASSUME NEW s \in Sessions, SessionStep(s) \/ Disconnect(s)
      PROVE  FloorInv'
  BY <1>2, LoggingInStep, RefreshStep, CheckStep, EscalateStep, BisectStep, PublishStep
     DEF SessionStep
<1>3. CASE UNCHANGED floorVars
  BY <1>3, RisingFloor DEF floorVars, worldVars, FloorInv, VersionsTyped
<1> QED BY <1>1, <1>2, <1>3 DEF FloorNext

\* What the sessions share through the client_version file is never above what
\* the server demands (search_version_floor, refreshed_client_version), for
\* any number of sessions searching at once and however the floor rises under
\* them, as long as a failing probe is not taken for a refusal.
THEOREM SharedVersionIsDemanded ==
  ASSUME ~ProbesMisread
  PROVE  FloorSpec => []NeverAboveTheFloor
<1>1. FloorInit => FloorInv
  BY FloorInitially
<1>2. FloorInv /\ [FloorNext]_floorVars => FloorInv'
  BY FloorStep
<1>3. FloorInv => NeverAboveTheFloor
  BY DEF FloorInv
<1> QED BY <1>1, <1>2, <1>3, PTL DEF FloorSpec

(***************************************************************************)
(* The builtin connection, for any width and modulus of the request ids    *)
(* that the assumption allows and any number of calls                      *)
(***************************************************************************)

\* A number and one that follows it closely, reduced by the counter's range:
\* the same distance apart, or one range nearer.
LEMMA Wrapping ==
  ASSUME NEW w \in Nat \ {0}, NEW m \in Nat, NEW d \in 1 .. w - 1
  PROVE  (m + d) % w \in {(m % w) + d, (m % w) + d - w}
<1> DEFINE p == m \div w
           q == (m + d) \div w
           a == m % w
           b == (m + d) % w
<1>1. m = w * p + a /\ p \in Int /\ a \in 0 .. w - 1
  OBVIOUS
<1>2. m + d = w * q + b /\ q \in Int /\ b \in 0 .. w - 1
  OBVIOUS
<1> HIDE DEF p, q, a, b
<1>3. d \in Int /\ 0 < d /\ d < w /\ w \in Int /\ m \in Int
  OBVIOUS
<1>4. w * (q - p) = w * q - w * p
  BY <1>1, <1>2, <1>3
<1>5. w * (q - p) = a + d - b
  BY <1>1, <1>2, <1>3, <1>4
<1>6. q - p < 2
  <2> SUFFICES ASSUME q - p >= 2 PROVE FALSE
    BY <1>1, <1>2
  <2>1. w * (q - p) >= w * 2
    BY <1>1, <1>2, <1>3
  <2> QED BY <1>1, <1>2, <1>3, <1>5, <2>1
<1>7. q - p > -1
  <2> SUFFICES ASSUME q - p <= -1 PROVE FALSE
    BY <1>1, <1>2
  <2>1. w * (q - p) <= w * (-1)
    BY <1>1, <1>2, <1>3
  <2> QED BY <1>1, <1>2, <1>3, <1>5, <2>1
<1>8. q - p = 0 \/ q - p = 1
  BY <1>1, <1>2, <1>6, <1>7
<1>9. b = a + d \/ b = a + d - w
  BY <1>1, <1>2, <1>3, <1>5, <1>8
<1> QED BY <1>9 DEF a, b

\* A number below twice the modulus, reduced
LEMMA ReducedOnce ==
  ASSUME NEW k \in Nat, NEW r \in Nat \ {0}, k < 2 * r
  PROVE  k % r = IF k < r THEN k ELSE k - r
<1> DEFINE q == k \div r
           a == k % r
<1>1. k = r * q + a /\ q \in Int /\ a \in 0 .. r - 1
  OBVIOUS
<1> HIDE DEF q, a
<1>2. q < 2
  <2> SUFFICES ASSUME q >= 2 PROVE FALSE
    BY <1>1
  <2>1. r * q >= r * 2
    BY <1>1
  <2> QED BY <1>1, <2>1
<1>3. q > -1
  <2> SUFFICES ASSUME q <= -1 PROVE FALSE
    BY <1>1
  <2>1. r * q <= r * (-1)
    BY <1>1
  <2> QED BY <1>1, <2>1
<1>4. q = 0 \/ q = 1
  BY <1>1, <1>2, <1>3
<1>5. a = k \/ a = k - r
  BY <1>1, <1>4
<1> QED BY <1>1, <1>5 DEF a

\* Two calls that share an id are at least Width - Modulus calls apart.
LEMMA ReuseDistance ==
  ASSUME NEW m \in Nat, NEW n \in Nat, m < n, Idx(m) = Idx(n)
  PROVE  n - m >= Width - Modulus
<1> SUFFICES ASSUME n - m < Width - Modulus PROVE FALSE
  BY RpcAssumption
<1> DEFINE d == n - m
           a == m % Width
           b == n % Width
<1>0. /\ Width \in Nat \ {0} /\ Modulus \in Nat \ {0} /\ Modulus < Width
      /\ Width < 2 * Modulus /\ d \in 1 .. Width - 1 /\ d < Width - Modulus /\ n = m + d
  BY RpcAssumption
<1>1. a \in 0 .. Width - 1 /\ b \in 0 .. Width - 1
  BY <1>0
<1>2. b \in {a + d, a + d - Width}
  BY <1>0, Wrapping
<1>3. a % Modulus = b % Modulus
  BY DEF Idx
<1> HIDE DEF a, b, d
<1>4. a \in Nat /\ a < 2 * Modulus /\ b \in Nat /\ b < 2 * Modulus /\ Modulus \in Nat \ {0}
  BY <1>0, <1>1
<1>5. /\ a % Modulus = IF a < Modulus THEN a ELSE a - Modulus
      /\ b % Modulus = IF b < Modulus THEN b ELSE b - Modulus
  BY ONLY <1>4, ReducedOnce
<1> QED BY <1>0, <1>1, <1>2, <1>3, <1>4, <1>5

LEMMA IdxIsAnId == ASSUME NEW n \in Nat PROVE Idx(n) \in Ids
<1>1. n % Width \in Nat
  BY RpcAssumption
<1>2. (n % Width) % Modulus \in 0 .. Modulus - 1
  BY <1>1, RpcAssumption
<1> QED BY <1>2, RpcAssumption DEF Idx, Ids

LEMMA RpcInitially == RpcInit => RpcInv
BY RpcAssumption
   DEF RpcInit, RpcInv, AnswersMatch, CallsAreNumbered, FiledUnderItsId, DisplacedWhatWasFiled,
       Unanswered, InFlight, Outcomes, Callers

\* An answer that comes finds its own call's sender, or none.
LEMMA FindsItsOwn ==
  ASSUME RpcInv, NEW m \in wire, counter - 1 - m <= Late
  PROVE  pending[Idx(m)] \in {0, m}
<1> DEFINE n == pending[Idx(m)]
<1>1. m \in Nat /\ counter \in Nat /\ m < counter
  BY DEF RpcInv, CallsAreNumbered
<1>2. Idx(m) \in Ids
  BY <1>1, IdxIsAnId
<1>3. n \in 0 .. counter - 1 /\ (n # 0 => Idx(n) = Idx(m))
  BY <1>2 DEF RpcInv, FiledUnderItsId
<1>4. n = 0 \/ m <= n
  BY DEF RpcInv, DisplacedWhatWasFiled, Unanswered
<1> HIDE DEF n
<1>5. ASSUME m < n PROVE FALSE
  <2>1. n \in Nat /\ n # 0
    BY <1>1, <1>3, <1>5
  <2>2. n - m >= Width - Modulus
    BY <1>1, <1>3, <1>5, <2>1, ReuseDistance
  <2>3. n - m <= Late
    BY <1>1, <1>3, RpcAssumption
  <2> QED BY <1>1, <1>3, <2>2, <2>3, RpcAssumption
<1>6. n = 0 \/ n = m
  BY <1>1, <1>3, <1>4, <1>5
<1> QED BY <1>6 DEF n

LEMMA FileStep ==
  ASSUME RpcInv, NEW c \in Callers, File(c)
  PROVE  RpcInv'
<1>1. counter \in Nat \ {0} /\ Idx(counter) \in Ids
  BY IdxIsAnId DEF RpcInv, CallsAreNumbered
<1>2. /\ counter' = counter + 1 /\ pending' = [pending EXCEPT ![Idx(counter)] = counter]
      /\ call' = [call EXCEPT ![c] = counter] /\ st' = [st EXCEPT ![c] = "filed"]
      /\ wire' = wire /\ crossed' = crossed
  BY DEF File
<1>3. CallsAreNumbered'
  BY <1>1, <1>2 DEF RpcInv, CallsAreNumbered, InFlight
<1>4. FiledUnderItsId'
  BY <1>1, <1>2 DEF RpcInv, FiledUnderItsId
<1>5. DisplacedWhatWasFiled'
  <2> SUFFICES ASSUME NEW m \in Unanswered'
               PROVE  pending'[Idx(m)] = 0 \/ m <= pending'[Idx(m)]
    BY DEF DisplacedWhatWasFiled
  <2>1. m = counter \/ m \in Unanswered
    BY <1>2 DEF Unanswered, RpcInv, CallsAreNumbered
  <2>2. m \in Nat /\ m <= counter
    BY <1>1, <1>2, <2>1 DEF RpcInv, CallsAreNumbered, Unanswered
  <2>3. Idx(m) \in Ids
    BY <2>2, IdxIsAnId
  <2> QED BY <1>1, <1>2, <2>1, <2>2, <2>3 DEF RpcInv, FiledUnderItsId, DisplacedWhatWasFiled
<1> QED BY <1>2, <1>3, <1>4, <1>5 DEF RpcInv, AnswersMatch

LEMMA AnswerStep ==
  ASSUME RpcInv, NEW m \in wire, Answer(m)
  PROVE  RpcInv'
<1>1. pending[Idx(m)] \in {0, m}
  BY FindsItsOwn DEF Answer
<1>2. m \in Nat /\ Idx(m) \in Ids
  BY IdxIsAnId DEF RpcInv, CallsAreNumbered
<1>3. /\ wire' = wire \ {m} /\ pending' = [pending EXCEPT ![Idx(m)] = 0]
      /\ counter' = counter /\ call' = call
  BY DEF Answer
<1>4. ~crossed'
  <2> DEFINE receivers == {c \in Callers : InFlight(c) /\ call[c] = pending[Idx(m)]}
  <2>1. pending[Idx(m)] # m => receivers = {}
    BY <1>1 DEF RpcInv, CallsAreNumbered
  <2>2. crossed' = (crossed \/ (receivers # {} /\ pending[Idx(m)] # m))
    BY DEF Answer
  <2>3. ~crossed
    BY DEF RpcInv, AnswersMatch
  <2> HIDE DEF receivers
  <2> QED BY <2>1, <2>2, <2>3, Zenon
<1>5. \E verdict \in {"answered", "refused"} : \E rs \in SUBSET Callers :
        st' = [c \in Callers |-> IF c \in rs THEN verdict ELSE st[c]]
  <2> DEFINE receivers == {c \in Callers : InFlight(c) /\ call[c] = pending[Idx(m)]}
  <2>1. receivers \in SUBSET Callers
    OBVIOUS
  <2>2. \E verdict \in {"answered", "refused"} :
          st' = [c \in Callers |-> IF c \in receivers THEN verdict ELSE st[c]]
    BY DEF Answer
  <2> QED BY <2>1, <2>2
<1>6. /\ st' \in [Callers -> {"idle", "filed", "waiting"} \union Outcomes]
      /\ \A c \in Callers : st'[c] \in {"filed", "waiting"} => st'[c] = st[c]
  BY <1>5 DEF RpcInv, CallsAreNumbered, Outcomes
<1>7. CallsAreNumbered'
  BY <1>3, <1>6 DEF RpcInv, CallsAreNumbered, InFlight
<1>8. FiledUnderItsId'
  BY <1>2, <1>3 DEF RpcInv, FiledUnderItsId, CallsAreNumbered
<1>9. DisplacedWhatWasFiled'
  <2> SUFFICES ASSUME NEW k \in Unanswered'
               PROVE  pending'[Idx(k)] = 0 \/ k <= pending'[Idx(k)]
    BY DEF DisplacedWhatWasFiled
  <2>1. k \in Unanswered
    BY <1>3, <1>6 DEF Unanswered
  <2>2. k \in Nat
    BY <2>1 DEF RpcInv, CallsAreNumbered, Unanswered
  <2>3. Idx(k) \in Ids
    BY <2>2, IdxIsAnId
  <2> QED BY <1>2, <1>3, <2>1, <2>2, <2>3 DEF RpcInv, FiledUnderItsId, DisplacedWhatWasFiled
<1> QED BY <1>4, <1>7, <1>8, <1>9 DEF RpcInv, AnswersMatch

\* A step that files no call and hands out no answer: the senders filed stay
\* or are swept, and what is still to be answered was so before.
LEMMA QuietRpcStep ==
  ASSUME RpcInv, counter' = counter, crossed' = crossed,
         pending' = pending \/ pending' = [i \in Ids |-> 0],
         wire' \subseteq wire \union {call[c] : c \in {d \in Callers : st[d] = "filed"}},
         call' \in [Callers -> 0 .. counter - 1],
         st' \in [Callers -> {"idle", "filed", "waiting"} \union Outcomes],
         \A c \in Callers : st'[c] \in {"filed", "waiting"} =>
              call'[c] = call[c] /\ InFlight(c) /\ (st'[c] = "filed" => st[c] = "filed")
  PROVE  RpcInv'
<1>1. Unanswered' \subseteq Unanswered
  BY DEF Unanswered
<1>2. CallsAreNumbered'
  <2>1. wire' \subseteq 1 .. counter - 1
    BY DEF RpcInv, CallsAreNumbered, InFlight
  <2> QED BY <2>1 DEF RpcInv, CallsAreNumbered, InFlight
<1>3. FiledUnderItsId'
  BY DEF RpcInv, CallsAreNumbered, FiledUnderItsId
<1>4. DisplacedWhatWasFiled'
  <2> SUFFICES ASSUME NEW m \in Unanswered'
               PROVE  pending'[Idx(m)] = 0 \/ m <= pending'[Idx(m)]
    BY DEF DisplacedWhatWasFiled
  <2>1. m \in Unanswered
    BY <1>1
  <2>2. m \in Nat
    BY <2>1 DEF RpcInv, CallsAreNumbered, Unanswered
  <2>3. Idx(m) \in Ids
    BY <2>2, IdxIsAnId
  <2> QED BY <2>1, <2>3 DEF RpcInv, DisplacedWhatWasFiled
<1> QED BY <1>2, <1>3, <1>4 DEF RpcInv, AnswersMatch

LEMMA RpcStep ==
  ASSUME RpcInv, [RpcNext]_rpcVars
  PROVE  RpcInv'
<1>1. /\ counter \in Nat \ {0} /\ call \in [Callers -> 0 .. counter - 1]
      /\ st \in [Callers -> {"idle", "filed", "waiting"} \union Outcomes]
  BY DEF RpcInv, CallsAreNumbered
<1>2. CASE \/ Connect \/ PeerGone \/ Sweep \/ UNCHANGED rpcVars
  BY <1>1, <1>2, QuietRpcStep DEF Connect, PeerGone, Sweep, rpcVars, InFlight
<1>3. CASE Drop \/ CloseConnection
  BY <1>1, <1>3, QuietRpcStep DEF Drop, CloseConnection, Abandoned, InFlight
<1>4. CASE LoginStep \/ SettleStep \/ Fetched \/ Beat
  BY <1>1, <1>4, QuietRpcStep DEF LoginStep, SettleStep, Fetched, Beat, InFlight, Callers
<1>5. ASSUME NEW c \in Callers, Transmit(c) \/ GiveUp(c)
      PROVE  RpcInv'
  BY <1>1, <1>5, QuietRpcStep DEF Transmit, GiveUp, InFlight, Outcomes
<1> QED BY <1>2, <1>3, <1>4, <1>5, FileStep, AnswerStep DEF RpcNext

\* No caller of the builtin connection is handed another call's answer
\* (Channel::call and the reader of rpc.rs), although ids wrap and are reused
\* and calls that were given up on stay filed.
THEOREM EveryAnswerIsItsCallers == RpcSpec => []AnswersMatch
<1>1. RpcInit => RpcInv
  BY RpcInitially
<1>2. RpcInv /\ [RpcNext]_rpcVars => RpcInv'
  BY RpcStep
<1>3. RpcInv => AnswersMatch
  BY DEF RpcInv
<1> QED BY <1>1, <1>2, <1>3, PTL DEF RpcSpec

(***************************************************************************)
(* The pipe to a module process, for any number of clients, requests and   *)
(* faults                                                                  *)
(***************************************************************************)

LEMMA PipeInitially == PipeInit => PipeInv
<1> SUFFICES ASSUME PipeInit PROVE PipeInv
  OBVIOUS
<1>1. Holder = {} /\ InStep
  BY DEF PipeInit, Holder, InStep
<1>2. PipeTyped
  BY DEF PipeInit, PipeTyped
<1> QED BY <1>1, <1>2
  DEF PipeInit, PipeInv, SlowAnswersCostOnlyThemselves, OneHolder, FlagFindsNobody,
      OutOfStepIsExcused, DeadReadsNothing

\* The request that has the lock lets go of it.
LEMMA HolderLeaves ==
  ASSUME PipeInv, NEW c \in Holder, Finished(c)
  PROVE  Holder' = {}
BY DEF PipeInv, PipeTyped, OneHolder, Holder, Finished

\* A request that reaches the lock, writes or ends: who holds it follows.
LEMMA HolderMoves ==
  ASSUME PipeInv, NEW c \in Clients, NEW pc \in {"idle", "locking", "entered", "reading"},
         at' = [at EXCEPT ![c] = pc],
         pc \in {"entered", "reading"} => Holder \subseteq {c}
  PROVE  /\ OneHolder' /\ Holder' \subseteq Holder \union {c}
         /\ pc \in {"idle", "locking"} => Holder' = Holder \ {c}
BY DEF PipeInv, PipeTyped, OneHolder, Holder

LEMMA AskStep == ASSUME PipeInv, NEW c \in Clients, Ask(c) PROVE PipeInv'
<1>1. /\ req' = [req EXCEPT ![c] = sequence] /\ at' = [at EXCEPT ![c] = "locking"] /\ at[c] = "idle"
      /\ sequence' = sequence + 1 /\ UNCHANGED <<asked, output, alive, desynced, unflagged, collateral>>
  BY DEF Ask
<1>2. OneHolder' /\ Holder' = Holder \ {c}
  BY <1>1, HolderMoves
<1>3. PipeTyped'
  BY <1>1 DEF PipeInv, PipeTyped
<1>4. InStep => InStep'
  <2>1. \A d \in Clients : at[d] = "reading" => at'[d] = "reading" /\ req'[d] = req[d]
    BY <1>1 DEF PipeInv, PipeTyped
  <2> QED BY <1>1, <2>1 DEF InStep
<1> QED BY <1>1, <1>2, <1>3, <1>4
  DEF PipeInv, SlowAnswersCostOnlyThemselves, FlagFindsNobody, OutOfStepIsExcused, DeadReadsNothing

LEMMA EnterStep == ASSUME PipeInv, NEW c \in Clients, Enter(c) PROVE PipeInv'
<1>0. at[c] = "locking" /\ Holder = {} /\ desynced' = FALSE /\ UNCHANGED <<sequence, collateral>>
  BY DEF Enter
<1>n. ~\E d \in Clients : at[d] = "reading"
  BY <1>0 DEF Holder
<1>1. CASE /\ at' = [at EXCEPT ![c] = "entered"] /\ UNCHANGED <<req, unflagged>>
           /\ desynced /\ alive' = TRUE /\ asked' = <<>> /\ output' = <<>>
  <2>1. OneHolder'
    BY <1>0, <1>1, HolderMoves
  <2>2. InStep' /\ PipeTyped'
    BY <1>0, <1>1 DEF InStep, PipeInv, PipeTyped
  <2> QED BY <1>0, <1>1, <2>1, <2>2
    DEF PipeInv, SlowAnswersCostOnlyThemselves, FlagFindsNobody, OutOfStepIsExcused,
        DeadReadsNothing
<1>2. CASE /\ at' = [at EXCEPT ![c] = "entered"] /\ UNCHANGED <<req, unflagged>>
           /\ ~desynced /\ UNCHANGED <<alive, asked, output>>
  <2>1. OneHolder'
    BY <1>0, <1>2, HolderMoves
  <2>2. InStep => InStep'
    BY <1>n, <1>2 DEF InStep
  <2> QED BY <1>0, <1>2, <2>1, <2>2
    DEF PipeInv, PipeTyped, SlowAnswersCostOnlyThemselves, FlagFindsNobody, OutOfStepIsExcused,
        DeadReadsNothing
<1>3. CASE Finished(c) /\ unflagged' = unflagged + 1 /\ UNCHANGED <<alive, asked, output>>
  <2>1. OneHolder'
    BY <1>0, <1>3, HolderMoves DEF Finished
  <2>2. PipeTyped'
    BY <1>0, <1>3 DEF PipeInv, PipeTyped, Finished
  <2>3. collateral' < unflagged'
    BY <1>0, <1>3 DEF PipeInv, PipeTyped, SlowAnswersCostOnlyThemselves
  <2> QED BY <1>0, <1>3, <2>1, <2>2, <2>3
    DEF PipeInv, SlowAnswersCostOnlyThemselves, FlagFindsNobody, OutOfStepIsExcused,
        DeadReadsNothing, PipeTyped
<1> QED BY <1>1, <1>2, <1>3 DEF Enter

LEMMA WriteStep == ASSUME PipeInv, NEW c \in Clients, Write(c) PROVE PipeInv'
<1>0. /\ at[c] = "entered" /\ c \in Holder /\ Holder \subseteq {c} /\ ~desynced
      /\ UNCHANGED <<sequence, alive, output, desynced, unflagged, collateral>>
  BY DEF Write, Holder, PipeInv, OneHolder, FlagFindsNobody
<1>n. \A d \in Clients : at[d] # "reading"
  BY <1>0 DEF Holder
<1>1. CASE /\ alive /\ asked' = Append(asked, req[c]) /\ at' = [at EXCEPT ![c] = "reading"] /\ req' = req
  <2>1. OneHolder'
    BY <1>0, <1>1, HolderMoves
  <2>2. PipeTyped'
    BY <1>0, <1>1 DEF PipeInv, PipeTyped
  <2>3. InStep => InStep'
    <3> SUFFICES ASSUME InStep PROVE InStep'
      OBVIOUS
    <3>1. asked = <<>> /\ output = <<>>
      BY <1>n DEF InStep
    <3>2. asked' = <<req'[c]>> /\ output' = <<>> /\ at'[c] = "reading"
      BY <1>0, <1>1, <3>1 DEF PipeInv, PipeTyped
    <3> QED BY <3>2 DEF InStep
  <2> QED BY <1>0, <1>1, <2>1, <2>2, <2>3
    DEF PipeInv, SlowAnswersCostOnlyThemselves, FlagFindsNobody, OutOfStepIsExcused,
        DeadReadsNothing
<1>2. CASE Finished(c) /\ UNCHANGED asked
  <2>1. Holder' = {}
    BY <1>0, <1>2, HolderLeaves
  <2>2. InStep => InStep'
    BY <1>0, <1>2, <1>n DEF InStep
  <2> QED BY <1>0, <1>2, <2>1, <2>2
    DEF PipeInv, PipeTyped, OneHolder, SlowAnswersCostOnlyThemselves, FlagFindsNobody,
        OutOfStepIsExcused, DeadReadsNothing, Finished
<1> QED BY <1>1, <1>2 DEF Write

LEMMA ModuleAnswersStep == ASSUME PipeInv, ModuleAnswers PROVE PipeInv'
<1>1. /\ asked # <<>> /\ output' = Append(output, Head(asked)) /\ asked' = Tail(asked)
      /\ alive /\ UNCHANGED <<sequence, alive, req, at, desynced, unflagged, collateral>>
  BY DEF ModuleAnswers
<1>2. PipeTyped'
  BY <1>1 DEF PipeInv, PipeTyped
<1>3. InStep => InStep'
  <2> SUFFICES ASSUME InStep PROVE InStep'
    OBVIOUS
  <2>1. PICK c \in Clients : at[c] = "reading" /\ asked = <<req[c]>> /\ output = <<>>
    BY <1>1 DEF InStep
  <2>2. asked' = <<>> /\ output' = <<req'[c]>> /\ at'[c] = "reading"
    BY <1>1, <2>1 DEF PipeInv, PipeTyped
  <2> QED BY <2>2 DEF InStep
<1> QED BY <1>1, <1>2, <1>3
  DEF PipeInv, OneHolder, Holder, SlowAnswersCostOnlyThemselves, FlagFindsNobody,
      OutOfStepIsExcused, DeadReadsNothing

\* A line that is not the reader's own was excused, and sets the flag; its own
\* line was the last one, or what follows is excused.
LEMMA ReadLineStep == ASSUME PipeInv, NEW c \in Clients, ReadLine(c) PROVE PipeInv'
<1>0. /\ at[c] = "reading" /\ c \in Holder /\ ~desynced /\ output # <<>>
      /\ output' = Tail(output) /\ Finished(c) /\ UNCHANGED <<sequence, alive, asked, unflagged>>
  BY DEF ReadLine, Holder, PipeInv, FlagFindsNobody
<1>1. Holder' = {}
  BY <1>0, HolderLeaves
<1>2. output \in Seq(Nat) /\ output' \in Seq(Nat)
  BY <1>0 DEF PipeInv, PipeTyped
<1>3. InStep => asked = <<>> /\ output = <<req[c]>>
  <2> SUFFICES ASSUME InStep PROVE asked = <<>> /\ output = <<req[c]>>
    OBVIOUS
  <2>1. PICK d \in Clients : at[d] = "reading" /\ asked = <<>> /\ output = <<req[d]>>
    BY <1>0 DEF InStep
  <2>2. d = c
    BY <1>0, <2>1 DEF PipeInv, OneHolder, Holder
  <2> QED BY <2>1, <2>2
<1>4. CASE Head(output) = req[c]
  <2>1. collateral' = collateral /\ ~desynced'
    BY <1>0, <1>4 DEF ReadLine, IsAnswer, PipeInv, PipeTyped
  <2>2. InStep => InStep'
    <3>1. InStep => asked' = <<>> /\ output' = <<>>
      BY <1>0, <1>3
    <3> QED BY <3>1 DEF InStep
  <2> QED BY <1>0, <1>1, <1>2, <2>1, <2>2
    DEF PipeInv, PipeTyped, OneHolder, SlowAnswersCostOnlyThemselves, FlagFindsNobody,
        OutOfStepIsExcused, DeadReadsNothing, Finished
<1>5. CASE Head(output) # req[c]
  <2>1. collateral' = collateral + 1 /\ desynced' = TRUE
    BY <1>5 DEF ReadLine, IsAnswer, PipeInv, PipeTyped
  <2>2. ~InStep
    BY <1>3, <1>5
  <2>3. collateral < unflagged
    BY <1>0, <2>2 DEF PipeInv, OutOfStepIsExcused
  <2> QED BY <1>0, <1>1, <1>2, <2>1, <2>3
    DEF PipeInv, PipeTyped, OneHolder, SlowAnswersCostOnlyThemselves, FlagFindsNobody,
        OutOfStepIsExcused, DeadReadsNothing, Finished
<1> QED BY <1>4, <1>5

LEMMA DeadlineStep == ASSUME PipeInv, NEW c \in Clients, Deadline(c) PROVE PipeInv'
<1>0. /\ c \in Holder /\ desynced' = TRUE /\ Finished(c)
      /\ UNCHANGED <<sequence, alive, unflagged, collateral>>
  BY DEF Deadline, AfterTimeout, Holder
<1>1. Holder' = {}
  BY <1>0, HolderLeaves
<1>2. asked' \in Seq(Nat) /\ output' \in Seq(Nat) /\ (asked = <<>> => asked' = <<>>)
  <2>1. asked \in Seq(Nat) /\ output \in Seq(Nat) /\ <<0>> \in Seq(Nat)
    BY DEF PipeInv, PipeTyped
  <2>2. asked' = asked \/ (asked # <<>> /\ asked' = Tail(asked))
    BY DEF Deadline
  <2>3. output' = output \/ output' = <<0>>
    BY DEF Deadline
  <2>4. output' \in Seq(Nat)
    BY <2>1, <2>3
  <2>5. CASE asked' = asked
    BY <2>1, <2>4, <2>5
  <2>6. CASE asked # <<>> /\ asked' = Tail(asked)
    BY <2>1, <2>4, <2>6
  <2> QED BY <2>2, <2>5, <2>6
<1> QED BY <1>0, <1>1, <1>2
  DEF PipeInv, PipeTyped, OneHolder, SlowAnswersCostOnlyThemselves, FlagFindsNobody,
      OutOfStepIsExcused, DeadReadsNothing, Finished

LEMMA CancelStep == ASSUME PipeInv, NEW c \in Clients, Cancel(c) PROVE PipeInv'
<1>0. /\ Finished(c) /\ unflagged' = unflagged + 1
      /\ UNCHANGED <<sequence, alive, asked, output, desynced, collateral>>
  BY DEF Cancel
<1>1. OneHolder' /\ Holder' = Holder \ {c}
  BY <1>0, HolderMoves DEF Finished
<1>2. PipeTyped'
  BY <1>0 DEF PipeInv, PipeTyped, Finished
<1>3. collateral' < unflagged'
  BY <1>0 DEF PipeInv, PipeTyped, SlowAnswersCostOnlyThemselves
<1> QED BY <1>0, <1>1, <1>2, <1>3
  DEF PipeInv, SlowAnswersCostOnlyThemselves, FlagFindsNobody, OutOfStepIsExcused,
      DeadReadsNothing, PipeTyped

LEMMA ModuleDiesStep == ASSUME PipeInv, ModuleDies PROVE PipeInv'
<1>0. asked' = <<>> /\ alive' = FALSE /\ UNCHANGED <<sequence, req, at, output, desynced, unflagged, collateral>>
  BY DEF ModuleDies
<1>1. InStep => InStep'
  BY <1>0 DEF InStep
<1> QED BY <1>0, <1>1
  DEF PipeInv, PipeTyped, OneHolder, Holder, SlowAnswersCostOnlyThemselves, FlagFindsNobody,
      OutOfStepIsExcused, DeadReadsNothing

LEMMA EndOfFileStep == ASSUME PipeInv, NEW c \in Clients, EndOfFile(c) PROVE PipeInv'
<1>0. /\ c \in Holder /\ asked = <<>> /\ output = <<>> /\ Finished(c)
      /\ UNCHANGED <<sequence, asked, output, alive, desynced, unflagged, collateral>>
  BY DEF EndOfFile, Holder, PipeInv, DeadReadsNothing
<1>1. Holder' = {}
  BY <1>0, HolderLeaves
<1>2. InStep'
  BY <1>0 DEF InStep
<1> QED BY <1>0, <1>1, <1>2
  DEF PipeInv, PipeTyped, OneHolder, SlowAnswersCostOnlyThemselves, FlagFindsNobody,
      OutOfStepIsExcused, DeadReadsNothing, Finished

LEMMA PipeStep ==
  ASSUME PipeInv, [PipeNext]_pipeVars
  PROVE  PipeInv'
<1>1. CASE UNCHANGED pipeVars
  BY <1>1 DEF pipeVars, PipeInv, PipeTyped, OneHolder, Holder, SlowAnswersCostOnlyThemselves,
              FlagFindsNobody, OutOfStepIsExcused, InStep, DeadReadsNothing
<1> QED
  BY <1>1, AskStep, EnterStep, WriteStep, ModuleAnswersStep, ReadLineStep, DeadlineStep,
     CancelStep, ModuleDiesStep, EndOfFileStep DEF PipeNext

\* A slow answer fails its own request and no other (PluginWorker::request and
\* its desynced flag): requests failed by a line that was not theirs are at
\* most as many as the dropped callers and failed starts, which set no flag.
THEOREM SlowAnswersAreContained == PipeSpec => []SlowAnswersCostOnlyThemselves
<1>1. PipeInit => PipeInv
  BY PipeInitially
<1>2. PipeInv /\ [PipeNext]_pipeVars => PipeInv'
  BY PipeStep
<1>3. PipeInv => SlowAnswersCostOnlyThemselves
  BY DEF PipeInv
<1> QED BY <1>1, <1>2, <1>3, PTL DEF PipeSpec

(***************************************************************************)
(* The composition                                                         *)
(***************************************************************************)

LEMMA TransportHasItsParts == Spec => FloorSpec /\ StoreSpec /\ RpcSpec /\ PipeSpec
<1>1. Init => FloorInit /\ StoreInit /\ RpcInit /\ PipeInit
  BY DEF Init
<1>2. [Next]_vars => /\ [FloorNext]_floorVars /\ [StoreNext]_storeVars
                     /\ [RpcNext]_rpcVars /\ [PipeNext]_pipeVars
  BY DEF Next, Builtin, Installing, External, Negotiating, Negotiates, vars
<1> QED BY <1>1, <1>2, PTL DEF Spec, FloorSpec, StoreSpec, RpcSpec, PipeSpec

\* Of a session that logs in, talks and has modules installed: the version the
\* sessions share is never above the server's (search_version_floor), what
\* they can load has answered its health check (ModuleStore::install), and
\* over either transport a request gets its own answer (Channel::call) and a
\* slow one fails no other (PluginWorker::request).
THEOREM TransportIsSafe ==
  ASSUME ~ProbesMisread
  PROVE  Spec => [](/\ NeverAboveTheFloor /\ LoadableIsHealthy
                    /\ AnswersMatch /\ SlowAnswersCostOnlyThemselves)
<1>1. FloorSpec => []NeverAboveTheFloor
  BY SharedVersionIsDemanded
<1> QED BY <1>1, LoadableWasHealthy, EveryAnswerIsItsCallers, SlowAnswersAreContained,
           TransportHasItsParts, PTL
=============================================================================
