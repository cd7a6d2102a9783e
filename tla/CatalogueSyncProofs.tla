------------------------ MODULE CatalogueSyncProofs ------------------------
(***************************************************************************)
(* Proofs about the catalogue import, for any games, modes, page size,     *)
(* windows, consoles and errors: no cursor passes a game the catalogue     *)
(* lacks, a mode that is done has been swept to its edge, and, while       *)
(* requests are answered one at a time, a rewind sticks.                   *)
(***************************************************************************)
EXTENDS CatalogueSync, FiniteSetTheorems, WellFoundedInduction, TLAPS

(***************************************************************************)
(* Pages                                                                   *)
(***************************************************************************)

LEMMA LeastOne ==
  ASSUME NEW S \in SUBSET Nat, S # {}
  PROVE  \E s \in S : \A t \in S : s <= t
<1> DEFINE R == {ss \in Nat \X Nat : ss[1] < ss[2]}
<1>1. IsWellFoundedOn(R, Nat)
  BY NatLessThanWellFounded DEF OpToRel
<1>2. PICK s \in S : \A t \in S : ~(<<t, s>> \in R)
  <2> HIDE DEF R
  <2> QED BY <1>1, WFMin
<1>3. ASSUME NEW t \in S PROVE s <= t
  <2>1. s \in Nat /\ t \in Nat /\ <<t, s>> \notin R
    BY <1>2
  <2> QED BY <2>1
<1> QED BY <1>3

\* A bounded set of numbers has a greatest.
LEMMA GreatestOne ==
  ASSUME NEW S \in SUBSET Nat, S # {}, NEW b \in Nat, \A s \in S : s <= b
  PROVE  Max(S) \in S /\ \A s \in S : s <= Max(S)
<1> DEFINE U == {u \in Nat : \A s \in S : s <= u}
<1>1. PICK u \in U : \A v \in U : u <= v
  <2>1. U \in SUBSET Nat /\ U # {}
    OBVIOUS
  <2> HIDE DEF U
  <2> QED BY <2>1, LeastOne
<1>2. u \in S
  <2> SUFFICES ASSUME u \notin S PROVE FALSE
    OBVIOUS
  <2>1. PICK s \in S : TRUE
    OBVIOUS
  <2>2. s < u /\ u \in Nat /\ s \in Nat
    BY <1>1
  <2>3. u - 1 \in Nat /\ \A t \in S : t <= u - 1
    BY <1>1, <2>2
  <2>4. u <= u - 1
    BY <1>1, <2>3
  <2> QED BY <2>2, <2>4
<1>3. \E x \in S : \A y \in S : x >= y
  BY <1>1, <1>2
<1> QED BY <1>3 DEF Max

\* Among games there is a first one, by second and by number.
LEMMA FirstGame ==
  ASSUME NEW S \in SUBSET Games, S # {}
  PROVE  \E g \in S : \A h \in S : ~Before(h, g)
<1> DEFINE Seconds1 == {g.at : g \in S}
<1>0. \A g \in S : g.at \in Nat /\ g.n \in Nat
  BY CatalogueAssumption
<1>1. PICK s \in Seconds1 : \A t \in Seconds1 : s <= t
  <2>1. Seconds1 \in SUBSET Nat /\ Seconds1 # {}
    BY <1>0
  <2> HIDE DEF Seconds1
  <2> QED BY <2>1, LeastOne
<1> DEFINE Numbers == {g.n : g \in {h \in S : h.at = s}}
<1>2. PICK n \in Numbers : \A k \in Numbers : n <= k
  <2>1. Numbers \in SUBSET Nat /\ Numbers # {}
    BY <1>0
  <2> HIDE DEF Numbers
  <2> QED BY <2>1, LeastOne
<1>3. PICK g \in S : g.at = s /\ g.n = n
  OBVIOUS
<1>4. ASSUME NEW h \in S, Before(h, g) PROVE FALSE
  <2>1. s <= h.at /\ h.at \in Nat /\ h.n \in Nat /\ g.at \in Nat /\ g.n \in Nat
    BY <1>0, <1>1
  <2>2. h.at = s /\ h.n < n
    BY <1>3, <1>4, <2>1 DEF Before
  <2>3. n <= h.n
    BY <1>2, <2>2
  <2> QED BY <1>3, <2>1, <2>2, <2>3
<1> QED BY <1>3, <1>4

LEMMA BeforeIsTransitive ==
  ASSUME NEW f \in Games, NEW g \in Games, NEW h \in Games, Before(f, g), Before(g, h)
  PROVE  Before(f, h)
<1>1. /\ f.at \in Nat /\ f.n \in Nat /\ g.at \in Nat /\ g.n \in Nat
      /\ h.at \in Nat /\ h.n \in Nat
  BY CatalogueAssumption
<1> QED BY <1>1 DEF Before

\* fetch_page: the page is the oldest of its range, and all of it when short.
LEMMA PageIsTheOldest ==
  ASSUME NEW m, NEW from \in Nat, NEW to \in Nat, now \in Nat, NEW page,
         page = PageOf(m, from, to)
  PROVE  /\ page \subseteq Games /\ \A g \in page : g.at <= now
         /\ \A g \in Games, h \in page : g.mode = m /\ from <= g.at /\ g.at < h.at => g \in page
         /\ Full(page) \/ \A g \in Games :
              g.mode = m /\ from <= g.at /\ g.at <= to /\ g.at <= now => g \in page
<1> DEFINE R == {g \in Games : g.mode = m /\ from <= g.at /\ g.at <= to /\ g.at <= now}
           Sooner(g) == {h \in R : Before(h, g)}
<1>0. page = {g \in R : Cardinality(Sooner(g)) < PageSize}
  BY DEF PageOf
<1>1. R \subseteq Games /\ \A g \in R : g.at <= now
  OBVIOUS
<1>2. IsFiniteSet(R) /\ \A g : IsFiniteSet(Sooner(g)) /\ Cardinality(Sooner(g)) \in Nat
  <2>1. IsFiniteSet(R)
    BY <1>1, FS_Subset, CatalogueAssumption
  <2>2. \A g : Sooner(g) \in SUBSET R
    OBVIOUS
  <2> HIDE DEF R, Sooner
  <2> QED BY <2>1, <2>2, FS_Subset, FS_CardinalityType
<1>3. ASSUME NEW g \in Games, NEW h \in page, g.mode = m, from <= g.at, g.at < h.at
      PROVE  g \in page
  <2>0. g.at \in Nat /\ h \in R /\ h.at \in Nat
    BY <1>0, CatalogueAssumption
  <2>1. g \in R
    <3>1. h.at <= to /\ h.at <= now
      BY <2>0
    <3>2. g.at <= to /\ g.at <= now
      BY <1>3, <2>0, <3>1
    <3> QED BY <1>3, <3>2
  <2>2. Before(g, h)
    BY <1>3 DEF Before
  <2>3. Sooner(g) \in SUBSET Sooner(h)
    BY <1>1, <2>0, <2>1, <2>2, BeforeIsTransitive
  <2>4. Cardinality(Sooner(g)) <= Cardinality(Sooner(h)) /\ Cardinality(Sooner(h)) < PageSize
    <3>1. Cardinality(Sooner(h)) < PageSize
      BY <1>0
    <3> HIDE DEF Sooner, R
    <3> QED BY <1>2, <2>3, <3>1, FS_Subset
  <2> HIDE DEF Sooner
  <2>5. Cardinality(Sooner(g)) < PageSize
    BY <1>2, <2>4, CatalogueAssumption
  <2> HIDE DEF R
  <2> QED BY <1>0, <2>1, <2>5
<1>4. ASSUME ~Full(page) PROVE R \subseteq page
  <2> SUFFICES ASSUME R \ page # {} PROVE FALSE
    OBVIOUS
  <2>1. PICK g \in R \ page : \A h \in R \ page : ~Before(h, g)
    <3> HIDE DEF R
    <3> QED BY <1>1, FirstGame
  <2>2. Sooner(g) \in SUBSET page
    BY <2>1
  <2>3. page \in SUBSET R
    BY <1>0
  <2> HIDE DEF Sooner, R
  <2>4. IsFiniteSet(page) /\ Cardinality(page) \in Nat
    BY <1>2, <2>3, FS_Subset, FS_CardinalityType
  <2>5. Cardinality(Sooner(g)) <= Cardinality(page)
    BY <2>2, <2>4, FS_Subset
  <2>6. Cardinality(page) < PageSize
    BY <1>4, <2>4, CatalogueAssumption DEF Full
  <2>7. Cardinality(Sooner(g)) < PageSize
    BY <1>2, <2>4, <2>5, <2>6, CatalogueAssumption
  <2> QED BY <1>0, <2>1, <2>7
<1>5. page \subseteq Games /\ \A g \in page : g.at <= now
  BY <1>0, <1>1
<1> QED BY <1>3, <1>4, <1>5

\* The newest second of a page, or where the page began.
LEMMA NewestOfPage ==
  ASSUME NEW r, TaskShape(r), OldestOfRange(r)
  PROVE  /\ Newest(r.from, r.page) \in Nat /\ r.from <= Newest(r.from, r.page)
         /\ \A g \in r.page : g.at <= Newest(r.from, r.page)
         /\ Newest(r.from, r.page) = r.from
              \/ \E h \in r.page : h.at = Newest(r.from, r.page)
<1> DEFINE S == {r.from} \union {g.at : g \in r.page}
<1>1. r.from \in Nat /\ r.seen \in Nat /\ r.page \subseteq Games /\ \A g \in r.page : g.at <= r.seen
  BY DEF TaskShape, OldestOfRange
<1>2. \A g \in r.page : g.at \in Nat
  BY <1>1, CatalogueAssumption
<1>3. S \in SUBSET Nat /\ S # {} /\ r.from + r.seen \in Nat /\ \A s \in S : s <= r.from + r.seen
  <2>1. S \in SUBSET Nat /\ S # {} /\ r.from + r.seen \in Nat
    BY <1>1, <1>2
  <2>2. r.from <= r.from + r.seen
    BY <1>1
  <2>3. \A g \in r.page : g.at <= r.from + r.seen
    BY <1>1, <1>2
  <2> QED BY <2>1, <2>2, <2>3
<1>4. Max(S) \in S /\ \A s \in S : s <= Max(S)
  <2> HIDE DEF S
  <2> QED BY <1>3, GreatestOne
<1>5. Newest(r.from, r.page) = Max(S)
  BY DEF Newest
<1>6. Max(S) \in Nat /\ r.from <= Max(S) /\ (\A g \in r.page : g.at <= Max(S))
  BY <1>3, <1>4
<1>7. Max(S) = r.from \/ \E h \in r.page : h.at = Max(S)
  BY <1>4
<1> HIDE DEF S
<1> QED BY <1>5, <1>6, <1>7

(***************************************************************************)
(* What a task holds                                                       *)
(***************************************************************************)

TasksOk ==
  /\ tasks = [t \in Tasks |-> tasks[t]]
  /\ \A t \in Tasks : TaskShape(tasks[t]) /\ TaskInStep(tasks[t], catalogue, Known)

OtherShapes ==
  /\ config \in Configs /\ Valid(config)
  /\ now \in Nat /\ generation \in Nat /\ rewound \in Nat
  /\ sweeps = [n \in Generations |-> sweeps[n]] /\ \A n \in Generations : SweepShape(sweeps[n])
  /\ requests = [c \in Consoles |-> requests[c]] /\ \A c \in Consoles : RequestShape(requests[c])
  /\ cursor \in [Modes -> Nat]

LEMMA PartsOfTheInvariant == GamesInv <=> TasksOk /\ OtherShapes /\ NothingPassedOver
  BY DEF GamesInv, Shapes, TasksOk, OtherShapes

LEMMA PartsAfterwards == (TasksOk /\ OtherShapes /\ NothingPassedOver)' => GamesInv'
  BY DEF GamesInv, Shapes, TasksOk, OtherShapes

\* The records the steps of a task make of one another
TaskRecord(step, mode, from, to, seen, page) ==
  [step |-> step, mode |-> mode, from |-> from, to |-> to, seen |-> seen, page |-> page]

LEMMA SetStep ==
  ASSUME NEW w, TaskShape(w), NEW a
  PROVE  [w EXCEPT !.step = a] = TaskRecord(a, w.mode, w.from, w.to, w.seen, w.page)
  BY DEF TaskRecord, TaskShape

LEMMA SetMode ==
  ASSUME NEW w, TaskShape(w), NEW a, NEW b
  PROVE  [w EXCEPT !.step = a, !.mode = b] = TaskRecord(a, b, w.from, w.to, w.seen, w.page)
<1> DEFINE v == [w EXCEPT !.step = a]
<1>1. [w EXCEPT !.step = a, !.mode = b] = [v EXCEPT !.mode = b]
  OBVIOUS
<1>2. v = TaskRecord(a, w.mode, w.from, w.to, w.seen, w.page)
  BY SetStep
<1> HIDE DEF v
<1>5. [v EXCEPT !.mode = b] = TaskRecord(a, b, w.from, w.to, w.seen, w.page)
  BY ONLY <1>2 DEF TaskRecord
<1> QED BY ONLY <1>1, <1>5

LEMMA SetFrom ==
  ASSUME NEW w, TaskShape(w), NEW a, NEW b
  PROVE  [w EXCEPT !.step = a, !.from = b] = TaskRecord(a, w.mode, b, w.to, w.seen, w.page)
<1> DEFINE v == [w EXCEPT !.step = a]
<1>1. [w EXCEPT !.step = a, !.from = b] = [v EXCEPT !.from = b]
  OBVIOUS
<1>2. v = TaskRecord(a, w.mode, w.from, w.to, w.seen, w.page)
  BY SetStep
<1> HIDE DEF v
<1>5. [v EXCEPT !.from = b] = TaskRecord(a, w.mode, b, w.to, w.seen, w.page)
  BY ONLY <1>2 DEF TaskRecord
<1> QED BY ONLY <1>1, <1>5

LEMMA SetToAndSeen ==
  ASSUME NEW w, TaskShape(w), NEW a, NEW b
  PROVE  [w EXCEPT !.to = a, !.seen = b] = TaskRecord(w.step, w.mode, w.from, a, b, w.page)
<1> DEFINE v == [w EXCEPT !.to = a]
<1>1. [w EXCEPT !.to = a, !.seen = b] = [v EXCEPT !.seen = b]
  OBVIOUS
<1>2. v = TaskRecord(w.step, w.mode, w.from, a, w.seen, w.page)
  BY DEF TaskShape, TaskRecord
<1> HIDE DEF v
<1>5. [v EXCEPT !.seen = b] = TaskRecord(w.step, w.mode, w.from, a, b, w.page)
  BY ONLY <1>2 DEF TaskRecord
<1> QED BY ONLY <1>1, <1>5

LEMMA FetchedRecord ==
  ASSUME NEW w, TaskShape(w), NEW b, NEW c, NEW d,
         NEW r, r = [w EXCEPT !.step = "insert", !.to = b, !.seen = c, !.page = d]
  PROVE  r = TaskRecord("insert", w.mode, w.from, b, c, d)
<1> DEFINE u == [w EXCEPT !.step = "insert"]
           v == [u EXCEPT !.to = b]
           x == [v EXCEPT !.seen = c]
<1>1. r = [x EXCEPT !.page = d]
  OBVIOUS
<1>2. u = TaskRecord("insert", w.mode, w.from, w.to, w.seen, w.page)
  BY SetStep
<1> HIDE DEF u
<1>3. v = TaskRecord("insert", w.mode, w.from, b, w.seen, w.page)
  BY ONLY <1>2 DEF v, TaskRecord
<1> HIDE DEF v
<1>4. x = TaskRecord("insert", w.mode, w.from, b, c, w.page)
  BY ONLY <1>3 DEF x, TaskRecord
<1> HIDE DEF x
<1> QED BY ONLY <1>1, <1>4 DEF TaskRecord

LEMMA DoneRecord ==
  ASSUME NEW w, TaskShape(w), NEW r, r = [w EXCEPT !.step = "pop", !.from = 0, !.page = {}]
  PROVE  r = TaskRecord("pop", w.mode, 0, w.to, w.seen, {})
<1> DEFINE v == [w EXCEPT !.step = "pop", !.from = 0]
<1>1. r = [v EXCEPT !.page = {}]
  OBVIOUS
<1>2. v = TaskRecord("pop", w.mode, 0, w.to, w.seen, w.page)
  BY SetFrom
<1> HIDE DEF v
<1> QED BY ONLY <1>1, <1>2 DEF TaskRecord

LEMMA TaskFields ==
  ASSUME NEW step, NEW mode, NEW from \in Nat, NEW to \in Nat, NEW seen \in Nat, NEW page,
         NEW r, r = TaskRecord(step, mode, from, to, seen, page)
  PROVE  /\ TaskShape(r) /\ r.step = step /\ r.mode = mode /\ r.from = from
         /\ r.to = to /\ r.seen = seen /\ r.page = page
  BY DEF TaskRecord, TaskShape

LEMMA GoneIsShaped == Gone = TaskRecord("gone", NoMode, 0, 0, 0, {}) /\ TaskShape(Gone)
                      /\ Gone.from = 0 /\ Gone.to = 0 /\ Gone.seen = 0 /\ Gone.page = {}
  BY DEF Gone, TaskRecord, TaskShape

\* What is in step stays so while more is known.
LEMMA StaysInStep ==
  ASSUME NEW r, NEW games, NEW known, TaskInStep(r, games, known),
         NEW moreGames, NEW moreKnown, games \subseteq moreGames, known \subseteq moreKnown
  PROVE  TaskInStep(r, moreGames, moreKnown)
  BY DEF TaskInStep, Behind, Swept

\* A task that is gone, fresh or leaving holds nothing.
LEMMA EmptyHanded ==
  ASSUME NEW games, NEW known, NEW r \in {Gone, Fresh, Leaving}
  PROVE  TaskShape(r) /\ TaskInStep(r, games, known)
<1>1. TaskShape(r) /\ r.mode = NoMode /\ r.step \in {"gone", "pop", "leave"}
  BY DEF Gone, Fresh, Leaving, TaskShape
<1> QED BY <1>1 DEF TaskInStep

\* One task goes on, with something that is in step,
LEMMA OneTaskMoves ==
  ASSUME TasksOk, catalogue \subseteq catalogue', excused \subseteq excused',
         NEW t \in Tasks, NEW r, SetTask(t, r), TaskShape(r), TaskInStep(r, catalogue', Known')
  PROVE  TasksOk'
<1>1. /\ tasks' = [u \in Tasks |-> tasks'[u]]
      /\ \A u \in Tasks : tasks'[u] = IF u = t THEN r ELSE tasks[u]
  BY DEF TasksOk, SetTask
<1>2. Known \subseteq Known'
  BY DEF Known
<1>3. ASSUME NEW u \in Tasks
      PROVE  TaskShape(tasks'[u]) /\ TaskInStep(tasks'[u], catalogue', Known')
  <2>1. CASE u = t
    BY <1>1, <2>1
  <2>2. CASE u # t
    <3>1. tasks'[u] = tasks[u] /\ TaskShape(tasks[u]) /\ TaskInStep(tasks[u], catalogue, Known)
      BY <1>1, <2>2 DEF TasksOk
    <3> QED BY <1>2, <3>1, StaysInStep
  <2> QED BY <2>1, <2>2
<1> QED BY <1>1, <1>3 DEF TasksOk

\* or some are dropped or spawned.
LEMMA TasksComeAndGo ==
  ASSUME TasksOk, catalogue \subseteq catalogue', excused \subseteq excused',
         tasks' = [t \in Tasks |-> tasks'[t]],
         \A t \in Tasks : tasks'[t] \in {Gone, Fresh, tasks[t]}
  PROVE  TasksOk'
<1>2. Known \subseteq Known'
  BY DEF Known
<1>3. ASSUME NEW u \in Tasks
      PROVE  TaskShape(tasks'[u]) /\ TaskInStep(tasks'[u], catalogue', Known')
  <2>1. CASE tasks'[u] \in {Gone, Fresh}
    BY <2>1, EmptyHanded
  <2>2. CASE tasks'[u] = tasks[u]
    <3>1. TaskShape(tasks[u]) /\ TaskInStep(tasks[u], catalogue, Known)
      BY DEF TasksOk
    <3> QED BY <1>2, <2>2, <3>1, StaysInStep
  <2> QED BY <2>1, <2>2
<1> QED BY <1>3 DEF TasksOk

LEMMA PassedOverNothing ==
  ASSUME NothingPassedOver, UNCHANGED cursor,
         catalogue \subseteq catalogue', excused \subseteq excused'
  PROVE  NothingPassedOver'
  BY DEF NothingPassedOver

\* Where a page leaves the cursor, everything behind it is known.
LEMMA PageIsPassed ==
  ASSUME NEW r, TaskShape(r), NEW games, NEW known, TaskInStep(r, games, known),
         r.step = "move", NEW more, known \subseteq more, games \subseteq more,
         \/ Newest(r.from, r.page) > r.from
         \/ \A g \in Games : g.mode = r.mode /\ g.at = r.from => g \in more
  PROVE  NextFrom(r.from, r.page) \in Nat /\ Behind(r.mode, NextFrom(r.from, r.page), more)
<1> DEFINE new == Newest(r.from, r.page)
           next == NextFrom(r.from, r.page)
<1>0. OldestOfRange(r) /\ Behind(r.mode, r.from, known) /\ \A g \in r.page : g.usable => g \in games
  BY DEF TaskInStep
<1>1. r.from \in Nat /\ new \in Nat /\ r.from <= new /\ (new = r.from \/ \E h \in r.page : h.at = new)
  BY <1>0, NewestOfPage DEF TaskShape
<1>2. next = IF new > r.from THEN new ELSE r.from + 1
  BY DEF NextFrom
<1> HIDE DEF new, next
<1>3. next \in Nat
  BY <1>1, <1>2
<1>4. ASSUME NEW g \in Games, g.mode = r.mode, g.usable, g.at < next PROVE g \in more
  <2>0. g.at \in Nat
    BY CatalogueAssumption
  <2>1. CASE g.at < r.from
    BY <1>0, <1>4, <2>1 DEF Behind
  <2>2. CASE r.from <= g.at /\ new > r.from
    <3>1. PICK h \in r.page : h.at = new
      BY <1>1, <2>2
    <3>2. g.at < h.at
      BY <1>2, <1>4, <2>2, <3>1
    <3>3. g \in r.page
      BY <1>0, <1>4, <2>2, <3>2 DEF OldestOfRange
    <3> QED BY <1>0, <1>4, <3>3
  <2>3. CASE r.from <= g.at /\ ~(new > r.from)
    <3>1. g.at = r.from
      BY <1>1, <1>2, <1>4, <2>0, <2>3
    <3> QED BY <1>4, <2>3, <3>1 DEF new
  <2> QED BY <1>1, <2>0, <2>1, <2>2, <2>3
<1> QED BY <1>3, <1>4 DEF Behind, next

(***************************************************************************)
(* The steps of a worker                                                   *)
(***************************************************************************)

LEMMA GenerationOfTask == \A t \in Tasks : t[1] \in Generations /\ t[2] \in 1 .. Concurrency
                                           /\ t = <<t[1], t[2]>>
  BY DEF Tasks

\* What a sweep's own counters may do
LEMMA SweepsKeepShape ==
  ASSUME OtherShapes, NEW n \in Generations, NEW r, SweepShape(r),
         sweeps' = [sweeps EXCEPT ![n] = r],
         UNCHANGED <<config, now, rewound, requests, cursor>>, generation' \in Nat
  PROVE  OtherShapes'
<1>1. /\ sweeps' = [k \in Generations |-> sweeps'[k]]
      /\ \A k \in Generations : sweeps'[k] = IF k = n THEN r ELSE sweeps[k]
  BY DEF OtherShapes
<1>2. \A k \in Generations : SweepShape(sweeps'[k])
  BY <1>1 DEF OtherShapes
<1> QED BY <1>1, <1>2 DEF OtherShapes

LEMMA TakeModeStep ==
  ASSUME GamesInv, NEW t \in Tasks, TakeMode(t)
  PROVE  GamesInv'
<1> DEFINE w == sweeps[t[1]]
           q == w.queue
<1>0. TasksOk /\ OtherShapes /\ NothingPassedOver
  BY PartsOfTheInvariant
<1>1. SweepShape(w) /\ q \in Seq(Modes) /\ t[1] \in Generations
  BY <1>0, GenerationOfTask DEF OtherShapes, SweepShape
<1>2. UNCHANGED <<config, now, generation, rewound, requests, cursor, catalogue, excused>>
  BY DEF TakeMode
<1>3. NothingPassedOver'
  BY <1>0, <1>2, PassedOverNothing
<1>4. CASE q = << >>
  <2>1. SetTask(t, Leaving) /\ UNCHANGED sweeps
    BY <1>4 DEF TakeMode
  <2>2. TasksOk'
    BY <1>0, <1>2, <2>1, OneTaskMoves, EmptyHanded
  <2>3. OtherShapes'
    BY <1>0, <1>2, <2>1 DEF OtherShapes
  <2> QED BY <1>3, <2>2, <2>3, PartsAfterwards
<1>5. CASE q # << >>
  <2> DEFINE rest == SubSeq(q, 1, Len(q) - 1)
             m == q[Len(q)]
             taken == [Gone EXCEPT !.step = "read", !.mode = m]
  <2>1. rest \in Seq(Modes) /\ m \in Modes
    BY <1>1, <1>5
  <2>2. /\ sweeps' = [sweeps EXCEPT ![t[1]].queue = rest]
        /\ SetTask(t, taken) \/ SetTask(t, Leaving)
    BY <1>5 DEF TakeMode
  <2>3. TaskShape(taken) /\ taken.step = "read" /\ taken.mode = m
    <3>1. taken = TaskRecord("read", m, 0, 0, 0, {})
      BY GoneIsShaped, SetMode
    <3> HIDE DEF taken
    <3> QED BY <3>1, TaskFields
  <2>4. TaskInStep(taken, catalogue', Known')
    BY <2>1, <2>3 DEF TaskInStep
  <2> HIDE DEF taken, rest, m
  <2>5. TasksOk'
    BY <1>0, <1>2, <2>2, <2>3, <2>4, OneTaskMoves, EmptyHanded
  <2>6. OtherShapes'
    <3> DEFINE r == [config |-> w.config, queue |-> rest, live |-> w.live]
    <3>1. [w EXCEPT !.queue = rest] = r
      BY <1>1 DEF SweepShape
    <3>2. SweepShape(r)
      BY <1>1, <2>1 DEF SweepShape
    <3>3. sweeps' = [sweeps EXCEPT ![t[1]] = r]
      BY <2>2, <3>1
    <3> HIDE DEF r
    <3> QED BY <1>0, <1>1, <1>2, <3>2, <3>3, SweepsKeepShape DEF OtherShapes
  <2> QED BY <1>3, <2>5, <2>6, PartsAfterwards
<1> QED BY <1>4, <1>5

LEMMA ReadCursorStep ==
  ASSUME GamesInv, NEW t \in Tasks, ReadCursor(t)
  PROVE  GamesInv'
<1> DEFINE w == tasks[t]
           start == sweeps[t[1]].config.from
           from == SweepFrom(cursor[w.mode], start)
           r == [w EXCEPT !.step = "fetch", !.from = from]
<1>0. TasksOk /\ OtherShapes /\ NothingPassedOver
  BY PartsOfTheInvariant
<1>1. /\ w.step = "read" /\ SetTask(t, r)
      /\ excused' = excused \union {g \in Games : g.mode = w.mode /\ g.at < start}
      /\ UNCHANGED <<config, now, generation, rewound, requests, cursor, catalogue, sweeps>>
  BY DEF ReadCursor
<1>2. TaskShape(w) /\ w.mode \in Modes
  BY <1>0, <1>1 DEF TasksOk, TaskInStep
<1>3. start \in Nat /\ cursor[w.mode] \in Nat
  BY <1>0, <1>2, GenerationOfTask DEF OtherShapes, SweepShape
<1>4. from \in Nat /\ from \in {start, cursor[w.mode]}
  BY <1>3 DEF SweepFrom
<1>5. ASSUME NEW g \in Games, g.mode = w.mode, g.usable, g.at < from PROVE g \in Known'
  <2>1. CASE from = start
    BY <1>1, <1>5, <2>1 DEF Known
  <2>2. CASE from = cursor[w.mode]
    BY <1>0, <1>1, <1>5, <2>2 DEF NothingPassedOver, Known
  <2> QED BY <1>4, <2>1, <2>2
<1> HIDE DEF from
<1>6. r = TaskRecord("fetch", w.mode, from, w.to, w.seen, w.page)
  <2> HIDE DEF w
  <2> QED BY <1>2, SetFrom
<1> HIDE DEF r, w
<1>7. TaskShape(r) /\ r.step = "fetch" /\ r.mode = w.mode /\ r.from = from
  BY <1>2, <1>4, <1>6, TaskFields DEF TaskShape
<1>8. TaskInStep(r, catalogue', Known')
  BY <1>5, <1>7 DEF TaskInStep, Behind
<1>9. TasksOk'
  BY <1>0, <1>1, <1>7, <1>8, OneTaskMoves
<1>10. NothingPassedOver' /\ OtherShapes'
  BY <1>0, <1>1, PassedOverNothing DEF OtherShapes
<1> QED BY <1>9, <1>10, PartsAfterwards

LEMMA FetchPageStep ==
  ASSUME GamesInv, NEW t \in Tasks, FetchPage(t)
  PROVE  GamesInv'
<1> DEFINE w == tasks[t]
           to == Edge(sweeps[t[1]].config)
           page == PageOf(w.mode, w.from, to)
           done == [Done(t) EXCEPT !.to = to, !.seen = now]
           r == [w EXCEPT !.step = "insert", !.to = to, !.seen = now, !.page = page]
<1>0. TasksOk /\ OtherShapes /\ NothingPassedOver
  BY PartsOfTheInvariant
<1>1. /\ w.step = "fetch"
      /\ IF to - w.from < MinGap THEN SetTask(t, done) ELSE SetTask(t, r)
      /\ UNCHANGED <<config, now, generation, rewound, requests, cursor, catalogue, sweeps, excused>>
  BY DEF FetchPage
<1>2. TaskShape(w) /\ Behind(w.mode, w.from, Known) /\ w.from \in Nat
  BY <1>0, <1>1 DEF TasksOk, TaskInStep, TaskShape
<1>3. to \in Nat /\ now \in Nat
  BY <1>0, GenerationOfTask DEF OtherShapes, SweepShape, Edge
<1>4. UNCHANGED Known
  BY <1>1 DEF Known
<1>5. CASE to - w.from < MinGap
  <2>0. Done(t) = TaskRecord("pop", w.mode, 0, w.to, w.seen, {})
    <3> HIDE DEF w
    <3>1. Done(t) = [w EXCEPT !.step = "pop", !.from = 0, !.page = {}]
      BY DEF Done, w
    <3> QED BY ONLY <1>2, <3>1, DoneRecord
  <2>a. /\ TaskShape(Done(t)) /\ Done(t).step = "pop" /\ Done(t).mode = w.mode
        /\ Done(t).from = 0 /\ Done(t).page = {}
    BY <1>2, <2>0, TaskFields DEF TaskShape
  <2> HIDE DEF to
  <2>1. done = TaskRecord("pop", w.mode, 0, to, now, {})
    <3> DEFINE d == Done(t)
    <3>1. TaskShape(d) /\ d.step = "pop" /\ d.mode = w.mode /\ d.from = 0 /\ d.page = {}
      BY <2>a
    <3> HIDE DEF d, w
    <3>2. [d EXCEPT !.to = to, !.seen = now] = TaskRecord(d.step, d.mode, d.from, to, now, d.page)
      BY ONLY <3>1, SetToAndSeen
    <3>3. done = [d EXCEPT !.to = to, !.seen = now]
      BY DEF d
    <3> HIDE DEF done
    <3> QED BY ONLY <3>1, <3>2, <3>3
  <2> HIDE DEF done
  <2>2. TaskShape(done) /\ done.step = "pop" /\ done.mode = w.mode /\ done.to = to
    BY <1>3, <2>1, TaskFields
  <2>3. Swept(done, Known)
    <3> SUFFICES ASSUME NEW g \in Games, g.mode = w.mode, g.usable, g.at <= to - MinGap
                 PROVE  g \in Known
      BY <2>2 DEF Swept
    <3>1. g.at < w.from
      <4>1. g.at \in Nat /\ MinGap \in Nat
        BY CatalogueAssumption
      <4> QED BY <1>2, <1>3, <1>5, <4>1
    <3> QED BY <1>2, <3>1 DEF Behind
  <2>4. TaskInStep(done, catalogue', Known')
    BY <1>4, <2>2, <2>3 DEF TaskInStep
  <2>5. TasksOk'
    BY <1>0, <1>1, <1>5, <2>2, <2>4, OneTaskMoves
  <2> QED BY <1>0, <1>1, <2>5, PassedOverNothing, PartsAfterwards DEF OtherShapes
<1>6. CASE ~(to - w.from < MinGap)
  <2> HIDE DEF to, page
  <2>1. r = TaskRecord("insert", w.mode, w.from, to, now, page)
    <3> HIDE DEF w
    <3>1. r = [w EXCEPT !.step = "insert", !.to = to, !.seen = now, !.page = page]
      OBVIOUS
    <3> HIDE DEF r
    <3> QED BY ONLY <1>2, <3>1, FetchedRecord
  <2> HIDE DEF r
  <2>2. TaskShape(r) /\ r.step = "insert" /\ r.mode = w.mode /\ r.from = w.from
        /\ r.to = to /\ r.seen = now /\ r.page = page
    BY <1>2, <1>3, <2>1, TaskFields
  <2>3. OldestOfRange(r)
    <3>1. page = PageOf(w.mode, w.from, to)
      BY DEF page
    <3>2. /\ page \subseteq Games /\ \A g \in page : g.at <= now
          /\ \A g \in Games, h \in page :
               g.mode = w.mode /\ w.from <= g.at /\ g.at < h.at => g \in page
          /\ Full(page) \/ \A g \in Games :
               g.mode = w.mode /\ w.from <= g.at /\ g.at <= to /\ g.at <= now => g \in page
      BY <1>2, <1>3, <3>1, PageIsTheOldest
    <3> QED BY <2>2, <3>2 DEF OldestOfRange
  <2>4. TaskInStep(r, catalogue', Known')
    BY <1>2, <1>4, <2>2, <2>3 DEF TaskInStep
  <2>5. TasksOk'
    BY <1>0, <1>1, <1>6, <2>2, <2>4, OneTaskMoves
  <2> QED BY <1>0, <1>1, <2>5, PassedOverNothing, PartsAfterwards DEF OtherShapes
<1> QED BY <1>5, <1>6

LEMMA DoneFields ==
  ASSUME NEW t \in Tasks, TaskShape(tasks[t])
  PROVE  /\ TaskShape(Done(t)) /\ Done(t).step = "pop" /\ Done(t).mode = tasks[t].mode
         /\ Done(t).to = tasks[t].to /\ Done(t).seen = tasks[t].seen
<1> DEFINE w == tasks[t]
<1>1. Done(t) = [w EXCEPT !.step = "pop", !.from = 0, !.page = {}]
  BY DEF Done
<1>2. TaskShape(w) /\ w.to \in Nat /\ w.seen \in Nat
  BY DEF TaskShape
<1> HIDE DEF w
<1>3. Done(t) = TaskRecord("pop", w.mode, 0, w.to, w.seen, {})
  BY ONLY <1>1, <1>2, DoneRecord
<1>4. /\ TaskShape(Done(t)) /\ Done(t).step = "pop" /\ Done(t).mode = w.mode
      /\ Done(t).to = w.to /\ Done(t).seen = w.seen
  BY <1>2, <1>3, TaskFields
<1> QED BY <1>4 DEF w

LEMMA MovingFields ==
  ASSUME NEW t \in Tasks, TaskShape(tasks[t]), NEW r, r = [tasks[t] EXCEPT !.step = "move"]
  PROVE  /\ TaskShape(r) /\ r.step = "move" /\ r.mode = tasks[t].mode /\ r.from = tasks[t].from
         /\ r.to = tasks[t].to /\ r.seen = tasks[t].seen /\ r.page = tasks[t].page
<1> DEFINE w == tasks[t]
<1>1. r = [w EXCEPT !.step = "move"] /\ TaskShape(w)
  OBVIOUS
<1>2. w.to \in Nat /\ w.seen \in Nat /\ w.from \in Nat
  BY DEF TaskShape
<1> HIDE DEF w
<1>3. r = TaskRecord("move", w.mode, w.from, w.to, w.seen, w.page)
  BY ONLY <1>1, SetStep
<1>4. /\ TaskShape(r) /\ r.step = "move" /\ r.mode = w.mode /\ r.from = w.from
      /\ r.to = w.to /\ r.seen = w.seen /\ r.page = w.page
  BY ONLY <1>2, <1>3 DEF TaskRecord, TaskShape
<1> QED BY <1>4 DEF w

\* A short page was the mode's last.
LEMMA ShortPageSweeps ==
  ASSUME NEW r, TaskShape(r), NEW games, NEW known, TaskInStep(r, games, known),
         r.step \in {"insert", "move"}, ~Full(r.page), NEW more, known \subseteq more,
         \A g \in r.page : g.usable => g \in more,
         NEW done, done.mode = r.mode, done.to = r.to, done.seen = r.seen
  PROVE  Swept(done, more)
<1> SUFFICES ASSUME NEW g \in Games, g.mode = r.mode, g.usable, g.at <= r.seen,
                    g.at <= r.to - MinGap
             PROVE  g \in more
  BY DEF Swept
<1>1. g.at \in Nat /\ MinGap \in Nat /\ r.to \in Nat /\ r.from \in Nat
  BY CatalogueAssumption DEF TaskShape
<1>2. Behind(r.mode, r.from, known) /\ OldestOfRange(r)
  BY DEF TaskInStep
<1>3. CASE g.at < r.from
  BY <1>2, <1>3 DEF Behind
<1>4. CASE r.from <= g.at
  <2>1. g.at <= r.to
    BY <1>1
  <2>2. g \in r.page
    BY <1>2, <1>4, <2>1 DEF OldestOfRange
  <2> QED BY <2>2
<1> QED BY <1>1, <1>3, <1>4

LEMMA InsertPageStep ==
  ASSUME GamesInv, NEW t \in Tasks, InsertPage(t)
  PROVE  GamesInv'
<1> DEFINE w == tasks[t]
           r == [w EXCEPT !.step = "move"]
<1>0. TasksOk /\ OtherShapes /\ NothingPassedOver
  BY PartsOfTheInvariant
<1>1. /\ w.step = "insert" /\ catalogue' = catalogue \union {g \in w.page : g.usable}
      /\ IF CaughtUp(w.from, w.page) THEN SetTask(t, Done(t)) ELSE SetTask(t, r)
      /\ UNCHANGED <<config, now, generation, rewound, requests, cursor, sweeps, excused>>
  BY DEF InsertPage, InsertGames, Kept, ToStep
<1>2. TaskShape(w) /\ TaskInStep(w, catalogue, Known) /\ TaskInStep(w, catalogue', Known')
  <2>1. TaskShape(w) /\ TaskInStep(w, catalogue, Known)
    BY <1>0 DEF TasksOk
  <2>2. catalogue \subseteq catalogue' /\ Known \subseteq Known'
    BY <1>1 DEF Known
  <2> HIDE DEF w
  <2> QED BY <2>1, <2>2, StaysInStep
<1>3. Known \subseteq Known' /\ catalogue' \subseteq Known' /\ \A g \in w.page : g.usable => g \in catalogue'
  BY <1>1 DEF Known
<1>4. NothingPassedOver' /\ OtherShapes'
  BY <1>0, <1>1, PassedOverNothing DEF OtherShapes
<1>5. CASE CaughtUp(w.from, w.page)
  <2>1. /\ TaskShape(Done(t)) /\ Done(t).step = "pop" /\ Done(t).mode = w.mode
        /\ Done(t).to = w.to /\ Done(t).seen = w.seen
    BY <1>2, DoneFields
  <2>2. ~Full(w.page)
    BY <1>5 DEF CaughtUp
  <2>3. Swept(Done(t), Known')
    <3> HIDE DEF w
    <3> QED BY <1>1, <1>2, <1>3, <2>1, <2>2, ShortPageSweeps
  <2>4. TaskInStep(Done(t), catalogue', Known')
    BY <2>1, <2>3 DEF TaskInStep
  <2>5. TasksOk'
    BY <1>0, <1>1, <1>5, <2>1, <2>4, OneTaskMoves
  <2> QED BY <1>4, <2>5, PartsAfterwards
<1>6. CASE ~CaughtUp(w.from, w.page)
  <2>1. /\ TaskShape(r) /\ r.step = "move" /\ r.mode = w.mode /\ r.from = w.from
        /\ r.to = w.to /\ r.seen = w.seen /\ r.page = w.page
    <3>1. r = [tasks[t] EXCEPT !.step = "move"]
      OBVIOUS
    <3> HIDE DEF r
    <3> QED BY <1>2, <3>1, MovingFields
  <2> HIDE DEF r
  <2>2. TaskInStep(r, catalogue', Known')
    BY <1>1, <1>2, <1>3, <2>1 DEF TaskInStep, OldestOfRange
  <2>3. TasksOk'
    BY <1>0, <1>1, <1>6, <2>1, <2>2, OneTaskMoves
  <2> QED BY <1>4, <2>3, PartsAfterwards
<1> QED BY <1>5, <1>6

\* A cursor that moves to where everything behind is known
LEMMA CursorMoves ==
  ASSUME OtherShapes, NothingPassedOver, NEW m, NEW next \in Nat, cursor' = SetCursor(m, next),
         Known \subseteq Known', Behind(m, next, Known')
  PROVE  NothingPassedOver' /\ cursor' \in [Modes -> Nat]
<1>1. cursor \in [Modes -> Nat]
  BY DEF OtherShapes
<1>2. cursor' \in [Modes -> Nat] /\ \A k \in Modes : cursor'[k] = IF k = m THEN next ELSE cursor[k]
  BY <1>1 DEF SetCursor
<1>3. \A g \in Games : g.mode \in Modes
  BY DEF Modes
<1>4. ASSUME NEW g \in Games, g.usable, g.at < cursor'[g.mode] PROVE g \in Known'
  <2>1. CASE g.mode = m
    BY <1>2, <1>3, <1>4, <2>1 DEF Behind
  <2>2. CASE g.mode # m
    BY <1>2, <1>3, <1>4, <2>2 DEF NothingPassedOver, Known
  <2> QED BY <2>1, <2>2
<1> QED BY <1>2, <1>4 DEF NothingPassedOver, Known

LEMMA MoveCursorStep ==
  ASSUME GamesInv, NEW t \in Tasks, MoveCursor(t)
  PROVE  GamesInv'
<1> DEFINE w == tasks[t]
           next == NextFrom(w.from, w.page)
           r == [Gone EXCEPT !.step = "fetch", !.mode = w.mode, !.from = next]
<1>0. TasksOk /\ OtherShapes /\ NothingPassedOver
  BY PartsOfTheInvariant
<1>1. /\ w.step = "move" /\ cursor' = SetCursor(w.mode, next)
      /\ excused' = IF Newest(w.from, w.page) > w.from THEN excused
                    ELSE excused \union {g \in Games : g.mode = w.mode /\ g.at = w.from}
      /\ SetTask(t, IF Full(w.page) THEN r ELSE Done(t))
      /\ UNCHANGED <<config, now, generation, rewound, requests, catalogue, sweeps>>
  BY DEF MoveCursor
<1>2. TaskShape(w) /\ TaskInStep(w, catalogue, Known)
  BY <1>0 DEF TasksOk
<1>3. /\ Known \subseteq Known' /\ catalogue \subseteq Known' /\ excused \subseteq excused'
      /\ \/ Newest(w.from, w.page) > w.from
         \/ \A g \in Games : g.mode = w.mode /\ g.at = w.from => g \in Known'
  BY <1>1 DEF Known
<1>4. next \in Nat /\ Behind(w.mode, next, Known')
  <2> HIDE DEF w
  <2> QED BY <1>1, <1>2, <1>3, PageIsPassed
<1> HIDE DEF next
<1>5. NothingPassedOver' /\ cursor' \in [Modes -> Nat]
  BY <1>0, <1>1, <1>3, <1>4, CursorMoves
<1>6. OtherShapes'
  BY <1>0, <1>1, <1>5 DEF OtherShapes
<1>7. CASE Full(w.page)
  <2>1. TaskShape(r) /\ r.step = "fetch" /\ r.mode = w.mode /\ r.from = next
    <3> DEFINE v == [Gone EXCEPT !.step = "fetch", !.mode = w.mode]
    <3>1. r = [v EXCEPT !.from = next]
      OBVIOUS
    <3>2. v = TaskRecord("fetch", w.mode, 0, 0, 0, {})
      BY GoneIsShaped, SetMode
    <3> HIDE DEF r, v, w
    <3>3. r = TaskRecord("fetch", w.mode, next, 0, 0, {})
      BY ONLY <3>1, <3>2 DEF TaskRecord
    <3> QED BY <1>4, <3>3, TaskFields
  <2> HIDE DEF r
  <2>2. TaskInStep(r, catalogue', Known')
    BY <1>4, <2>1 DEF TaskInStep
  <2>3. TasksOk'
    BY <1>0, <1>1, <1>3, <1>7, <2>1, <2>2, OneTaskMoves
  <2> QED BY <1>5, <1>6, <2>3, PartsAfterwards
<1>8. CASE ~Full(w.page)
  <2>1. /\ TaskShape(Done(t)) /\ Done(t).step = "pop" /\ Done(t).mode = w.mode
        /\ Done(t).to = w.to /\ Done(t).seen = w.seen
    BY <1>2, DoneFields
  <2>2. \A g \in w.page : g.usable => g \in Known'
    BY <1>1, <1>2, <1>3 DEF TaskInStep
  <2>3. Swept(Done(t), Known')
    <3> HIDE DEF w
    <3> QED BY <1>1, <1>2, <1>3, <1>8, <2>1, <2>2, ShortPageSweeps
  <2>4. TaskInStep(Done(t), catalogue', Known')
    BY <2>1, <2>3 DEF TaskInStep
  <2>5. TasksOk'
    BY <1>0, <1>1, <1>3, <1>8, <2>1, <2>4, OneTaskMoves
  <2> QED BY <1>5, <1>6, <2>5, PartsAfterwards
<1> QED BY <1>7, <1>8

\* An error takes the task out, whatever its last write came to.
LEMMA SyncFailsStep ==
  ASSUME GamesInv, NEW t \in Tasks, SyncFails(t)
  PROVE  GamesInv'
<1> DEFINE w == tasks[t]
           next == NextFrom(w.from, w.page)
<1>0. TasksOk /\ OtherShapes /\ NothingPassedOver
  BY PartsOfTheInvariant
<1>1. /\ SetTask(t, Leaving) /\ catalogue \subseteq catalogue'
      /\ cursor' = cursor \/ (w.step = "move" /\ cursor' = SetCursor(w.mode, next))
      /\ excused' = IF cursor' = cursor \/ Newest(w.from, w.page) > w.from THEN excused
                    ELSE excused \union {g \in Games : g.mode = w.mode /\ g.at = w.from}
      /\ UNCHANGED <<config, now, generation, rewound, requests, sweeps>>
  BY DEF SyncFails, InsertGames
<1>2. TaskShape(w) /\ TaskInStep(w, catalogue, Known)
  BY <1>0 DEF TasksOk
<1>3. Known \subseteq Known' /\ catalogue \subseteq Known' /\ excused \subseteq excused'
  BY <1>1 DEF Known
<1>4. TasksOk'
  BY <1>0, <1>1, <1>3, OneTaskMoves, EmptyHanded
<1>5. CASE cursor' = cursor
  <2>1. NothingPassedOver' /\ OtherShapes'
    BY <1>0, <1>1, <1>3, <1>5, PassedOverNothing DEF OtherShapes
  <2> QED BY <1>4, <2>1, PartsAfterwards
<1>6. CASE cursor' # cursor
  <2>1. w.step = "move" /\ cursor' = SetCursor(w.mode, next)
    BY <1>1, <1>6
  <2>2. \/ Newest(w.from, w.page) > w.from
        \/ \A g \in Games : g.mode = w.mode /\ g.at = w.from => g \in Known'
    BY <1>1, <1>6 DEF Known
  <2>3. next \in Nat /\ Behind(w.mode, next, Known')
    <3> HIDE DEF w
    <3> QED BY <1>2, <1>3, <2>1, <2>2, PageIsPassed
  <2> HIDE DEF next
  <2>4. NothingPassedOver' /\ cursor' \in [Modes -> Nat]
    BY <1>0, <1>3, <2>1, <2>3, CursorMoves
  <2>5. OtherShapes'
    BY <1>0, <1>1, <2>4 DEF OtherShapes
  <2> QED BY <1>4, <2>4, <2>5, PartsAfterwards
<1> QED BY <1>5, <1>6

LEMMA LeaveSweepStep ==
  ASSUME GamesInv, NEW t \in Tasks, LeaveSweep(t)
  PROVE  GamesInv'
<1> DEFINE w == sweeps[t[1]]
           r == [config |-> w.config, queue |-> w.queue, live |-> w.live - 1]
<1>0. TasksOk /\ OtherShapes /\ NothingPassedOver
  BY PartsOfTheInvariant
<1>1. /\ SetTask(t, Gone) /\ sweeps' = [sweeps EXCEPT ![t[1]].live = w.live - 1]
      /\ UNCHANGED <<config, now, generation, rewound, requests, cursor, catalogue, excused>>
  BY DEF LeaveSweep
<1>2. SweepShape(w) /\ t[1] \in Generations
  BY <1>0, GenerationOfTask DEF OtherShapes
<1>3. [w EXCEPT !.live = w.live - 1] = r
  <2> DEFINE k == w.live - 1
  <2>1. w = [config |-> w.config, queue |-> w.queue, live |-> w.live]
    BY <1>2 DEF SweepShape
  <2> HIDE DEF w, k
  <2>2. [w EXCEPT !.live = k] = [config |-> w.config, queue |-> w.queue, live |-> k]
    BY <2>1
  <2> QED BY <2>2 DEF k
<1>4. SweepShape(r)
  BY <1>2 DEF SweepShape
<1>5. sweeps' = [sweeps EXCEPT ![t[1]] = r]
  BY <1>1, <1>3
<1> HIDE DEF r
<1>6. generation' \in Nat
  BY <1>0, <1>1 DEF OtherShapes
<1>7. OtherShapes'
  BY <1>0, <1>1, <1>2, <1>4, <1>5, <1>6, SweepsKeepShape
<1>8. TasksOk'
  BY <1>0, <1>1, OneTaskMoves, EmptyHanded
<1>9. NothingPassedOver'
  BY <1>0, <1>1, PassedOverNothing
<1> QED BY <1>7, <1>8, <1>9, PartsAfterwards

LEMMA WorkerSteps ==
  ASSUME GamesInv, NEW t \in Tasks, WorkerStep(t) \/ SyncFails(t)
  PROVE  GamesInv'
  BY TakeModeStep, ReadCursorStep, FetchPageStep, InsertPageStep, MoveCursorStep,
     LeaveSweepStep, SyncFailsStep DEF WorkerStep

(***************************************************************************)
(* The requests                                                            *)
(***************************************************************************)

\* A request that only moves on
LEMMA RequestMoves ==
  ASSUME OtherShapes, NEW c \in Consoles, NEW r, RequestShape(r),
         requests' = [requests EXCEPT ![c] = r]
  PROVE  /\ requests' = [d \in Consoles |-> requests'[d]]
         /\ \A d \in Consoles : RequestShape(requests'[d])
         /\ \A d \in Consoles : requests'[d] = IF d = c THEN r ELSE requests[d]
<1>1. /\ requests' = [d \in Consoles |-> requests'[d]]
      /\ \A d \in Consoles : requests'[d] = IF d = c THEN r ELSE requests[d]
  BY DEF OtherShapes
<1> QED BY <1>1 DEF OtherShapes

\* Where Goto and Answer lead
LEMMA GotoIsShaped ==
  ASSUME OtherShapes, NEW c \in Consoles, NEW at, at \notin {"spawn", "file"},
         requests[c].at \notin {"spawn", "file"}, Goto(c, at)
  PROVE  \E r : /\ requests' = [requests EXCEPT ![c] = r]
                /\ RequestShape(r) /\ r.at = at /\ r.then = requests[c].then
<1> DEFINE r == [at |-> at, then |-> requests[c].then]
<1>1. requests[c] = [at |-> requests[c].at, then |-> requests[c].then]
  BY DEF OtherShapes, RequestShape
<1>2. [requests[c] EXCEPT !.at = at] = r
  BY <1>1
<1>3. requests' = [requests EXCEPT ![c] = r]
  BY <1>2 DEF Goto
<1>4. RequestShape(r) /\ r.at = at /\ r.then = requests[c].then
  BY DEF RequestShape
<1> QED BY <1>3, <1>4

LEMMA IdleIsShaped == RequestShape(Idle) /\ Idle.at = "idle"
  BY DEF RequestShape, Idle

LEMMA RewindingIsShaped ==
  ASSUME NEW r, r = [Idle EXCEPT !.at = "rewind"]
  PROVE  RequestShape(r) /\ r.at = "rewind"
  BY DEF RequestShape, Idle

\* A valid configuration names modes, and so does the queue it fills.
LEMMA SweepIsShaped ==
  ASSUME NEW c \in Configs, Valid(c)
  PROVE  SweepShape(SweepOf(c)) /\ SweepOf(c).live = Concurrency
<1>1. c.modes \in Seq(Modes)
  <2>1. c.modes \in Seq({c.modes[i] : i \in DOMAIN c.modes})
    BY CatalogueAssumption
  <2>2. \A i \in DOMAIN c.modes : c.modes[i] \in Modes
    BY DEF Valid
  <2> QED BY <2>1, <2>2
<1>2. c.from \in Nat /\ c.until \in Nat /\ Concurrency \in Int
  <2>1. c.from \in Nat /\ c.until \in Nat
    BY CatalogueAssumption
  <2>2. Concurrency \in Int
    BY CatalogueAssumption
  <2> QED BY <2>1, <2>2
<1> QED BY <1>1, <1>2 DEF SweepShape, SweepOf

\* What every step of a request but Spawn and Rewind does
LEMMA RequestKeepsGames ==
  ASSUME GamesInv, NEW c \in Consoles, NEW r, RequestShape(r),
         requests' = [requests EXCEPT ![c] = r],
         config' \in Configs, Valid(config)', generation' \in Nat,
         UNCHANGED <<sweeps, now, rewound, cursor, excused>>,
         catalogue \subseteq catalogue',
         tasks' = [t \in Tasks |-> tasks'[t]],
         \A t \in Tasks : tasks'[t] \in {Gone, tasks[t]}
  PROVE  GamesInv'
<1>0. TasksOk /\ OtherShapes /\ NothingPassedOver
  BY PartsOfTheInvariant
<1>1. /\ requests' = [d \in Consoles |-> requests'[d]]
      /\ \A d \in Consoles : RequestShape(requests'[d])
  BY <1>0, RequestMoves
<1>2. OtherShapes'
  BY <1>0, <1>1 DEF OtherShapes
<1>3. TasksOk'
  BY <1>0, TasksComeAndGo
<1>4. NothingPassedOver'
  BY <1>0, PassedOverNothing
<1> QED BY <1>2, <1>3, <1>4, PartsAfterwards

LEMMA SpawnKeepsGames ==
  ASSUME GamesInv, NEW c \in Consoles, Spawn(c)
  PROVE  GamesInv'
<1> DEFINE n == generation + 1
           r == [at |-> "file", then |-> "answer", sweep |-> n]
           w == SweepOf(requests[c].config)
<1>0. TasksOk /\ OtherShapes /\ NothingPassedOver
  BY PartsOfTheInvariant
<1>1. /\ requests[c].at = "spawn" /\ generation' = n /\ sweeps' = [sweeps EXCEPT ![n] = w]
      /\ tasks' = [t \in Tasks |-> IF t[1] = n THEN Fresh ELSE tasks[t]]
      /\ requests' = [requests EXCEPT ![c] = r]
      /\ UNCHANGED <<config, cursor, catalogue, now, excused, rewound>>
  BY DEF Spawn
<1>2. RequestShape(r)
  BY DEF RequestShape
<1>3. SweepShape(w)
  BY <1>0, <1>1, SweepIsShaped DEF OtherShapes, RequestShape
<1>4. n \in Nat
  BY <1>0 DEF OtherShapes
<1> HIDE DEF n, r, w
<1>5. /\ requests' = [d \in Consoles |-> requests'[d]]
      /\ \A d \in Consoles : RequestShape(requests'[d])
  BY <1>0, <1>1, <1>2, RequestMoves
<1>6. /\ sweeps' = [k \in Generations |-> sweeps'[k]]
      /\ \A k \in Generations : sweeps'[k] = IF k = n THEN w ELSE sweeps[k]
  BY <1>0, <1>1 DEF OtherShapes
<1>7. OtherShapes'
  BY <1>0, <1>1, <1>3, <1>4, <1>5, <1>6 DEF OtherShapes
<1>8. TasksOk'
  BY <1>0, <1>1, TasksComeAndGo
<1>9. NothingPassedOver'
  BY <1>0, <1>1, PassedOverNothing
<1> QED BY <1>7, <1>8, <1>9, PartsAfterwards

LEMMA RewindKeepsGames ==
  ASSUME GamesInv, NEW c \in Consoles, Rewind(c)
  PROVE  GamesInv'
<1>0. TasksOk /\ OtherShapes /\ NothingPassedOver
  BY PartsOfTheInvariant
<1>1. /\ requests' = [requests EXCEPT ![c] = Idle]
      /\ UNCHANGED <<config, generation, sweeps, tasks, catalogue, now>>
  BY DEF Rewind, Answer, sweepVars
<1>2. /\ requests' = [d \in Consoles |-> requests'[d]]
      /\ \A d \in Consoles : RequestShape(requests'[d])
  BY <1>0, <1>1, RequestMoves, IdleIsShaped
<1>3. excused \subseteq excused' /\ rewound' \in Nat
  BY <1>0 DEF Rewind, OtherShapes
<1>4. TasksOk'
  BY <1>0, <1>1, <1>3, TasksComeAndGo DEF TasksOk
<1>5. CASE UNCHANGED <<cursor, excused, rewound>>
  <2>1. NothingPassedOver' /\ OtherShapes'
    BY <1>0, <1>1, <1>2, <1>3, <1>5, PassedOverNothing DEF OtherShapes
  <2> QED BY <1>4, <2>1, PartsAfterwards
<1>6. CASE /\ cursor' = RewindCursors(config.from)
           /\ excused' = excused \union {g \in Games : g.at < config.from}
  <2>1. config.from \in Nat /\ cursor \in [Modes -> Nat]
    BY <1>0, CatalogueAssumption DEF OtherShapes
  <2>2. cursor' \in [Modes -> Nat] /\ \A m \in Modes : cursor'[m] \in {0, config.from}
    BY <1>6, <2>1 DEF RewindCursors
  <2>3. OtherShapes'
    BY <1>0, <1>1, <1>2, <1>3, <2>2 DEF OtherShapes
  <2>4. ASSUME NEW g \in Games, g.at < cursor'[g.mode] PROVE g \in excused'
    <3>1. g.mode \in Modes /\ g.at \in Nat
      BY CatalogueAssumption DEF Modes
    <3>2. cursor'[g.mode] = config.from
      BY <2>2, <2>4, <3>1
    <3> QED BY <1>6, <2>4, <3>2
  <2>5. NothingPassedOver'
    BY <2>4 DEF NothingPassedOver
  <2> QED BY <1>4, <2>3, <2>5, PartsAfterwards
<1> QED BY <1>5, <1>6 DEF Rewind

\* stop_tasks leaves every task as it was or gone.
LEMMA StopTasksFacts ==
  ASSUME StopTasks
  PROVE  /\ tasks' = [t \in Tasks |-> tasks'[t]] /\ held' = {}
         /\ \A t \in Tasks : tasks'[t] = IF t \in held THEN Gone ELSE tasks[t]
  BY DEF StopTasks

LEMMA ConsoleKeepsGames ==
  ASSUME GamesInv, NEW c \in Consoles,
         Ask(c) \/ PutConfig(c) \/ PostGames(c) \/ RequestStep(c)
  PROVE  GamesInv'
<1>0. TasksOk /\ OtherShapes /\ NothingPassedOver
  BY PartsOfTheInvariant
<1>a. /\ config \in Configs /\ Valid(config) /\ generation \in Nat
      /\ tasks = [t \in Tasks |-> tasks[t]]
  BY <1>0 DEF OtherShapes, TasksOk
<1>b. UNCHANGED config => Valid(config)'
  BY <1>a DEF Valid
<1>c. UNCHANGED tasks => /\ tasks' = [t \in Tasks |-> tasks'[t]]
                         /\ \A t \in Tasks : tasks'[t] \in {Gone, tasks[t]}
  BY <1>a
<1>d. StopTasks => /\ tasks' = [t \in Tasks |-> tasks'[t]]
                   /\ \A t \in Tasks : tasks'[t] \in {Gone, tasks[t]}
  BY StopTasksFacts
<1>e. ASSUME NEW at, Goto(c, at), at \notin {"spawn", "file"},
             requests[c].at \notin {"spawn", "file"}
      PROVE  \E r : RequestShape(r) /\ requests' = [requests EXCEPT ![c] = r]
  BY <1>0, <1>e, GotoIsShaped
<1>1. CASE Ask(c)
  <2>1. PICK at \in {"start", "stop", "check"} : Goto(c, at)
    BY <1>1 DEF Ask
  <2>2. requests[c].at = "idle"
    BY <1>1, IdleIsShaped DEF Ask, MayAsk
  <2>3. PICK r : RequestShape(r) /\ requests' = [requests EXCEPT ![c] = r]
    BY <1>e, <2>1, <2>2
  <2>4. UNCHANGED <<config, generation, sweeps, tasks, now, rewound, cursor, excused, catalogue>>
    BY <1>1 DEF Ask, sweepVars
  <2> QED BY <1>a, <1>b, <1>c, <2>3, <2>4, RequestKeepsGames
<1>2. CASE PutConfig(c)
  <2>1. PICK next \in {d \in Configs : Valid(d)} :
          config' = next /\ Goto(c, IF next.enabled THEN "start" ELSE "stop")
    BY <1>2 DEF PutConfig
  <2>a. (IF next.enabled THEN "start" ELSE "stop") \in {"start", "stop"}
    OBVIOUS
  <2>2. requests[c].at = "idle"
    BY <1>2, IdleIsShaped DEF PutConfig, MayAsk
  <2>3. PICK r : RequestShape(r) /\ requests' = [requests EXCEPT ![c] = r]
    BY <1>e, <2>1, <2>a, <2>2
  <2>4. UNCHANGED <<generation, sweeps, tasks, now, rewound, cursor, excused, catalogue>>
    BY <1>2 DEF PutConfig, sweepVars
  <2>5. config' \in Configs /\ Valid(config)'
    BY <2>1 DEF Valid
  <2> QED BY <1>a, <1>c, <2>3, <2>4, <2>5, RequestKeepsGames
<1>3. CASE PostGames(c)
  <2>1. /\ UNCHANGED <<config, generation, sweeps, tasks, now, rewound, cursor, excused, requests>>
        /\ catalogue \subseteq catalogue'
    BY <1>3 DEF PostGames, InsertGames, sweepVars
  <2>2. OtherShapes' /\ NothingPassedOver'
    BY <1>0, <1>b, <2>1, PassedOverNothing DEF OtherShapes
  <2>3. TasksOk'
    BY <1>0, <1>c, <2>1, TasksComeAndGo
  <2> QED BY <2>2, <2>3, PartsAfterwards
<1>4. CASE StartStops(c)
  <2> DEFINE r == [at |-> "spawn", then |-> "answer", config |-> config]
  <2>1. RequestShape(r)
    BY <1>a DEF RequestShape
  <2>2. /\ requests' = [requests EXCEPT ![c] = r] /\ StopTasks
        /\ UNCHANGED <<config, generation, sweeps, now, rewound, cursor, excused, catalogue>>
    BY <1>4 DEF StartStops
  <2> HIDE DEF r
  <2> QED BY <1>a, <1>b, <1>d, <2>1, <2>2, RequestKeepsGames
<1>5. CASE File(c)
  <2>1. /\ requests' = [requests EXCEPT ![c] = Idle]
        /\ UNCHANGED <<config, generation, sweeps, tasks, now, rewound, cursor, excused, catalogue>>
    BY <1>5 DEF File, Answer, sweepVars
  <2> QED BY <1>a, <1>b, <1>c, <2>1, IdleIsShaped, RequestKeepsGames
<1>6. CASE StopBumps(c)
  <2>1. PICK r : RequestShape(r) /\ requests' = [requests EXCEPT ![c] = r]
    BY <1>e, <1>6 DEF StopBumps
  <2>2. /\ generation' \in Nat
        /\ UNCHANGED <<config, sweeps, tasks, now, rewound, cursor, excused, catalogue>>
    BY <1>a, <1>6 DEF StopBumps, sweepVars
  <2> QED BY <1>a, <1>b, <1>c, <2>1, <2>2, RequestKeepsGames
<1>7. CASE StopAborts(c)
  <2>1. PICK r : RequestShape(r) /\ requests' = [requests EXCEPT ![c] = r]
    BY <1>e, <1>7 DEF StopAborts
  <2>2. /\ StopTasks
        /\ UNCHANGED <<config, generation, sweeps, now, rewound, cursor, excused, catalogue>>
    BY <1>7 DEF StopAborts
  <2> QED BY <1>a, <1>b, <1>d, <2>1, <2>2, RequestKeepsGames
<1>8. CASE StopSettles(c)
  <2>1. PICK r : RequestShape(r) /\ requests' = [requests EXCEPT ![c] = r]
    BY <1>8, IdleIsShaped, RewindingIsShaped DEF StopSettles, Answer
  <2>2. UNCHANGED <<config, generation, sweeps, tasks, now, rewound, cursor, excused, catalogue>>
    BY <1>8 DEF StopSettles, sweepVars
  <2> QED BY <1>a, <1>b, <1>c, <2>1, <2>2, RequestKeepsGames
<1>9. CASE ResetChecks(c)
  <2> DEFINE stop == [at |-> "stop", then |-> "rewind"]
             rewind == [Idle EXCEPT !.at = "rewind"]
  <2>1. RequestShape(stop) /\ RequestShape(rewind)
    BY RewindingIsShaped DEF RequestShape
  <2>2. /\ \E r \in {stop, rewind} : requests' = [requests EXCEPT ![c] = r]
        /\ UNCHANGED <<config, generation, sweeps, tasks, now, rewound, cursor, excused, catalogue>>
    BY <1>9 DEF ResetChecks, sweepVars
  <2> HIDE DEF stop, rewind
  <2>3. PICK r : RequestShape(r) /\ requests' = [requests EXCEPT ![c] = r]
    BY <2>1, <2>2
  <2> QED BY <1>a, <1>b, <1>c, <2>2, <2>3, RequestKeepsGames
<1> QED BY <1>1, <1>2, <1>3, <1>4, <1>5, <1>6, <1>7, <1>8, <1>9, SpawnKeepsGames,
           RewindKeepsGames DEF RequestStep

LEMMA RebootKeepsGames ==
  ASSUME GamesInv, Reboot
  PROVE  GamesInv'
<1>0. TasksOk /\ OtherShapes /\ NothingPassedOver
  BY PartsOfTheInvariant
<1>1. UNCHANGED <<config, cursor, catalogue, now, excused>> /\ rewound' = 0 /\ generation' \in {0, 1}
  BY DEF Reboot
<1>2. /\ tasks' = [t \in Tasks |-> tasks'[t]] /\ \A t \in Tasks : tasks'[t] \in {Gone, Fresh}
  BY DEF Reboot
<1>3. TasksOk'
  BY <1>0, <1>1, <1>2, TasksComeAndGo
<1>4. SweepShape(NoSweep) /\ SweepShape(SweepOf(config))
  <2>1. SweepShape(SweepOf(config))
    BY <1>0, SweepIsShaped DEF OtherShapes
  <2>2. << >> \in Seq(Modes)
    OBVIOUS
  <2>3. SweepShape(NoSweep)
    BY <2>2 DEF SweepShape, NoSweep
  <2> QED BY <2>1, <2>3
<1>5. /\ sweeps' = [n \in Generations |-> sweeps'[n]]
      /\ \A n \in Generations : sweeps'[n] \in {NoSweep, SweepOf(config)}
  BY DEF Reboot
<1>6. \A n \in Generations : SweepShape(sweeps'[n])
  BY <1>4, <1>5
<1>7. /\ requests' = [c \in Consoles |-> requests'[c]]
      /\ \A c \in Consoles : requests'[c] = Idle
  BY DEF Reboot
<1>8. \A c \in Consoles : RequestShape(requests'[c])
  BY <1>7, IdleIsShaped
<1>9. Valid(config)'
  BY <1>0, <1>1 DEF OtherShapes, Valid
<1>10. OtherShapes'
  BY <1>0, <1>1, <1>5, <1>6, <1>7, <1>8, <1>9 DEF OtherShapes
<1>11. NothingPassedOver'
  BY <1>0, <1>1, PassedOverNothing
<1> QED BY <1>3, <1>10, <1>11, PartsAfterwards

LEMMA GamesStart == Init => GamesInv
<1> SUFFICES ASSUME Init PROVE GamesInv
  OBVIOUS
<1>1. TasksOk
  BY EmptyHanded DEF Init, TasksOk
<1>2. << >> \in Seq(Modes)
  OBVIOUS
<1>3. SweepShape(NoSweep)
  BY <1>2 DEF SweepShape, NoSweep
<1>4. now \in Nat
  <2>1. MaxNow \in Nat /\ MaxNow - 1 \in Nat
    BY CatalogueAssumption
  <2> QED BY <2>1 DEF Init
<1>5. OtherShapes
  BY <1>3, <1>4, IdleIsShaped DEF Init, OtherShapes
<1>6. NothingPassedOver
  <2>1. \A g \in Games : g.mode \in Modes /\ g.at \in Nat
    BY CatalogueAssumption DEF Modes
  <2> QED BY <2>1 DEF Init, NothingPassedOver
<1> QED BY <1>1, <1>5, <1>6, PartsOfTheInvariant

LEMMA GamesStep == GamesInv /\ [Next]_vars => GamesInv'
<1> SUFFICES ASSUME GamesInv, [Next]_vars PROVE GamesInv'
  OBVIOUS
<1>0. TasksOk /\ OtherShapes /\ NothingPassedOver
  BY PartsOfTheInvariant
<1>1. CASE \E t \in Tasks : WorkerStep(t) \/ SyncFails(t)
  BY <1>1, WorkerSteps
<1>2. CASE \E c \in Consoles : Ask(c) \/ PutConfig(c) \/ PostGames(c) \/ RequestStep(c)
  BY <1>2, ConsoleKeepsGames
<1>3. CASE Tick \/ UNCHANGED vars
  <2>1. /\ UNCHANGED <<config, generation, sweeps, tasks, requests, cursor, catalogue, excused, rewound>>
        /\ now' \in Nat
    BY <1>0, <1>3 DEF Tick, vars, sweepVars, OtherShapes
  <2>2. Valid(config)'
    BY <1>0, <2>1 DEF OtherShapes, Valid
  <2>3. OtherShapes' /\ NothingPassedOver'
    BY <1>0, <2>1, <2>2, PassedOverNothing DEF OtherShapes
  <2>4. TasksOk'
    BY <1>0, <2>1, TasksComeAndGo DEF TasksOk
  <2> QED BY <2>3, <2>4, PartsAfterwards
<1> QED BY <1>1, <1>2, <1>3, RebootKeepsGames DEF Next

\* What sync_mode holds is in step with the catalogue, in every state.
THEOREM SweepsStayInStep == Spec => []GamesInv
  BY GamesStart, GamesStep, PTL DEF Spec

\* No cursor passes a game the catalogue lacks, whatever page, error, abort or
\* crash lies between insert_paipuya_games and set_paipuya_cursor.
THEOREM CursorsPassNothing == Spec => []NothingPassedOver
<1>1. GamesInv => NothingPassedOver
  BY DEF GamesInv
<1> QED BY <1>1, SweepsStayInStep, PTL

\* A mode sync_mode is done with has every game up to the edge of its sweep.
THEOREM ModesAreSwept == Spec => []SweptToTheEdge
<1>1. GamesInv => SweptToTheEdge
  BY DEF GamesInv, TaskInStep, Swept, SweptToTheEdge, Known
<1> QED BY <1>1, SweepsStayInStep, PTL

(***************************************************************************)
(* Sweeps, while requests are answered one at a time                       *)
(***************************************************************************)

LEMMA WorkersAreFew ==
  ASSUME NEW S, S \subseteq 1 .. Concurrency
  PROVE  IsFiniteSet(S) /\ Cardinality(S) \in Nat /\ Cardinality(S) <= Concurrency
<1>1. Concurrency \in Nat /\ Concurrency >= 1
  BY CatalogueAssumption
<1>2. IsFiniteSet(1 .. Concurrency) /\ Cardinality(1 .. Concurrency) = Concurrency
  BY <1>1, FS_Interval
<1>3. IsFiniteSet(S) /\ Cardinality(S) <= Cardinality(1 .. Concurrency)
  BY <1>2, FS_Subset
<1> QED BY <1>2, <1>3, FS_CardinalityType

\* The count of a sweep is kept while none of its workers comes to life.
LEMMA CountIsKept ==
  ASSUME NEW n \in Generations, Cardinality(Working(n)) <= sweeps[n].live,
         sweeps[n].live \in Int, sweeps'[n].live = sweeps[n].live,
         \A t \in Tasks : Alive(t)' => Alive(t)
  PROVE  Cardinality(Working(n))' <= sweeps'[n].live
<1> DEFINE W == Working(n)
           V == {i \in 1 .. Concurrency : Alive(<<n, i>>)'}
<1>1. \A i \in 1 .. Concurrency : <<n, i>> \in Tasks
  BY DEF Tasks
<1>2. V \subseteq W /\ W \subseteq 1 .. Concurrency
  BY <1>1 DEF Working
<1>3. Working(n)' = V
  BY DEF Working
<1> HIDE DEF V, W
<1>4. IsFiniteSet(W)
  BY <1>2, WorkersAreFew
<1>5. Cardinality(V) <= Cardinality(W)
  BY <1>2, <1>4, FS_Subset
<1>6. Cardinality(V) \in Nat /\ Cardinality(W) \in Nat
  BY <1>2, WorkersAreFew
<1> QED BY <1>3, <1>5, <1>6 DEF W

\* A worker that goes on, or fails, or is the first to leave
LEMMA WorkersKeepSweeps ==
  ASSUME Shapes, OneSweepAlive, UNCHANGED <<generation, held, requests, rewound>>,
         phase' # "stopped" \/ phase' = phase,
         \A t \in Tasks : Alive(t)' => Alive(t),
         \A n \in Generations : sweeps'[n].live = sweeps[n].live
  PROVE  OneSweepAlive'
<1>1. \A S : Pending(S)' = Pending(S)
  BY DEF Pending
<1>2. \A n \in Generations : Cardinality(Working(n))' <= sweeps'[n].live
  BY CountIsKept DEF OneSweepAlive, Shapes, SweepShape
<1>3. ASSUME NEW t \in Tasks, Alive(t)'
      PROVE  /\ t \in held \/ Pending({"file"})
             /\ IF Pending({"abort"}) THEN t[1] < generation ELSE t[1] = generation
             /\ t[1] > rewound
             /\ phase' # "stopped" /\ ~Pending({"spawn", "settle", "rewind"})
  BY <1>3 DEF OneSweepAlive
<1> QED BY <1>1, <1>2, <1>3 DEF OneSweepAlive

\* The tasks a step of one worker leaves alive
LEMMA OneTaskAlive ==
  ASSUME Shapes, NEW t \in Tasks, NEW r, SetTask(t, r), Alive(t)
  PROVE  \A u \in Tasks : Alive(u)' => Alive(u)
<1>1. \A u \in Tasks : tasks'[u] = IF u = t THEN r ELSE tasks[u]
  BY DEF Shapes, SetTask
<1> QED BY <1>1 DEF Alive

LEMMA TakeModeKeepsSweeps ==
  ASSUME Shapes, OneSweepAlive, NEW t \in Tasks, TakeMode(t)
  PROVE  OneSweepAlive'
<1>0. Alive(t) /\ t[1] \in Generations
  BY GenerationOfTask DEF TakeMode, Alive
<1>1. /\ UNCHANGED <<generation, held, requests, rewound, phase>>
      /\ \E r : SetTask(t, r)
  BY DEF TakeMode
<1>2. \A u \in Tasks : Alive(u)' => Alive(u)
  BY <1>0, <1>1, OneTaskAlive
<1>3. \A n \in Generations : sweeps'[n].live = sweeps[n].live
  <2>1. CASE UNCHANGED sweeps
    BY <2>1
  <2>2. CASE sweeps' # sweeps
    <3> DEFINE q == sweeps[t[1]].queue
               rest == SubSeq(q, 1, Len(q) - 1)
    <3>1. sweeps' = [sweeps EXCEPT ![t[1]].queue = rest]
      BY <2>2 DEF TakeMode
    <3> HIDE DEF rest
    <3>2. \A n \in Generations :
            sweeps'[n] = IF n = t[1] THEN [sweeps[n] EXCEPT !.queue = rest] ELSE sweeps[n]
      BY <1>0, <3>1 DEF Shapes
    <3>3. \A n \in Generations : [sweeps[n] EXCEPT !.queue = rest].live = sweeps[n].live
      BY DEF Shapes, SweepShape
    <3> QED BY <3>2, <3>3
  <2> QED BY <2>1, <2>2
<1> QED BY <1>1, <1>2, <1>3, WorkersKeepSweeps

\* The last worker out: nothing of its sweep is left, and there is no other.
LEMMA LeaveSweepKeepsSweeps ==
  ASSUME Shapes, OneSweepAlive, NEW t \in Tasks, LeaveSweep(t)
  PROVE  OneSweepAlive'
<1> DEFINE n == t[1]
           W == Working(n)
           V == W \ {t[2]}
<1>0. /\ t[1] \in Generations /\ t[2] \in 1 .. Concurrency /\ t = <<t[1], t[2]>>
      /\ Alive(t) /\ Gone.step = "gone"
  BY GenerationOfTask DEF LeaveSweep, Alive, Gone
<1>1. /\ SetTask(t, Gone) /\ sweeps' = [sweeps EXCEPT ![t[1]].live = sweeps[t[1]].live - 1]
      /\ phase' = IF Completes(t[1]) THEN "stopped" ELSE phase
      /\ UNCHANGED <<generation, held, requests, rewound>>
  BY DEF LeaveSweep
<1>2. \A u \in Tasks : tasks'[u] = IF u = t THEN Gone ELSE tasks[u]
  BY <1>1 DEF Shapes, SetTask
<1>3. \A u \in Tasks : Alive(u)' <=> Alive(u) /\ u # t
  BY <1>0, <1>2 DEF Alive
<1>4. /\ \A k \in Generations : k # n => sweeps'[k].live = sweeps[k].live
      /\ sweeps'[n].live = sweeps[n].live - 1 /\ sweeps[n].live \in Int
  <2>1. \A k \in Generations :
          sweeps'[k] = IF k = n THEN [sweeps[k] EXCEPT !.live = sweeps[n].live - 1] ELSE sweeps[k]
    BY <1>0, <1>1 DEF Shapes
  <2>2. [sweeps[n] EXCEPT !.live = sweeps[n].live - 1].live = sweeps[n].live - 1
    BY <1>0 DEF Shapes, SweepShape
  <2>3. sweeps[n].live \in Int
    BY <1>0 DEF Shapes, SweepShape
  <2> QED BY <1>0, <2>1, <2>2, <2>3
<1>5. Working(n)' = V /\ t[2] \in W /\ W \subseteq 1 .. Concurrency
  <2>1. \A i \in 1 .. Concurrency : <<n, i>> \in Tasks /\ (<<n, i>> = t <=> i = t[2])
    BY <1>0 DEF Tasks
  <2>2. Working(n)' = {i \in 1 .. Concurrency : Alive(<<n, i>>)'}
    BY DEF Working
  <2>3. \A i \in 1 .. Concurrency : Alive(<<n, i>>)' <=> Alive(<<n, i>>) /\ i # t[2]
    BY <1>3, <2>1
  <2> QED BY <1>0, <2>1, <2>2, <2>3 DEF Working
<1> HIDE DEF W
<1>6. IsFiniteSet(W) /\ Cardinality(W) \in Nat
  BY <1>5, WorkersAreFew
<1>7. Cardinality(V) = Cardinality(W) - 1 /\ IsFiniteSet(V)
  BY <1>5, <1>6, FS_RemoveElement
<1> HIDE DEF V
<1>8. Cardinality(W) <= sweeps[n].live
  BY <1>0 DEF OneSweepAlive, W
<1>9. \A k \in Generations : Cardinality(Working(k))' <= sweeps'[k].live
  <2>1. Cardinality(Working(n))' <= sweeps'[n].live
    BY <1>4, <1>5, <1>6, <1>7, <1>8
  <2>2. ASSUME NEW k \in Generations, k # n PROVE Cardinality(Working(k))' <= sweeps'[k].live
    BY <1>3, <1>4, <2>2, CountIsKept DEF OneSweepAlive, Shapes, SweepShape
  <2> QED BY <2>1, <2>2
<1>10. Completes(n) => \A u \in Tasks : ~Alive(u)'
  <2> SUFFICES ASSUME Completes(n), NEW u \in Tasks, Alive(u)' PROVE FALSE
    OBVIOUS
  <2>1. sweeps[n].live = 1 /\ generation = n
    BY DEF Completes, LastOut
  <2>2. Cardinality(V) = 0
    <3>1. Cardinality(V) \in Nat
      BY <1>7, FS_CardinalityType
    <3> QED BY <1>6, <1>7, <1>8, <2>1, <3>1
  <2>3. V = {}
    BY <1>7, <2>2, FS_EmptySet
  <2>4. n \in Nat
    BY <1>0 DEF Generations
  <2>5. ~Pending({"abort"})
    BY <1>0, <2>1, <2>4 DEF OneSweepAlive
  <2>6. u[1] = n /\ u[2] \in 1 .. Concurrency /\ u = <<u[1], u[2]>>
    BY <1>3, <2>1, <2>5, GenerationOfTask DEF OneSweepAlive
  <2>7. u[2] \in Working(n)'
    BY <2>6 DEF Working
  <2> QED BY <1>5, <2>3, <2>7
<1>11. \A S : Pending(S)' = Pending(S)
  BY <1>1 DEF Pending
<1>12. ASSUME NEW u \in Tasks, Alive(u)'
       PROVE  /\ u \in held \/ Pending({"file"})
              /\ IF Pending({"abort"}) THEN u[1] < generation ELSE u[1] = generation
              /\ u[1] > rewound
              /\ phase' # "stopped" /\ ~Pending({"spawn", "settle", "rewind"})
  BY <1>1, <1>3, <1>10, <1>12 DEF OneSweepAlive
<1> QED BY <1>1, <1>9, <1>11, <1>12 DEF OneSweepAlive

LEMMA WorkerStepsKeepSweeps ==
  ASSUME Shapes, OneSweepAlive, NEW t \in Tasks, WorkerStep(t) \/ SyncFails(t)
  PROVE  OneSweepAlive'
<1>1. CASE ReadCursor(t) \/ FetchPage(t) \/ InsertPage(t) \/ MoveCursor(t) \/ SyncFails(t)
  <2>1. Alive(t) /\ \E r : SetTask(t, r)
    BY <1>1 DEF Alive, ReadCursor, FetchPage, InsertPage, MoveCursor, SyncFails, ToStep
  <2>2. /\ UNCHANGED <<generation, held, requests, rewound, sweeps>>
        /\ phase' = phase \/ phase' = "failed"
    BY <1>1 DEF ReadCursor, FetchPage, InsertPage, MoveCursor, SyncFails
  <2>3. \A u \in Tasks : Alive(u)' => Alive(u)
    BY <2>1, OneTaskAlive
  <2> QED BY <2>2, <2>3, WorkersKeepSweeps
<1> QED BY <1>1, TakeModeKeepsSweeps, LeaveSweepKeepsSweeps DEF WorkerStep

\* What holds of the sweeps once the only request c has come to r
LEMMA OnlyRequest ==
  ASSUME Shapes, NEW c \in Consoles, \A d \in Consoles : d # c => requests[d].at = "idle",
         NEW r, requests' = [requests EXCEPT ![c] = r],
         r.at = "file" => r.sweep = generation',
         rewound' <= generation',
         \A t \in Tasks : Alive(t)' =>
           /\ t \in held' \/ r.at = "file"
           /\ IF r.at = "abort" THEN t[1] < generation' ELSE t[1] = generation'
           /\ t[1] > rewound'
           /\ phase' # "stopped" /\ r.at \notin {"spawn", "settle", "rewind"},
         \A n \in Generations : Cardinality(Working(n))' <= sweeps'[n].live
  PROVE  OneSweepAlive'
<1>1. \A d \in Consoles : requests'[d] = IF d = c THEN r ELSE requests[d]
  BY DEF Shapes
<1>2. \A d \in Consoles : d # c => requests'[d].at = "idle"
  BY <1>1
<1>3. \A S : "idle" \notin S => (Pending(S)' <=> r.at \in S)
  BY <1>1, <1>2 DEF Pending
<1>4. /\ Pending({"file"})' <=> r.at = "file"
      /\ Pending({"abort"})' <=> r.at = "abort"
      /\ Pending({"spawn", "settle", "rewind"})' <=> r.at \in {"spawn", "settle", "rewind"}
  BY <1>3
<1> QED BY <1>1, <1>2, <1>4 DEF OneSweepAlive

\* and before it did
LEMMA BeforeRequest ==
  ASSUME OneSweepAlive, NEW c \in Consoles, \A d \in Consoles : d # c => requests[d].at = "idle"
  PROVE  /\ \A t \in Tasks : Alive(t) =>
              /\ t \in held \/ requests[c].at = "file"
              /\ IF requests[c].at = "abort" THEN t[1] < generation ELSE t[1] = generation
              /\ t[1] > rewound
              /\ phase # "stopped" /\ requests[c].at \notin {"spawn", "settle", "rewind"}
         /\ rewound <= generation
         /\ requests[c].at = "file" => requests[c].sweep = generation
<1>1. \A S : "idle" \notin S => (Pending(S) <=> requests[c].at \in S)
  BY DEF Pending
<1>2. /\ Pending({"file"}) <=> requests[c].at = "file"
      /\ Pending({"abort"}) <=> requests[c].at = "abort"
      /\ Pending({"spawn", "settle", "rewind"}) <=>
           requests[c].at \in {"spawn", "settle", "rewind"}
  BY <1>1
<1> QED BY <1>2 DEF OneSweepAlive

\* Asking, checking, counting the generation up and answering leave the tasks.
LEMMA RequestKeepsTasks ==
  ASSUME Shapes, OneSweepAlive, NEW c \in Consoles,
         \A d \in Consoles : d # c => requests[d].at = "idle",
         NEW r, requests' = [requests EXCEPT ![c] = r],
         UNCHANGED <<sweeps, tasks, held, generation, rewound, phase>>,
         requests[c].at \notin {"abort", "file"},
         r.at \in {"idle", "start", "stop", "check", "rewind"},
         r.at = "rewind" => \A t \in Tasks : ~Alive(t)
  PROVE  OneSweepAlive'
<1>1. \A t \in Tasks : Alive(t)' <=> Alive(t)
  BY DEF Alive
<1>2. \A n \in Generations : Cardinality(Working(n))' <= sweeps'[n].live
  BY <1>1, CountIsKept DEF OneSweepAlive, Shapes, SweepShape
<1>3. \A t \in Tasks : Alive(t)' =>
           /\ t \in held' \/ r.at = "file"
           /\ IF r.at = "abort" THEN t[1] < generation' ELSE t[1] = generation'
           /\ t[1] > rewound'
           /\ phase' # "stopped" /\ r.at \notin {"spawn", "settle", "rewind"}
  BY <1>1, BeforeRequest
<1>4. rewound' <= generation'
  BY BeforeRequest
<1> QED BY <1>2, <1>3, <1>4, OnlyRequest

\* stop_tasks leaves nothing alive once there is no sweep still to be filed.
LEMMA StopTasksEndsAll ==
  ASSUME Shapes, OneSweepAlive, NEW c \in Consoles,
         \A d \in Consoles : d # c => requests[d].at = "idle",
         NEW r, requests' = [requests EXCEPT ![c] = r], r.at \in {"spawn", "settle"},
         requests[c].at # "file", StopTasks,
         UNCHANGED <<sweeps, generation, rewound, phase>>
  PROVE  OneSweepAlive'
<1>1. \A t \in Tasks : tasks'[t] = IF t \in held THEN Gone ELSE tasks[t]
  BY StopTasksFacts
<1>2. Gone.step = "gone"
  BY DEF Gone
<1>3. \A t \in Tasks : Alive(t) => t \in held
  BY BeforeRequest
<1>4. \A t \in Tasks : ~Alive(t)'
  BY <1>1, <1>2, <1>3 DEF Alive
<1>5. \A n \in Generations : Cardinality(Working(n))' <= sweeps'[n].live
  BY <1>4, CountIsKept DEF OneSweepAlive, Shapes, SweepShape
<1>6. rewound' <= generation'
  BY BeforeRequest
<1> QED BY <1>4, <1>5, <1>6, OnlyRequest

LEMMA SpawnKeepsSweeps ==
  ASSUME Shapes, OneSweepAlive, NEW c \in Consoles,
         \A d \in Consoles : d # c => requests[d].at = "idle", Spawn(c)
  PROVE  OneSweepAlive'
<1> DEFINE n == generation + 1
           r == [at |-> "file", then |-> "answer", sweep |-> n]
           w == SweepOf(requests[c].config)
<1>1. /\ requests[c].at = "spawn" /\ generation' = n /\ sweeps' = [sweeps EXCEPT ![n] = w]
      /\ tasks' = [t \in Tasks |-> IF t[1] = n THEN Fresh ELSE tasks[t]]
      /\ requests' = [requests EXCEPT ![c] = r]
      /\ UNCHANGED rewound /\ phase' = "running"
  BY DEF Spawn
<1>2. r.at = "file" /\ r.sweep = n
  OBVIOUS
<1>3. generation \in Nat /\ n \in Nat /\ rewound \in Nat /\ n > generation
  BY DEF Shapes
<1>4. w.live = Concurrency /\ Concurrency \in Nat
  BY <1>1, SweepIsShaped, CatalogueAssumption DEF Shapes, RequestShape
<1> HIDE DEF n, r, w
<1>5. \A t \in Tasks : ~Alive(t)
  BY <1>1, BeforeRequest
<1>6. rewound <= generation
  BY BeforeRequest
<1>7. \A t \in Tasks : Alive(t)' => t[1] = n
  BY <1>1, <1>5 DEF Alive
<1>8. rewound < n
  BY <1>3, <1>6
<1>9. ASSUME NEW k \in Generations PROVE Cardinality(Working(k))' <= sweeps'[k].live
  <2>1. sweeps'[k] = IF k = n THEN w ELSE sweeps[k]
    BY <1>1 DEF Shapes
  <2>2. CASE k = n
    <3> DEFINE V == {i \in 1 .. Concurrency : Alive(<<k, i>>)'}
    <3>1. Working(k)' = V /\ V \subseteq 1 .. Concurrency
      BY DEF Working
    <3> HIDE DEF V
    <3>2. Cardinality(V) <= Concurrency
      BY <3>1, WorkersAreFew
    <3> QED BY <1>4, <2>1, <2>2, <3>1, <3>2
  <2>3. CASE k # n
    <3> DEFINE V == {i \in 1 .. Concurrency : Alive(<<k, i>>)'}
    <3>0. \A i \in 1 .. Concurrency : <<k, i>> \in Tasks /\ <<k, i>>[1] = k
      BY DEF Tasks
    <3>1. Working(k)' = V /\ V = {}
      BY <1>7, <2>3, <3>0 DEF Working
    <3>2. Cardinality(V) = 0
      BY <3>1, FS_EmptySet
    <3>3. Working(k) \subseteq 1 .. Concurrency /\ Cardinality(Working(k)) <= sweeps[k].live
      BY DEF Working, OneSweepAlive
    <3>4. Cardinality(Working(k)) \in Nat /\ sweeps[k].live \in Int
      BY <3>3, WorkersAreFew DEF Shapes, SweepShape
    <3> HIDE DEF V
    <3> QED BY <2>1, <2>3, <3>1, <3>2, <3>3, <3>4
  <2> QED BY <2>2, <2>3
<1>10. ASSUME NEW t \in Tasks, Alive(t)'
       PROVE  t[1] = generation' /\ t[1] > rewound'
  BY <1>1, <1>3, <1>7, <1>8, <1>10
<1>11. rewound' <= generation'
  BY <1>1, <1>3, <1>8
<1> QED BY <1>1, <1>2, <1>9, <1>10, <1>11, OnlyRequest

\* start files the handles of the sweep it spawned.
LEMMA FileKeepsSweeps ==
  ASSUME Shapes, OneSweepAlive, NEW c \in Consoles,
         \A d \in Consoles : d # c => requests[d].at = "idle", File(c)
  PROVE  OneSweepAlive'
<1>1. /\ requests[c].at = "file" /\ held' = {requests[c].sweep} \X (1 .. Concurrency)
      /\ requests' = [requests EXCEPT ![c] = Idle]
      /\ UNCHANGED <<sweeps, tasks, generation, rewound, phase>>
  BY DEF File, Answer, sweepVars
<1>2. requests[c].sweep = generation /\ rewound' <= generation'
  BY <1>1, BeforeRequest
<1>3. \A t \in Tasks : Alive(t)' <=> Alive(t)
  BY <1>1 DEF Alive
<1>4. \A n \in Generations : Cardinality(Working(n))' <= sweeps'[n].live
  BY <1>1, <1>3, CountIsKept DEF OneSweepAlive, Shapes, SweepShape
<1>5. ASSUME NEW t \in Tasks, Alive(t)'
      PROVE  /\ t \in held' /\ t[1] = generation' /\ t[1] > rewound' /\ phase' # "stopped"
  <2>1. t[1] = generation /\ t[1] > rewound /\ phase # "stopped"
    BY <1>1, <1>3, <1>5, BeforeRequest
  <2>2. t = <<t[1], t[2]>> /\ t[2] \in 1 .. Concurrency
    BY GenerationOfTask
  <2> QED BY <1>1, <1>2, <2>1, <2>2
<1> QED BY <1>1, <1>2, <1>4, <1>5, IdleIsShaped, OnlyRequest

\* stop counts the generation up while its tasks are still alive.
LEMMA StopBumpsKeepsSweeps ==
  ASSUME Shapes, OneSweepAlive, NEW c \in Consoles,
         \A d \in Consoles : d # c => requests[d].at = "idle", StopBumps(c),
         NEW r, requests' = [requests EXCEPT ![c] = r], r.at = "abort"
  PROVE  OneSweepAlive'
<1>1. /\ requests[c].at = "stop" /\ generation' = generation + 1
      /\ UNCHANGED <<sweeps, tasks, held, rewound, phase>>
  BY DEF StopBumps, sweepVars
<1>2. generation \in Nat /\ rewound \in Nat /\ rewound <= generation
  BY BeforeRequest DEF Shapes
<1>3. \A t \in Tasks : Alive(t)' <=> Alive(t)
  BY <1>1 DEF Alive
<1>4. \A n \in Generations : Cardinality(Working(n))' <= sweeps'[n].live
  BY <1>1, <1>3, CountIsKept DEF OneSweepAlive, Shapes, SweepShape
<1>5. ASSUME NEW t \in Tasks, Alive(t)'
      PROVE  t \in held' /\ t[1] < generation' /\ t[1] > rewound' /\ phase' # "stopped"
  <2>1. t \in held /\ t[1] = generation /\ t[1] > rewound /\ phase # "stopped"
    BY <1>1, <1>3, <1>5, BeforeRequest
  <2> QED BY <1>1, <1>2, <2>1
<1>6. rewound' <= generation'
  BY <1>1, <1>2
<1> QED BY <1>4, <1>5, <1>6, OnlyRequest

\* A step of the only request that finds nothing alive and spawns nothing
LEMMA QuietRequest ==
  ASSUME Shapes, OneSweepAlive, NEW c \in Consoles,
         \A d \in Consoles : d # c => requests[d].at = "idle",
         NEW r, requests' = [requests EXCEPT ![c] = r], r.at \in {"idle", "rewind"},
         \A t \in Tasks : ~Alive(t), UNCHANGED <<sweeps, tasks, generation>>,
         rewound' <= generation'
  PROVE  OneSweepAlive'
<1>1. \A t \in Tasks : ~Alive(t)'
  BY DEF Alive
<1>2. \A n \in Generations : Cardinality(Working(n))' <= sweeps'[n].live
  BY <1>1, CountIsKept DEF OneSweepAlive, Shapes, SweepShape
<1> QED BY <1>1, <1>2, OnlyRequest

LEMMA ConsoleKeepsSweeps ==
  ASSUME Shapes, OneSweepAlive, ~overlap, NEW c \in Consoles,
         Ask(c) \/ PutConfig(c) \/ PostGames(c) \/ RequestStep(c)
  PROVE  OneSweepAlive'
<1>0. OtherShapes
  BY DEF Shapes, OtherShapes
<1>a. ASSUME MayAsk(c) PROVE \A d \in Consoles : requests[d].at = "idle"
  BY <1>a, IdleIsShaped DEF MayAsk
<1>b. ASSUME requests[c].at # "idle" PROVE \A d \in Consoles : d # c => requests[d].at = "idle"
  BY <1>b DEF OneSweepAlive
<1>1. CASE Ask(c)
  <2>1. PICK at \in {"start", "stop", "check"} : Goto(c, at)
    BY <1>1 DEF Ask
  <2>2. \A d \in Consoles : requests[d].at = "idle"
    BY <1>1, <1>a DEF Ask
  <2>3. PICK r : requests' = [requests EXCEPT ![c] = r] /\ r.at = at
    BY <1>0, <2>1, <2>2, GotoIsShaped
  <2>4. UNCHANGED <<sweeps, tasks, held, generation, rewound, phase>>
    BY <1>1 DEF Ask, sweepVars
  <2> QED BY <2>1, <2>2, <2>3, <2>4, RequestKeepsTasks
<1>2. CASE PutConfig(c)
  <2>1. PICK next : Goto(c, IF next.enabled THEN "start" ELSE "stop")
    BY <1>2 DEF PutConfig
  <2>a. PICK at \in {"start", "stop"} : Goto(c, at)
    BY <2>1
  <2>2. \A d \in Consoles : requests[d].at = "idle"
    BY <1>2, <1>a DEF PutConfig
  <2>3. PICK r : requests' = [requests EXCEPT ![c] = r] /\ r.at = at
    BY <1>0, <2>a, <2>2, GotoIsShaped
  <2>4. UNCHANGED <<sweeps, tasks, held, generation, rewound, phase>>
    BY <1>2 DEF PutConfig, sweepVars
  <2> QED BY <2>a, <2>2, <2>3, <2>4, RequestKeepsTasks
<1>3. CASE PostGames(c)
  <2>1. UNCHANGED <<sweeps, tasks, held, generation, rewound, phase, requests>>
    BY <1>3 DEF PostGames, sweepVars
  <2>2. \A t \in Tasks : Alive(t)' => Alive(t)
    BY <2>1 DEF Alive
  <2> QED BY <2>1, <2>2, WorkersKeepSweeps
<1>4. CASE StartStops(c)
  <2> DEFINE r == [at |-> "spawn", then |-> "answer", config |-> config]
  <2>1. r.at = "spawn"
    OBVIOUS
  <2>2. /\ requests[c].at = "start" /\ requests' = [requests EXCEPT ![c] = r] /\ StopTasks
        /\ UNCHANGED <<generation, sweeps, rewound, phase>>
    BY <1>4 DEF StartStops
  <2> HIDE DEF r
  <2> QED BY <1>b, <2>1, <2>2, StopTasksEndsAll
<1>5. CASE Spawn(c)
  BY <1>b, <1>5, SpawnKeepsSweeps DEF Spawn
<1>6. CASE File(c)
  BY <1>b, <1>6, FileKeepsSweeps DEF File
<1>7. CASE StopBumps(c)
  <2>1. requests[c].at = "stop" /\ Goto(c, "abort")
    BY <1>7 DEF StopBumps
  <2>2. PICK r : requests' = [requests EXCEPT ![c] = r] /\ r.at = "abort"
    BY <1>0, <2>1, GotoIsShaped
  <2> QED BY <1>b, <1>7, <2>1, <2>2, StopBumpsKeepsSweeps
<1>8. CASE StopAborts(c)
  <2>1. /\ requests[c].at = "abort" /\ Goto(c, "settle") /\ StopTasks
        /\ UNCHANGED <<sweeps, generation, rewound, phase>>
    BY <1>8 DEF StopAborts
  <2>2. PICK r : requests' = [requests EXCEPT ![c] = r] /\ r.at = "settle"
    BY <1>0, <2>1, GotoIsShaped
  <2> QED BY <1>b, <2>1, <2>2, StopTasksEndsAll
<1>9. CASE StopSettles(c)
  <2>1. requests[c].at = "settle" /\ UNCHANGED <<sweeps, tasks, generation, rewound>>
    BY <1>9 DEF StopSettles, sweepVars
  <2>2. PICK r : requests' = [requests EXCEPT ![c] = r] /\ r.at \in {"idle", "rewind"}
    BY <1>9, IdleIsShaped, RewindingIsShaped DEF StopSettles, Answer
  <2>3. (\A t \in Tasks : ~Alive(t)) /\ rewound <= generation
    BY <1>b, <2>1, BeforeRequest
  <2> QED BY <1>b, <2>1, <2>2, <2>3, QuietRequest
<1>10. CASE ResetChecks(c)
  <2> DEFINE stop == [at |-> "stop", then |-> "rewind"]
             rewind == [Idle EXCEPT !.at = "rewind"]
  <2>1. stop.at = "stop" /\ rewind.at = "rewind"
    BY RewindingIsShaped
  <2>2. /\ requests[c].at = "check"
        /\ \/ requests' = [requests EXCEPT ![c] = stop]
           \/ phase = "stopped" /\ requests' = [requests EXCEPT ![c] = rewind]
        /\ UNCHANGED <<sweeps, tasks, held, generation, rewound, phase>>
    BY <1>10 DEF ResetChecks, sweepVars, MustStop
  <2> HIDE DEF stop, rewind
  <2>3. phase = "stopped" => \A t \in Tasks : ~Alive(t)
    BY DEF OneSweepAlive
  <2> QED BY <1>b, <2>1, <2>2, <2>3, RequestKeepsTasks
<1>11. CASE Rewind(c)
  <2>1. /\ requests[c].at = "rewind" /\ requests' = [requests EXCEPT ![c] = Idle]
        /\ UNCHANGED <<sweeps, tasks, generation>> /\ rewound' \in {generation, rewound}
    BY <1>11 DEF Rewind, Answer, sweepVars
  <2>2. (\A t \in Tasks : ~Alive(t)) /\ rewound <= generation
    BY <1>b, <2>1, BeforeRequest
  <2>3. rewound' <= generation'
    BY <2>1, <2>2 DEF Shapes
  <2> QED BY <1>b, <2>1, <2>2, <2>3, IdleIsShaped, QuietRequest
<1> QED BY <1>1, <1>2, <1>3, <1>4, <1>5, <1>6, <1>7, <1>8, <1>9, <1>10, <1>11 DEF RequestStep

\* Nothing alive, and everybody idle
LEMMA NothingAlive ==
  ASSUME NEW n \in Generations, \A t \in Tasks : ~Alive(t)
  PROVE  Cardinality(Working(n)) = 0
<1>1. \A i \in 1 .. Concurrency : <<n, i>> \in Tasks
  BY DEF Tasks
<1>2. Working(n) = {}
  BY <1>1 DEF Working
<1> QED BY <1>2, FS_EmptySet

\* A boot finds the first sweep alive, or none.
LEMMA RebootKeepsSweeps ==
  ASSUME Shapes, Reboot
  PROVE  OneSweepAlive'
<1>0. Gone.step = "gone" /\ NoSweep.live = 0
  BY DEF Gone, NoSweep
<1>1. /\ rewound' = 0 /\ \A c \in Consoles : requests'[c].at = "idle"
      /\ \A S : Pending(S)' => "idle" \in S
  BY IdleIsShaped DEF Reboot, Pending
<1>2. CASE config.enabled
  <2>1. /\ generation' = 1 /\ phase' = "running" /\ held' = {1} \X (1 .. Concurrency)
        /\ tasks' = [t \in Tasks |-> IF t[1] = 1 THEN Fresh ELSE Gone]
        /\ sweeps' = [n \in Generations |-> IF n = 1 THEN SweepOf(config) ELSE NoSweep]
    BY <1>2 DEF Reboot
  <2>2. \A t \in Tasks : Alive(t)' => t[1] = 1
    BY <1>0, <2>1 DEF Alive
  <2>3. \A t \in Tasks : Alive(t)' => t \in held'
    BY <2>1, <2>2, GenerationOfTask
  <2>4. ASSUME NEW n \in Generations PROVE Cardinality(Working(n))' <= sweeps'[n].live
    <3> DEFINE V == {i \in 1 .. Concurrency : Alive(<<n, i>>)'}
    <3>1. Working(n)' = V /\ V \subseteq 1 .. Concurrency
      BY DEF Working
    <3>2. CASE n = 1
      <4>1. sweeps'[n].live = Concurrency
        BY <2>1, <3>2, SweepIsShaped DEF Shapes
      <4> HIDE DEF V
      <4>2. Cardinality(V) <= Concurrency
        BY <3>1, WorkersAreFew
      <4> QED BY <3>1, <4>1, <4>2
    <3>3. CASE n # 1
      <4>1. sweeps'[n].live = 0
        BY <1>0, <2>1, <3>3
      <4>2. \A i \in 1 .. Concurrency : <<n, i>> \in Tasks /\ <<n, i>>[1] = n
        BY DEF Tasks
      <4>3. V = {}
        BY <2>2, <3>3, <4>2
      <4> HIDE DEF V
      <4>4. Cardinality(V) = 0
        BY <4>3, FS_EmptySet
      <4> QED BY <3>1, <4>1, <4>4
    <3> QED BY <3>2, <3>3
  <2>5. \A t \in Tasks : Alive(t)' => t[1] = generation' /\ t[1] > rewound'
    BY <1>1, <2>1, <2>2
  <2>6. rewound' <= generation'
    BY <1>1, <2>1
  <2>7. ~Pending({"abort"})' /\ ~Pending({"spawn", "settle", "rewind"})'
    BY <1>1
  <2> QED BY <1>1, <2>1, <2>3, <2>4, <2>5, <2>6, <2>7 DEF OneSweepAlive
<1>3. CASE ~config.enabled
  <2>1. /\ generation' = 0
        /\ tasks' = [t \in Tasks |-> Gone] /\ sweeps' = [n \in Generations |-> NoSweep]
    BY <1>3 DEF Reboot
  <2>2. \A t \in Tasks : ~Alive(t)'
    BY <1>0, <2>1 DEF Alive
  <2>3. ASSUME NEW n \in Generations PROVE Cardinality(Working(n))' <= sweeps'[n].live
    <3>1. \A i \in 1 .. Concurrency : <<n, i>> \in Tasks
      BY DEF Tasks
    <3>2. Working(n)' = {}
      BY <2>2, <3>1 DEF Working
    <3>3. Cardinality(Working(n))' = 0
      BY <3>2, FS_EmptySet
    <3> QED BY <1>0, <2>1, <3>3
  <2>4. rewound' <= generation'
    BY <1>1, <2>1
  <2> QED BY <1>1, <2>2, <2>3, <2>4 DEF OneSweepAlive
<1> QED BY <1>2, <1>3

LEMMA SweepsStart == Init => OneSweepAlive
<1> SUFFICES ASSUME Init PROVE OneSweepAlive
  OBVIOUS
<1>1. \A t \in Tasks : ~Alive(t)
  BY DEF Init, Alive, Gone
<1>2. \A n \in Generations : sweeps[n].live = 0
  BY DEF Init, NoSweep
<1>3. \A n \in Generations : Cardinality(Working(n)) <= sweeps[n].live
  BY <1>1, <1>2, NothingAlive
<1>4. \A c \in Consoles : requests[c].at = "idle"
  BY IdleIsShaped DEF Init
<1>5. rewound <= generation
  BY DEF Init
<1> QED BY <1>1, <1>3, <1>4, <1>5 DEF OneSweepAlive

LEMMA OverlapIsFixed == [Next]_vars => UNCHANGED overlap
  BY DEF Next, vars, WorkerStep, RequestStep, TakeMode, ReadCursor, FetchPage, InsertPage,
         MoveCursor, LeaveSweep, SyncFails, Ask, PutConfig, PostGames, StartStops, Spawn, File,
         StopBumps, StopAborts, StopSettles, ResetChecks, Rewind, Reboot, Tick

LEMMA SweepsStep == GamesInv /\ SweepsInv /\ [Next]_vars /\ GamesInv' => SweepsInv'
<1> SUFFICES ASSUME Shapes, ~overlap => OneSweepAlive, [Next]_vars, Shapes', ~overlap'
             PROVE  OneSweepAlive'
  BY DEF GamesInv, SweepsInv
<1>0. ~overlap /\ OneSweepAlive
  BY OverlapIsFixed
<1>1. CASE \E t \in Tasks : WorkerStep(t) \/ SyncFails(t)
  BY <1>0, <1>1, WorkerStepsKeepSweeps
<1>2. CASE \E c \in Consoles : Ask(c) \/ PutConfig(c) \/ PostGames(c) \/ RequestStep(c)
  BY <1>0, <1>2, ConsoleKeepsSweeps
<1>3. CASE Tick \/ UNCHANGED vars
  <2>1. UNCHANGED <<sweeps, tasks, held, generation, rewound, phase, requests>>
    BY <1>3 DEF Tick, vars, sweepVars
  <2>2. \A t \in Tasks : Alive(t)' => Alive(t)
    BY <2>1 DEF Alive
  <2> QED BY <1>0, <2>1, <2>2, WorkersKeepSweeps
<1> QED BY <1>1, <1>2, <1>3, RebootKeepsSweeps DEF Next

\* While requests are answered one at a time, one sweep is alive at most, its
\* workers can be aborted, and its live count is at least their number.
THEOREM OneSweepAtATime == Spec => []SweepsInv
<1>1. Init => SweepsInv
  BY SweepsStart, GamesStart DEF SweepsInv, GamesInv
<1> QED BY <1>1, SweepsStep, SweepsStayInStep, PTL DEF Spec

\* reset_cursors: no worker of a generation before the rewind is left to write
\* its cursor over it.
THEOREM RewindsStick == Spec => []RewindSticks
<1>1. SweepsInv => RewindSticks
  BY DEF SweepsInv, OneSweepAlive, RewindSticks
<1> QED BY <1>1, OneSweepAtATime, PTL

\* A sweep that reads as stopped has no worker left, while requests are
\* answered one at a time.
THEOREM StoppedSweepsAreQuiet == Spec => []StoppedIsQuiet
<1>1. SweepsInv => StoppedIsQuiet
  BY DEF SweepsInv, OneSweepAlive, StoppedIsQuiet
<1> QED BY <1>1, OneSweepAtATime, PTL
=============================================================================
