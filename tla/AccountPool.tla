---------------------------- MODULE AccountPool ----------------------------
(***************************************************************************)
(* The accounts this deployment logs in with (src/src/accounts.rs), kept   *)
(* in one document that five writers share: the console's PUT of the whole *)
(* document, the registrar's append, the re-fetch pool's retirement of a   *)
(* banned account, the console's spread over the exits and the balancer's  *)
(* re-binding.  The first submits a copy a browser read earlier; the last  *)
(* two clone the document and submit the clone; the middle two work under  *)
(* the write lock.  Every write persists before it assigns, both under the *)
(* lock, so memory and pool.json are one variable.                         *)
(*                                                                         *)
(* Rows are kept by id; ids are uuids that are never used twice, taken in  *)
(* ascending order, which is also the order of the rows.  Id 0 is a row    *)
(* the console has just added.                                             *)
(***************************************************************************)
EXTENDS Naturals, FiniteSets, Sequences, SequencesExt, FiniteSetsExt

CONSTANTS
    Names,       \* spellings of account names
    Fold,        \* [Names -> Names]: the lower-cased spelling
    Nodes,       \* mihomo's node names, numbered in their sorted order
    FirstRows,   \* the rows the document starts with, by id
    Editors,     \* browser tabs on the account page
    NewNames,    \* bound: names an operator types or the registrar registers
    EditedIds,   \* bound: rows the operators edit
    Parties,     \* bound: the sets of writers that meet in one behaviour
    MaxRev,      \* bound: the revision at which no more writes are tried
    MaxId        \* bound: ids handed out

ASSUME PoolAssumption ==
    /\ Fold \in [Names -> Names] /\ \A n \in Names : Fold[Fold[n]] = Fold[n]
    /\ Nodes \subseteq Nat \ {0}
    /\ MaxRev \in Nat /\ MaxId \in Nat
    /\ DOMAIN FirstRows \subseteq 1..MaxId
    /\ NewNames \subseteq Names
    /\ Parties \subseteq SUBSET {"console", "watch", "registrar", "spread", "sessions"}

VARIABLES
    doc,         \* AccountDocument: its revision and its rows by id
    issued,      \* ids handed out so far
    drafts,      \* what each editor has on screen, or Nothing
    clones,      \* the clone a spread or a re-binding is about to submit
    refs,        \* accounts the watch configuration's instances name
    active       \* the writers of this behaviour, one of Parties

poolVars == <<doc, issued, drafts, clones, refs, active>>

Nothing  == [none |-> TRUE]
Stars    == "***"
Typed    == {"old", "new"}          \* passwords somebody typed
Shared   == 0                       \* the empty node: follow the lane
Purposes == {"watch", "refetch"}

StoredAccount(passwords) ==
    [user : Names, pw : passwords, purpose : Purposes, enabled : BOOLEAN,
     banned : BOOLEAN, node : Nodes \cup {Shared}]

Same(n, m) == Fold[n] = Fold[m]

\* open: the document an earlier run stored, which validate takes.
ASSUME StoredAssumption ==
    /\ FirstRows \in [DOMAIN FirstRows -> StoredAccount(Typed)]
    /\ \A i, j \in DOMAIN FirstRows : i # j => ~Same(FirstRows[i].user, FirstRows[j].user)
    /\ \A i \in DOMAIN FirstRows : FirstRows[i].enabled => ~FirstRows[i].banned

(***************************************************************************)
(* Reading the document.                                                   *)
(***************************************************************************)
Published(rows) == [i \in DOMAIN rows |-> [rows[i] EXCEPT !.pw = Stars]]

Resolves(rows, purpose) ==
    {rows[i].user : i \in {j \in DOMAIN rows :
                             rows[j].enabled /\ rows[j].purpose = purpose}}

InOrder(ids) == SetToSortSeq(ids, <)

\* refetch_bindings: the ids of the enabled re-fetch rows that name a node.
BoundIds(rows) ==
    {i \in DOMAIN rows : /\ rows[i].enabled
                         /\ rows[i].purpose = "refetch"
                         /\ rows[i].node # Shared}

RefetchNodes(rows) == {rows[i].node : i \in BoundIds(rows)}

NodeFor(rows, n) ==
    LET row == {i \in DOMAIN rows : Same(rows[i].user, n)}
    IN  IF row = {} THEN Shared ELSE rows[Min(row)].node

\* export_refetch: the accounts an operator's copy of the pool carries.
Exported(rows) ==
    {rows[i].user : i \in {j \in DOMAIN rows :
                             rows[j].purpose = "refetch" /\ ~rows[j].banned}}

\* referenced_accounts: a reference to an account that is off names nobody.
InUse == {Fold[n] : n \in {r \in refs :
            \E u \in Resolves(doc.rows, "watch") : Same(u, r)}}

(***************************************************************************)
(* Writing it.                                                             *)
(***************************************************************************)
Valid(rows) ==
    /\ \A i \in DOMAIN rows : rows[i].pw \notin {"", Stars}
    /\ \A i, j \in DOMAIN rows : i # j => ~Same(rows[i].user, rows[j].user)

\* restored_secret: asterisks stand for what is stored, or for nothing.
RestoredSecret(submitted, i) ==
    IF submitted # Stars THEN submitted
    ELSE IF i \in DOMAIN doc.rows THEN doc.rows[i].pw ELSE ""

\* The ban taken from the form, like every other field.
BannedAsSubmitted(row, i) == row.banned /\ row.enabled \in BOOLEAN /\ i # 0

BannedAfter(row, i) ==
    ~row.enabled /\ i \in DOMAIN doc.rows /\ doc.rows[i].banned

\* The submitted rows as they will be stored: passwords and bans put back by
\* id, a row without an id given the next one.
Restored(rows) ==
    LET Id(i) == IF i = 0 THEN issued + 1 ELSE i
    IN  [j \in {Id(i) : i \in DOMAIN rows} |->
            LET i == CHOOSE k \in DOMAIN rows : Id(k) = j
            IN  [rows[i] EXCEPT !.pw = RestoredSecret(@, i),
                                !.banned = BannedAfter(rows[i], i)]]

\* A draft accepted whatever revision it was read at.
AcceptsAny(rev, rows) ==
    rev <= doc.rev /\ Valid(Restored(rows))

\* What update demands of a submission.
Accepts(rev, rows) ==
    rev = doc.rev /\ Valid(Restored(rows))

Commit(rows) == doc' = [rev |-> doc.rev + 1, rows |-> rows]

\* AccountPool::update: refused, it leaves everything alone.
Update(rev, rows) ==
    IF Accepts(rev, rows)
    THEN /\ Commit(Restored(rows))
         /\ issued' = issued + Cardinality(DOMAIN rows \cap {0})
    ELSE UNCHANGED <<doc, issued>>

(***************************************************************************)
(* The console: a page read earlier, one edit in it, saved.                *)
(***************************************************************************)
With(rows, i, row) == [j \in DOMAIN rows \cup {i} |-> IF j = i THEN row ELSE rows[j]]
Without(rows, i)   == [j \in DOMAIN rows \ {i} |-> rows[j]]

\* What one edit can make of a row.
EditedRows(row) ==
    {[row EXCEPT !.user = n] : n \in NewNames}
    \cup {[row EXCEPT !.pw = "new"]}
    \cup {[row EXCEPT !.purpose = p] : p \in Purposes}
    \cup {[row EXCEPT !.enabled = ~@]}
    \cup {[row EXCEPT !.node = m] : m \in Nodes \cup {Shared}}

NewRows ==
    {[user |-> n, pw |-> p, purpose |-> "refetch", enabled |-> TRUE,
      banned |-> FALSE, node |-> Shared] : n \in NewNames, p \in {"new", Stars}}

\* The page reads the published document and the operator edits one row.
Edit(e) ==
    /\ drafts[e] = Nothing
    /\ doc.rev < MaxRev
    /\ LET seen == Published(doc.rows)
           Open(i, rows) == drafts' = [drafts EXCEPT ![e] =
                [rev |-> doc.rev, rows |-> rows, row |-> i,
                 stage |-> "edited", inUse |-> {}]]
       IN  \/ \E i \in DOMAIN seen \cap EditedIds :
                \/ \E row \in EditedRows(seen[i]) \ {seen[i]} : Open(i, With(seen, i, row))
                \/ Open(i, Without(seen, i))
           \/ /\ issued < MaxId
              /\ \E row \in NewRows : Open(0, With(seen, 0, row))
    /\ UNCHANGED <<doc, issued, clones, refs, active>>

\* The refusal without taken_from_a_collector.
TakesOnlyWhatItLists(rows) ==
    \E i \in DOMAIN rows :
        /\ Fold[rows[i].user] \in InUse
        /\ ~rows[i].enabled \/ rows[i].purpose # "watch"

\* The part of put_accounts that refuses to take an account from a collector.
TakesFromCollector(rows) ==
    \/ \E i \in DOMAIN rows :
          /\ Fold[rows[i].user] \in InUse
          /\ ~rows[i].enabled \/ rows[i].purpose # "watch"
    \/ \E i \in DOMAIN doc.rows :
          /\ Fold[doc.rows[i].user] \in InUse
          /\ ~\E k \in DOMAIN rows : Same(rows[k].user, doc.rows[i].user)

\* put_accounts asks the watch service first, without a lock ...
Check(e) ==
    /\ drafts[e] # Nothing /\ drafts[e].stage = "edited"
    /\ drafts' = [drafts EXCEPT ![e] =
            IF TakesFromCollector(drafts[e].rows) THEN Nothing
            ELSE [@ EXCEPT !.stage = "checked", !.inUse = InUse]]
    /\ UNCHANGED <<doc, issued, clones, refs, active>>

\* ... and then saves.
Put(e) ==
    /\ drafts[e] # Nothing /\ drafts[e].stage = "checked"
    /\ Update(drafts[e].rev, drafts[e].rows)
    /\ drafts' = [drafts EXCEPT ![e] = Nothing]
    /\ UNCHANGED <<clones, refs, active>>

\* The watch configuration starts or stops naming an account.
Repoint ==
    /\ \E n \in {doc.rows[i].user : i \in DOMAIN doc.rows \cap EditedIds} : refs' = (refs \ {n}) \cup ({n} \ refs)
    /\ Cardinality(refs') <= 1
    /\ UNCHANGED <<doc, issued, drafts, clones, active>>

(***************************************************************************)
(* The registrar and the re-fetch pool, under the write lock.              *)
(***************************************************************************)
AppendAccount(n) ==
    /\ doc.rev < MaxRev /\ issued < MaxId
    /\ IF \E i \in DOMAIN doc.rows : Same(doc.rows[i].user, n)
       THEN UNCHANGED <<doc, issued>>
       ELSE /\ Commit(With(doc.rows, issued + 1,
                   [user |-> n, pw |-> "new", purpose |-> "refetch",
                    enabled |-> TRUE, banned |-> FALSE, node |-> Shared]))
            /\ issued' = issued + 1
    /\ UNCHANGED <<drafts, clones, refs, active>>

\* The rows after a 503 for account n: only the pool's own, and only once.
RetiredRows(n) ==
    [i \in DOMAIN doc.rows |->
        IF /\ Same(doc.rows[i].user, n)
           /\ doc.rows[i].purpose = "refetch" /\ doc.rows[i].enabled
        THEN [doc.rows[i] EXCEPT !.enabled = FALSE, !.banned = TRUE]
        ELSE doc.rows[i]]

Retire(n) ==
    IF RetiredRows(n) = doc.rows THEN UNCHANGED doc ELSE Commit(RetiredRows(n))

(***************************************************************************)
(* spread_over and rebind_nodes: clone, re-point, submit the clone.        *)
(***************************************************************************)
Clone(w, rows) == clones' = [clones EXCEPT ![w] = [rev |-> doc.rev, rows |-> rows]]

\* Round robin over the usable nodes, fastest first; none clears the bindings.
Spread(nodes) ==
    LET Index(i) == Cardinality({j \in DOMAIN doc.rows :
                                   j < i /\ doc.rows[j].purpose = "refetch"})
        Node(i) == IF nodes = <<>> THEN Shared
                   ELSE nodes[1 + (Index(i) % Len(nodes))]
    IN  [i \in DOMAIN doc.rows |->
            IF doc.rows[i].purpose = "refetch"
            THEN [doc.rows[i] EXCEPT !.node = Node(i)] ELSE doc.rows[i]]

SpreadClone ==
    /\ clones["spread"] = Nothing
    /\ doc.rev < MaxRev
    /\ \E up \in SUBSET Nodes : \E usable \in SetToSeqs(up) :
          Clone("spread", Spread(usable))
    /\ UNCHANGED <<doc, issued, drafts, refs, active>>

SubmitClone(w) ==
    /\ clones[w] # Nothing
    /\ Update(clones[w].rev, clones[w].rows)
    /\ clones' = [clones EXCEPT ![w] = Nothing]
    /\ UNCHANGED <<drafts, refs, active>>

PoolInit ==
    /\ doc = [rev |-> 0, rows |-> FirstRows]
    /\ issued \in {0} \cup DOMAIN FirstRows /\ \A i \in DOMAIN FirstRows : i <= issued
    /\ drafts = [e \in Editors |-> Nothing]
    /\ clones = [w \in {"spread", "balance"} |-> Nothing]
    /\ refs = {}
    /\ active \in Parties

PoolNext ==
    \/ /\ "console" \in active
       /\ \E e \in Editors : Edit(e) \/ Check(e) \/ Put(e)
    \/ "watch" \in active /\ Repoint
    \/ "registrar" \in active /\ \E n \in NewNames : AppendAccount(n)
    \/ "spread" \in active /\ (SpreadClone \/ SubmitClone("spread"))

(***************************************************************************)
(* What holds of the document, the drafts and the clones at every step.    *)
(***************************************************************************)
IsAccount(r, passwords) ==
    /\ r = [user |-> r.user, pw |-> r.pw, purpose |-> r.purpose, enabled |-> r.enabled,
            banned |-> r.banned, node |-> r.node]
    /\ r.user \in Names /\ r.pw \in passwords /\ r.purpose \in Purposes
    /\ r.enabled \in BOOLEAN /\ r.banned \in BOOLEAN

PoolTyped ==
    /\ doc = [rev |-> doc.rev, rows |-> doc.rows] /\ doc.rev \in Nat /\ issued \in Nat
    /\ doc.rows = [i \in DOMAIN doc.rows |-> doc.rows[i]] /\ DOMAIN doc.rows \subseteq 1..issued
    /\ \A i \in DOMAIN doc.rows : IsAccount(doc.rows[i], Typed)
    /\ drafts = [e \in Editors |-> drafts[e]]
    /\ clones = [w \in {"spread", "balance"} |-> clones[w]]
    /\ refs \subseteq Names

OnIsNotBanned == \A i \in DOMAIN doc.rows : doc.rows[i].enabled => ~doc.rows[i].banned

\* One session per account: no interleaving of saves, appends and renames
\* files one account in two rows, in whatever spelling (validate, append).
OneRowPerAccount ==
    \A i, j \in DOMAIN doc.rows : i # j => ~Same(doc.rows[i].user, doc.rows[j].user)

\* The page as it is now, with one edit of row i in it.
IsEdit(rows, i) ==
    LET seen == Published(doc.rows)
    IN  /\ i \in DOMAIN seen \cup {0} /\ DOMAIN rows \subseteq DOMAIN seen \cup {i}
        /\ \A j \in DOMAIN seen \ {i} : j \in DOMAIN rows /\ rows[j] = seen[j]
        /\ i \in DOMAIN seen \cap DOMAIN rows => rows[i] \in EditedRows(seen[i])

\* What put_accounts' question settles for as long as nobody writes.
KeepsCollectors(rows, inUse) ==
    /\ \A i \in DOMAIN rows : Fold[rows[i].user] \in inUse =>
          rows[i].enabled /\ rows[i].purpose = "watch"
    /\ \A i \in DOMAIN doc.rows : Fold[doc.rows[i].user] \in inUse =>
          \E k \in DOMAIN rows : Same(rows[k].user, doc.rows[i].user)

\* A draft of the current revision is the current document with one edit.
DraftInStep(d) ==
    /\ d = [rev |-> d.rev, rows |-> d.rows, row |-> d.row, stage |-> d.stage, inUse |-> d.inUse]
    /\ d.rev \in Nat /\ d.rev <= doc.rev
    /\ \A i \in DOMAIN d.rows : IsAccount(d.rows[i], Typed \cup {Stars})
    /\ d.rev = doc.rev => /\ IsEdit(d.rows, d.row)
                          /\ d.stage = "checked" => KeepsCollectors(d.rows, d.inUse)

\* A clone of the current revision differs from it in bindings alone.
CloneInStep(c) ==
    /\ c.rev \in Nat /\ c.rev <= doc.rev
    /\ c.rev = doc.rev =>
          /\ DOMAIN c.rows = DOMAIN doc.rows
          /\ \A i \in DOMAIN doc.rows : c.rows[i] = [doc.rows[i] EXCEPT !.node = c.rows[i].node]

PoolInv ==
    /\ PoolTyped /\ OnIsNotBanned /\ OneRowPerAccount
    /\ \A e \in Editors : drafts[e] # Nothing => DraftInStep(drafts[e])
    /\ \A w \in {"spread", "balance"} : clones[w] # Nothing => CloneInStep(clones[w])
=============================================================================
