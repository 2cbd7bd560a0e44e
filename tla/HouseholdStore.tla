---------------------------- MODULE HouseholdStore ----------------------------
(***************************************************************************)
(* Reads and writes of one household through src/finpilot/runtime.py: the  *)
(* locked transaction with its revision predicate, the projection of its   *)
(* transactions, the audit, and the two caches of each server process.     *)
(*                                                                         *)
(* A worker is a thread of a server process that serves one request at a   *)
(* time.  PostgreSQL locks the household and membership rows of a writer;  *)
(* SQLite does not, and leaves processes only the revision predicate.      *)
(***************************************************************************)
EXTENDS Integers, Sequences, FiniteSets

CONSTANTS
    Processes,
    Workers,
    ProcessOf,       \* [Workers -> Processes]
    Users,
    Roles,           \* roles of a membership, None when there is none
    Tx, Values,      \* transactions and what one may hold
    FirstBook,       \* [Tx -> Values \cup {None}]: the first snapshot
    LiveDates,       \* household.live_dates
    CacheLimit,      \* entries a cache keeps
    MaxRequests,     \* bound: requests the workers serve
    MaxEvents,       \* bound: crashes, role changes and midnights
    None

Writers == {"owner", "approver"}
Backends == {"postgresql", "sqlite"}
Books == [Tx -> Values \cup {None}]

ASSUME StoreAssumption ==
    /\ ProcessOf \in [Workers -> Processes]
    /\ LiveDates \in BOOLEAN
    /\ CacheLimit \in Nat \ {0}
    /\ "owner" \in Roles
    /\ FirstBook \in Books
    /\ MaxRequests \in Nat /\ MaxEvents \in Nat
    /\ None \notin Values \cup Users \cup Workers \cup Nat

VARIABLES
    backend,         \* the database behind the deployment
    row,             \* HouseholdRow: revision and snapshot
    projection,      \* TransactionRow's of the household
    audit,           \* AuditRow's
    history,         \* ghost: every snapshot that was committed
    role,            \* MembershipRow.role, None when there is none
    today,           \* the calendar
    stripe,          \* the worker that holds the household's lock in a process
    rowLock,         \* the worker that holds the rows in PostgreSQL
    dashboards,      \* Runtime._cache of each process
    bootstraps,      \* Runtime._bootstrap_cache of each process
    pc, task,        \* what each worker is doing
    requests,        \* requests started
    events           \* crashes, role changes and midnights so far

dbVars == <<row, projection, audit, history>>
lockVars == <<stripe, rowLock>>
cacheVars == <<dashboards, bootstraps>>
worldVars == <<backend, role, today, events>>
vars == <<backend, row, projection, audit, history, role, today, stripe,
          rowLock, dashboards, bootstraps, pc, task, requests, events>>

View(rev, book, asOf) == [revision |-> rev, book |-> book, asOf |-> asOf]
NoTask == [user |-> None, expected |-> None, original |-> None, day |-> None,
           view |-> None, since |-> 0, dawn |-> 0]
(* The entry a process keeps once it has answered for the first revision.  *)
Served == [key |-> <<1, 0>>, view |-> View(1, FirstBook, 0)]

Init ==
    /\ backend \in Backends
    /\ row = [revision |-> 1, book |-> FirstBook]
    /\ projection = FirstBook
    /\ history = <<FirstBook>>
    /\ audit = <<>>
    /\ role = [u \in Users |-> "owner"]
    /\ today = 0
    /\ stripe = [p \in Processes |-> None]
    /\ rowLock = None
    /\ \E kept \in SUBSET {Served} :
          /\ dashboards = [p \in Processes |-> kept]
          /\ bootstraps = [p \in Processes |-> kept]
    /\ pc = [w \in Workers |-> "idle"]
    /\ task = [w \in Workers |-> NoTask]
    /\ requests = 0
    /\ events = 0

-----------------------------------------------------------------------------
Arrive(w) == pc[w] = "idle" /\ requests < MaxRequests
                            /\ requests' = requests + 1
Member(u) == role[u] # None
Go(w, step) == pc' = [pc EXCEPT ![w] = step]
Note(w, t) == task' = [task EXCEPT ![w] = t]
Leave(w) == Go(w, "idle") /\ Note(w, NoTask)

(* A writer leaves its transaction, then the lock of its process.          *)
Unlock(w) ==
    /\ stripe' = [stripe EXCEPT ![ProcessOf[w]] = None]
    /\ rowLock' = IF rowLock = w THEN None ELSE rowLock
(* Mutant: a rollback that keeps the lock of the process. *)
RollbackLocked(w) ==
    /\ Leave(w)
    /\ rowLock' = IF rowLock = w THEN None ELSE rowLock
    /\ UNCHANGED <<stripe, dbVars, cacheVars>>
Rollback(w) == Leave(w) /\ Unlock(w) /\ UNCHANGED <<dbVars, cacheVars>>

-----------------------------------------------------------------------------
(* Runtime.transaction. *)

BeginWrite(w, u, expected) ==
    /\ Arrive(w)
    /\ Note(w, [NoTask EXCEPT !.user = u, !.expected = expected])
    /\ Go(w, "waiting")
    /\ UNCHANGED <<dbVars, lockVars, cacheVars, worldVars>>

Lock(w) ==
    /\ pc[w] = "waiting"
    /\ stripe[ProcessOf[w]] = None
    /\ stripe' = [stripe EXCEPT ![ProcessOf[w]] = w]
    /\ Go(w, "locked")
    /\ UNCHANGED <<dbVars, rowLock, cacheVars, worldVars, task, requests>>

(* Mutants of what is checked: any member may write; the revision the      *)
(* client saw is not looked at.                                            *)
AdmitsAnyMember(t) ==
    /\ Member(t.user)
    /\ t.expected # None => t.expected = row.revision
AdmitsStale(t) == role[t.user] \in Writers
Admits(t) ==
    /\ role[t.user] \in Writers
    /\ t.expected # None => t.expected = row.revision

(* The rows are read and locked, the actor and the revision are checked,   *)
(* and the caller's body edits its private snapshot or fails.              *)
Edit(w) ==
    /\ pc[w] = "locked"
    /\ backend = "postgresql" => rowLock = None
    /\ \/ /\ Admits(task[w])
          /\ rowLock' = IF backend = "postgresql" THEN w ELSE rowLock
          /\ \E t \in Tx, v \in Values \cup {None} :
                Note(w, [task[w] EXCEPT
                    !.original = row.book,
                    !.view = View(row.revision, [row.book EXCEPT ![t] = v],
                                  today)])
          /\ Go(w, "edited")
          /\ UNCHANGED <<dbVars, stripe, cacheVars>>
       \/ Rollback(w)
    /\ UNCHANGED <<worldVars, requests>>

(* _sync_transactions writes the records whose fields changed under it.    *)
(* Mutant: the originals are not copied, so that an edit in place goes     *)
(* unnoticed.                                                              *)
SyncedAliased(old, new) ==
    [t \in Tx |-> IF old[t] = None \/ new[t] = None THEN new[t]
                  ELSE projection[t]]
Synced(old, new) ==
    [t \in Tx |-> IF new[t] # old[t] THEN new[t] ELSE projection[t]]

Current(rev) == rev = row.revision

(* The update under its revision predicate, the projection and the audit   *)
(* commit together, or nothing does.                                       *)
Commit(w) ==
    /\ pc[w] = "edited"
    /\ LET new == task[w].view IN
       \/ /\ Current(new.revision)
          /\ row' = [revision |-> new.revision + 1, book |-> new.book]
          /\ projection' = Synced(task[w].original, new.book)
          /\ audit' = Append(audit, [actor |-> task[w].user,
                                     revision |-> new.revision + 1])
          /\ history' = Append(history, new.book)
          /\ Unlock(w)
          /\ Go(w, "committed")
          /\ UNCHANGED <<task, cacheVars>>
       \/ Rollback(w)
    /\ UNCHANGED <<worldVars, requests>>

(* The caches of the process drop the household; then the request ends.    *)
Invalidate(w) ==
    /\ pc[w] = "committed"
    /\ dashboards' = [dashboards EXCEPT ![ProcessOf[w]] = {}]
    /\ bootstraps' = [bootstraps EXCEPT ![ProcessOf[w]] = {}]
    /\ Leave(w)
    /\ UNCHANGED <<dbVars, lockVars, worldVars, requests>>

-----------------------------------------------------------------------------
(* Runtime.bootstrap and Runtime.dashboard. *)

(* What a cache can hold once e is stored: the older entries are dropped   *)
(* in some order until the limit is kept.                                  *)
Stored(cache, e) ==
    LET others == {x \in cache : x.key # e.key}
    IN  {S \in SUBSET others :
            Cardinality(S) = IF Cardinality(others) < CacheLimit
                             THEN Cardinality(others) ELSE CacheLimit - 1}

Peek(w, u) ==
    /\ Arrive(w)
    /\ Member(u)
    /\ Note(w, [NoTask EXCEPT !.user = u, !.since = row.revision,
                              !.dawn = today])
    /\ Go(w, "peeked")
    /\ UNCHANGED <<dbVars, lockVars, cacheVars, worldVars>>

(* Mutant: any bootstrap of the day will do. *)
HitsDay(w, e) == e.key[2] = today
Hits(w, e) == e.key = <<task[w].since, today>>

Lookup(w) ==
    /\ pc[w] = "peeked"
    /\ IF \E e \in bootstraps[ProcessOf[w]] : Hits(w, e)
       THEN /\ \E e \in bootstraps[ProcessOf[w]] :
                  /\ Hits(w, e)
                  /\ Note(w, [task[w] EXCEPT !.view = e.view])
            /\ Go(w, "answered")
       ELSE /\ Note(w, [task[w] EXCEPT !.day = today])
            /\ Go(w, "missed")
    /\ UNCHANGED <<dbVars, lockVars, cacheVars, worldVars, requests>>

(* The row may be newer than the revision that was peeked at, and the      *)
(* membership may be gone.                                                 *)
AsOf == IF LiveDates THEN today ELSE 0
Load(w) ==
    /\ pc[w] = "missed"
    /\ IF Member(task[w].user)
       THEN /\ Note(w, [task[w] EXCEPT
                           !.view = View(row.revision, row.book, AsOf)])
            /\ Go(w, "loaded")
       ELSE Leave(w)
    /\ UNCHANGED <<dbVars, lockVars, cacheVars, worldVars, requests>>

(* A request for the dashboard alone reads the row at once.                *)
LoadAtOnce(w, u) ==
    /\ Arrive(w)
    /\ Member(u)
    /\ Note(w, [NoTask EXCEPT !.user = u, !.since = row.revision,
                              !.dawn = today,
                              !.view = View(row.revision, row.book, AsOf)])
    /\ Go(w, "loaded")
    /\ UNCHANGED <<dbVars, lockVars, cacheVars, worldVars>>

DashboardKey(view) == <<view.revision, view.asOf>>
Draw(w) ==
    /\ pc[w] = "loaded"
    /\ LET p == ProcessOf[w]
           k == DashboardKey(task[w].view)
       IN  IF \E e \in dashboards[p] : e.key = k
           THEN /\ \E e \in dashboards[p] :
                      e.key = k /\ Note(w, [task[w] EXCEPT !.view = e.view])
                /\ UNCHANGED dashboards
           ELSE /\ LET e == [key |-> k, view |-> task[w].view] IN
                   \E S \in Stored(dashboards[p], e) :
                      dashboards' = [dashboards EXCEPT ![p] = S \cup {e}]
                /\ UNCHANGED task
    /\ Go(w, IF task[w].day = None THEN "answered" ELSE "drawn")
    /\ UNCHANGED <<dbVars, lockVars, bootstraps, worldVars, requests>>

(* The key is the revision that was read, not the one that was peeked at.  *)
(* Mutant: it is the one that was peeked at. *)
BootstrapKeyPeeked(t) == <<t.since, t.day>>
BootstrapKey(t) == <<t.view.revision, t.day>>
Keep(w) ==
    /\ pc[w] = "drawn"
    /\ LET p == ProcessOf[w]
           e == [key |-> BootstrapKey(task[w]), view |-> task[w].view]
       IN  \E S \in Stored(bootstraps[p], e) :
              bootstraps' = [bootstraps EXCEPT ![p] = S \cup {e}]
    /\ Go(w, "answered")
    /\ UNCHANGED <<dbVars, lockVars, dashboards, task, worldVars, requests>>

Answer(w) ==
    /\ pc[w] = "answered"
    /\ Leave(w)
    /\ UNCHANGED <<dbVars, lockVars, cacheVars, worldVars, requests>>

-----------------------------------------------------------------------------
(* Around the requests. *)

(* An operator changes a membership; PostgreSQL makes it wait for a writer *)
(* that has locked it.                                                     *)
ChangeRole(u, r) ==
    /\ backend = "postgresql" => rowLock = None
    /\ r # role[u]
    /\ role' = [role EXCEPT ![u] = r]
    /\ UNCHANGED <<backend, today, dbVars, lockVars, cacheVars, pc, task>>

Midnight ==
    /\ today' = today + 1
    /\ UNCHANGED <<backend, role, dbVars, lockVars, cacheVars, pc, task>>

(* A process dies with its caches and locks; its transactions roll back.   *)
Crash(p) ==
    LET dead == {w \in Workers : ProcessOf[w] = p} IN
    /\ pc' = [w \in Workers |-> IF w \in dead THEN "idle" ELSE pc[w]]
    /\ task' = [w \in Workers |-> IF w \in dead THEN NoTask ELSE task[w]]
    /\ stripe' = [stripe EXCEPT ![p] = None]
    /\ rowLock' = IF rowLock \in dead THEN None ELSE rowLock
    /\ dashboards' = [dashboards EXCEPT ![p] = {}]
    /\ bootstraps' = [bootstraps EXCEPT ![p] = {}]
    /\ UNCHANGED <<backend, role, today, dbVars>>

-----------------------------------------------------------------------------
Step(w) ==
    \/ Lock(w) \/ Edit(w) \/ Commit(w) \/ Invalidate(w)
    \/ Lookup(w) \/ Load(w) \/ Draw(w) \/ Keep(w) \/ Answer(w)

(* A client names the revision it has loaded, or none.                     *)
Request(w, u) ==
    \/ \E expected \in {row.revision, None} : BeginWrite(w, u, expected)
    \/ Peek(w, u) \/ LoadAtOnce(w, u)

World ==
    /\ events < MaxEvents
    /\ events' = events + 1
    /\ UNCHANGED requests
    /\ \/ \E u \in Users, r \in Roles : ChangeRole(u, r)
       \/ Midnight
       \/ \E p \in Processes : Crash(p)

Next ==
    \/ \E w \in Workers : Step(w)
    \/ \E w \in Workers, u \in Users : Request(w, u)
    \/ World

Fairness == \A w \in Workers : WF_vars(Step(w))
Spec == Init /\ [][Next]_vars
FairSpec == Spec /\ Fairness

-----------------------------------------------------------------------------
Views == [revision : Nat \ {0}, book : Books, asOf : Nat]
Entries == [key : Nat \X Nat, view : Views]
Tasks == [user : Users \cup {None}, expected : Nat \cup {None},
          original : Books \cup {None}, day : Nat \cup {None},
          view : Views \cup {None}, since : Nat, dawn : Nat]

TypeOK ==
    /\ backend \in Backends
    /\ row \in [revision : Nat \ {0}, book : Books]
    /\ projection \in Books
    /\ audit \in Seq([actor : Users, revision : Nat])
    /\ history \in Seq(Books)
    /\ role \in [Users -> Roles]
    /\ today \in Nat
    /\ stripe \in [Processes -> Workers \cup {None}]
    /\ rowLock \in Workers \cup {None}
    /\ dashboards \in [Processes -> SUBSET Entries]
    /\ bootstraps \in [Processes -> SUBSET Entries]
    /\ pc \in [Workers -> {"idle", "waiting", "locked", "edited", "committed",
                           "peeked", "missed", "loaded", "drawn", "answered"}]
    /\ task \in [Workers -> Tasks]
    /\ requests \in Nat /\ events \in Nat

(* The store implements the ledger: on either database, with any number of *)
(* processes, no edit is lost, applied twice or half written, and the      *)
(* projection and the audit move with the snapshot.                        *)
Ledger == INSTANCE HouseholdLedger
              WITH history <- history, projection <- projection, audit <- audit
LedgerSpec == Ledger!Spec

(* A write that names the revision its author reviewed becomes the very    *)
(* next revision or nothing.                                               *)
ReviewedOnly ==
    [][\A w \in Workers :
          pc[w] = "edited" /\ pc'[w] = "committed" /\ task[w].expected # None
          => row'.revision = task[w].expected + 1]_vars

(* On PostgreSQL the author holds a writer's role when the write commits,  *)
(* whatever happened to it since the request began.                        *)
AuthorityAtCommit ==
    [][\A w \in Workers :
          /\ backend = "postgresql"
          /\ pc[w] = "edited" /\ pc'[w] = "committed"
          => role[task[w].user] \in Writers]_vars

(* Whatever a cache holds is the view of the revision and day in its key:  *)
(* no write, crash, rollover or slow reader leaves another one there.      *)
CachesExact ==
    \A p \in Processes :
        /\ \A e \in dashboards[p] \cup bootstraps[p] :
              /\ e.key[1] = e.view.revision
              /\ e.view.revision \in 1..row.revision
              /\ e.view.book = history[e.view.revision]
        /\ \A e \in dashboards[p] : e.key[2] = e.view.asOf
        /\ \A e \in bootstraps[p] : LiveDates => e.key[2] <= e.view.asOf

(* An answer shows no revision and no day older than its request, and what *)
(* it shows is what was committed as that revision.                        *)
AnswersFresh ==
    \A w \in Workers :
        pc[w] = "answered" =>
            /\ task[w].view.revision >= task[w].since
            /\ task[w].view.book = history[task[w].view.revision]
            /\ LiveDates => task[w].view.asOf >= task[w].dawn

(* Every request ends: nobody waits for ever for a lock, whoever fails.    *)
EveryRequestEnds == \A w \in Workers : pc[w] # "idle" ~> pc[w] = "idle"
=============================================================================
