------------------------ MODULE HouseholdStore_proofs ------------------------
(* Proofs about the household store, for every deployment and every bound. *)
EXTENDS HouseholdStore, TLAPS

(* What a worker carries is there when it is used. *)
Carried(step, t) ==
    /\ step \in {"waiting", "locked", "edited"} => t.user \in Users
    /\ step = "edited" => t.original \in Books
    /\ step \in {"edited", "loaded", "drawn", "answered"} => t.view \in Views
    /\ step = "drawn" => t.day \in Nat
TypeInv == TypeOK /\ \A w \in Workers : Carried(pc[w], task[w])

Steps == {"idle", "waiting", "locked", "edited", "committed",
          "peeked", "missed", "loaded", "drawn", "answered"}
WorkersOK ==
    /\ pc \in [Workers -> Steps]
    /\ task \in [Workers -> Tasks]
    /\ \A w \in Workers : Carried(pc[w], task[w])
DbOK ==
    /\ row \in [revision : Nat \ {0}, book : Books]
    /\ projection \in Books
    /\ audit \in Seq([actor : Users, revision : Nat])
    /\ history \in Seq(Books)
LocksOK ==
    /\ stripe \in [Processes -> Workers \cup {None}]
    /\ rowLock \in Workers \cup {None}
CachesOK ==
    /\ dashboards \in [Processes -> SUBSET Entries]
    /\ bootstraps \in [Processes -> SUBSET Entries]
WorldOK ==
    /\ backend \in Backends
    /\ role \in [Users -> Roles]
    /\ today \in Nat

(* The typing invariant, cut where the actions cut the state. *)
LEMMA TypeParts ==
    TypeInv <=> /\ WorkersOK /\ DbOK /\ LocksOK /\ CachesOK /\ WorldOK
                /\ requests \in Nat /\ events \in Nat
BY DEF TypeInv, TypeOK, WorkersOK, DbOK, LocksOK, CachesOK, WorldOK, Steps

LEMMA TypePartsNext ==
    TypeInv' <=> /\ WorkersOK' /\ DbOK' /\ LocksOK' /\ CachesOK' /\ WorldOK'
                 /\ requests' \in Nat /\ events' \in Nat
BY DEF TypeInv, TypeOK, WorkersOK, DbOK, LocksOK, CachesOK, WorldOK, Steps

(* Moving one worker to a step with what that step uses keeps the workers  *)
(* well-formed.                                                            *)
LEMMA MoveWorker ==
    ASSUME WorkersOK, NEW w \in Workers, NEW step \in Steps, NEW t \in Tasks,
           Carried(step, t), Go(w, step), Note(w, t)
    PROVE  WorkersOK'
BY DEF WorkersOK, Go, Note, Carried

LEMMA MoveOn ==
    ASSUME WorkersOK, NEW w \in Workers, NEW step \in Steps,
           Carried(step, task[w]), Go(w, step), UNCHANGED task
    PROVE  WorkersOK'
BY DEF WorkersOK, Go, Carried

LEMMA NoTaskType == ASSUME StoreAssumption PROVE NoTask \in Tasks
BY DEF NoTask, Tasks

LEMMA LeaveType ==
    ASSUME StoreAssumption, WorkersOK, NEW w \in Workers, Leave(w)
    PROVE  WorkersOK'
<1>1. Carried("idle", NoTask)
  BY DEF Carried
<1>2. QED
  BY <1>1, NoTaskType, MoveWorker DEF Leave, Steps

LEMMA UnlockType ==
    ASSUME StoreAssumption, LocksOK, NEW w \in Workers, Unlock(w)
    PROVE  LocksOK'
BY DEF Unlock, LocksOK, StoreAssumption

LEMMA RollbackType ==
    ASSUME StoreAssumption, WorkersOK, LocksOK, NEW w \in Workers, Rollback(w)
    PROVE  WorkersOK' /\ LocksOK' /\ UNCHANGED <<dbVars, cacheVars>>
BY LeaveType, UnlockType DEF Rollback

(* The view of the row, and the view an edit makes of it. *)
LEMMA ViewType ==
    ASSUME StoreAssumption, DbOK, WorldOK
    PROVE  /\ View(row.revision, row.book, AsOf) \in Views
           /\ \A t \in Tx, v \in Values \cup {None} :
                 View(row.revision, [row.book EXCEPT ![t] = v], today) \in Views
<1>1. /\ row.revision \in Nat \ {0} /\ row.book \in [Tx -> Values \cup {None}]
      /\ today \in Nat /\ AsOf \in Nat
  BY DEF DbOK, WorldOK, AsOf, Books
<1>2. \A t \in Tx, v \in Values \cup {None} :
         [row.book EXCEPT ![t] = v] \in [Tx -> Values \cup {None}]
  BY <1>1
<1>3. QED
  BY <1>1, <1>2 DEF View, Views, Books

-----------------------------------------------------------------------------
(* One step of the type proof per action. *)

(* The keys that the caches file their views under are well-formed. *)
LEMMA StoredType ==
    ASSUME NEW cache \in SUBSET Entries, NEW e \in Entries,
           NEW S \in Stored(cache, e)
    PROVE  S \cup {e} \in SUBSET Entries
BY DEF Stored

LEMMA RequestTypes ==
    ASSUME StoreAssumption, TypeInv, NEW w \in Workers, NEW u \in Users,
           Request(w, u)
    PROVE  WorkersOK' /\ UNCHANGED <<dbVars, lockVars, cacheVars, worldVars>>
                      /\ requests' \in Nat
<1> USE TypeParts
<1>1. NoTask \in Tasks /\ row.revision \in Nat /\ today \in Nat
  BY NoTaskType DEF DbOK, WorldOK
<1>2. ASSUME NEW x \in {row.revision, None}, BeginWrite(w, u, x)
      PROVE  WorkersOK'
  <2> DEFINE t == [NoTask EXCEPT !.user = u, !.expected = x]
  <2>1. t \in Tasks /\ Carried("waiting", t)
    BY <1>1 DEF Tasks, NoTask, Carried
  <2>2. Go(w, "waiting") /\ Note(w, t)
    BY <1>2 DEF BeginWrite
  <2>3. QED
    BY <2>1, <2>2, MoveWorker DEF Steps
<1>3. ASSUME Peek(w, u) PROVE WorkersOK'
  <2> DEFINE t == [NoTask EXCEPT !.user = u, !.since = row.revision,
                                 !.dawn = today]
  <2>1. t \in Tasks /\ Carried("peeked", t)
    BY <1>1 DEF Tasks, NoTask, Carried
  <2>2. Go(w, "peeked") /\ Note(w, t)
    BY <1>3 DEF Peek
  <2>3. QED
    BY <2>1, <2>2, MoveWorker DEF Steps
<1>4. ASSUME LoadAtOnce(w, u) PROVE WorkersOK'
  <2> DEFINE v == View(row.revision, row.book, AsOf)
             t == [NoTask EXCEPT !.user = u, !.since = row.revision,
                                 !.dawn = today, !.view = v]
  <2>1. v \in Views
    BY ViewType
  <2> HIDE DEF v
  <2>2. t \in Tasks /\ Carried("loaded", t)
    BY <1>1, <2>1 DEF Tasks, NoTask, Carried
  <2>3. Go(w, "loaded") /\ Note(w, t)
    BY <1>4 DEF LoadAtOnce, v
  <2>4. QED
    BY <2>2, <2>3, MoveWorker DEF Steps
<1>5. QED
  BY <1>2, <1>3, <1>4 DEF Request, BeginWrite, Peek, LoadAtOnce, Arrive

LEMMA LockTypes ==
    ASSUME StoreAssumption, TypeInv, NEW w \in Workers, Lock(w)
    PROVE  TypeInv'
<1> USE TypeParts
<1>1. Carried("locked", task[w])
  BY DEF Lock, WorkersOK, Carried
<1>2. WorkersOK'
  BY <1>1, MoveOn DEF Lock, Steps
<1>3. LocksOK'
  BY DEF Lock, LocksOK
<1>4. QED
  BY <1>2, <1>3, TypePartsNext
  DEF Lock, DbOK, CachesOK, WorldOK, dbVars, cacheVars, worldVars

LEMMA EditTypes ==
    ASSUME StoreAssumption, TypeInv, NEW w \in Workers, Edit(w)
    PROVE  TypeInv'
<1> USE TypeParts
<1>1. CASE Rollback(w)
  BY <1>1, RollbackType, TypePartsNext
  DEF Edit, DbOK, CachesOK, WorldOK, dbVars, cacheVars, worldVars
<1>2. CASE ~Rollback(w)
  <2>1. PICK t \in Tx, v \in Values \cup {None} :
           Note(w, [task[w] EXCEPT
                !.original = row.book,
                !.view = View(row.revision, [row.book EXCEPT ![t] = v], today)])
    BY <1>2 DEF Edit
  <2> DEFINE new == View(row.revision, [row.book EXCEPT ![t] = v], today)
             x == [task[w] EXCEPT !.original = row.book, !.view = new]
  <2>2. new \in Views
    BY ViewType
  <2> HIDE DEF new
  <2>3. task[w] \in Tasks /\ task[w].user \in Users /\ row.book \in Books
    BY DEF Edit, WorkersOK, Carried, DbOK
  <2>4. x \in Tasks /\ Carried("edited", x)
    BY <2>2, <2>3 DEF Tasks, Carried
  <2>5. Go(w, "edited") /\ Note(w, x)
    BY <1>2, <2>1 DEF Edit, new
  <2>6. WorkersOK'
    BY <2>4, <2>5, MoveWorker DEF Steps
  <2>7. LocksOK'
    BY <1>2 DEF Edit, LocksOK
  <2>8. QED
    BY <1>2, <2>6, <2>7, TypePartsNext
    DEF Edit, DbOK, CachesOK, WorldOK, dbVars, cacheVars, worldVars
<1>3. QED
  BY <1>1, <1>2

LEMMA CommitTypes ==
    ASSUME StoreAssumption, TypeInv, NEW w \in Workers, Commit(w)
    PROVE  TypeInv'
<1> USE TypeParts
<1>1. CASE Rollback(w)
  BY <1>1, RollbackType, TypePartsNext
  DEF Commit, DbOK, CachesOK, WorldOK, dbVars, cacheVars, worldVars
<1>2. CASE ~Rollback(w)
  <2> DEFINE new == task[w].view
             entry == [actor |-> task[w].user, revision |-> new.revision + 1]
  <2>1. new \in Views /\ task[w].user \in Users /\ task[w].original \in Books
    BY DEF Commit, WorkersOK, Carried
  <2>2. Synced(task[w].original, new.book) \in Books
    BY <2>1 DEF Synced, Books, Views, DbOK
  <2>3. entry \in [actor : Users, revision : Nat] /\ new.book \in Books
        /\ new.revision + 1 \in Nat \ {0}
    BY <2>1 DEF Views
  <2>4. DbOK'
    <3>1. /\ row' = [revision |-> new.revision + 1, book |-> new.book]
          /\ projection' = Synced(task[w].original, new.book)
          /\ audit' = Append(audit, entry)
          /\ history' = Append(history, new.book)
      BY <1>2 DEF Commit
    <3> HIDE DEF new, entry
    <3>2. QED
      BY <2>2, <2>3, <3>1 DEF DbOK
  <2>5. WorkersOK'
    <3>1. Carried("committed", task[w])
      BY DEF Carried
    <3>2. Go(w, "committed") /\ UNCHANGED task
      BY <1>2 DEF Commit
    <3>3. QED
      BY <3>1, <3>2, MoveOn DEF Steps
  <2>6. LocksOK'
    BY <1>2, UnlockType DEF Commit
  <2>7. QED
    BY <1>2, <2>4, <2>5, <2>6, TypePartsNext
    DEF Commit, CachesOK, WorldOK, cacheVars, worldVars
<1>3. QED
  BY <1>1, <1>2

LEMMA InvalidateTypes ==
    ASSUME StoreAssumption, TypeInv, NEW w \in Workers, Invalidate(w)
    PROVE  TypeInv'
<1> USE TypeParts
<1>1. WorkersOK'
  BY LeaveType DEF Invalidate
<1>2. CachesOK'
  BY DEF Invalidate, CachesOK
<1>3. QED
  BY <1>1, <1>2, TypePartsNext
  DEF Invalidate, DbOK, LocksOK, WorldOK, dbVars, lockVars, worldVars

LEMMA LookupTypes ==
    ASSUME StoreAssumption, TypeInv, NEW w \in Workers, Lookup(w)
    PROVE  TypeInv'
<1> USE TypeParts
<1>1. task[w] \in Tasks /\ today \in Nat
  BY DEF WorkersOK, WorldOK
<1>2. CASE \E e \in bootstraps[ProcessOf[w]] : Hits(w, e)
  <2>1. PICK e \in bootstraps[ProcessOf[w]] :
           Note(w, [task[w] EXCEPT !.view = e.view])
    BY <1>2 DEF Lookup
  <2> DEFINE t == [task[w] EXCEPT !.view = e.view]
  <2>2. e.view \in Views
    BY DEF CachesOK, Entries, StoreAssumption
  <2>3. t \in Tasks /\ Carried("answered", t)
    BY <1>1, <2>2 DEF Tasks, Carried
  <2>4. Go(w, "answered") /\ Note(w, t)
    BY <1>2, <2>1 DEF Lookup
  <2>5. QED
    BY <2>3, <2>4, MoveWorker, TypePartsNext
    DEF Lookup, Steps, DbOK, LocksOK, CachesOK, WorldOK, dbVars, lockVars,
        cacheVars, worldVars
<1>3. CASE ~\E e \in bootstraps[ProcessOf[w]] : Hits(w, e)
  <2> DEFINE t == [task[w] EXCEPT !.day = today]
  <2>1. t \in Tasks /\ Carried("missed", t)
    BY <1>1 DEF Tasks, Carried
  <2>2. Go(w, "missed") /\ Note(w, t)
    BY <1>3 DEF Lookup
  <2>3. QED
    BY <2>1, <2>2, MoveWorker, TypePartsNext
    DEF Lookup, Steps, DbOK, LocksOK, CachesOK, WorldOK, dbVars, lockVars,
        cacheVars, worldVars
<1>4. QED
  BY <1>2, <1>3

LEMMA LoadTypes ==
    ASSUME StoreAssumption, TypeInv, NEW w \in Workers, Load(w)
    PROVE  TypeInv'
<1> USE TypeParts
<1>1. WorkersOK'
  <2>1. CASE Leave(w)
    BY <2>1, LeaveType
  <2>2. CASE ~Leave(w)
    <3> DEFINE v == View(row.revision, row.book, AsOf)
               t == [task[w] EXCEPT !.view = v]
    <3>1. v \in Views
      BY ViewType
    <3>2. Go(w, "loaded") /\ Note(w, t)
      BY <2>2 DEF Load
    <3> HIDE DEF v
    <3>3. t \in Tasks /\ Carried("loaded", t)
      BY <3>1 DEF WorkersOK, Tasks, Carried
    <3>4. QED
      BY <3>2, <3>3, MoveWorker DEF Steps
  <2>3. QED
    BY <2>1, <2>2
<1>2. QED
  BY <1>1, TypePartsNext
  DEF Load, DbOK, LocksOK, CachesOK, WorldOK, dbVars, lockVars, cacheVars,
      worldVars

LEMMA DrawTypes ==
    ASSUME StoreAssumption, TypeInv, NEW w \in Workers, Draw(w)
    PROVE  TypeInv'
<1> USE TypeParts
<1> DEFINE p == ProcessOf[w]
           k == DashboardKey(task[w].view)
           step == IF task[w].day = None THEN "answered" ELSE "drawn"
<1>1. /\ p \in Processes /\ task[w] \in Tasks /\ task[w].view \in Views
      /\ k \in Nat \X Nat
  BY DEF Draw, WorkersOK, Carried, StoreAssumption, DashboardKey, Views
<1>2. Go(w, step) /\ step \in Steps
  BY DEF Draw, Steps
<1>3. ASSUME NEW v \in Views, NEW t, t = [task[w] EXCEPT !.view = v]
      PROVE  t \in Tasks /\ Carried(step, t)
  BY <1>1, <1>3 DEF Tasks, Carried
<1>4. WorkersOK' /\ CachesOK'
  <2>1. CASE \E e \in dashboards[p] : e.key = k
    <3>1. PICK e \in dashboards[p] : Note(w, [task[w] EXCEPT !.view = e.view])
      BY <2>1 DEF Draw
    <3>2. e.view \in Views
      BY <1>1 DEF CachesOK, Entries
    <3> DEFINE t == [task[w] EXCEPT !.view = e.view]
    <3>3. t \in Tasks /\ Carried(step, t)
      BY <1>3, <3>2
    <3> HIDE DEF step
    <3>4. WorkersOK'
      BY <1>2, <3>1, <3>3, MoveWorker
    <3>5. QED
      BY <2>1, <3>4 DEF Draw, CachesOK
  <2>2. CASE ~\E e \in dashboards[p] : e.key = k
    <3> DEFINE e == [key |-> k, view |-> task[w].view]
    <3>1. PICK S \in Stored(dashboards[p], e) :
             dashboards' = [dashboards EXCEPT ![p] = S \cup {e}]
      BY <2>2 DEF Draw
    <3>2. e \in Entries /\ dashboards[p] \in SUBSET Entries
      BY <1>1 DEF Entries, CachesOK
    <3>3. S \cup {e} \in SUBSET Entries
      BY <3>2, StoredType
    <3>4. CachesOK'
      BY <3>1, <3>3 DEF CachesOK, Draw
    <3>5. Carried(step, task[w]) /\ UNCHANGED task
      BY <1>1, <2>2 DEF Draw, Carried, Tasks
    <3> HIDE DEF step
    <3>6. QED
      BY <1>2, <3>4, <3>5, MoveOn
  <2>3. QED
    BY <2>1, <2>2
<1>5. QED
  BY <1>4, TypePartsNext
  DEF Draw, DbOK, LocksOK, WorldOK, dbVars, lockVars, worldVars

LEMMA KeepTypes ==
    ASSUME StoreAssumption, TypeInv, NEW w \in Workers, Keep(w)
    PROVE  TypeInv'
<1> USE TypeParts
<1> DEFINE p == ProcessOf[w]
           e == [key |-> BootstrapKey(task[w]), view |-> task[w].view]
<1>1. p \in Processes /\ task[w].view \in Views /\ task[w].day \in Nat
  BY DEF Keep, WorkersOK, Carried, StoreAssumption
<1>2. PICK S \in Stored(bootstraps[p], e) :
         bootstraps' = [bootstraps EXCEPT ![p] = S \cup {e}]
  BY DEF Keep
<1>3. e \in Entries /\ bootstraps[p] \in SUBSET Entries
  BY <1>1 DEF Entries, CachesOK, BootstrapKey, Views
<1>4. S \cup {e} \in SUBSET Entries
  BY <1>3, StoredType
<1>5. CachesOK'
  BY <1>2, <1>4 DEF CachesOK, Keep
<1>6. Carried("answered", task[w])
  BY <1>1 DEF Carried
<1>7. WorkersOK'
  BY <1>6, MoveOn DEF Keep, Steps
<1>8. QED
  BY <1>5, <1>7, TypePartsNext
  DEF Keep, DbOK, LocksOK, WorldOK, dbVars, lockVars, worldVars

LEMMA AnswerTypes ==
    ASSUME StoreAssumption, TypeInv, NEW w \in Workers, Answer(w)
    PROVE  TypeInv'
BY LeaveType, TypeParts, TypePartsNext
DEF Answer, DbOK, LocksOK, CachesOK, WorldOK, dbVars, lockVars, cacheVars,
    worldVars

LEMMA WorldTypes ==
    ASSUME StoreAssumption, TypeInv, World
    PROVE  TypeInv'
<1> USE TypeParts
<1>1. events' \in Nat /\ requests' \in Nat
  BY DEF World
<1>2. ASSUME NEW u \in Users, NEW r \in Roles, ChangeRole(u, r)
      PROVE  TypeInv'
  <2>1. WorldOK'
    BY <1>2 DEF ChangeRole, WorldOK
  <2>2. QED
    BY <1>1, <1>2, <2>1, TypePartsNext
    DEF ChangeRole, DbOK, LocksOK, CachesOK, WorkersOK, dbVars, lockVars,
        cacheVars
<1>3. ASSUME Midnight PROVE TypeInv'
  <2>1. WorldOK'
    BY <1>3 DEF Midnight, WorldOK
  <2>2. QED
    BY <1>1, <1>3, <2>1, TypePartsNext
    DEF Midnight, DbOK, LocksOK, CachesOK, WorkersOK, dbVars, lockVars,
        cacheVars
<1>4. ASSUME NEW p \in Processes, Crash(p) PROVE TypeInv'
  <2>1. WorkersOK'
    BY <1>4, NoTaskType DEF Crash, WorkersOK, Carried, Steps
  <2>2. LocksOK' /\ CachesOK'
    BY <1>4 DEF Crash, LocksOK, CachesOK
  <2>3. QED
    BY <1>1, <1>4, <2>1, <2>2, TypePartsNext
    DEF Crash, DbOK, WorldOK, dbVars
<1>5. QED
  BY <1>2, <1>3, <1>4 DEF World

LEMMA ServedType == ASSUME StoreAssumption PROVE Served \in Entries
<1>1. View(1, FirstBook, 0) \in Views
  BY DEF View, Views, StoreAssumption
<1>2. QED
  BY <1>1 DEF Served, Entries

LEMMA InitTypes == ASSUME StoreAssumption, Init PROVE TypeInv
<1>1. WorkersOK
  BY NoTaskType DEF Init, WorkersOK, Carried, Steps
<1>2. DbOK
  BY DEF Init, DbOK, StoreAssumption, Books
<1>3. LocksOK /\ CachesOK /\ WorldOK
  BY ServedType DEF Init, LocksOK, CachesOK, WorldOK, StoreAssumption
<1>4. QED
  BY <1>1, <1>2, <1>3, TypeParts DEF Init

LEMMA NextTypes == ASSUME StoreAssumption, TypeInv, [Next]_vars PROVE TypeInv'
<1>1. CASE UNCHANGED vars
  BY <1>1 DEF vars, TypeInv, TypeOK
<1>2. ASSUME NEW w \in Workers, Step(w) PROVE TypeInv'
  BY <1>2, LockTypes, EditTypes, CommitTypes, InvalidateTypes, LookupTypes,
     LoadTypes, DrawTypes, KeepTypes, AnswerTypes DEF Step
<1>3. ASSUME NEW w \in Workers, NEW u \in Users, Request(w, u)
      PROVE  TypeInv'
  BY <1>3, RequestTypes, TypeParts, TypePartsNext
  DEF DbOK, LocksOK, CachesOK, WorldOK, dbVars, lockVars, cacheVars, worldVars
<1>4. CASE World
  BY <1>4, WorldTypes
<1>5. QED
  BY <1>1, <1>2, <1>3, <1>4 DEF Next

(* Every state of the store is well typed. *)
THEOREM TypeCorrect == Spec => []TypeOK
<1>1. Init => TypeInv
  BY InitTypes, StoreAssumption
<1>2. TypeInv /\ [Next]_vars => TypeInv'
  BY NextTypes, StoreAssumption
<1>3. TypeInv => TypeOK
  BY DEF TypeInv
<1>4. QED
  BY <1>1, <1>2, <1>3, PTL DEF Spec

-----------------------------------------------------------------------------
(* What every snapshot that is carried or kept is a snapshot of. *)

Shown(v, h) == v.revision \in 1..Len(h) /\ v.book = h[v.revision]
OneEdit(t) == \E x \in Tx, v \in Values \cup {None} :
                 t.view.book = [t.original EXCEPT ![x] = v]
EditOf(t, h) ==
    /\ t.view.revision \in 1..Len(h)
    /\ t.original = h[t.view.revision]
    /\ OneEdit(t)
Honest(step, t, h, d) ==
    /\ step = "edited" => EditOf(t, h)
    /\ step \in {"peeked", "missed"} => t.since <= Len(h) /\ t.dawn <= d
    /\ step = "missed" => t.day \in Nat /\ t.dawn <= t.day /\ t.day <= d
    /\ step \in {"loaded", "drawn", "answered"} =>
          /\ Shown(t.view, h)
          /\ t.since <= t.view.revision
          /\ LiveDates => t.dawn <= t.view.asOf
    /\ step \in {"loaded", "drawn"} /\ t.day # None /\ LiveDates
          => t.day <= t.view.asOf

AllHonest == \A w \in Workers : Honest(pc[w], task[w], history, today)
Dashboard(e, h) == Shown(e.view, h) /\ e.key = <<e.view.revision, e.view.asOf>>
Bootstrap(e, h) ==
    /\ Shown(e.view, h)
    /\ e.key[1] = e.view.revision
    /\ LiveDates => e.key[2] <= e.view.asOf
AllKept ==
    \A p \in Processes :
        /\ \A e \in dashboards[p] : Dashboard(e, history)
        /\ \A e \in bootstraps[p] : Bootstrap(e, history)
Ledgered ==
    /\ Len(history) = row.revision
    /\ row.book = history[row.revision]
    /\ projection = row.book
StoreInv == TypeInv /\ Ledgered /\ AllHonest /\ AllKept

(* A longer history and a later day keep what was honest. *)
Longer(h, d) ==
    /\ Len(h) <= Len(history') /\ \A i \in 1..Len(h) : history'[i] = h[i]
    /\ d <= today'

LEMMA HonestStays ==
    ASSUME NEW step, NEW t \in Tasks, DbOK, WorldOK, DbOK', WorldOK',
           Carried(step, t), Honest(step, t, history, today),
           Longer(history, today)
    PROVE  Honest(step, t, history', today')
<1>1. Len(history) \in Nat /\ Len(history') \in Nat
      /\ today \in Nat /\ today' \in Nat
  BY DEF DbOK, WorldOK
<1>2. t.since \in Nat /\ t.dawn \in Nat
  BY DEF Tasks
<1>3. EditOf(t, history) => EditOf(t, history')
  BY <1>1 DEF EditOf, Longer
<1>4. Shown(t.view, history) => Shown(t.view, history')
  BY <1>1 DEF Shown, Longer
<1>5. t.since <= Len(history) => t.since <= Len(history')
  BY <1>1, <1>2 DEF Longer
<1>6. ASSUME NEW x \in Nat, x <= today PROVE x <= today'
  BY <1>1, <1>6 DEF Longer
<1>7. QED
  BY <1>2, <1>3, <1>4, <1>5, <1>6 DEF Honest

LEMMA KeptStay ==
    ASSUME DbOK, DbOK', AllKept, Longer(history, today),
           UNCHANGED cacheVars
    PROVE  AllKept'
<1>1. Len(history) \in Nat /\ Len(history') \in Nat
  BY DEF DbOK
<1>2. ASSUME NEW v, Shown(v, history) PROVE Shown(v, history')
  BY <1>1, <1>2 DEF Shown, Longer
<1>3. QED
  BY <1>2 DEF AllKept, Dashboard, Bootstrap, cacheVars

(* A step of one worker that commits nothing. *)
LEMMA OneWorker ==
    ASSUME StoreInv, NEW w \in Workers, NEW step \in Steps, NEW t \in Tasks,
           Go(w, step), Note(w, t), Honest(step, t, history, today),
           UNCHANGED <<dbVars, worldVars>>
    PROVE  AllHonest' /\ Ledgered'
<1>1. AllHonest'
  BY DEF StoreInv, TypeInv, TypeOK, AllHonest, Go, Note, dbVars, worldVars
<1>2. Ledgered'
  BY DEF StoreInv, Ledgered, dbVars
<1>3. QED
  BY <1>1, <1>2

LEMMA OneGoesOn ==
    ASSUME StoreInv, NEW w \in Workers, NEW step \in Steps,
           Go(w, step), UNCHANGED task, Honest(step, task[w], history, today),
           UNCHANGED <<dbVars, worldVars>>
    PROVE  AllHonest' /\ Ledgered'
<1>1. AllHonest'
  BY DEF StoreInv, TypeInv, TypeOK, AllHonest, Go, dbVars, worldVars
<1>2. Ledgered'
  BY DEF StoreInv, Ledgered, dbVars
<1>3. QED
  BY <1>1, <1>2

LEMMA OneLeaves ==
    ASSUME StoreAssumption, StoreInv, NEW w \in Workers, Leave(w),
           UNCHANGED <<dbVars, worldVars>>
    PROVE  AllHonest' /\ Ledgered'
<1>1. Honest("idle", NoTask, history, today)
  BY DEF Honest
<1>2. QED
  BY <1>1, NoTaskType, OneWorker DEF Leave, Steps

LEMMA SameHistory ==
    ASSUME DbOK, WorldOK, UNCHANGED <<dbVars, worldVars>>
    PROVE  Longer(history, today)
BY DEF DbOK, WorldOK, Longer, dbVars, worldVars

(* The view of the row is of the last revision. *)
LEMMA RowShown ==
    ASSUME StoreAssumption, StoreInv
    PROVE  /\ Shown(View(row.revision, row.book, AsOf), history)
           /\ row.revision = Len(history) /\ today \in Nat
           /\ LiveDates => AsOf = today
BY DEF StoreInv, TypeInv, TypeOK, Ledgered, Shown, View, AsOf

-----------------------------------------------------------------------------
(* One step of the proof per action. *)

LEMMA RequestKeeps ==
    ASSUME StoreAssumption, StoreInv, NEW w \in Workers, NEW u \in Users,
           Request(w, u)
    PROVE  AllHonest' /\ Ledgered' /\ AllKept'
<1>1. /\ UNCHANGED <<dbVars, lockVars, cacheVars, worldVars>>
      /\ NoTask \in Tasks /\ row.revision \in Nat /\ today \in Nat
  BY RequestTypes, NoTaskType DEF StoreInv, TypeInv, TypeOK
<1>2. AllKept'
  BY <1>1 DEF StoreInv, AllKept, cacheVars, dbVars
<1>3. ASSUME NEW x \in {row.revision, None}, BeginWrite(w, u, x)
      PROVE  AllHonest' /\ Ledgered'
  <2> DEFINE t == [NoTask EXCEPT !.user = u, !.expected = x]
  <2>1. t \in Tasks /\ Honest("waiting", t, history, today)
    BY <1>1 DEF Tasks, NoTask, Honest
  <2>2. Go(w, "waiting") /\ Note(w, t)
    BY <1>3 DEF BeginWrite
  <2>3. QED
    BY <1>1, <2>1, <2>2, OneWorker DEF Steps
<1>4. ASSUME Peek(w, u) PROVE AllHonest' /\ Ledgered'
  <2> DEFINE t == [NoTask EXCEPT !.user = u, !.since = row.revision,
                                 !.dawn = today]
  <2>1. t \in Tasks /\ t.since = row.revision /\ t.dawn = today
    BY <1>1 DEF Tasks, NoTask
  <2>2. Honest("peeked", t, history, today)
    BY <1>1, <2>1, RowShown DEF Honest
  <2>3. Go(w, "peeked") /\ Note(w, t)
    BY <1>4 DEF Peek
  <2>4. QED
    BY <1>1, <2>1, <2>2, <2>3, OneWorker DEF Steps
<1>5. ASSUME LoadAtOnce(w, u) PROVE AllHonest' /\ Ledgered'
  <2> DEFINE v == View(row.revision, row.book, AsOf)
             t == [NoTask EXCEPT !.user = u, !.since = row.revision,
                                 !.dawn = today, !.view = v]
  <2>1. /\ v \in Views /\ Shown(v, history)
        /\ v.revision = row.revision /\ v.asOf = AsOf
    BY ViewType, TypeParts, RowShown DEF StoreInv, View
  <2> HIDE DEF v
  <2>2. /\ t \in Tasks /\ t.since = row.revision /\ t.dawn = today
        /\ t.view = v /\ t.day = None
    BY <1>1, <2>1 DEF Tasks, NoTask
  <2>3. Honest("loaded", t, history, today)
    BY <1>1, <2>1, <2>2, RowShown DEF Honest
  <2>4. Go(w, "loaded") /\ Note(w, t)
    BY <1>5 DEF LoadAtOnce, v
  <2>5. QED
    BY <1>1, <2>2, <2>3, <2>4, OneWorker DEF Steps
<1>6. QED
  BY <1>2, <1>3, <1>4, <1>5 DEF Request

LEMMA LockKeeps ==
    ASSUME StoreAssumption, StoreInv, NEW w \in Workers, Lock(w)
    PROVE  AllHonest' /\ Ledgered' /\ AllKept'
<1>1. Honest("locked", task[w], history, today)
  BY DEF Honest
<1>2. AllHonest' /\ Ledgered'
  BY <1>1, OneGoesOn DEF Lock, Steps
<1>3. AllKept'
  BY DEF Lock, StoreInv, AllKept, cacheVars, dbVars
<1>4. QED
  BY <1>2, <1>3

LEMMA EditKeeps ==
    ASSUME StoreAssumption, StoreInv, NEW w \in Workers, Edit(w)
    PROVE  AllHonest' /\ Ledgered' /\ AllKept'
<1>1. UNCHANGED <<dbVars, cacheVars, worldVars>>
  BY DEF Edit, Rollback
<1>2. AllKept'
  BY <1>1 DEF StoreInv, AllKept, cacheVars, dbVars
<1>3. CASE Rollback(w)
  BY <1>1, <1>2, <1>3, OneLeaves DEF Rollback
<1>4. CASE ~Rollback(w)
  <2>1. PICK t \in Tx, v \in Values \cup {None} :
           Note(w, [task[w] EXCEPT
                !.original = row.book,
                !.view = View(row.revision, [row.book EXCEPT ![t] = v], today)])
    BY <1>4 DEF Edit
  <2> DEFINE book == [row.book EXCEPT ![t] = v]
             new == View(row.revision, book, today)
             x == [task[w] EXCEPT !.original = row.book, !.view = new]
  <2>2. /\ new \in Views /\ new.revision = row.revision /\ new.book = book
        /\ row.book \in Books /\ task[w] \in Tasks
    BY ViewType, TypeParts DEF StoreInv, TypeInv, TypeOK, View
  <2>3. Go(w, "edited") /\ Note(w, x)
    BY <1>4, <2>1 DEF Edit
  <2> HIDE DEF new
  <2>4. x \in Tasks /\ x.original = row.book /\ x.view = new
    BY <2>2 DEF Tasks
  <2>5. row.revision \in 1..Len(history) /\ row.book = history[row.revision]
    BY DEF StoreInv, TypeInv, TypeOK, Ledgered
  <2>6. EditOf(x, history)
    BY <2>2, <2>4, <2>5 DEF EditOf, OneEdit
  <2>7. Honest("edited", x, history, today)
    BY <2>6 DEF Honest
  <2>8. QED
    BY <1>1, <1>2, <2>3, <2>4, <2>7, OneWorker DEF Steps
<1>5. QED
  BY <1>3, <1>4

(* A commit appends the edit of one record of the last revision to the     *)
(* history, and its projection and audit follow.                           *)
LEMMA CommitAppends ==
    ASSUME StoreAssumption, StoreInv, NEW w \in Workers, Commit(w),
           ~Rollback(w)
    PROVE  /\ Ledgered'
           /\ Ledger!Next
<1> DEFINE new == task[w].view
           old == task[w].original
           u == task[w].user
<1>1. /\ new \in Views /\ old \in Books /\ u \in Users
      /\ row.revision \in Nat \ {0} /\ history \in Seq(Books)
      /\ projection \in Books
  BY TypeParts DEF StoreInv, Commit, WorkersOK, Carried, DbOK
<1>2. /\ new.revision = row.revision
      /\ row' = [revision |-> new.revision + 1, book |-> new.book]
      /\ projection' = Synced(old, new.book)
      /\ audit' = Append(audit, [actor |-> u, revision |-> new.revision + 1])
      /\ history' = Append(history, new.book)
  BY DEF Commit, Current
<1>3. EditOf(task[w], history)
  BY DEF StoreInv, AllHonest, Honest, Commit
<1>4. Len(history) = row.revision /\ row.book = history[Len(history)]
      /\ projection = row.book
  BY DEF StoreInv, Ledgered
<1>5. PICK x \in Tx, v \in Values \cup {None} : new.book = [old EXCEPT ![x] = v]
  BY <1>3 DEF EditOf, OneEdit
<1>6. old = row.book /\ old = projection /\ old = history[Len(history)]
  BY <1>2, <1>3, <1>4 DEF EditOf
<1>7. new.book \in Books
  BY <1>1 DEF Views
<1> HIDE DEF new, old, u
<1>8. Synced(old, new.book) = new.book
  BY <1>1, <1>6, <1>7 DEF Synced, Books
<1>9. Ledgered'
  BY <1>1, <1>2, <1>4, <1>7, <1>8 DEF Ledgered
<1>10. Ledger!Append1(u, x, v)
  BY <1>1, <1>2, <1>4, <1>5, <1>6, <1>8 DEF Ledger!Append1, Ledger!Newest
<1>11. QED
  BY <1>1, <1>9, <1>10 DEF Ledger!Next

LEMMA CommitKeeps ==
    ASSUME StoreAssumption, StoreInv, NEW w \in Workers, Commit(w)
    PROVE  AllHonest' /\ Ledgered' /\ AllKept'
<1>1. CASE Rollback(w)
  <2>1. UNCHANGED <<dbVars, cacheVars, worldVars>>
    BY <1>1 DEF Commit, Rollback
  <2>2. AllKept'
    BY <2>1 DEF StoreInv, AllKept, cacheVars, dbVars
  <2>3. QED
    BY <1>1, <2>1, <2>2, OneLeaves DEF Rollback
<1>2. CASE ~Rollback(w)
  <2> DEFINE book == task[w].view.book
  <2>1. TypeInv'
    BY CommitTypes DEF StoreInv
  <2>2. /\ DbOK /\ WorldOK /\ DbOK' /\ WorldOK' /\ WorkersOK
        /\ book \in Books
    BY <2>1, TypeParts, TypePartsNext
    DEF StoreInv, Commit, WorkersOK, Carried, Views
  <2>3. /\ history' = Append(history, book) /\ Go(w, "committed")
        /\ UNCHANGED <<task, cacheVars, worldVars>>
    BY <1>2 DEF Commit
  <2> HIDE DEF book
  <2>4. Longer(history, today)
    BY <2>2, <2>3 DEF DbOK, WorldOK, Longer, worldVars
  <2>5. AllKept'
    BY <2>2, <2>3, <2>4, KeptStay DEF StoreInv
  <2>6. ASSUME NEW x \in Workers
        PROVE  Honest(pc[x], task[x], history', today')
    BY <2>2, <2>4, HonestStays DEF StoreInv, AllHonest, WorkersOK
  <2>7. AllHonest'
    <3>1. ASSUME NEW x \in Workers PROVE Honest(pc'[x], task'[x], history', today')
      <4>1. CASE x = w
        BY <4>1, <2>2, <2>3 DEF Go, Honest, WorkersOK
      <4>2. CASE x # w
        BY <4>2, <2>2, <2>3, <2>6 DEF Go, WorkersOK
      <4>3. QED
        BY <4>1, <4>2
    <3>2. QED
      BY <3>1 DEF AllHonest
  <2>8. QED
    BY <1>2, <2>5, <2>7, CommitAppends
<1>3. QED
  BY <1>1, <1>2

LEMMA InvalidateKeeps ==
    ASSUME StoreAssumption, StoreInv, NEW w \in Workers, Invalidate(w)
    PROVE  AllHonest' /\ Ledgered' /\ AllKept'
<1>1. AllHonest' /\ Ledgered'
  BY OneLeaves DEF Invalidate
<1>2. AllKept'
  BY TypeParts DEF Invalidate, StoreInv, AllKept, CachesOK, dbVars
<1>3. QED
  BY <1>1, <1>2

LEMMA LookupKeeps ==
    ASSUME StoreAssumption, StoreInv, NEW w \in Workers, Lookup(w)
    PROVE  AllHonest' /\ Ledgered' /\ AllKept'
<1>1. /\ UNCHANGED <<dbVars, cacheVars, worldVars>>
      /\ task[w] \in Tasks /\ today \in Nat
      /\ task[w].since \in Nat /\ task[w].dawn \in Nat
      /\ task[w].since <= Len(history) /\ task[w].dawn <= today
  BY DEF Lookup, StoreInv, TypeInv, TypeOK, AllHonest, Honest, Tasks
<1>2. AllKept'
  BY <1>1 DEF StoreInv, AllKept, cacheVars, dbVars
<1>3. CASE \E e \in bootstraps[ProcessOf[w]] : Hits(w, e)
  <2>1. PICK e \in bootstraps[ProcessOf[w]] :
           Hits(w, e) /\ Note(w, [task[w] EXCEPT !.view = e.view])
    BY <1>3 DEF Lookup
  <2> DEFINE t == [task[w] EXCEPT !.view = e.view]
  <2>2. e \in Entries /\ Bootstrap(e, history)
    BY TypeParts DEF StoreInv, AllKept, CachesOK, StoreAssumption
  <2>3. e.view \in Views /\ e.key = <<task[w].since, today>>
    BY <2>1, <2>2 DEF Entries, Hits
  <2>4. /\ t \in Tasks /\ t.view = e.view
        /\ t.since = task[w].since /\ t.dawn = task[w].dawn
    BY <1>1, <2>3 DEF Tasks
  <2>5. /\ t.since <= e.view.revision
        /\ LiveDates => t.dawn <= e.view.asOf
        /\ Shown(e.view, history)
    BY <1>1, <2>2, <2>3, <2>4 DEF Bootstrap, Views
  <2>6. Go(w, "answered") /\ Note(w, t)
    BY <1>3, <2>1 DEF Lookup
  <2> HIDE DEF t
  <2>7. Honest("answered", t, history, today)
    BY <2>4, <2>5 DEF Honest
  <2>8. QED
    BY <1>1, <1>2, <2>4, <2>6, <2>7, OneWorker DEF Steps
<1>4. CASE ~\E e \in bootstraps[ProcessOf[w]] : Hits(w, e)
  <2> DEFINE t == [task[w] EXCEPT !.day = today]
  <2>1. /\ t \in Tasks /\ t.day = today
        /\ t.since = task[w].since /\ t.dawn = task[w].dawn
    BY <1>1 DEF Tasks
  <2>2. Go(w, "missed") /\ Note(w, t)
    BY <1>4 DEF Lookup
  <2> HIDE DEF t
  <2>3. Honest("missed", t, history, today)
    BY <1>1, <2>1 DEF Honest
  <2>4. QED
    BY <1>1, <1>2, <2>1, <2>2, <2>3, OneWorker DEF Steps
<1>5. QED
  BY <1>3, <1>4

LEMMA LoadKeeps ==
    ASSUME StoreAssumption, StoreInv, NEW w \in Workers, Load(w)
    PROVE  AllHonest' /\ Ledgered' /\ AllKept'
<1>1. UNCHANGED <<dbVars, cacheVars, worldVars>>
  BY DEF Load
<1>2. AllKept'
  BY <1>1 DEF StoreInv, AllKept, cacheVars, dbVars
<1>3. CASE Leave(w)
  BY <1>1, <1>2, <1>3, OneLeaves
<1>4. CASE ~Leave(w)
  <2> DEFINE v == View(row.revision, row.book, AsOf)
             t == [task[w] EXCEPT !.view = v]
  <2>1. /\ v \in Views /\ Shown(v, history)
        /\ v.revision = row.revision /\ v.asOf = AsOf
    BY ViewType, TypeParts, RowShown DEF StoreInv, View
  <2>2. /\ task[w] \in Tasks
        /\ task[w].since <= Len(history) /\ task[w].dawn <= today
        /\ task[w].day <= today
    BY DEF Load, StoreInv, TypeInv, TypeOK, AllHonest, Honest
  <2>3. Go(w, "loaded") /\ Note(w, t)
    BY <1>4 DEF Load
  <2> HIDE DEF v
  <2>4. /\ t \in Tasks /\ t.view = v /\ t.day = task[w].day
        /\ t.since = task[w].since /\ t.dawn = task[w].dawn
    BY <2>1, <2>2 DEF Tasks
  <2> HIDE DEF t
  <2>5. Honest("loaded", t, history, today)
    BY <2>1, <2>2, <2>4, RowShown DEF Honest
  <2>6. QED
    BY <1>1, <1>2, <2>3, <2>4, <2>5, OneWorker DEF Steps
<1>5. QED
  BY <1>3, <1>4

LEMMA DrawKeeps ==
    ASSUME StoreAssumption, StoreInv, NEW w \in Workers, Draw(w)
    PROVE  AllHonest' /\ Ledgered' /\ AllKept'
<1> DEFINE p == ProcessOf[w]
           k == DashboardKey(task[w].view)
           step == IF task[w].day = None THEN "answered" ELSE "drawn"
<1>1. /\ UNCHANGED <<dbVars, bootstraps, worldVars>>
      /\ p \in Processes /\ task[w] \in Tasks /\ task[w].view \in Views
      /\ Honest("loaded", task[w], history, today)
  BY TypeParts
  DEF Draw, StoreInv, WorkersOK, Carried, StoreAssumption, AllHonest
<1>2. Go(w, step) /\ step \in Steps
  BY DEF Draw, Steps
<1>3. ASSUME NEW t \in Tasks, Honest("loaded", t, history, today)
      PROVE  Honest(step, t, history, today)
  BY <1>3 DEF Honest
<1>4. CASE \E e \in dashboards[p] : e.key = k
  <2>1. PICK e \in dashboards[p] :
           e.key = k /\ Note(w, [task[w] EXCEPT !.view = e.view])
    BY <1>4 DEF Draw
  <2> DEFINE t == [task[w] EXCEPT !.view = e.view]
  <2>2. Dashboard(e, history) /\ e \in Entries
    BY <1>1, TypeParts DEF StoreInv, AllKept, CachesOK
  <2>3. /\ e.view \in Views /\ Shown(e.view, history)
        /\ e.view.revision = task[w].view.revision
        /\ e.view.asOf = task[w].view.asOf
    BY <2>1, <2>2 DEF Dashboard, DashboardKey, Entries
  <2>4. /\ t \in Tasks /\ t.view = e.view /\ t.day = task[w].day
        /\ t.since = task[w].since /\ t.dawn = task[w].dawn
    BY <1>1, <2>3 DEF Tasks
  <2> HIDE DEF t
  <2>5. Honest("loaded", t, history, today)
    BY <1>1, <2>3, <2>4 DEF Honest
  <2>6. Note(w, t)
    BY <2>1 DEF t
  <2> HIDE DEF step
  <2>7. AllHonest' /\ Ledgered'
    BY <1>1, <1>2, <1>3, <2>4, <2>5, <2>6, OneWorker
  <2>8. AllKept'
    BY <1>1, <1>4 DEF Draw, StoreInv, AllKept, dbVars
  <2>9. QED
    BY <2>7, <2>8
<1>5. CASE ~\E e \in dashboards[p] : e.key = k
  <2> DEFINE e == [key |-> k, view |-> task[w].view]
  <2>1. PICK S \in Stored(dashboards[p], e) :
           dashboards' = [dashboards EXCEPT ![p] = S \cup {e}]
    BY <1>5 DEF Draw
  <2>2. S \subseteq dashboards[p]
    BY DEF Stored
  <2>3. Dashboard(e, history)
    BY <1>1 DEF Honest, Dashboard, DashboardKey
  <2> HIDE DEF e, step
  <2>4. AllKept'
    BY <1>1, <2>1, <2>2, <2>3, TypeParts DEF StoreInv, AllKept, CachesOK, dbVars
  <2>5. UNCHANGED task
    BY <1>5 DEF Draw, e
  <2>6. AllHonest' /\ Ledgered'
    BY <1>1, <1>2, <1>3, <2>5, OneGoesOn
  <2>7. QED
    BY <2>4, <2>6
<1>6. QED
  BY <1>4, <1>5

LEMMA KeepKeeps ==
    ASSUME StoreAssumption, StoreInv, NEW w \in Workers, Keep(w)
    PROVE  AllHonest' /\ Ledgered' /\ AllKept'
<1> DEFINE p == ProcessOf[w]
           e == [key |-> BootstrapKey(task[w]), view |-> task[w].view]
<1>1. /\ UNCHANGED <<dbVars, dashboards, task, worldVars>>
      /\ p \in Processes /\ task[w].day \in Nat
      /\ Honest("drawn", task[w], history, today)
  BY TypeParts
  DEF Keep, StoreInv, WorkersOK, Carried, StoreAssumption, AllHonest
<1>2. PICK S \in Stored(bootstraps[p], e) :
         bootstraps' = [bootstraps EXCEPT ![p] = S \cup {e}]
  BY DEF Keep
<1>3. S \subseteq bootstraps[p]
  BY DEF Stored
<1>4. Bootstrap(e, history)
  BY <1>1 DEF Honest, Bootstrap, BootstrapKey, StoreAssumption
<1>5. AllKept'
  <2> HIDE DEF e
  <2>1. QED
    BY <1>1, <1>2, <1>3, <1>4, TypeParts
    DEF StoreInv, AllKept, CachesOK, dbVars
<1>6. Honest("answered", task[w], history, today)
  BY <1>1 DEF Honest
<1>7. AllHonest' /\ Ledgered'
  BY <1>1, <1>6, OneGoesOn DEF Keep, Steps
<1>8. QED
  BY <1>5, <1>7

LEMMA AnswerKeeps ==
    ASSUME StoreAssumption, StoreInv, NEW w \in Workers, Answer(w)
    PROVE  AllHonest' /\ Ledgered' /\ AllKept'
<1>1. AllHonest' /\ Ledgered'
  BY OneLeaves DEF Answer
<1>2. AllKept'
  BY DEF Answer, StoreInv, AllKept, cacheVars, dbVars
<1>3. QED
  BY <1>1, <1>2

LEMMA WorldKeeps ==
    ASSUME StoreAssumption, StoreInv, World
    PROVE  AllHonest' /\ Ledgered' /\ AllKept'
<1>1. /\ TypeInv' /\ UNCHANGED dbVars
      /\ DbOK /\ WorldOK /\ DbOK' /\ WorldOK' /\ WorkersOK /\ CachesOK
  BY WorldTypes, TypeParts, TypePartsNext
  DEF StoreInv, World, ChangeRole, Midnight, Crash
<1>2. today <= today'
  BY <1>1 DEF World, ChangeRole, Midnight, Crash, WorldOK
<1>3. Longer(history, today)
  BY <1>1, <1>2 DEF Longer, dbVars, DbOK
<1>4. Ledgered'
  BY <1>1 DEF StoreInv, Ledgered, dbVars
<1>5. ASSUME NEW x \in Workers
      PROVE  Honest(pc[x], task[x], history', today')
  BY <1>1, <1>3, HonestStays DEF StoreInv, AllHonest, WorkersOK
<1>6. AllHonest'
  <2>1. ASSUME NEW x \in Workers
        PROVE  \/ pc'[x] = pc[x] /\ task'[x] = task[x]
               \/ pc'[x] = "idle"
    BY <1>1 DEF World, ChangeRole, Midnight, Crash, WorkersOK
  <2>2. ASSUME NEW x \in Workers
        PROVE  Honest(pc'[x], task'[x], history', today')
    BY <1>5, <2>1 DEF Honest
  <2>3. QED
    BY <2>2 DEF AllHonest
<1>7. AllKept'
  <2>1. CASE UNCHANGED cacheVars
    BY <1>1, <1>3, <2>1, KeptStay DEF StoreInv
  <2>2. CASE \E p \in Processes : Crash(p)
    BY <1>1, <2>2 DEF Crash, StoreInv, AllKept, CachesOK, dbVars
  <2>3. QED
    BY <2>1, <2>2 DEF World, ChangeRole, Midnight
<1>8. QED
  BY <1>4, <1>6, <1>7

LEMMA InitKeeps == ASSUME StoreAssumption, Init PROVE StoreInv
<1>1. TypeInv
  BY InitTypes
<1>2. Ledgered /\ AllHonest
  BY DEF Init, Ledgered, AllHonest, Honest
<1>3. AllKept
  BY DEF Init, AllKept, Dashboard, Bootstrap, Shown, Served, View
<1>4. QED
  BY <1>1, <1>2, <1>3 DEF StoreInv

LEMMA NextKeeps ==
    ASSUME StoreAssumption, StoreInv, [Next]_vars PROVE StoreInv'
<1>1. TypeInv'
  BY NextTypes DEF StoreInv
<1>2. CASE UNCHANGED vars
  BY <1>1, <1>2 DEF vars, StoreInv, Ledgered, AllHonest, AllKept
<1>3. ASSUME NEW w \in Workers, Step(w) PROVE StoreInv'
  BY <1>1, <1>3, LockKeeps, EditKeeps, CommitKeeps, InvalidateKeeps,
     LookupKeeps, LoadKeeps, DrawKeeps, KeepKeeps, AnswerKeeps
  DEF Step, StoreInv
<1>4. ASSUME NEW w \in Workers, NEW u \in Users, Request(w, u)
      PROVE  StoreInv'
  BY <1>1, <1>4, RequestKeeps DEF StoreInv
<1>5. CASE World
  BY <1>1, <1>5, WorldKeeps DEF StoreInv
<1>6. QED
  BY <1>2, <1>3, <1>4, <1>5 DEF Next

(* Whatever a cache holds is the committed view its key names. *)
THEOREM CachesCorrect == Spec => []CachesExact
<1>1. Init => StoreInv
  BY InitKeeps, StoreAssumption
<1>2. StoreInv /\ [Next]_vars => StoreInv'
  BY NextKeeps, StoreAssumption
<1>3. StoreInv => CachesExact
  BY DEF StoreInv, AllKept, Dashboard, Bootstrap, Shown, Ledgered, CachesExact
<1>4. QED
  BY <1>1, <1>2, <1>3, PTL DEF Spec

(* No answer is older than its request, or of what was not committed. *)
THEOREM AnswersCorrect == Spec => []AnswersFresh
<1>1. Init => StoreInv
  BY InitKeeps, StoreAssumption
<1>2. StoreInv /\ [Next]_vars => StoreInv'
  BY NextKeeps, StoreAssumption
<1>3. StoreInv => AnswersFresh
  <2> SUFFICES ASSUME StoreInv, NEW w \in Workers, pc[w] = "answered"
               PROVE  /\ task[w].view.revision >= task[w].since
                      /\ task[w].view.book = history[task[w].view.revision]
                      /\ LiveDates => task[w].view.asOf >= task[w].dawn
    BY DEF AnswersFresh
  <2>1. Honest("answered", task[w], history, today)
    BY DEF StoreInv, AllHonest
  <2>2. task[w] \in Tasks /\ task[w].view \in Views
    BY TypeParts DEF StoreInv, WorkersOK, Carried
  <2>3. QED
    BY <2>1, <2>2 DEF Honest, Shown, Tasks, Views
<1>4. QED
  BY <1>1, <1>2, <1>3, PTL DEF Spec

-----------------------------------------------------------------------------
(* The store implements the ledger. *)

LEMMA InitRefines == ASSUME StoreAssumption, Init PROVE Ledger!Init
BY DEF Init, Ledger!Init, Ledger!Books, StoreAssumption, Books

LEMMA StepRefines ==
    ASSUME StoreAssumption, StoreInv, [Next]_vars
    PROVE  [Ledger!Next]_(Ledger!ledgerVars)
<1>1. CASE \E w \in Workers : Commit(w) /\ ~Rollback(w)
  BY <1>1, CommitAppends
<1>2. CASE ~\E w \in Workers : Commit(w) /\ ~Rollback(w)
  <2>1. UNCHANGED dbVars
    BY <1>2 DEF Next, Step, Request, World, Lock, Edit, Rollback, Invalidate,
       Lookup, Load, Draw, Keep, Answer, BeginWrite, Peek, LoadAtOnce,
       ChangeRole, Midnight, Crash, vars, dbVars
  <2>2. QED
    BY <2>1 DEF dbVars, Ledger!ledgerVars
<1>3. QED
  BY <1>1, <1>2

(* Every behaviour of the store, on either database and with any number of *)
(* processes, is a behaviour of the ledger.                                *)
THEOREM ImplementsLedger == Spec => LedgerSpec
<1>1. Init => StoreInv /\ Ledger!Init
  BY InitKeeps, InitRefines, StoreAssumption
<1>2. StoreInv /\ [Next]_vars => StoreInv' /\ [Ledger!Next]_(Ledger!ledgerVars)
  BY NextKeeps, StepRefines, StoreAssumption
<1>3. QED
  BY <1>1, <1>2, PTL DEF Spec, LedgerSpec, Ledger!Spec

-----------------------------------------------------------------------------
(* What a write was allowed on still holds when it commits. *)

(* A write that has been admitted edits the revision its author named, and *)
(* on PostgreSQL it holds the rows that its authority is read from.        *)
Admitted(w) ==
    /\ task[w].expected # None => task[w].view.revision = task[w].expected
    /\ backend = "postgresql" => /\ rowLock = w
                                 /\ role[task[w].user] \in Writers
AdmittedInv ==
    TypeInv /\ \A w \in Workers : pc[w] = "edited" => Admitted(w)

LEMMA EditAdmits ==
    ASSUME StoreAssumption, AdmittedInv, NEW w \in Workers, Edit(w)
    PROVE  \A x \in Workers : pc'[x] = "edited" => Admitted(x)'
<1>1. /\ task \in [Workers -> Tasks] /\ pc \in [Workers -> Steps]
      /\ row.revision \in Nat \ {0} /\ row.book \in Books /\ today \in Nat
      /\ None \notin Workers
  BY TypeParts DEF AdmittedInv, WorkersOK, DbOK, WorldOK, StoreAssumption
<1>2. /\ UNCHANGED <<backend, role>> /\ pc[w] = "locked"
      /\ backend = "postgresql" => rowLock = None
  BY DEF Edit, worldVars
<1>3. ASSUME NEW x \in Workers, x # w, pc[x] = "edited" PROVE backend # "postgresql"
  BY <1>1, <1>2, <1>3 DEF AdmittedInv, Admitted
<1>4. CASE Rollback(w)
  BY <1>1, <1>2, <1>3, <1>4
  DEF AdmittedInv, Admitted, Rollback, Leave, Go, Note, Unlock
<1>5. CASE ~Rollback(w)
  <2>1. PICK t \in Tx, v \in Values \cup {None} :
           Note(w, [task[w] EXCEPT
                !.original = row.book,
                !.view = View(row.revision, [row.book EXCEPT ![t] = v], today)])
    BY <1>5 DEF Edit
  <2> DEFINE new == View(row.revision, [row.book EXCEPT ![t] = v], today)
             y == [task[w] EXCEPT !.original = row.book, !.view = new]
  <2>2. /\ Admits(task[w]) /\ Go(w, "edited") /\ Note(w, y)
        /\ backend = "postgresql" => rowLock' = w
    BY <1>5, <2>1 DEF Edit
  <2>3. new.revision = row.revision
    BY DEF View
  <2> HIDE DEF new
  <2>4. /\ y.user = task[w].user /\ y.expected = task[w].expected
        /\ y.view = new
    BY <1>1 DEF Tasks
  <2> HIDE DEF y
  <2>5. /\ task'[w] = y
        /\ \A x \in Workers \ {w} : task'[x] = task[x] /\ pc'[x] = pc[x]
    BY <1>1, <2>2 DEF Go, Note
  <2>6. Admitted(w)'
    BY <1>2, <2>2, <2>3, <2>4, <2>5 DEF Admitted, Admits
  <2>7. ASSUME NEW x \in Workers, x # w, pc'[x] = "edited" PROVE Admitted(x)'
    BY <1>2, <1>3, <2>5, <2>7 DEF AdmittedInv, Admitted
  <2>8. QED
    BY <2>6, <2>7
<1>6. QED
  BY <1>4, <1>5

LEMMA AdmittedStays ==
    ASSUME StoreAssumption, AdmittedInv, [Next]_vars PROVE AdmittedInv'
<1>1. TypeInv'
  BY NextTypes DEF AdmittedInv
<1>2. /\ task \in [Workers -> Tasks] /\ pc \in [Workers -> Steps]
      /\ ProcessOf \in [Workers -> Processes] /\ None \notin Workers
      /\ role \in [Users -> Roles]
  BY TypeParts DEF AdmittedInv, WorkersOK, WorldOK, StoreAssumption
<1>3. CASE UNCHANGED vars
  BY <1>1, <1>3 DEF vars, AdmittedInv, Admitted
<1>4. ASSUME NEW w \in Workers, Commit(w) PROVE AdmittedInv'
  BY <1>1, <1>2, <1>4 DEF AdmittedInv, Admitted, Commit, Rollback, Leave, Go,
     Note, Unlock, worldVars
<1>5. ASSUME NEW w \in Workers, Step(w), ~Edit(w), ~Commit(w) PROVE AdmittedInv'
  BY <1>1, <1>2, <1>5 DEF AdmittedInv, Admitted, Step, Lock, Invalidate,
     Lookup, Load, Draw, Keep, Answer, Leave, Go, Note, lockVars, worldVars
<1>6. ASSUME NEW w \in Workers, NEW u \in Users, Request(w, u)
      PROVE  AdmittedInv'
  BY <1>1, <1>2, <1>6 DEF AdmittedInv, Admitted, Request, BeginWrite, Peek,
     LoadAtOnce, Arrive, Go, Note, lockVars, worldVars
<1>7. ASSUME NEW u \in Users, NEW r \in Roles, ChangeRole(u, r)
      PROVE  AdmittedInv'
  BY <1>1, <1>2, <1>7 DEF AdmittedInv, Admitted, ChangeRole, lockVars
<1>8. CASE Midnight
  BY <1>1, <1>8 DEF AdmittedInv, Admitted, Midnight, lockVars
<1>9. ASSUME NEW p \in Processes, Crash(p) PROVE AdmittedInv'
  BY <1>1, <1>2, <1>9 DEF AdmittedInv, Admitted, Crash
<1>10. QED
  <2>1. ASSUME NEW w \in Workers, Edit(w) PROVE AdmittedInv'
    BY <1>1, <2>1, EditAdmits DEF AdmittedInv
  <2>2. QED
    BY <1>3, <1>4, <1>5, <1>6, <1>7, <1>8, <1>9, <2>1 DEF Next, World

(* Only its commit takes a worker from "edited" to "committed". *)
LEMMA OnlyCommit ==
    ASSUME StoreAssumption, TypeInv, Next, NEW w \in Workers,
           pc[w] = "edited", pc'[w] = "committed"
    PROVE  row' = [revision |-> task[w].view.revision + 1,
                   book |-> task[w].view.book]
<1>1. pc \in [Workers -> Steps]
  BY TypeParts DEF WorkersOK
<1>2. PICK x \in Workers : Step(x)
  BY <1>1 DEF Next, Request, BeginWrite, Peek, LoadAtOnce, Arrive, Go, World,
     ChangeRole, Midnight, Crash
<1>3. x = w
  BY <1>1, <1>2 DEF Step, Lock, Edit, Commit, Rollback, Invalidate, Lookup,
     Load, Draw, Keep, Answer, Leave, Go
<1>4. Commit(w) /\ ~Rollback(w)
  BY <1>1, <1>2, <1>3 DEF Step, Lock, Edit, Commit, Rollback, Invalidate,
     Lookup, Load, Draw, Keep, Answer, Leave, Go
<1>5. QED
  BY <1>4 DEF Commit

(* A write becomes the revision after the one its author reviewed. *)
THEOREM ReviewedCorrect == Spec => ReviewedOnly
<1>1. Init => AdmittedInv
  BY InitTypes, StoreAssumption DEF AdmittedInv, Init
<1>2. AdmittedInv /\ [Next]_vars => AdmittedInv'
  BY AdmittedStays, StoreAssumption
<1>3. ASSUME AdmittedInv, Next, NEW w \in Workers,
             pc[w] = "edited", pc'[w] = "committed", task[w].expected # None
      PROVE  row'.revision = task[w].expected + 1
  <2>1. row' = [revision |-> task[w].view.revision + 1,
                book |-> task[w].view.book]
    BY <1>3, OnlyCommit, StoreAssumption DEF AdmittedInv
  <2>2. QED
    BY <1>3, <2>1 DEF AdmittedInv, Admitted
<1>4. AdmittedInv /\ [Next]_vars =>
      [\A w \in Workers :
          pc[w] = "edited" /\ pc'[w] = "committed" /\ task[w].expected # None
          => row'.revision = task[w].expected + 1]_vars
  BY <1>3
<1>5. QED
  BY <1>1, <1>2, <1>4, PTL DEF Spec, ReviewedOnly

(* On PostgreSQL no write outlives its author's authority. *)
THEOREM AuthorityCorrect == Spec => AuthorityAtCommit
<1>1. Init => AdmittedInv
  BY InitTypes, StoreAssumption DEF AdmittedInv, Init
<1>2. AdmittedInv /\ [Next]_vars => AdmittedInv'
  BY AdmittedStays, StoreAssumption
<1>3. AdmittedInv /\ [Next]_vars =>
      [\A w \in Workers :
          /\ backend = "postgresql"
          /\ pc[w] = "edited" /\ pc'[w] = "committed"
          => role[task[w].user] \in Writers]_vars
  BY DEF AdmittedInv, Admitted
<1>4. QED
  BY <1>1, <1>2, <1>3, PTL DEF Spec, AuthorityAtCommit
=============================================================================
