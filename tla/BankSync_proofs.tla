---------------------------- MODULE BankSync_proofs ----------------------------
(***************************************************************************)
(* What is proved of BankSync for any workers, connections, accounts and   *)
(* purchases: a disconnected connection is one whose grant is revoked, and *)
(* nothing in flight changes it again; the records are what the bank held  *)
(* at the saved cursor, a purchase counts once, and neither a balance nor  *)
(* a cursor goes back.                                                     *)
(***************************************************************************)
EXTENDS BankSync, FiniteSetTheorems, TLAPS

AccountRows == [known : BOOLEAN, healthy : BOOLEAN, balance : Nat, since : Nat]
ConnRows == [status : {"none", "active", "disconnected"}, token : BOOLEAN,
             version : Nat, cursor : 0..Now]
TaskRows == [op : {"link", "sync", "disconnect", None}, conn : Conns \cup {None},
             version : Nat, cursor : 0..Now, snap : Nat, shown : SUBSET Accounts,
             changes : Seq(Change), epoch : 0..Now, attempt : 1..Attempts]
Banks == [log : Seq(SUBSET Change), shows : SUBSET Accounts,
          item : {"open", "granted", "removed"}]

(* The types the argument needs: all but what the records hold.            *)
Typed ==
    /\ bank \in Banks
    /\ conn \in [Conns -> ConnRows]
    /\ account \in [Conns -> [Accounts -> AccountRows]]
    /\ record = [c \in Conns |-> record[c]]
    /\ pc \in [Workers -> Steps]
    /\ task \in [Workers -> TaskRows]
    /\ events \in Nat

(* A grant is revoked before its row is closed.                            *)
Closing == \A w \in Workers : pc[w] = "removed" => bank.item = "removed"

(* Every commit counts the version up, so a disconnect that was overtaken  *)
(* by another knows it.                                                    *)
Versions ==
    \A w \in Workers :
        pc[w] \in {"removing", "removed"} =>
            /\ task[w].conn \in Conns /\ conn[task[w].conn].status # "none"
            /\ task[w].version <= conn[task[w].conn].version
            /\ conn[task[w].conn].status = "disconnected" =>
                  task[w].version < conn[task[w].conn].version

(* A sync in flight has a connection.                                      *)
Syncing ==
    \A w \in Workers : task[w].op = "sync" => task[w].conn \in Conns

IInv == Typed /\ Closing /\ Versions /\ Syncing /\ DisconnectedMeansRevoked

-----------------------------------------------------------------------------
(* What a request may be given is well-formed. *)
LEMMA NetIsChanges ==
    ASSUME Typed, NEW from \in 0..Now
    PROVE Net(from) \subseteq Change
<1>1. \A n \in 0..Now : Held(n) \subseteq Change
  BY DEF Typed, Banks, Held, Now
<1>2. Now \in 0..Now
  BY DEF Typed, Banks, Now
<1>3. Ids(Held(from)) \subseteq Rows
  BY <1>1 DEF Ids, Change
<1>4. {[id |-> id, amount |-> 0, link |-> None] :
          id \in Ids(Held(from)) \ Ids(Held(Now))} \subseteq Change
  BY <1>3 DEF Change
<1>5. QED
  BY <1>1, <1>2, <1>4 DEF Net

(* What the bank reports keeps its log well-formed and only adds to it.    *)
LEMMA HappensTyped ==
    ASSUME Typed, Happens
    PROVE /\ bank' \in Banks /\ Now <= Now' /\ Now' \in Nat
          /\ bank'.item = bank.item
<1>1. Held(Now) \subseteq Change /\ Now \in Nat
  BY DEF Typed, Banks, Held, Now
<1>2. ASSUME NEW gone, NEW new \in SUBSET Change, Report(gone, new)
      PROVE bank' \in Banks /\ Now <= Now' /\ Now' \in Nat /\ bank'.item = bank.item
  <2> DEFINE held == (Held(Now) \ gone) \cup new
  <2>1. held \in SUBSET Change
    BY <1>1, <1>2
  <2>2. bank' = [bank EXCEPT !.log = Append(@, held)]
    BY <1>2 DEF Report
  <2> HIDE DEF held
  <2>3. Append(bank.log, held) \in Seq(SUBSET Change)
        /\ Len(Append(bank.log, held)) = Len(bank.log) + 1
    BY <2>1 DEF Typed, Banks
  <2> DEFINE longer == Append(bank.log, held)
  <2>4. bank' = [bank EXCEPT !.log = longer]
    BY <2>2
  <2>5. longer \in Seq(SUBSET Change) /\ Len(longer) = Len(bank.log) + 1
    BY <2>3
  <2> HIDE DEF longer
  <2>6. bank'.log = longer /\ bank'.item = bank.item /\ bank' \in Banks
    BY <2>4, <2>5 DEF Typed, Banks
  <2>7. Len(bank.log) \in Nat
    BY DEF Typed, Banks
  <2>8. QED
    BY <2>5, <2>6, <2>7 DEF Now
<1>3. ASSUME NEW x \in Purchases, NEW form \in Forms, NEW link \in Rows \cup {None}
      PROVE {Purchase(x, form, link)} \in SUBSET Change
  BY <1>3 DEF Purchase, Change, Rows
<1>4. CASE \E x \in Purchases, form \in Forms : Report({}, {Purchase(x, form, None)})
  BY <1>4, <1>2, <1>3
<1>5. ASSUME NEW ch \in Held(Now), Report({ch}, {Purchase(ch.id[1], "posted", ch.id)})
      PROVE bank' \in Banks /\ Now <= Now' /\ Now' \in Nat /\ bank'.item = bank.item
  <2>1. ch.id \in Rows /\ ch.id[1] \in Purchases /\ "posted" \in Forms
    BY <1>1 DEF Change, Rows, Forms
  <2>2. QED
    BY <2>1, <1>2, <1>3, <1>5
<1>6. ASSUME NEW ch \in Held(Now), Report({ch}, {[ch EXCEPT !.amount = 2]})
      PROVE bank' \in Banks /\ Now <= Now' /\ Now' \in Nat /\ bank'.item = bank.item
  <2>1. {[ch EXCEPT !.amount = 2]} \in SUBSET Change
    BY <1>1 DEF Change
  <2>2. QED
    BY <2>1, <1>2, <1>6
<1>7. ASSUME NEW ch \in Held(Now), Report({ch}, {})
      PROVE bank' \in Banks /\ Now <= Now' /\ Now' \in Nat /\ bank'.item = bank.item
  BY <1>7, <1>2
<1>8. ASSUME NEW a \in Accounts, bank' = [bank EXCEPT !.shows = SymDiff(@, {a})]
      PROVE bank' \in Banks /\ Now <= Now' /\ Now' \in Nat /\ bank'.item = bank.item
  BY <1>8, <1>1 DEF Typed, Banks, SymDiff, Now
<1>9. QED
  BY <1>4, <1>5, <1>6, <1>7, <1>8 DEF Happens

-----------------------------------------------------------------------------
LEMMA Zero ==
    ASSUME Typed
    PROVE Now \in Nat /\ NoTask \in TaskRows
<1>1. Now \in Nat
  BY DEF Typed, Banks, Now
<1>2. 1 \in 1..Attempts /\ 0 \in 0..Now /\ <<>> \in Seq(Change)
  BY <1>1, BankAssumption
<1>3. QED
  BY <1>1, <1>2 DEF NoTask, TaskRows

THEOREM Initially == Init => IInv
<1> SUFFICES ASSUME Init PROVE IInv
  OBVIOUS
<1>1. bank \in Banks /\ bank.log = <<>> /\ bank.item = "open" /\ Now = 0
  <2>1. bank.log = <<>> /\ bank.item = "open" /\ <<>> \in Seq(SUBSET Change)
    BY DEF Init
  <2>2. bank \in Banks
    BY <2>1 DEF Init, Banks
  <2>3. Now = 0
    BY <2>1 DEF Now
  <2>4. QED
    BY <2>1, <2>2, <2>3
<1>2. NoTask \in TaskRows
  <2>1. 1 \in 1..Attempts /\ 0 \in 0..Now /\ <<>> \in Seq(Change)
    BY <1>1, BankAssumption
  <2>2. QED
    BY <2>1 DEF NoTask, TaskRows
<1>3. NoRow \in ConnRows /\ NoAccount \in AccountRows
  BY <1>1 DEF NoRow, ConnRows, NoAccount, AccountRows
<1>4. Typed
  BY <1>1, <1>2, <1>3 DEF Init, Typed, Steps
<1>5. Closing /\ Versions /\ Syncing
  BY BankAssumption DEF Init, Closing, Versions, Syncing, NoTask
<1>6. DisconnectedMeansRevoked
  BY DEF Init, DisconnectedMeansRevoked, NoRow
<1>7. QED
  BY <1>4, <1>5, <1>6 DEF IInv

(* A request that ends without effect.                                     *)
LEMMA Ends ==
    ASSUME IInv, NEW w \in Workers, Over(w),
           UNCHANGED <<bank, conn, account, record, events>>
    PROVE IInv'
<1>1. pc' = [pc EXCEPT ![w] = "idle"] /\ task' = [task EXCEPT ![w] = NoTask]
  BY DEF Over, At, Take
<1>2. NoTask \in TaskRows /\ Now' = Now
  BY Zero DEF IInv, Now
<1>3. Typed'
  BY <1>1, <1>2 DEF IInv, Typed, Banks, Steps, ConnRows, TaskRows
<1>4. Closing' /\ Versions' /\ Syncing'
  BY <1>1, BankAssumption DEF IInv, Typed, Closing, Versions, Syncing, NoTask, TaskRows
<1>5. DisconnectedMeansRevoked'
  BY DEF IInv, DisconnectedMeansRevoked
<1>6. QED
  BY <1>3, <1>4, <1>5 DEF IInv

(* A request that goes on, and changes nothing but its own task.           *)
LEMMA GoesOn ==
    ASSUME IInv, NEW w \in Workers, NEW t \in TaskRows, NEW step \in Steps,
           pc' = [pc EXCEPT ![w] = step], task' = [task EXCEPT ![w] = t],
           step # "removed", step # "removing",
           t.op = "sync" => t.conn \in Conns,
           bank'.log = bank.log, bank' \in Banks,
           bank.item = "removed" => bank'.item = "removed",
           UNCHANGED <<conn, account, record, events>>
    PROVE IInv'
<1>1. Now' = Now
  BY DEF Now
<1>2. Typed'
  BY <1>1 DEF IInv, Typed, ConnRows, TaskRows
<1>3. Closing' /\ Versions' /\ Syncing'
  BY DEF IInv, Typed, Closing, Versions, Syncing
<1>4. DisconnectedMeansRevoked'
  BY DEF IInv, DisconnectedMeansRevoked
<1>5. QED
  BY <1>2, <1>3, <1>4 DEF IInv

LEMMA HappensKeeps ==
    ASSUME IInv, Happens
    PROVE IInv'
<1>1. /\ bank' \in Banks /\ Now <= Now' /\ Now' \in Nat /\ Now \in Nat
      /\ bank'.item = bank.item
  BY HappensTyped, Zero DEF IInv
<1>2. UNCHANGED <<conn, account, record, pc, task>> /\ events' \in Nat
  BY DEF Happens, books, IInv, Typed
<1>3. 0..Now \subseteq 0..Now'
  BY <1>1
<1>4. conn' \in [Conns -> ConnRows'] /\ task' \in [Workers -> TaskRows']
  BY <1>2, <1>3 DEF IInv, Typed, ConnRows, TaskRows
<1>5. Typed'
  BY <1>1, <1>2, <1>4 DEF IInv, Typed, Banks, AccountRows, Steps
<1>6. Closing' /\ Versions' /\ Syncing'
  BY <1>1, <1>2 DEF IInv, Closing, Versions, Syncing
<1>7. DisconnectedMeansRevoked'
  BY <1>1, <1>2 DEF IInv, DisconnectedMeansRevoked
<1>8. QED
  BY <1>5, <1>6, <1>7 DEF IInv

(* A batch that is saved leaves every other connection alone, and a        *)
(* disconnected one always.                                                *)
LEMMA SaveKeeps ==
    ASSUME IInv, NEW w \in Workers, NEW c \in Conns, NEW row \in ConnRows,
           conn[c].status # "disconnected", row.status = "active", row.token,
           conn[c].status = "none" \/ conn[c].version <= row.version,
           Save(c, task[w], row), Over(w), UNCHANGED <<bank, events>>
    PROVE /\ IInv'
          /\ \A d \in Conns \ {c} : /\ conn'[d] = conn[d] /\ account'[d] = account[d]
                                    /\ record'[d] = record[d]
<1> DEFINE accounts == Imported(task[w], account[c])
           updated == Updated(task[w], accounts, record[c])
<1>1. /\ conn' = [conn EXCEPT ![c] = row]
      /\ account' = [account EXCEPT ![c] = accounts]
      /\ record' = [record EXCEPT ![c] = updated]
  BY DEF Save
<1>2. pc' = [pc EXCEPT ![w] = "idle"] /\ task' = [task EXCEPT ![w] = NoTask]
  BY DEF Over, At, Take
<1>3. NoTask \in TaskRows /\ Now' = Now /\ Now \in Nat
  BY Zero DEF IInv, Now
<1>4. accounts \in [Accounts -> AccountRows]
  <2>1. account[c] \in [Accounts -> AccountRows] /\ task[w] \in TaskRows
    BY DEF IInv, Typed
  <2>2. task[w].snap \in Nat /\ task[w].cursor \in Nat
    BY <2>1, <1>3 DEF TaskRows
  <2>3. QED
    BY <2>1, <2>2 DEF Imported, AccountRows
<1> HIDE DEF accounts, updated
<1>5. Typed'
  <2>1. conn' \in [Conns -> ConnRows] /\ account' \in [Conns -> [Accounts -> AccountRows]]
    BY <1>1, <1>4 DEF IInv, Typed
  <2>2. record' = [d \in Conns |-> record'[d]]
    BY <1>1 DEF IInv, Typed
  <2>3. pc' \in [Workers -> Steps] /\ task' \in [Workers -> TaskRows]
    BY <1>2, <1>3 DEF IInv, Typed, Steps
  <2>4. QED
    BY <2>1, <2>2, <2>3, <1>3 DEF IInv, Typed, Banks, ConnRows, TaskRows, Steps
<1>6. Closing' /\ Syncing'
  BY <1>2, BankAssumption DEF IInv, Typed, Closing, Syncing, NoTask, TaskRows
<1>7. Versions'
  <2> SUFFICES ASSUME NEW v \in Workers, pc'[v] \in {"removing", "removed"}
               PROVE /\ task'[v].conn \in Conns /\ conn'[task'[v].conn].status # "none"
                     /\ task'[v].version <= conn'[task'[v].conn].version
                     /\ conn'[task'[v].conn].status = "disconnected" =>
                           task'[v].version < conn'[task'[v].conn].version
    BY DEF Versions
  <2>1. v # w /\ task'[v] = task[v] /\ pc'[v] = pc[v]
    BY <1>2 DEF IInv, Typed
  <2>2. /\ task[v].conn \in Conns /\ conn[task[v].conn].status # "none"
        /\ task[v].version <= conn[task[v].conn].version
        /\ conn[task[v].conn].status = "disconnected" =>
              task[v].version < conn[task[v].conn].version
    BY <2>1 DEF IInv, Versions
  <2>3. task[v].version \in Nat /\ row.version \in Nat /\ conn[c].version \in Nat
    BY DEF IInv, Typed, TaskRows, ConnRows
  <2>4. CASE task[v].conn = c
    BY <2>1, <2>2, <2>3, <2>4, <1>1 DEF IInv, Typed
  <2>5. CASE task[v].conn # c
    BY <2>1, <2>2, <2>5, <1>1 DEF IInv, Typed
  <2>6. QED
    BY <2>4, <2>5
<1>8. DisconnectedMeansRevoked'
  BY <1>1 DEF IInv, Typed, DisconnectedMeansRevoked
<1>9. \A d \in Conns \ {c} : /\ conn'[d] = conn[d] /\ account'[d] = account[d]
                             /\ record'[d] = record[d]
  BY <1>1 DEF IInv, Typed
<1>10. QED
  BY <1>5, <1>6, <1>7, <1>8, <1>9 DEF IInv

Kept == \A c \in Conns :
            conn[c].status = "disconnected" =>
                conn'[c] = conn[c] /\ account'[c] = account[c] /\ record'[c] = record[c]

-----------------------------------------------------------------------------
(* One lemma per request's step. *)
LEMMA StartLinkKeeps ==
    ASSUME IInv, NEW w \in Workers, StartLink(w)
    PROVE IInv' /\ Kept
<1>1. /\ bank' = [bank EXCEPT !.item = "granted"] /\ bank.item # "removed"
      /\ UNCHANGED <<conn, account, record, events>>
  BY DEF StartLink, books
<1>2. bank' \in Banks /\ bank'.log = bank.log
  BY <1>1 DEF IInv, Typed, Banks
<1>3. CASE AlreadyLinked
  <2>1. UNCHANGED <<pc, task>> /\ Now' = Now
    BY <1>2, <1>3 DEF StartLink, Now
  <2>2. Typed'
    BY <1>1, <1>2, <2>1 DEF IInv, Typed, ConnRows, TaskRows
  <2>3. Closing' /\ Versions' /\ Syncing' /\ DisconnectedMeansRevoked'
    BY <1>1, <2>1 DEF IInv, Closing, Versions, Syncing, DisconnectedMeansRevoked
  <2>4. QED
    BY <1>1, <2>2, <2>3 DEF IInv, Kept
<1>4. CASE ~AlreadyLinked
  <2> DEFINE t == [NoTask EXCEPT !.op = "link"]
  <2>1. pc' = [pc EXCEPT ![w] = "snapshot"] /\ task' = [task EXCEPT ![w] = t]
    BY <1>4 DEF StartLink, At, Take
  <2>2. t \in TaskRows /\ t.op = "link"
    BY Zero DEF IInv, TaskRows
  <2> HIDE DEF t
  <2>3. IInv'
    BY <1>1, <1>2, <2>1, <2>2, GoesOn DEF Steps
  <2>4. QED
    BY <1>1, <2>3 DEF Kept
<1>5. QED
  BY <1>3, <1>4

(* What a request remembers of its connection.                             *)
LEMMA FollowTask ==
    ASSUME IInv, NEW w \in Workers, NEW c \in Conns, NEW step,
           NEW op \in {"sync", "disconnect"}, Follow(w, op, c, step)
    PROVE \E t \in TaskRows :
             /\ t.op = op /\ t.conn = c /\ t.version = conn[c].version
             /\ pc' = [pc EXCEPT ![w] = step] /\ task' = [task EXCEPT ![w] = t]
<1> DEFINE t == [NoTask EXCEPT !.op = op, !.conn = c, !.version = conn[c].version,
                               !.cursor = conn[c].cursor]
<1>1. conn[c].version \in Nat /\ conn[c].cursor \in 0..Now
  BY DEF IInv, Typed, ConnRows
<1>2. t \in TaskRows /\ t.op = op /\ t.conn = c /\ t.version = conn[c].version
  BY <1>1, Zero DEF IInv, TaskRows
<1>3. pc' = [pc EXCEPT ![w] = step] /\ task' = [task EXCEPT ![w] = t]
  BY DEF Follow, At, Take
<1> HIDE DEF t
<1>4. QED
  BY <1>2, <1>3

LEMMA StartSyncKeeps ==
    ASSUME IInv, NEW w \in Workers, NEW c \in Conns, StartSync(w, c)
    PROVE IInv' /\ Kept
<1>1. UNCHANGED <<bank, conn, account, record, events>> /\ Follow(w, "sync", c, "snapshot")
  BY DEF StartSync, books
<1>2. PICK t \in TaskRows :
         /\ t.op = "sync" /\ t.conn = c /\ t.version = conn[c].version
         /\ pc' = [pc EXCEPT ![w] = "snapshot"] /\ task' = [task EXCEPT ![w] = t]
  BY <1>1, FollowTask
<1>3. bank' \in Banks /\ bank'.log = bank.log /\ bank'.item = bank.item
  BY <1>1 DEF IInv, Typed
<1>4. IInv'
  BY <1>1, <1>2, <1>3, GoesOn DEF Steps
<1>5. QED
  BY <1>1, <1>4 DEF Kept

LEMMA StartDisconnectKeeps ==
    ASSUME IInv, NEW w \in Workers, NEW c \in Conns, StartDisconnect(w, c)
    PROVE IInv' /\ Kept
<1>1. /\ UNCHANGED <<bank, conn, account, record, events>>
      /\ Follow(w, "disconnect", c, "removing") /\ conn[c].status = "active"
  BY DEF StartDisconnect, books, Active
<1>2. PICK t \in TaskRows :
         /\ t.op = "disconnect" /\ t.conn = c /\ t.version = conn[c].version
         /\ pc' = [pc EXCEPT ![w] = "removing"] /\ task' = [task EXCEPT ![w] = t]
  BY <1>1, FollowTask
<1>3. Typed'
  BY <1>1, <1>2 DEF IInv, Typed, Banks, Steps, ConnRows, TaskRows, Now
<1>4. Closing' /\ Syncing'
  BY <1>1, <1>2 DEF IInv, Typed, Closing, Syncing
<1>5. Versions'
  <2>1. conn[c].version \in Nat
    BY DEF IInv, Typed, ConnRows
  <2>2. QED
    BY <1>1, <1>2, <2>1 DEF IInv, Typed, Versions
<1>6. DisconnectedMeansRevoked' /\ Kept
  BY <1>1 DEF IInv, DisconnectedMeansRevoked, Kept
<1>7. QED
  BY <1>3, <1>4, <1>5, <1>6 DEF IInv

(* A fetch goes on with a task of the same operation and connection.       *)
LEMMA FetchKeeps ==
    ASSUME IInv, NEW w \in Workers, NEW t \in TaskRows, NEW step \in {"paging", "fetched"},
           t.op = task[w].op, t.conn = task[w].conn,
           pc' = [pc EXCEPT ![w] = step], task' = [task EXCEPT ![w] = t],
           UNCHANGED <<bank, books, requests, events>>
    PROVE IInv' /\ Kept
<1>1. t.op = "sync" => t.conn \in Conns
  BY DEF IInv, Syncing
<1>2. /\ bank' \in Banks /\ bank'.log = bank.log /\ bank'.item = bank.item
      /\ UNCHANGED <<conn, account, record, events>> /\ step \in Steps
      /\ step # "removed" /\ step # "removing"
  BY DEF IInv, Typed, Steps, books
<1>3. IInv'
  BY <1>1, <1>2, GoesOn
<1>4. QED
  BY <1>2, <1>3 DEF Kept

LEMMA SnapshotKeeps ==
    ASSUME IInv, NEW w \in Workers, Snapshot(w)
    PROVE IInv' /\ Kept
<1> DEFINE t == [task[w] EXCEPT !.snap = events, !.shown = bank.shows]
<1>1. task[w] \in TaskRows /\ events \in Nat /\ bank.shows \in SUBSET Accounts
  BY DEF IInv, Typed, Banks
<1>2. t \in TaskRows /\ t.op = task[w].op /\ t.conn = task[w].conn
  BY <1>1 DEF TaskRows
<1>3. /\ pc' = [pc EXCEPT ![w] = "paging"] /\ task' = [task EXCEPT ![w] = t]
      /\ UNCHANGED <<bank, books, requests, events>>
  BY DEF Snapshot, At, Take
<1> HIDE DEF t
<1>4. QED
  BY <1>2, <1>3, FetchKeeps

LEMMA PageKeeps ==
    ASSUME IInv, NEW w \in Workers, Page(w)
    PROVE IInv' /\ Kept
<1>1. task[w] \in TaskRows /\ task[w].cursor \in 0..Now /\ task[w].changes \in Seq(Change)
  BY DEF IInv, Typed, TaskRows
<1>2. PICK got \in IF Net(task[w].cursor) = {} THEN {<<>>}
                   ELSE {Append(task[w].changes, ch) :
                            ch \in Net(task[w].cursor) \ Delivered(task[w])} :
         /\ Take(w, [task[w] EXCEPT !.changes = got, !.epoch = Now])
         /\ At(w, "fetched") \/ At(w, "paging")
  BY DEF Page
<1>3. got \in Seq(Change)
  <2>1. \A ch \in Net(task[w].cursor) : ch \in Change
    BY <1>1, NetIsChanges DEF IInv
  <2>2. \A ch \in Change : Append(task[w].changes, ch) \in Seq(Change)
    BY <1>1
  <2>3. <<>> \in Seq(Change)
    OBVIOUS
  <2>4. got = <<>> \/ \E ch \in Net(task[w].cursor) : got = Append(task[w].changes, ch)
    BY <1>2
  <2>5. QED
    BY <2>1, <2>2, <2>3, <2>4
<1> DEFINE t == [task[w] EXCEPT !.changes = got, !.epoch = Now]
<1>4. t \in TaskRows /\ t.op = task[w].op /\ t.conn = task[w].conn
  <2>1. Now \in 0..Now
    BY Zero DEF IInv
  <2> DEFINE place == Now
  <2>2. place \in 0..Now
    BY <2>1
  <2>3. t = [task[w] EXCEPT !.changes = got, !.epoch = place]
    OBVIOUS
  <2> HIDE DEF place, t
  <2>4. QED
    BY <1>1, <1>3, <2>2, <2>3 DEF TaskRows
<1>5. task' = [task EXCEPT ![w] = t]
  BY <1>2 DEF Take
<1> HIDE DEF t
<1>6. UNCHANGED <<bank, books, requests, events>>
  BY DEF Page
<1>7. PICK step \in {"paging", "fetched"} : pc' = [pc EXCEPT ![w] = step]
  BY <1>2 DEF At
<1>8. QED
  BY <1>4, <1>5, <1>6, <1>7, FetchKeeps

LEMMA RestartKeeps ==
    ASSUME IInv, NEW w \in Workers, Restart(w)
    PROVE IInv' /\ Kept
<1>1. UNCHANGED <<bank, books, requests, events>> /\ pc[w] = "paging"
  BY DEF Restart
<1>2. CASE task[w].attempt < Attempts
  <2> DEFINE t == [task[w] EXCEPT !.attempt = @ + 1, !.changes = <<>>]
  <2>1. task[w] \in TaskRows /\ task[w].attempt \in 1..Attempts
    BY DEF IInv, Typed, TaskRows
  <2>2. task[w].attempt + 1 \in 1..Attempts /\ <<>> \in Seq(Change)
    BY <2>1, <1>2, BankAssumption
  <2>3. t \in TaskRows /\ t.op = task[w].op /\ t.conn = task[w].conn
    BY <2>1, <2>2 DEF TaskRows
  <2>4. task' = [task EXCEPT ![w] = t] /\ pc' = pc
    BY <1>2 DEF Restart, Restarted, Take
  <2> HIDE DEF t
  <2>5. pc' = [pc EXCEPT ![w] = "paging"]
    BY <2>4, <1>1 DEF IInv, Typed
  <2>6. QED
    BY <2>3, <2>4, <2>5, <1>1, FetchKeeps
<1>3. CASE ~(task[w].attempt < Attempts)
  <2>1. Over(w) /\ UNCHANGED <<conn, account, record>>
    BY <1>1, <1>3 DEF Restart, books
  <2>2. QED
    BY <2>1, <1>1, Ends DEF Kept
<1>4. QED
  BY <1>2, <1>3

-----------------------------------------------------------------------------
LEMMA CommitLinkKeeps ==
    ASSUME IInv, NEW w \in Workers, CommitLink(w)
    PROVE IInv' /\ Kept
<1>1. Over(w) /\ UNCHANGED <<bank, events>>
  BY DEF CommitLink
<1>2. CASE AlreadyLinked
  BY <1>1, <1>2, Ends DEF CommitLink, books, Kept
<1>3. CASE ~AlreadyLinked
  <2> DEFINE row == [status |-> "active", token |-> TRUE, version |-> 1,
                     cursor |-> task[w].epoch]
  <2>1. \A c \in Conns : conn[c].status = "none"
    BY <1>3 DEF AlreadyLinked
  <2>2. Fresh \in Conns /\ conn[Fresh].status = "none"
    BY <2>1, BankAssumption DEF Fresh
  <2>3. row \in ConnRows /\ row.status = "active" /\ row.token
    BY DEF IInv, Typed, TaskRows, ConnRows
  <2>4. Save(Fresh, task[w], row)
    BY <1>3 DEF CommitLink
  <2> HIDE DEF row
  <2>5. IInv'
    BY <1>1, <2>2, <2>3, <2>4, SaveKeeps
  <2>6. QED
    BY <2>1, <2>5 DEF Kept
<1>4. QED
  BY <1>2, <1>3

LEMMA CommitSyncKeeps ==
    ASSUME IInv, NEW w \in Workers, CommitSync(w)
    PROVE IInv' /\ Kept
<1>1. Over(w) /\ UNCHANGED <<bank, events>> /\ task[w].op = "sync"
  BY DEF CommitSync
<1>2. CASE ~Unchanged(task[w])
  BY <1>1, <1>2, Ends DEF CommitSync, books, Kept
<1>3. CASE Unchanged(task[w])
  <2> DEFINE c == task[w].conn
             row == [conn[c] EXCEPT !.cursor = task[w].epoch, !.version = @ + 1]
  <2>1. c \in Conns /\ conn[c].status = "active" /\ conn[c].token
    BY <1>1, <1>3 DEF IInv, Syncing, Unchanged, Active
  <2>2. conn[c] \in ConnRows /\ task[w].epoch \in 0..Now /\ conn[c].version \in Nat
    BY <2>1 DEF IInv, Typed, ConnRows, TaskRows
  <2>3. row \in ConnRows /\ row.status = "active" /\ row.token /\ row.version = conn[c].version + 1
    <3> DEFINE old == conn[c]
               next == conn[c].version + 1
    <3>1. next \in Nat /\ old \in ConnRows /\ old.status = "active" /\ old.token
      BY <2>1, <2>2
    <3>2. row = [old EXCEPT !.cursor = task[w].epoch, !.version = next]
      OBVIOUS
    <3> HIDE DEF old, row, next
    <3>3. row \in ConnRows /\ row.status = "active" /\ row.token /\ row.version = next
      BY <2>2, <3>1, <3>2 DEF ConnRows
    <3>4. QED
      BY <3>3 DEF next
  <2>4. Save(c, task[w], row)
    BY <1>3 DEF CommitSync
  <2>5. conn[c].version <= row.version
    BY <2>2, <2>3
  <2> HIDE DEF row, c
  <2>6. /\ IInv'
        /\ \A d \in Conns \ {c} : /\ conn'[d] = conn[d] /\ account'[d] = account[d]
                                  /\ record'[d] = record[d]
    BY <1>1, <2>1, <2>3, <2>4, <2>5, SaveKeeps
  <2>7. QED
    BY <2>1, <2>6 DEF Kept
<1>4. QED
  BY <1>2, <1>3

LEMMA RevokeKeeps ==
    ASSUME IInv, NEW w \in Workers, Revoke(w)
    PROVE IInv' /\ Kept
<1>1. UNCHANGED <<conn, account, record, events>> /\ pc[w] = "removing"
  BY DEF Revoke, books
<1>2. CASE Refusal(w) /\ UNCHANGED bank
  BY <1>1, <1>2, Ends DEF Refusal, Kept
<1>3. CASE /\ bank' = [bank EXCEPT !.item = "removed"]
           /\ At(w, "removed") /\ UNCHANGED task
  <2>1. bank' \in Banks /\ bank'.item = "removed" /\ bank'.log = bank.log /\ Now' = Now
    BY <1>3 DEF IInv, Typed, Banks, Now
  <2>2. pc' = [pc EXCEPT ![w] = "removed"]
    BY <1>3 DEF At
  <2>3. Typed'
    BY <1>1, <1>3, <2>1, <2>2 DEF IInv, Typed, ConnRows, TaskRows, Steps
  <2>4. Closing' /\ Versions' /\ Syncing'
    BY <1>1, <1>3, <2>1, <2>2 DEF IInv, Typed, Closing, Versions, Syncing
  <2>5. DisconnectedMeansRevoked' /\ Kept
    BY <1>1, <2>1 DEF IInv, DisconnectedMeansRevoked, Kept
  <2>6. QED
    BY <2>3, <2>4, <2>5 DEF IInv
<1>4. QED
  BY <1>2, <1>3 DEF Revoke

LEMMA CommitDisconnectKeeps ==
    ASSUME IInv, NEW w \in Workers, CommitDisconnect(w)
    PROVE IInv' /\ Kept
<1> DEFINE c == task[w].conn
<1>1. Over(w) /\ UNCHANGED <<bank, events>> /\ pc[w] = "removed"
  BY DEF CommitDisconnect
<1>2. CASE conn[c].version # task[w].version
  BY <1>1, <1>2, Ends DEF CommitDisconnect, books, Kept
<1>3. CASE conn[c].version = task[w].version
  <2>1. /\ c \in Conns /\ conn[c].status = "active" /\ bank.item = "removed"
        /\ conn[c] \in ConnRows /\ conn[c].version \in Nat
        /\ account[c] \in [Accounts -> AccountRows]
    <3>1. c \in Conns /\ conn[c].status \notin {"none", "disconnected"} /\ bank.item = "removed"
      <4>1. c \in Conns
        BY <1>1 DEF IInv, Versions
      <4>2. conn[c].version \in Nat
        BY <4>1 DEF IInv, Typed, ConnRows
      <4>3. QED
        BY <1>1, <1>3, <4>1, <4>2 DEF IInv, Versions, Closing
    <3>2. QED
      BY <3>1 DEF IInv, Typed, ConnRows
  <2> DEFINE row == Closed(conn[c])
             accounts == Stale(account[c])
  <2>2. /\ conn' = [conn EXCEPT ![c] = row]
        /\ account' = [account EXCEPT ![c] = accounts]
        /\ record' = record
    BY <1>3 DEF CommitDisconnect
  <2>3. /\ row \in ConnRows /\ row.status = "disconnected" /\ row.token = FALSE
        /\ row.version = conn[c].version + 1
    <3> DEFINE old == conn[c]
               next == conn[c].version + 1
    <3>1. next \in Nat /\ old \in ConnRows
      BY <2>1
    <3>2. row = [old EXCEPT !.status = "disconnected", !.token = FALSE, !.version = next]
      BY DEF Closed
    <3> HIDE DEF old, row, next
    <3>3. row \in ConnRows /\ row.status = "disconnected" /\ row.token = FALSE /\ row.version = next
      BY <3>1, <3>2 DEF ConnRows
    <3>4. QED
      BY <3>3 DEF next
  <2>4. accounts \in [Accounts -> AccountRows]
    BY <2>1 DEF Stale, AccountRows
  <2>5. pc' = [pc EXCEPT ![w] = "idle"] /\ task' = [task EXCEPT ![w] = NoTask]
    BY <1>1 DEF Over, At, Take
  <2>6. NoTask \in TaskRows /\ Now' = Now
    BY <1>1, Zero DEF IInv, Now
  <2> HIDE DEF row, accounts, c
  <2>7. Typed'
    <3>1. conn' \in [Conns -> ConnRows] /\ account' \in [Conns -> [Accounts -> AccountRows]]
      BY <2>1, <2>2, <2>3, <2>4 DEF IInv, Typed
    <3>2. pc' \in [Workers -> Steps] /\ task' \in [Workers -> TaskRows]
      BY <2>5, <2>6 DEF IInv, Typed, Steps
    <3>3. QED
      BY <3>1, <3>2, <2>2, <2>6, <1>1 DEF IInv, Typed, Banks, ConnRows, TaskRows, Steps
  <2>8. Closing' /\ Syncing'
    BY <2>5, <1>1, BankAssumption DEF IInv, Typed, Closing, Syncing, NoTask, TaskRows
  <2>9. Versions'
    <3> SUFFICES ASSUME NEW v \in Workers, pc'[v] \in {"removing", "removed"}
                 PROVE /\ task'[v].conn \in Conns /\ conn'[task'[v].conn].status # "none"
                       /\ task'[v].version <= conn'[task'[v].conn].version
                       /\ conn'[task'[v].conn].status = "disconnected" =>
                             task'[v].version < conn'[task'[v].conn].version
      BY DEF Versions
    <3>1. v # w /\ task'[v] = task[v] /\ pc'[v] = pc[v]
      BY <2>5 DEF IInv, Typed
    <3>2. /\ task[v].conn \in Conns /\ conn[task[v].conn].status # "none"
          /\ task[v].version <= conn[task[v].conn].version
          /\ conn[task[v].conn].status = "disconnected" =>
                task[v].version < conn[task[v].conn].version
      BY <3>1 DEF IInv, Versions
    <3>3. task[v].version \in Nat
      BY DEF IInv, Typed, TaskRows
    <3>4. CASE task[v].conn = c
      BY <3>1, <3>2, <3>3, <3>4, <2>1, <2>2, <2>3 DEF IInv, Typed
    <3>5. CASE task[v].conn # c
      BY <3>1, <3>2, <3>5, <2>2 DEF IInv, Typed
    <3>6. QED
      BY <3>4, <3>5
  <2>10. DisconnectedMeansRevoked'
    BY <2>1, <2>2, <2>3, <1>1 DEF IInv, Typed, DisconnectedMeansRevoked
  <2>11. Kept
    BY <2>1, <2>2 DEF IInv, Typed, Kept
  <2>12. QED
    BY <2>7, <2>8, <2>9, <2>10, <2>11 DEF IInv
<1>4. QED
  BY <1>2, <1>3

-----------------------------------------------------------------------------
(* Every step keeps the invariant and every disconnected connection.       *)
LEMMA StepKeeps ==
    ASSUME IInv, [Next]_vars
    PROVE IInv' /\ Kept
<1>1. CASE UNCHANGED vars
  <2>1. UNCHANGED <<bank, conn, account, record, pc, task, events>> /\ Now' = Now
    BY <1>1 DEF vars, books, Now
  <2>2. Typed'
    BY <2>1 DEF IInv, Typed, Banks, ConnRows, TaskRows, Steps
  <2>3. Closing' /\ Versions' /\ Syncing' /\ DisconnectedMeansRevoked' /\ Kept
    BY <2>1 DEF IInv, Closing, Versions, Syncing, DisconnectedMeansRevoked, Kept
  <2>4. QED
    BY <2>2, <2>3 DEF IInv
<1>2. CASE Happens
  BY <1>2, HappensKeeps DEF Happens, books, Kept
<1>3. ASSUME NEW w \in Workers,
             StartLink(w) \/ (\E c \in Conns : StartSync(w, c) \/ StartDisconnect(w, c))
      PROVE IInv' /\ Kept
  BY <1>3, StartLinkKeeps, StartSyncKeeps, StartDisconnectKeeps
<1>4. ASSUME NEW w \in Workers, Snapshot(w) \/ Page(w) \/ Restart(w)
      PROVE IInv' /\ Kept
  BY <1>4, SnapshotKeeps, PageKeeps, RestartKeeps
<1>5. ASSUME NEW w \in Workers,
             CommitLink(w) \/ CommitSync(w) \/ Revoke(w) \/ CommitDisconnect(w)
      PROVE IInv' /\ Kept
  BY <1>5, CommitLinkKeeps, CommitSyncKeeps, RevokeKeeps, CommitDisconnectKeeps
<1>6. ASSUME NEW w \in Workers, Abandon(w)
      PROVE IInv' /\ Kept
  BY <1>6, Ends DEF Abandon, books, Kept
<1>7. QED
  BY <1>1, <1>2, <1>3, <1>4, <1>5, <1>6 DEF Next

LEMMA Inductive == Spec => []IInv
<1>1. Init => IInv
  BY Initially
<1>2. IInv /\ [Next]_vars => IInv'
  BY StepKeeps
<1>3. QED
  BY <1>1, <1>2, PTL DEF Spec

(* A connection is called disconnected only when its grant is revoked.     *)
THEOREM RevokedCorrect == Spec => []DisconnectedMeansRevoked
<1>1. IInv => DisconnectedMeansRevoked
  BY DEF IInv
<1>2. QED
  BY <1>1, Inductive, PTL

(* Nothing that was in flight changes a disconnected connection.           *)
THEOREM StaysCorrect == Spec => DisconnectedStays
<1>1. IInv /\ [Next]_vars =>
         [\A c \in Conns : conn[c].status = "disconnected" =>
             /\ conn'[c] = conn[c] /\ account'[c] = account[c]
             /\ record'[c] = record[c]]_vars
  BY StepKeeps DEF Kept
<1>2. QED
  BY <1>1, Inductive, PTL DEF Spec, DisconnectedStays

(***************************************************************************)
(* The books.                                                              *)
(*                                                                         *)
(* A batch is a set of changes between two places of the bank's log.  Each *)
(* row changes at most once between them, so the last change of a row is   *)
(* its only one, and the order of the pages does not matter.               *)
(***************************************************************************)

(* What the bank holds at one moment: at most one row of a purchase, and a *)
(* posted row names no other than its own pending one.                     *)
Sound(held) ==
    /\ held \subseteq Change
    /\ \A ch \in held :
          /\ ch.amount # 0
          /\ ch.link # None => ch.id[2] = "posted" /\ ch.link = <<ch.id[1], "pending">>
    /\ \A ch, other \in held : ch.id[1] = other.id[1] => ch = other

(* The changes from one moment to another.                                 *)
NetOf(from, to) ==
    (to \ from)
    \cup {[id |-> id, amount |-> 0, link |-> None] : id \in Ids(from) \ Ids(to)}

BankSound == \A n \in 0..Now : Sound(Held(n))

(* Pages hold changes between the cursor and one later place, each once;   *)
(* all of them that are needed when the last page has come.                *)
Paged(t, step) ==
    LET net == NetOf(Held(t.cursor), Held(t.epoch)) IN
    /\ t.changes # <<>> =>
          /\ t.cursor <= t.epoch
          /\ \A i \in DOMAIN t.changes : t.changes[i] \in net
          /\ \A i, j \in DOMAIN t.changes : t.changes[i] = t.changes[j] => i = j
    /\ step = "fetched" =>
          /\ t.cursor <= t.epoch
          /\ \A ch \in Needed(net) : \E i \in DOMAIN t.changes : t.changes[i] = ch

(* A sync whose connection is as it found it has seen no balance that is   *)
(* newer than its own snapshot.                                            *)
InTime(t, step) ==
    t.op = "sync" =>
        /\ conn[t.conn].status # "none"
        /\ t.version <= conn[t.conn].version
        /\ step \in {"paging", "fetched"} /\ t.version = conn[t.conn].version =>
              \A a \in Accounts : account[t.conn][a].balance <= t.snap

TaskSound(t, step) ==
    /\ t.op = "link" => t.cursor = 0
    /\ t.snap <= events
    /\ Paged(t, step)
    /\ InTime(t, step)

Unlinked ==
    \A c \in Conns :
        conn[c].status = "none" =>
            /\ conn[c].cursor = 0 /\ DOMAIN record[c] = {}
            /\ \A a \in Accounts : account[c][a] = NoAccount
OneLinked ==
    \A c, d \in Conns : conn[c].status # "none" /\ conn[d].status # "none" => c = d
RowsKnown ==
    \A c \in Conns : \A id \in DOMAIN record[c] :
        id \in Rows /\ account[c][AccountOf[id[1]]].known
Dated ==
    \A c \in Conns, a \in Accounts :
        account[c][a].balance <= events /\ account[c][a].since <= Now

Books ==
    /\ Unlinked /\ OneLinked /\ RowsKnown /\ Dated
    /\ RecordsMatchCursor /\ HealthyIsCurrent

RInv == IInv /\ BankSound /\ Books /\ \A w \in Workers : TaskSound(task[w], pc[w])

-----------------------------------------------------------------------------
(* One batch, from the held rows F to the held rows E. *)

LEMMA NetUnique ==
    ASSUME NEW F, NEW E, Sound(F), Sound(E)
    PROVE  /\ \A a, b \in NetOf(F, E) : a.id = b.id => a = b
           /\ \A ch \in NetOf(F, E) :
                 /\ ch.id \in Rows
                 /\ ch.amount # 0 <=> ch \in E \ F
                 /\ ch.amount = 0 => /\ ch.link = None
                                     /\ ch.id \in Ids(F) /\ ch.id \notin Ids(E)
<1> DEFINE gone == {[id |-> id, amount |-> 0, link |-> None] : id \in Ids(F) \ Ids(E)}
<1>1. \A ch \in E : ch.id \in Ids(E) /\ ch.amount # 0 /\ ch.id \in Rows
  BY DEF Sound, Ids, Change
<1>2. \A ch \in gone : /\ ch.amount = 0 /\ ch.link = None
                       /\ ch.id \in Ids(F) /\ ch.id \notin Ids(E)
  OBVIOUS
<1>3. \A id \in Ids(F) : id \in Rows
  BY DEF Sound, Ids, Change
<1>4. \A a, b \in gone : a.id = b.id => a = b
  OBVIOUS
<1>5. \A a, b \in E : a.id = b.id => a = b
  BY DEF Sound
<1>6. NetOf(F, E) = (E \ F) \cup gone
  BY DEF NetOf
<1> HIDE DEF gone
<1>7. \A ch \in NetOf(F, E) : /\ ch \in E \ F <=> ch \notin gone
                              /\ ch.amount # 0 <=> ch \in E \ F
  BY <1>1, <1>2, <1>6
<1>8. QED
  BY <1>1, <1>2, <1>3, <1>4, <1>5, <1>6, <1>7

(* The changes of a batch: each of a row of its own, and each of the net.  *)
Batched(t, F, E) ==
    /\ t.changes \in Seq(Change)
    /\ \A i \in DOMAIN t.changes : t.changes[i] \in NetOf(F, E)
    /\ \A i, j \in DOMAIN t.changes : t.changes[i].id = t.changes[j].id => i = j
    /\ \A ch \in Needed(NetOf(F, E)) : \E i \in DOMAIN t.changes : t.changes[i] = ch

LEMMA BatchOf ==
    ASSUME NEW t, NEW F, NEW E, Sound(F), Sound(E), t.changes \in Seq(Change),
           \A i \in DOMAIN t.changes : t.changes[i] \in NetOf(F, E),
           \A i, j \in DOMAIN t.changes : t.changes[i] = t.changes[j] => i = j,
           \A ch \in Needed(NetOf(F, E)) : \E i \in DOMAIN t.changes : t.changes[i] = ch
    PROVE  Batched(t, F, E)
<1>1. \A a, b \in NetOf(F, E) : a.id = b.id => a = b
  BY NetUnique
<1>2. \A i, j \in DOMAIN t.changes : t.changes[i].id = t.changes[j].id => i = j
  BY <1>1
<1>3. QED
  BY <1>2 DEF Batched

LEMMA NewestOne ==
    ASSUME NEW t, NEW i \in Nat
    PROVE  Newest(t, {i}) = t.changes[i]
  BY DEF Newest, Max

(* What becomes of a row: the change there is for it decides, and without  *)
(* one it stays as it was, but for a posted row that names it.             *)
LEMMA RowAfter ==
    ASSUME NEW t, NEW F, NEW E, Batched(t, F, E), NEW accounts, NEW old,
           NEW id \in DOMAIN Updated(t, accounts, old)
    PROVE  LET S == Followed(t, accounts)
               row == Updated(t, accounts, old)[id] IN
           /\ row.live => id \notin Matched(t, S)
           /\ \A i \in S : t.changes[i].id = id =>
                 /\ row.live <=> id \notin Matched(t, S) /\ t.changes[i].amount # 0
                 /\ t.changes[i].amount # 0 => row.amount = t.changes[i].amount
           /\ (\A i \in S : t.changes[i].id # id) =>
                 /\ id \in DOMAIN old
                 /\ row.live <=> id \notin Matched(t, S) /\ old[id].live
                 /\ row.amount = old[id].amount
<1> DEFINE S == Followed(t, accounts)
           row == Updated(t, accounts, old)[id]
           about == About(t, S, id)
<1>1. S \subseteq DOMAIN t.changes /\ DOMAIN t.changes \subseteq Nat
  BY DEF Followed, Batched
<1>2. /\ row = [live |-> Live(t, S, id, old), amount |-> Amount(t, S, id, old)]
      /\ id \in DOMAIN old \cup {t.changes[i].id : i \in Upserts(t, S)}
  BY DEF Updated
<1> HIDE DEF S, row
<1>3. row.live <=> Live(t, S, id, old)
  BY <1>2
<1>4. row.amount = Amount(t, S, id, old)
  BY <1>2
<1>5. ASSUME NEW i \in S, t.changes[i].id = id
      PROVE  /\ row.live <=> id \notin Matched(t, S) /\ t.changes[i].amount # 0
             /\ t.changes[i].amount # 0 => row.amount = t.changes[i].amount
  <2>1. about = {i}
    BY <1>1, <1>5 DEF About, Batched
  <2>2. Newest(t, about) = t.changes[i]
    BY <2>1, <1>1, NewestOne
  <2>3. t.changes[i].amount # 0 => Upserts(t, about) = about
    BY <2>1 DEF Upserts
  <2>4. QED
    BY <1>3, <1>4, <2>1, <2>2, <2>3 DEF Live, Amount
<1>6. ASSUME \A i \in S : t.changes[i].id # id
      PROVE  /\ id \in DOMAIN old
             /\ row.live <=> id \notin Matched(t, S) /\ old[id].live
             /\ row.amount = old[id].amount
  <2>1. about = {} /\ Upserts(t, about) = {}
    BY <1>6 DEF About, Upserts
  <2>2. id \in DOMAIN old
    BY <1>2, <1>6 DEF Upserts
  <2>3. QED
    BY <1>3, <1>4, <2>1, <2>2 DEF Live, Amount
<1>7. row.live => id \notin Matched(t, S)
  BY <1>3 DEF Live
<1>8. QED
  BY <1>5, <1>6, <1>7 DEF S, row

(* The records of one connection, against what the bank held: nothing that *)
(* it does not hold is counted, and nothing of a followed account is lost. *)
Exact(rec, held) ==
    \A id \in DOMAIN rec : rec[id].live =>
        \E ch \in held : ch.id = id /\ ch.amount = rec[id].amount
Complete(rec, accounts, held) ==
    \A id \in Ids(held) :
        LET a == accounts[AccountOf[id[1]]] IN
        a.known /\ id \notin Ids(Held(a.since)) => id \in DOMAIN rec /\ rec[id].live

LEMMA MatchedWay ==
    ASSUME NEW t, NEW S, NEW id, id # None
    PROVE  id \in Matched(t, S) <=> \E i \in S : t.changes[i].link = id
  BY DEF Matched

LEMMA RowIsNotNone ==
    ASSUME NEW id \in Rows
    PROVE  id # None /\ id[1] \in Purchases /\ AccountOf[id[1]] \in Accounts
  BY BankAssumption DEF Rows, Forms

(* Nothing that the bank no longer holds is counted after a batch.         *)
LEMMA BatchExact ==
    ASSUME NEW t, NEW F, NEW E, Sound(F), Sound(E), Batched(t, F, E),
           NEW accounts, NEW old, Exact(old, F),
           \A id \in DOMAIN old : id \in Rows /\ accounts[AccountOf[id[1]]].known
    PROVE  Exact(Updated(t, accounts, old), E)
<1> DEFINE S == Followed(t, accounts)
           new == Updated(t, accounts, old)
<1> SUFFICES ASSUME NEW id \in DOMAIN new, new[id].live
             PROVE  \E ch \in E : ch.id = id /\ ch.amount = new[id].amount
  BY DEF Exact
<1>1. S \subseteq DOMAIN t.changes
  BY DEF Followed
<1>2. \A i \in DOMAIN t.changes : t.changes[i] \in NetOf(F, E)
  BY DEF Batched
<1>3. CASE \E i \in S : t.changes[i].id = id
  <2>1. PICK i \in S : t.changes[i].id = id
    BY <1>3
  <2>2. t.changes[i].amount # 0 /\ new[id].amount = t.changes[i].amount
    BY <2>1, RowAfter
  <2>3. t.changes[i] \in E
    BY <1>1, <1>2, <2>2, NetUnique
  <2>4. QED
    BY <2>1, <2>2, <2>3
<1>4. CASE \A i \in S : t.changes[i].id # id
  <2>1. /\ id \in DOMAIN old /\ old[id].live /\ new[id].amount = old[id].amount
        /\ id \notin Matched(t, S)
    BY <1>4, RowAfter
  <2>2. PICK ch \in F : ch.id = id /\ ch.amount = old[id].amount
    BY <2>1 DEF Exact
  <2>3. id \in Rows /\ id # None /\ accounts[AccountOf[id[1]]].known
    BY <2>1, RowIsNotNone
  <2>4. ASSUME NEW i \in DOMAIN t.changes, t.changes[i].id[1] = id[1] PROVE i \in S
    BY <2>3, <2>4 DEF Followed
  <2>5. ch \in E
    <3>1. SUFFICES ASSUME ch \notin E PROVE FALSE
      OBVIOUS
    <3>2. CASE id \in Ids(E)
      <4>1. PICK other \in E : other.id = id
        BY <3>2 DEF Ids
      <4>2. other \notin F
        BY <2>2, <3>1, <4>1 DEF Sound
      <4>3. other \in NetOf(F, E) /\ other.amount # 0
        BY <4>1, <4>2 DEF NetOf, Sound
      <4>4. PICK i \in DOMAIN t.changes : t.changes[i] = other
        BY <4>3 DEF Batched, Needed
      <4>5. QED
        BY <1>4, <2>4, <4>1, <4>4
    <3>3. CASE id \notin Ids(E)
      <4> DEFINE gone == [id |-> id, amount |-> 0, link |-> None]
      <4>1. id \in Ids(F)
        BY <2>2 DEF Ids
      <4>2. gone \in NetOf(F, E)
        BY <3>3, <4>1 DEF NetOf
      <4>3. CASE gone \in Needed(NetOf(F, E))
        <5>1. PICK i \in DOMAIN t.changes : t.changes[i] = gone
          BY <4>3 DEF Batched
        <5>2. t.changes[i].id = id
          BY <5>1
        <5>3. QED
          BY <1>4, <2>4, <5>2
      <4>4. CASE gone \notin Needed(NetOf(F, E))
        <5>1. PICK other \in NetOf(F, E) : other.link = id
          BY <4>2, <4>4 DEF Needed
        <5>2. other.amount # 0 /\ other \in E
          BY <5>1, <2>3, NetUnique
        <5>3. other \in Needed(NetOf(F, E))
          BY <5>1, <5>2 DEF Needed
        <5>4. PICK i \in DOMAIN t.changes : t.changes[i] = other
          BY <5>3 DEF Batched
        <5>5. other.link = <<other.id[1], "pending">>
          BY <5>1, <5>2, <2>3 DEF Sound
        <5>6. other.id[1] = id[1]
          BY <5>1, <5>5
        <5>7. i \in S
          BY <2>4, <5>4, <5>6
        <5>8. QED
          BY <2>1, <2>3, <5>1, <5>4, <5>7, MatchedWay
      <4>5. QED
        BY <4>3, <4>4
    <3>4. QED
      BY <3>2, <3>3
  <2>6. QED
    BY <2>1, <2>2, <2>5
<1>5. QED
  BY <1>3, <1>4

(* Nothing of an account that is followed is lost in a batch.              *)
LEMMA BatchComplete ==
    ASSUME NEW t, NEW F, NEW E, Sound(F), Sound(E), Batched(t, F, E),
           F = Held(t.cursor), NEW was \in [Accounts -> AccountRows], NEW old,
           Complete(old, was, F)
    PROVE  Complete(Updated(t, Imported(t, was), old), Imported(t, was), E)
<1> DEFINE accounts == Imported(t, was)
           S == Followed(t, accounts)
           new == Updated(t, accounts, old)
<1> SUFFICES ASSUME NEW id \in Ids(E), accounts[AccountOf[id[1]]].known,
                    id \notin Ids(Held(accounts[AccountOf[id[1]]].since))
             PROVE  id \in DOMAIN new /\ new[id].live
  BY DEF Complete
<1> DEFINE a == AccountOf[id[1]]
<1>1. PICK ch \in E : ch.id = id
  BY DEF Ids
<1>2. id \in Rows /\ id # None /\ a \in Accounts /\ ch.amount # 0
  BY <1>1, RowIsNotNone DEF Sound, Change
<1>3. \A i \in DOMAIN t.changes : t.changes[i] \in NetOf(F, E)
  BY DEF Batched
<1>4. id \notin Matched(t, S)
  <2>1. SUFFICES ASSUME NEW i \in S, t.changes[i].link = id PROVE FALSE
    BY <1>2, MatchedWay
  <2>2. i \in DOMAIN t.changes /\ t.changes[i] \in NetOf(F, E)
    BY <1>3 DEF Followed
  <2>3. t.changes[i] \in E
    BY <1>2, <2>1, <2>2, NetUnique
  <2>4. t.changes[i].id[2] = "posted" /\ id = <<t.changes[i].id[1], "pending">>
    BY <1>2, <2>1, <2>3 DEF Sound
  <2>5. id[2] = "pending" /\ t.changes[i].id[1] = id[1]
    BY <2>4
  <2>6. t.changes[i] = ch
    BY <1>1, <2>3, <2>5 DEF Sound
  <2>7. QED
    BY <1>1, <2>4, <2>5, <2>6
<1>5. CASE ch \notin F
  <2>1. ch \in Needed(NetOf(F, E))
    BY <1>2, <1>5 DEF Needed, NetOf
  <2>2. PICK i \in DOMAIN t.changes : t.changes[i] = ch
    BY <2>1 DEF Batched
  <2>3. i \in S
    BY <1>1, <2>2 DEF Followed
  <2>4. id \in DOMAIN new
    <3>1. i \in Upserts(t, S)
      BY <1>2, <2>2, <2>3 DEF Upserts
    <3>2. QED
      BY <1>1, <2>2, <3>1 DEF Updated
  <2>5. new[id].live
    BY <1>1, <1>2, <1>4, <2>2, <2>3, <2>4, RowAfter
  <2>6. QED
    BY <2>4, <2>5
<1>6. CASE ch \in F
  <2>1. id \in Ids(F)
    BY <1>1, <1>6 DEF Ids
  <2>2. was[a].known /\ accounts[a].since = was[a].since
    <3>1. a \in t.shown \/ accounts[a] = [was[a] EXCEPT !.healthy = FALSE]
      BY <1>2 DEF Imported
    <3>2. a \in t.shown =>
             accounts[a].since = IF was[a].known THEN was[a].since ELSE t.cursor
      BY <1>2 DEF Imported
    <3>3. was[a] \in AccountRows
      BY <1>2
    <3>4. a \notin t.shown =>
             accounts[a].known = was[a].known /\ accounts[a].since = was[a].since
      BY <3>1, <3>3 DEF AccountRows
    <3>5. QED
      BY <2>1, <3>2, <3>4
  <2>3. id \in DOMAIN old /\ old[id].live
    BY <2>1, <2>2 DEF Complete
  <2>4. \A i \in S : t.changes[i].id # id
    <3>1. SUFFICES ASSUME NEW i \in S, t.changes[i].id = id PROVE FALSE
      OBVIOUS
    <3>2. i \in DOMAIN t.changes /\ t.changes[i] \in NetOf(F, E)
      BY <1>3 DEF Followed
    <3>3. t.changes[i] \in E \ F
      BY <3>1, <3>2, NetUnique
    <3>4. t.changes[i] = ch
      BY <1>1, <3>1, <3>3 DEF Sound
    <3>5. QED
      BY <1>6, <3>3, <3>4
  <2>5. id \in DOMAIN new
    BY <2>3 DEF Updated
  <2>6. QED
    BY <1>4, <2>3, <2>4, <2>5, RowAfter
<1>7. QED
  BY <1>5, <1>6

-----------------------------------------------------------------------------
(* What the steps leave alone. *)

LEMMA MatchesWay ==
    RecordsMatchCursor <=>
        \A c \in Conns :
            /\ Exact(record[c], Held(conn[c].cursor))
            /\ Complete(record[c], account[c], Held(conn[c].cursor))
  BY DEF RecordsMatchCursor, Exact, Complete, Counted

LEMMA Ranges ==
    ASSUME RInv
    PROVE  /\ Now \in Nat /\ events \in Nat
           /\ \A c \in Conns :
                 /\ conn[c].cursor \in 0..Now /\ conn[c].version \in Nat
                 /\ account[c] \in [Accounts -> AccountRows]
                 /\ \A a \in Accounts :
                       /\ account[c][a].balance \in Nat
                       /\ account[c][a].since \in 0..Now
           /\ \A w \in Workers :
                 /\ task[w] \in TaskRows
                 /\ task[w].cursor \in 0..Now /\ task[w].epoch \in 0..Now
                 /\ task[w].snap \in Nat /\ task[w].version \in Nat
<1>1. Now \in Nat
  BY Zero DEF RInv, IInv
<1>2. \A c \in Conns, a \in Accounts :
         /\ account[c][a].balance \in Nat
         /\ account[c][a].since \in Nat /\ account[c][a].since <= Now
  BY DEF RInv, IInv, Typed, AccountRows, Books, Dated
<1>3. QED
  BY <1>1, <1>2 DEF RInv, IInv, Typed, ConnRows, TaskRows

LEMMA HeldKept ==
    ASSUME bank'.log = bank.log
    PROVE  Now' = Now /\ \A n : Held(n)' = Held(n)
  BY DEF Now, Held

(* The books stay while nothing is committed and the log only grows.       *)
LEMMA BooksStay ==
    ASSUME RInv, UNCHANGED <<conn, account, record>>,
           events <= events', events' \in Nat, Now <= Now', Now' \in Nat,
           \A n \in 0..Now : Held(n)' = Held(n)
    PROVE  Books'
<1>1. /\ Unlinked' /\ OneLinked' /\ RowsKnown' /\ HealthyIsCurrent'
  BY DEF RInv, Books, Unlinked, OneLinked, RowsKnown, HealthyIsCurrent
<1>2. Dated'
  BY Ranges DEF RInv, Books, Dated
<1>3. RecordsMatchCursor'
  <2>1. \A c \in Conns :
           /\ Exact(record[c], Held(conn[c].cursor))
           /\ Complete(record[c], account[c], Held(conn[c].cursor))
    BY MatchesWay DEF RInv, Books
  <2>2. ASSUME NEW c \in Conns
        PROVE  /\ Exact(record[c], Held(conn[c].cursor))'
               /\ Complete(record[c], account[c], Held(conn[c].cursor))'
    <3>1. Held(conn[c].cursor)' = Held(conn[c].cursor)
      BY Ranges
    <3>2. Exact(record[c], Held(conn[c].cursor))'
      BY <2>1, <3>1 DEF Exact
    <3>3. \A id \in Ids(Held(conn[c].cursor)) : AccountOf[id[1]] \in Accounts
      <4>1. Sound(Held(conn[c].cursor))
        BY Ranges DEF RInv, BankSound
      <4>2. QED
        BY <4>1, RowIsNotNone DEF Sound, Ids, Change
    <3>4. \A a \in Accounts : Held(account[c][a].since)' = Held(account[c][a].since)
      BY Ranges
    <3>5. Complete(record[c], account[c], Held(conn[c].cursor))'
      BY <2>1, <3>1, <3>3, <3>4 DEF Complete
    <3>6. QED
      BY <3>2, <3>5
  <2>3. QED
    BY <2>2 DEF RecordsMatchCursor, Exact, Complete, Counted
<1>4. QED
  BY <1>1, <1>2, <1>3 DEF Books

(* A request's own step: its task changes, the books and the log do not.   *)
LEMMA TaskStep ==
    ASSUME RInv, IInv', NEW w \in Workers, NEW t, NEW step, TaskSound(t, step),
           pc' = [pc EXCEPT ![w] = step], task' = [task EXCEPT ![w] = t],
           bank'.log = bank.log, UNCHANGED <<conn, account, record, events>>
    PROVE  RInv'
<1>1. Now' = Now /\ \A n : Held(n)' = Held(n)
  BY HeldKept
<1>2. Books'
  BY <1>1, BooksStay, Ranges
<1>3. BankSound'
  BY <1>1 DEF RInv, BankSound
<1>4. ASSUME NEW v \in Workers PROVE TaskSound(task[v], pc[v])'
  <2>1. TaskSound(task'[v], pc'[v])
    <3>1. pc \in [Workers -> Steps] /\ task \in [Workers -> TaskRows]
      BY DEF RInv, IInv, Typed
    <3>2. QED
      BY <3>1 DEF RInv
  <2>2. QED
    BY <1>1, <2>1 DEF TaskSound, Paged, InTime
<1>5. QED
  BY <1>2, <1>3, <1>4 DEF RInv

-----------------------------------------------------------------------------
(* What the bank reports. *)

LEMMA ReportSound ==
    ASSUME BankSound, bank \in Banks,
           NEW gone, NEW new, Report(gone, new),
           Sound((Held(Now) \ gone) \cup new)
    PROVE  /\ BankSound' /\ Now' = Now + 1
           /\ \A n \in 0..Now : Held(n)' = Held(n)
<1> DEFINE held == (Held(Now) \ gone) \cup new
           longer == Append(bank.log, held)
<1>1. bank' = [bank EXCEPT !.log = longer]
  BY DEF Report
<1>2. held \in SUBSET Change
  BY DEF Sound
<1> HIDE DEF held
<1>3. /\ Len(longer) = Len(bank.log) + 1 /\ longer[Len(bank.log) + 1] = held
      /\ \A n \in 1..Len(bank.log) : longer[n] = bank.log[n]
  BY <1>2 DEF Banks
<1> HIDE DEF longer
<1>4. bank'.log = longer /\ Now \in Nat
  BY <1>1 DEF Banks, Now
<1>5. Now' = Now + 1
  BY <1>3, <1>4 DEF Now
<1>6. \A n \in 0..Now : Held(n)' = Held(n)
  BY <1>3, <1>4 DEF Held, Now
<1>7. ASSUME NEW n \in 0..(Now + 1) PROVE Sound(Held(n)')
  <2>1. CASE n \in 0..Now
    BY <1>6, <2>1 DEF BankSound
  <2>2. CASE n = Now + 1
    <3>1. Held(n)' = held
      BY <1>3, <1>4, <2>2 DEF Held, Now
    <3>2. QED
      BY <3>1 DEF held
  <2>3. QED
    BY <1>4, <2>1, <2>2
<1>8. BankSound'
  BY <1>5, <1>7 DEF BankSound, Sound
<1>9. QED
  BY <1>5, <1>6, <1>8

LEMMA PurchaseSound ==
    ASSUME NEW held, Sound(held), NEW gone \in SUBSET held, NEW x \in Purchases,
           NEW form \in Forms, NEW link \in {None, <<x, "pending">>},
           link # None => form = "posted",
           \A ch \in held \ gone : ch.id[1] # x
    PROVE  Sound((held \ gone) \cup {Purchase(x, form, link)})
<1> DEFINE row == Purchase(x, form, link)
<1>1. row \in Change /\ row.id[1] = x /\ row.id[2] = form /\ row.amount # 0 /\ row.link = link
  BY DEF Purchase, Change, Rows, Forms
<1>2. row.link # None => row.id[2] = "posted" /\ row.link = <<row.id[1], "pending">>
  BY <1>1
<1> HIDE DEF row
<1>3. held \subseteq Change /\ \A ch, other \in held : ch.id[1] = other.id[1] => ch = other
  BY DEF Sound
<1>4. \A ch, other \in (held \ gone) \cup {row} : ch.id[1] = other.id[1] => ch = other
  BY <1>1, <1>3
<1>5. \A ch \in (held \ gone) \cup {row} :
         /\ ch.amount # 0
         /\ ch.link # None => ch.id[2] = "posted" /\ ch.link = <<ch.id[1], "pending">>
  BY <1>1, <1>2 DEF Sound
<1>6. Sound((held \ gone) \cup {row})
  BY <1>1, <1>3, <1>4, <1>5 DEF Sound
<1>7. QED
  BY <1>6 DEF row

LEMMA HappensSound ==
    ASSUME BankSound, bank \in Banks, Happens
    PROVE  /\ BankSound' /\ Now <= Now'
           /\ \A n \in 0..Now : Held(n)' = Held(n)
<1>1. Now \in Nat /\ Now \in 0..Now
  BY DEF Banks, Now
<1>2. Sound(Held(Now))
  BY <1>1 DEF BankSound
<1>3. ASSUME NEW gone, NEW new, Report(gone, new), Sound((Held(Now) \ gone) \cup new)
      PROVE  /\ BankSound' /\ Now <= Now'
             /\ \A n \in 0..Now : Held(n)' = Held(n)
  BY <1>1, <1>3, ReportSound
<1>4. ASSUME NEW x \in Purchases, NEW form \in Forms,
             \A n \in 1..Now : <<x, "pending">> \notin Ids(Held(n))
                            /\ <<x, "posted">> \notin Ids(Held(n)),
             Report({}, {Purchase(x, form, None)})
      PROVE  /\ BankSound' /\ Now <= Now'
             /\ \A n \in 0..Now : Held(n)' = Held(n)
  <2>1. ASSUME NEW ch \in Held(Now) PROVE ch.id[1] # x
    <3>1. Now \in 1..Now
      BY <1>1 DEF Held
    <3>2. ch.id \in Ids(Held(Now)) /\ ch.id \in Rows
      BY <1>2 DEF Ids, Sound, Change
    <3>3. ch.id = <<ch.id[1], "pending">> \/ ch.id = <<ch.id[1], "posted">>
      BY <3>2 DEF Rows, Forms
    <3>4. QED
      BY <1>4, <3>1, <3>2, <3>3
  <2>2. Sound((Held(Now) \ {}) \cup {Purchase(x, form, None)})
    BY <1>2, <2>1, PurchaseSound
  <2>3. QED
    BY <1>3, <1>4, <2>2
<1>5. ASSUME NEW ch \in Held(Now), ch.id[2] = "pending",
             Report({ch}, {Purchase(ch.id[1], "posted", ch.id)})
      PROVE  /\ BankSound' /\ Now <= Now'
             /\ \A n \in 0..Now : Held(n)' = Held(n)
  <2>1. ch.id \in Rows
    BY <1>2 DEF Sound, Change
  <2>2. ch.id[1] \in Purchases /\ ch.id = <<ch.id[1], "pending">> /\ "posted" \in Forms
    BY <1>5, <2>1 DEF Rows, Forms
  <2>3. \A other \in Held(Now) \ {ch} : other.id[1] # ch.id[1]
    BY <1>2 DEF Sound
  <2>4. Sound((Held(Now) \ {ch}) \cup {Purchase(ch.id[1], "posted", ch.id)})
    BY <1>2, <2>2, <2>3, PurchaseSound
  <2>5. QED
    BY <1>3, <1>5, <2>4
<1>6. ASSUME NEW ch \in Held(Now), Report({ch}, {})
      PROVE  /\ BankSound' /\ Now <= Now'
             /\ \A n \in 0..Now : Held(n)' = Held(n)
  <2>1. Sound((Held(Now) \ {ch}) \cup {})
    BY <1>2 DEF Sound
  <2>2. QED
    BY <1>3, <1>6, <2>1
<1>7. ASSUME NEW ch \in Held(Now), Report({ch}, {[ch EXCEPT !.amount = 2]})
      PROVE  /\ BankSound' /\ Now <= Now'
             /\ \A n \in 0..Now : Held(n)' = Held(n)
  <2> DEFINE more == [ch EXCEPT !.amount = 2]
  <2>1. ch \in Change
    BY <1>2 DEF Sound
  <2>2. more \in Change /\ more.id = ch.id /\ more.link = ch.link /\ more.amount # 0
    BY <2>1 DEF Change
  <2>3. Report({ch}, {more})
    BY <1>7
  <2> HIDE DEF more
  <2>4. Sound((Held(Now) \ {ch}) \cup {more})
    BY <1>2, <2>2 DEF Sound
  <2>5. QED
    BY <1>3, <2>3, <2>4
<1>8. ASSUME NEW a \in Accounts, bank' = [bank EXCEPT !.shows = SymDiff(@, {a})]
      PROVE  /\ BankSound' /\ Now <= Now'
             /\ \A n \in 0..Now : Held(n)' = Held(n)
  <2>1. bank'.log = bank.log
    BY <1>8 DEF Banks
  <2>2. QED
    BY <1>1, <2>1, HeldKept DEF BankSound
<1>9. QED
  BY <1>4, <1>5, <1>6, <1>7, <1>8 DEF Happens

LEMMA HappensRecords ==
    ASSUME RInv, IInv', Happens
    PROVE  RInv'
<1>1. /\ BankSound' /\ Now <= Now' /\ \A n \in 0..Now : Held(n)' = Held(n)
  BY HappensSound DEF RInv, IInv, Typed
<1>2. /\ UNCHANGED <<conn, account, record, pc, task>> /\ events' = events + 1
  BY DEF Happens, books
<1>3. events \in Nat /\ events' \in Nat /\ Now' \in Nat
  BY <1>2, Ranges, HappensTyped DEF RInv, IInv
<1>4. Books'
  BY <1>1, <1>2, <1>3, BooksStay
<1>5. ASSUME NEW w \in Workers PROVE TaskSound(task[w], pc[w])'
  <2>1. /\ Held(task[w].cursor)' = Held(task[w].cursor)
        /\ Held(task[w].epoch)' = Held(task[w].epoch)
    BY <1>1, <1>2, Ranges
  <2>2. task[w].snap <= events'
    BY <1>2, <1>3, Ranges DEF RInv, TaskSound
  <2>3. QED
    BY <1>2, <2>1, <2>2 DEF RInv, TaskSound, Paged, InTime
<1>6. QED
  BY <1>1, <1>4, <1>5 DEF RInv

-----------------------------------------------------------------------------
(* The steps of a request that commit nothing. *)

LEMMA NoTaskSound ==
    ASSUME RInv
    PROVE  TaskSound(NoTask, "idle")
  BY Ranges, BankAssumption DEF NoTask, TaskSound, Paged, InTime

LEMMA Ending ==
    ASSUME RInv, IInv', NEW w \in Workers, Over(w),
           bank'.log = bank.log, UNCHANGED <<conn, account, record, events>>
    PROVE  RInv'
  BY NoTaskSound, TaskStep DEF Over, At, Take

LEMMA StartLinkRecords ==
    ASSUME RInv, IInv', NEW w \in Workers, StartLink(w)
    PROVE  RInv'
<1>1. bank'.log = bank.log /\ UNCHANGED <<conn, account, record, events>>
  BY DEF StartLink, books, RInv, IInv, Typed, Banks
<1>2. CASE AlreadyLinked
  <2>1. UNCHANGED <<pc, task>>
    BY <1>2 DEF StartLink
  <2>2. pc' = [pc EXCEPT ![w] = pc[w]] /\ task' = [task EXCEPT ![w] = task[w]]
    BY <2>1 DEF RInv, IInv, Typed
  <2>3. TaskSound(task[w], pc[w])
    BY DEF RInv
  <2>4. QED
    BY <1>1, <2>2, <2>3, TaskStep
<1>3. CASE ~AlreadyLinked
  <2> DEFINE t == [NoTask EXCEPT !.op = "link"]
  <2>1. pc' = [pc EXCEPT ![w] = "snapshot"] /\ task' = [task EXCEPT ![w] = t]
    BY <1>3 DEF StartLink, At, Take
  <2>2. TaskSound(t, "snapshot")
    BY Ranges DEF NoTask, TaskSound, Paged, InTime
  <2> HIDE DEF t
  <2>3. QED
    BY <1>1, <2>1, <2>2, TaskStep
<1>4. QED
  BY <1>2, <1>3

LEMMA FollowSound ==
    ASSUME RInv, IInv', NEW w \in Workers, NEW c \in Conns, NEW step,
           NEW op \in {"sync", "disconnect"}, step \in {"snapshot", "removing"},
           Follow(w, op, c, step), conn[c].status # "none",
           UNCHANGED <<bank, books, events>>
    PROVE  RInv'
<1> DEFINE t == [NoTask EXCEPT !.op = op, !.conn = c, !.version = conn[c].version,
                               !.cursor = conn[c].cursor]
<1>1. pc' = [pc EXCEPT ![w] = step] /\ task' = [task EXCEPT ![w] = t]
  BY DEF Follow, At, Take
<1>2. /\ t.op = op /\ t.conn = c /\ t.version = conn[c].version
      /\ t.snap = 0 /\ t.changes = <<>>
  BY DEF NoTask
<1> HIDE DEF t
<1>3. TaskSound(t, step)
  BY <1>2, Ranges DEF TaskSound, Paged, InTime
<1>4. QED
  BY <1>1, <1>3, TaskStep DEF books

LEMMA SnapshotRecords ==
    ASSUME RInv, IInv', NEW w \in Workers, Snapshot(w)
    PROVE  RInv'
<1> DEFINE t == [task[w] EXCEPT !.snap = events, !.shown = bank.shows]
<1>1. pc' = [pc EXCEPT ![w] = "paging"] /\ task' = [task EXCEPT ![w] = t] /\ pc[w] = "snapshot"
  BY DEF Snapshot, At, Take
<1>2. /\ t.op = task[w].op /\ t.conn = task[w].conn /\ t.version = task[w].version
      /\ t.cursor = task[w].cursor /\ t.epoch = task[w].epoch
      /\ t.changes = task[w].changes /\ t.snap = events
  BY Ranges DEF TaskRows
<1> HIDE DEF t
<1>3. TaskSound(task[w], pc[w])
  BY DEF RInv
<1>4. Paged(t, "paging")
  BY <1>2, <1>3 DEF TaskSound, Paged
<1>5. InTime(t, "paging")
  <2>1. SUFFICES ASSUME t.op = "sync"
                 PROVE  /\ conn[t.conn].status # "none"
                        /\ t.version <= conn[t.conn].version
                        /\ \A a \in Accounts : account[t.conn][a].balance <= t.snap
    BY DEF InTime
  <2>2. t.conn \in Conns
    BY <1>2, <2>1 DEF RInv, IInv, Syncing
  <2>3. \A a \in Accounts : account[t.conn][a].balance <= events
    BY <2>2 DEF RInv, Books, Dated
  <2>4. QED
    BY <1>2, <1>3, <2>1, <2>3 DEF TaskSound, InTime
<1>6. TaskSound(t, "paging")
  BY <1>2, <1>3, <1>4, <1>5, Ranges DEF TaskSound
<1>7. UNCHANGED <<bank, conn, account, record, events>>
  BY DEF Snapshot, books
<1>8. QED
  BY <1>1, <1>6, <1>7, TaskStep

LEMMA RestartRecords ==
    ASSUME RInv, IInv', NEW w \in Workers, Restart(w)
    PROVE  RInv'
<1>1. UNCHANGED <<bank, conn, account, record, events>> /\ pc[w] = "paging"
  BY DEF Restart, books
<1>2. CASE task[w].attempt < Attempts
  <2> DEFINE t == [task[w] EXCEPT !.attempt = @ + 1, !.changes = <<>>]
  <2>1. task' = [task EXCEPT ![w] = t] /\ pc' = [pc EXCEPT ![w] = "paging"]
    BY <1>1, <1>2 DEF Restart, Restarted, Take, RInv, IInv, Typed
  <2>2. /\ t.op = task[w].op /\ t.conn = task[w].conn /\ t.version = task[w].version
        /\ t.cursor = task[w].cursor /\ t.snap = task[w].snap /\ t.changes = <<>>
    BY Ranges DEF TaskRows
  <2> HIDE DEF t
  <2>3. TaskSound(task[w], "paging")
    BY <1>1 DEF RInv
  <2>4. TaskSound(t, "paging")
    BY <2>2, <2>3 DEF TaskSound, Paged, InTime
  <2>5. QED
    BY <1>1, <2>1, <2>4, TaskStep
<1>3. CASE ~(task[w].attempt < Attempts)
  BY <1>1, <1>3, Ending DEF Restart
<1>4. QED
  BY <1>2, <1>3

(* A page adds one change of the net between the cursor and now.           *)
LEMMA PageRecords ==
    ASSUME RInv, IInv', NEW w \in Workers, Page(w)
    PROVE  RInv'
<1> DEFINE old == task[w]
           all == Net(task[w].cursor)
<1>1. UNCHANGED <<bank, conn, account, record, events>> /\ pc[w] = "paging" /\ ~Moved(old)
  BY DEF Page, books
<1>2. all = NetOf(Held(old.cursor), Held(Now))
  BY DEF Net, NetOf
<1>3. PICK got \in IF all = {} THEN {<<>>}
                   ELSE {Append(old.changes, ch) : ch \in all \ Delivered(old)} :
         /\ Take(w, [old EXCEPT !.changes = got, !.epoch = Now])
         /\ \/ Needed(all) \subseteq Range(got) /\ At(w, "fetched")
            \/ At(w, "paging")
  BY DEF Page
<1>4. TaskSound(old, "paging")
  BY <1>1 DEF RInv
<1>5. old.changes \in Seq(Change) /\ old.cursor <= Now /\ old.cursor \in Nat /\ Now \in Nat
  BY Ranges DEF TaskRows
<1>6. \A i \in DOMAIN old.changes : old.changes[i] \in all
  BY <1>1, <1>2, <1>4, <1>5 DEF Moved, TaskSound, Paged
<1>7. \A i, j \in DOMAIN old.changes : old.changes[i] = old.changes[j] => i = j
  BY <1>4, <1>5 DEF TaskSound, Paged
<1>8. /\ \A i \in DOMAIN got : got[i] \in all
      /\ \A i, j \in DOMAIN got : got[i] = got[j] => i = j
  <2>1. CASE got = <<>>
    BY <2>1
  <2>2. CASE \E ch \in all \ Delivered(old) : got = Append(old.changes, ch)
    <3>1. PICK ch \in all \ Delivered(old) : got = Append(old.changes, ch)
      BY <2>2
    <3>2. \A i \in DOMAIN old.changes : old.changes[i] # ch
      BY <3>1 DEF Delivered, Range
    <3>3. ch \in Change
      BY NetIsChanges, Ranges DEF RInv, IInv
    <3>4. /\ DOMAIN got = DOMAIN old.changes \cup {Len(old.changes) + 1}
          /\ got[Len(old.changes) + 1] = ch
          /\ \A i \in DOMAIN old.changes : got[i] = old.changes[i]
      BY <1>5, <3>1, <3>3
    <3>5. QED
      BY <1>6, <1>7, <3>1, <3>2, <3>4
  <2>3. QED
    BY <1>3, <2>1, <2>2
<1> DEFINE t == [old EXCEPT !.changes = got, !.epoch = Now]
<1>9. /\ t.op = old.op /\ t.conn = old.conn /\ t.version = old.version
      /\ t.cursor = old.cursor /\ t.snap = old.snap /\ t.changes = got /\ t.epoch = Now
  BY Ranges DEF TaskRows
<1>10. PICK step \in {"paging", "fetched"} :
          /\ pc' = [pc EXCEPT ![w] = step]
          /\ step = "fetched" => Needed(all) \subseteq Range(got)
  BY <1>3 DEF At
<1>11. task' = [task EXCEPT ![w] = t]
  BY <1>3 DEF Take
<1> HIDE DEF t, all, old
<1>12. Paged(t, step)
  BY <1>2, <1>5, <1>8, <1>9, <1>10 DEF Paged, Range
<1>13. TaskSound(t, step)
  BY <1>4, <1>9, <1>12 DEF TaskSound, InTime
<1>14. QED
  BY <1>1, <1>10, <1>11, <1>13, TaskStep

-----------------------------------------------------------------------------
(* A batch is committed. *)

LEMMA BatchSound ==
    ASSUME RInv, NEW w \in Workers, pc[w] = "fetched"
    PROVE  /\ Batched(task[w], Held(task[w].cursor), Held(task[w].epoch))
           /\ Sound(Held(task[w].cursor)) /\ Sound(Held(task[w].epoch))
           /\ task[w].cursor <= task[w].epoch
<1> DEFINE t == task[w]
           net == NetOf(Held(t.cursor), Held(t.epoch))
<1>1. /\ Sound(Held(t.cursor)) /\ Sound(Held(t.epoch)) /\ t.changes \in Seq(Change)
  BY Ranges DEF RInv, BankSound, TaskRows
<1>2. TaskSound(t, "fetched")
  BY DEF RInv
<1>3. /\ \A i \in DOMAIN t.changes : t.changes[i] \in net
      /\ \A i, j \in DOMAIN t.changes : t.changes[i] = t.changes[j] => i = j
  BY <1>1, <1>2 DEF TaskSound, Paged
<1>4. /\ t.cursor <= t.epoch
      /\ \A ch \in Needed(net) : \E i \in DOMAIN t.changes : t.changes[i] = ch
  BY <1>2 DEF TaskSound, Paged
<1> HIDE DEF t
<1>5. Batched(t, Held(t.cursor), Held(t.epoch))
  BY <1>1, <1>3, <1>4, BatchOf
<1>6. QED
  BY <1>1, <1>4, <1>5 DEF t

LEMMA ImportedRows ==
    ASSUME NEW t \in TaskRows, t.cursor \in Nat,
           NEW was \in [Accounts -> AccountRows], NEW a \in Accounts
    PROVE  /\ was[a].known => Imported(t, was)[a].known
           /\ a \in t.shown => Imported(t, was)[a].balance = t.snap
           /\ a \notin t.shown => /\ Imported(t, was)[a].balance = was[a].balance
                                  /\ ~Imported(t, was)[a].healthy
           /\ Imported(t, was)[a].since \in {t.cursor, was[a].since}
<1>1. CASE a \in t.shown
  BY <1>1 DEF Imported
<1>2. CASE a \notin t.shown
  <2>1. Imported(t, was)[a] = [was[a] EXCEPT !.healthy = FALSE] /\ was[a] \in AccountRows
    BY <1>2 DEF Imported
  <2>2. QED
    BY <1>2, <2>1 DEF AccountRows
<1>3. QED
  BY <1>1, <1>2

(* What a commit does to the books, and what it takes: the batch starts    *)
(* from the saved cursor, and no balance is newer than its snapshot.       *)
LEMMA SaveRecords ==
    ASSUME RInv, IInv', NEW w \in Workers, NEW c \in Conns, NEW row \in ConnRows,
           Save(c, task[w], row), Over(w), UNCHANGED <<bank, events>>,
           pc[w] = "fetched", task[w].cursor = conn[c].cursor,
           row.status = "active", row.cursor = task[w].epoch,
           conn[c].status = "none" \/ conn[c].version < row.version,
           \A d \in Conns : conn[d].status # "none" => d = c,
           \A a \in Accounts : account[c][a].balance <= task[w].snap
    PROVE  /\ RInv'
           /\ conn'[c].cursor >= conn[c].cursor
           /\ \A a \in Accounts : account'[c][a].balance >= account[c][a].balance
           /\ \A d \in Conns \ {c} : conn'[d] = conn[d] /\ account'[d] = account[d]
<1> DEFINE t == task[w]
           accounts == Imported(t, account[c])
           new == Updated(t, accounts, record[c])
<1>1. /\ conn' = [conn EXCEPT ![c] = row]
      /\ account' = [account EXCEPT ![c] = accounts]
      /\ record' = [record EXCEPT ![c] = new]
  BY DEF Save
<1>2. /\ conn'[c] = row /\ account'[c] = accounts /\ record'[c] = new
      /\ \A d \in Conns \ {c} : /\ conn'[d] = conn[d] /\ account'[d] = account[d]
                                /\ record'[d] = record[d]
  BY <1>1 DEF RInv, IInv, Typed
<1>3. Now' = Now /\ \A n : Held(n)' = Held(n)
  BY HeldKept
<1>4. /\ t \in TaskRows /\ t.cursor \in 0..Now /\ t.snap \in Nat /\ t.snap <= events
      /\ Now \in Nat /\ account[c] \in [Accounts -> AccountRows]
  BY Ranges DEF RInv, TaskSound
<1>5. \A a \in Accounts :
         /\ account[c][a].known => accounts[a].known
         /\ a \in t.shown => accounts[a].balance = t.snap
         /\ a \notin t.shown => /\ accounts[a].balance = account[c][a].balance
                                /\ ~accounts[a].healthy
         /\ accounts[a].since \in {t.cursor, account[c][a].since}
  BY <1>4, ImportedRows
<1>6. RowsKnown'
  <2>1. ASSUME NEW id \in DOMAIN new
        PROVE  id \in Rows /\ accounts[AccountOf[id[1]]].known
    <3>1. CASE id \in DOMAIN record[c]
      <4>1. id \in Rows /\ account[c][AccountOf[id[1]]].known
        BY <3>1 DEF RInv, Books, RowsKnown
      <4>2. QED
        BY <4>1, <1>5, RowIsNotNone
    <3>2. CASE \E i \in Upserts(t, Followed(t, accounts)) : t.changes[i].id = id
      <4>1. PICK i \in Upserts(t, Followed(t, accounts)) : t.changes[i].id = id
        BY <3>2
      <4>2. i \in DOMAIN t.changes /\ accounts[AccountOf[id[1]]].known
        BY <4>1 DEF Upserts, Followed
      <4>3. t.changes \in Seq(Change)
        BY <1>4 DEF TaskRows
      <4>4. t.changes[i] \in Change
        BY <4>2, <4>3
      <4>5. QED
        BY <4>1, <4>2, <4>4 DEF Change
    <3>3. QED
      BY <3>1, <3>2 DEF Updated
  <2>2. QED
    BY <1>2, <2>1 DEF RInv, Books, RowsKnown
<1>7. RecordsMatchCursor'
  <2>1. /\ Batched(t, Held(t.cursor), Held(t.epoch))
        /\ Sound(Held(t.cursor)) /\ Sound(Held(t.epoch))
    BY BatchSound
  <2>2. /\ Exact(record[c], Held(t.cursor))
        /\ Complete(record[c], account[c], Held(t.cursor))
    BY MatchesWay DEF RInv, Books
  <2>3. \A id \in DOMAIN record[c] : id \in Rows /\ accounts[AccountOf[id[1]]].known
    BY <1>5, RowIsNotNone DEF RInv, Books, RowsKnown
  <2>4. Exact(new, Held(t.epoch))
    BY <2>1, <2>2, <2>3, BatchExact
  <2>5. Complete(new, accounts, Held(t.epoch))
    BY <1>4, <2>1, <2>2, BatchComplete
  <2>6. ASSUME NEW d \in Conns
        PROVE  /\ Exact(record'[d], Held(conn'[d].cursor))
               /\ Complete(record'[d], account'[d], Held(conn'[d].cursor))
    <3>1. CASE d = c
      BY <1>2, <2>4, <2>5, <3>1
    <3>2. CASE d # c
      BY <1>2, <3>2, MatchesWay DEF RInv, Books
    <3>3. QED
      BY <3>1, <3>2
  <2>7. QED
    BY <1>3, <2>6 DEF RecordsMatchCursor, Exact, Complete, Counted
<1> HIDE DEF t, accounts, new
<1>8. Unlinked' /\ OneLinked'
  BY <1>2 DEF RInv, Books, Unlinked, OneLinked
<1>9. Dated'
  <2>1. \A a \in Accounts : accounts[a].balance <= events /\ accounts[a].since <= Now
    BY <1>4, <1>5, Ranges DEF RInv, Books, Dated
  <2>2. QED
    BY <1>2, <1>3, <2>1 DEF RInv, Books, Dated
<1>10. \A a \in Accounts : /\ accounts[a].balance >= account[c][a].balance
                           /\ accounts[a].balance <= t.snap
  BY <1>4, <1>5, Ranges DEF t
<1>11. HealthyIsCurrent'
  <2>1. \A a \in Accounts : accounts[a].healthy => accounts[a].balance = t.snap
    BY <1>5
  <2>2. QED
    BY <1>2, <1>10, <2>1 DEF RInv, Books, HealthyIsCurrent
<1>12. ASSUME NEW v \in Workers PROVE TaskSound(task[v], pc[v])'
  <2>1. CASE v = w
    <3>1. task'[w] = NoTask /\ pc'[w] = "idle"
      BY DEF Over, At, Take, RInv, IInv, Typed
    <3>2. QED
      BY <2>1, <3>1, Ranges, BankAssumption DEF NoTask, TaskSound, Paged, InTime
  <2>2. CASE v # w
    <3>1. task'[v] = task[v] /\ pc'[v] = pc[v]
      BY <2>2 DEF Over, At, Take, RInv, IInv, Typed
    <3>2. TaskSound(task[v], pc[v])
      BY DEF RInv
    <3>3. Paged(task[v], pc[v])'
      BY <1>3, <3>1, <3>2 DEF TaskSound, Paged
    <3>4. InTime(task[v], pc[v])'
      <4>1. SUFFICES ASSUME task[v].op = "sync"
                     PROVE  /\ conn'[task[v].conn].status # "none"
                            /\ task[v].version <= conn'[task[v].conn].version
                            /\ pc[v] \in {"paging", "fetched"}
                               /\ task[v].version = conn'[task[v].conn].version =>
                                  \A a \in Accounts :
                                     account'[task[v].conn][a].balance <= task[v].snap
        BY <3>1 DEF InTime
      <4>2. task[v].conn \in Conns
        BY <4>1 DEF RInv, IInv, Syncing
      <4>3. InTime(task[v], pc[v])
        BY <3>2 DEF TaskSound
      <4>4. CASE task[v].conn = c
        <5>1. conn[c].version < row.version /\ task[v].version <= conn[c].version
          BY <4>1, <4>3, <4>4 DEF InTime
        <5>2. task[v].version \in Nat /\ conn[c].version \in Nat /\ row.version \in Nat
          BY Ranges DEF ConnRows
        <5>3. QED
          BY <1>2, <4>4, <5>1, <5>2
      <4>5. CASE task[v].conn # c
        BY <1>2, <4>1, <4>2, <4>3, <4>5 DEF InTime
      <4>6. QED
        BY <4>4, <4>5
    <3>5. QED
      BY <3>1, <3>2, <3>3, <3>4 DEF TaskSound
  <2>3. QED
    BY <2>1, <2>2
<1>13. BankSound'
  BY <1>3 DEF RInv, BankSound
<1>14. row.cursor >= conn[c].cursor
  BY BatchSound, Ranges
<1>15. QED
  BY <1>2, <1>6, <1>7, <1>8, <1>9, <1>10, <1>11, <1>12, <1>13, <1>14 DEF RInv, Books

NotBack ==
    \A c \in Conns :
        /\ conn'[c].cursor >= conn[c].cursor
        /\ \A a \in Accounts : account'[c][a].balance >= account[c][a].balance

LEMMA Standing ==
    ASSUME RInv, UNCHANGED <<conn, account>>
    PROVE  NotBack
  BY Ranges DEF NotBack

LEMMA CommitLinkRecords ==
    ASSUME RInv, IInv', NEW w \in Workers, CommitLink(w)
    PROVE  RInv' /\ NotBack
<1>1. /\ Over(w) /\ UNCHANGED <<bank, events>>
      /\ pc[w] = "fetched" /\ task[w].op = "link"
  BY DEF CommitLink
<1>2. CASE AlreadyLinked
  <2>1. UNCHANGED <<conn, account, record>>
    BY <1>2 DEF CommitLink, books
  <2>2. QED
    BY <1>1, <2>1, Ending, Standing
<1>3. CASE ~AlreadyLinked
  <2> DEFINE row == [status |-> "active", token |-> TRUE, version |-> 1,
                     cursor |-> task[w].epoch]
  <2>1. \A c \in Conns : conn[c].status = "none"
    BY <1>3 DEF AlreadyLinked
  <2>2. PICK c \in Conns : c = Fresh
    BY <2>1, BankAssumption DEF Fresh
  <2>3. row \in ConnRows /\ row.status = "active" /\ row.cursor = task[w].epoch
    BY Ranges DEF ConnRows
  <2>4. Save(c, task[w], row)
    BY <1>3, <2>2 DEF CommitLink
  <2> HIDE DEF row
  <2>5. task[w].cursor = 0 /\ conn[c].cursor = 0
    BY <1>1, <2>1 DEF RInv, TaskSound, Books, Unlinked
  <2>6. \A a \in Accounts : account[c][a].balance <= task[w].snap
    BY <2>1, Ranges DEF RInv, Books, Unlinked, NoAccount
  <2>7. /\ RInv'
        /\ conn'[c].cursor >= conn[c].cursor
        /\ \A a \in Accounts : account'[c][a].balance >= account[c][a].balance
        /\ \A d \in Conns \ {c} : conn'[d] = conn[d] /\ account'[d] = account[d]
    BY <1>1, <2>1, <2>3, <2>4, <2>5, <2>6, SaveRecords
  <2>8. QED
    BY <2>7, Ranges DEF NotBack
<1>4. QED
  BY <1>2, <1>3

LEMMA CommitSyncRecords ==
    ASSUME RInv, IInv', NEW w \in Workers, CommitSync(w)
    PROVE  RInv' /\ NotBack
<1>1. /\ Over(w) /\ UNCHANGED <<bank, events>>
      /\ pc[w] = "fetched" /\ task[w].op = "sync"
  BY DEF CommitSync
<1>2. CASE ~Unchanged(task[w])
  <2>1. UNCHANGED <<conn, account, record>>
    BY <1>2 DEF CommitSync, books
  <2>2. QED
    BY <1>1, <2>1, Ending, Standing
<1>3. CASE Unchanged(task[w])
  <2> DEFINE c == task[w].conn
             old == conn[c]
             next == conn[c].version + 1
             row == [old EXCEPT !.cursor = task[w].epoch, !.version = next]
  <2>1. /\ c \in Conns /\ old.status = "active"
        /\ task[w].cursor = old.cursor /\ task[w].version = old.version
    BY <1>1, <1>3 DEF RInv, IInv, Syncing, Unchanged, Active
  <2>2. old \in ConnRows /\ task[w].epoch \in 0..Now /\ next \in Nat /\ old.version < next
    BY <2>1, Ranges DEF RInv, IInv, Typed
  <2>3. Save(c, task[w], row)
    BY <1>3 DEF CommitSync
  <2> HIDE DEF old, next
  <2>4. /\ row \in ConnRows /\ row.status = "active" /\ row.version = next
        /\ row.cursor = task[w].epoch
    BY <2>1, <2>2 DEF ConnRows
  <2> HIDE DEF row
  <2>5. \A d \in Conns : conn[d].status # "none" => d = c
    BY <2>1 DEF RInv, Books, OneLinked, old
  <2>6. \A a \in Accounts : account[c][a].balance <= task[w].snap
    BY <1>1, <2>1 DEF RInv, TaskSound, InTime, old
  <2>7. conn[c].version < row.version /\ task[w].cursor = conn[c].cursor
    BY <2>1, <2>2, <2>4 DEF old
  <2> HIDE DEF c
  <2>8. /\ RInv'
        /\ conn'[c].cursor >= conn[c].cursor
        /\ \A a \in Accounts : account'[c][a].balance >= account[c][a].balance
        /\ \A d \in Conns \ {c} : conn'[d] = conn[d] /\ account'[d] = account[d]
    BY <1>1, <2>1, <2>3, <2>4, <2>5, <2>6, <2>7, SaveRecords
  <2>9. QED
    BY <2>8, Ranges DEF NotBack
<1>4. QED
  BY <1>2, <1>3

(* Closing a connection marks its accounts and changes nothing they hold.  *)
LEMMA CommitDisconnectRecords ==
    ASSUME RInv, IInv', NEW w \in Workers, CommitDisconnect(w)
    PROVE  RInv' /\ NotBack
<1> DEFINE c == task[w].conn
<1>1. Over(w) /\ UNCHANGED <<bank, events>> /\ pc[w] = "removed"
  BY DEF CommitDisconnect
<1>2. CASE conn[c].version # task[w].version
  <2>1. UNCHANGED <<conn, account, record>>
    BY <1>2 DEF CommitDisconnect, books
  <2>2. QED
    BY <1>1, <2>1, Ending, Standing
<1>3. CASE conn[c].version = task[w].version
  <2> DEFINE old == conn[c]
             row == Closed(old)
             was == account[c]
             accounts == Stale(was)
  <2>1. /\ c \in Conns /\ old \in ConnRows /\ was \in [Accounts -> AccountRows]
        /\ old.status # "none"
    <3>1. c \in Conns /\ conn[c].status # "none"
      BY <1>1 DEF RInv, IInv, Versions
    <3>2. QED
      BY <3>1, Ranges DEF RInv, IInv, Typed
  <2>2. /\ conn' = [conn EXCEPT ![c] = row] /\ account' = [account EXCEPT ![c] = accounts]
        /\ record' = record
    BY <1>3 DEF CommitDisconnect
  <2>3. /\ row.status = "disconnected" /\ row.cursor = old.cursor
        /\ row.version > old.version
    BY <2>1 DEF Closed, ConnRows
  <2>4. \A a \in Accounts :
           /\ accounts[a].known = was[a].known /\ accounts[a].since = was[a].since
           /\ accounts[a].balance = was[a].balance /\ ~accounts[a].healthy
    BY <2>1 DEF Stale, AccountRows
  <2>5. /\ conn'[c] = row /\ account'[c] = accounts
        /\ \A d \in Conns \ {c} : conn'[d] = conn[d] /\ account'[d] = account[d]
    BY <2>1, <2>2 DEF RInv, IInv, Typed
  <2>6. Now' = Now /\ \A n : Held(n)' = Held(n)
    BY <1>1, HeldKept
  <2> HIDE DEF accounts, row
  <2>7. \A d \in Conns : /\ conn'[d].cursor = conn[d].cursor
                         /\ conn'[d].status = "none" <=> conn[d].status = "none"
                         /\ conn'[d].status = "none" => account'[d] = account[d]
                         /\ \A a \in Accounts :
                               /\ account'[d][a].known = account[d][a].known
                               /\ account'[d][a].since = account[d][a].since
                               /\ account'[d][a].balance = account[d][a].balance
    BY <2>1, <2>3, <2>4, <2>5
  <2>8. Unlinked' /\ OneLinked' /\ Dated'
    BY <1>1, <2>2, <2>6, <2>7 DEF RInv, Books, Unlinked, OneLinked, Dated
  <2>9. RowsKnown'
    BY <2>2, <2>7, RowIsNotNone DEF RInv, Books, RowsKnown
  <2>10. HealthyIsCurrent'
    BY <2>4, <2>5 DEF RInv, Books, HealthyIsCurrent
  <2>11. RecordsMatchCursor'
    <3>1. ASSUME NEW d \in Conns
          PROVE  /\ Exact(record[d], Held(conn[d].cursor))
                 /\ Complete(record[d], account'[d], Held(conn[d].cursor))
      <4>1. \A id \in Ids(Held(conn[d].cursor)) : AccountOf[id[1]] \in Accounts
        <5>1. Sound(Held(conn[d].cursor))
          BY Ranges DEF RInv, BankSound
        <5>2. QED
          BY <5>1, RowIsNotNone DEF Sound, Ids, Change
      <4>2. /\ Exact(record[d], Held(conn[d].cursor))
            /\ Complete(record[d], account[d], Held(conn[d].cursor))
        BY MatchesWay DEF RInv, Books
      <4>3. QED
        BY <2>7, <4>1, <4>2 DEF Complete
    <3>2. QED
      BY <2>2, <2>6, <2>7, <3>1 DEF RecordsMatchCursor, Exact, Complete, Counted
  <2>12. ASSUME NEW v \in Workers PROVE TaskSound(task[v], pc[v])'
    <3>1. CASE v = w
      <4>1. task'[w] = NoTask /\ pc'[w] = "idle"
        BY <1>1 DEF Over, At, Take, RInv, IInv, Typed
      <4>2. QED
        BY <1>1, <3>1, <4>1, Ranges, BankAssumption DEF NoTask, TaskSound, Paged, InTime
    <3>2. CASE v # w
      <4>1. task'[v] = task[v] /\ pc'[v] = pc[v]
        BY <1>1, <3>2 DEF Over, At, Take, RInv, IInv, Typed
      <4>2. TaskSound(task[v], pc[v])
        BY DEF RInv
      <4>3. Paged(task[v], pc[v])'
        BY <2>6, <4>1, <4>2 DEF TaskSound, Paged
      <4>4. InTime(task[v], pc[v])'
        <5>1. SUFFICES ASSUME task[v].op = "sync"
                       PROVE  /\ conn'[task[v].conn].status # "none"
                              /\ task[v].version <= conn'[task[v].conn].version
                              /\ pc[v] \in {"paging", "fetched"}
                                 /\ task[v].version = conn'[task[v].conn].version =>
                                    \A a \in Accounts :
                                       account'[task[v].conn][a].balance <= task[v].snap
          BY <4>1 DEF InTime
        <5>2. task[v].conn \in Conns
          BY <5>1 DEF RInv, IInv, Syncing
        <5>3. InTime(task[v], pc[v])
          BY <4>2 DEF TaskSound
        <5>4. /\ task[v].version <= conn[task[v].conn].version
              /\ conn[task[v].conn].version <= conn'[task[v].conn].version
              /\ task[v].conn = c => conn[c].version < conn'[c].version
          <6>1. /\ task[v].conn = c => conn'[c].version > conn[c].version
                /\ task[v].conn # c => conn'[task[v].conn] = conn[task[v].conn]
            BY <2>3, <2>5, <5>2
          <6>2. row.version \in Nat
            BY <2>1 DEF row, Closed, ConnRows
          <6>3. QED
            BY <5>1, <5>2, <5>3, <6>1, <6>2, <2>1, <2>5, Ranges DEF InTime
        <5>5. conn'[task[v].conn].status # "none"
          BY <2>7, <5>1, <5>2, <5>3 DEF InTime
        <5>6. /\ task[v].version \in Nat /\ conn[task[v].conn].version \in Nat
              /\ conn'[task[v].conn].version \in Nat
          <6>1. \A d \in Conns : conn'[d].version \in Nat
            BY DEF IInv, Typed, ConnRows
          <6>2. QED
            BY <5>2, <6>1, Ranges
        <5>7. CASE task[v].conn = c
          <6>1. task[v].version < conn'[task[v].conn].version
            BY <5>4, <5>6, <5>7
          <6>2. QED
            BY <5>5, <5>6, <6>1
        <5>8. CASE task[v].conn # c
          <6>1. /\ conn'[task[v].conn] = conn[task[v].conn]
                /\ account'[task[v].conn] = account[task[v].conn]
            BY <2>5, <5>2, <5>8
          <6>2. QED
            BY <5>1, <5>3, <5>5, <6>1 DEF InTime
        <5>9. QED
          BY <5>7, <5>8
      <4>5. QED
        BY <1>1, <4>1, <4>2, <4>3, <4>4 DEF TaskSound
    <3>3. QED
      BY <3>1, <3>2
  <2>13. BankSound'
    BY <2>6 DEF RInv, BankSound
  <2>14. NotBack
    BY <2>7, Ranges DEF NotBack
  <2>15. QED
    BY <2>8, <2>9, <2>10, <2>11, <2>12, <2>13, <2>14 DEF RInv, Books
<1>4. QED
  BY <1>2, <1>3

LEMMA RevokeRecords ==
    ASSUME RInv, IInv', NEW w \in Workers, Revoke(w)
    PROVE  RInv'
<1>1. UNCHANGED <<conn, account, record, events>> /\ pc[w] = "removing"
  BY DEF Revoke, books
<1>2. bank'.log = bank.log
  BY DEF Revoke, RInv, IInv, Typed, Banks
<1>3. CASE Over(w)
  BY <1>1, <1>2, <1>3, Ending
<1>4. CASE At(w, "removed") /\ UNCHANGED task
  <2>1. pc' = [pc EXCEPT ![w] = "removed"] /\ task' = [task EXCEPT ![w] = task[w]]
    BY <1>4 DEF At, RInv, IInv, Typed
  <2>2. TaskSound(task[w], "removing")
    BY <1>1 DEF RInv
  <2>3. TaskSound(task[w], "removed")
    BY <2>2 DEF TaskSound, Paged, InTime
  <2>4. QED
    BY <1>1, <1>2, <2>1, <2>3, TaskStep
<1>5. QED
  BY <1>3, <1>4 DEF Revoke, Refusal

-----------------------------------------------------------------------------
LEMMA RecordsInit == Init => RInv
<1> SUFFICES ASSUME Init PROVE RInv
  OBVIOUS
<1>1. IInv
  BY Initially
<1>2. /\ bank.log = <<>> /\ Now = 0 /\ \A n \in 0..Now : Held(n) = {}
  BY DEF Init, Now, Held
<1>3. BankSound
  BY <1>2 DEF BankSound, Sound
<1>4. /\ \A c \in Conns : /\ conn[c] = NoRow /\ record[c] = <<>>
                          /\ \A a \in Accounts : account[c][a] = NoAccount
      /\ \A w \in Workers : task[w] = NoTask /\ pc[w] = "idle"
      /\ events = 0
  BY DEF Init
<1>5. Unlinked /\ OneLinked /\ RowsKnown /\ Dated /\ HealthyIsCurrent
  BY <1>2, <1>4 DEF Unlinked, OneLinked, RowsKnown, Dated, HealthyIsCurrent, NoRow, NoAccount
<1>6. RecordsMatchCursor
  <2>1. \A c \in Conns : conn[c].cursor = 0 /\ DOMAIN record[c] = {}
    BY <1>4 DEF NoRow
  <2>2. Held(0) = {} /\ Ids(Held(0)) = {}
    BY <1>2 DEF Ids
  <2>3. QED
    BY <2>1, <2>2 DEF RecordsMatchCursor, Counted
<1>7. \A w \in Workers : TaskSound(task[w], pc[w])
  BY <1>2, <1>4, BankAssumption DEF TaskSound, Paged, InTime, NoTask
<1>8. QED
  BY <1>1, <1>3, <1>5, <1>6, <1>7 DEF RInv, Books

LEMMA RecordsStep ==
    ASSUME RInv, [Next]_vars
    PROVE  RInv' /\ NotBack
<1>1. IInv'
  BY StepKeeps DEF RInv
<1>2. CASE UNCHANGED vars
  <2>1. UNCHANGED <<bank, conn, account, record, pc, task, events>>
    BY <1>2 DEF vars, books
  <2>2. Now' = Now /\ \A n : Held(n)' = Held(n)
    BY <2>1, HeldKept
  <2>3. Books' /\ NotBack
    BY <2>1, <2>2, BooksStay, Standing, Ranges
  <2>4. \A w \in Workers : TaskSound(task[w], pc[w])'
    BY <2>1, <2>2 DEF RInv, TaskSound, Paged, InTime
  <2>5. BankSound'
    BY <2>2 DEF RInv, BankSound
  <2>6. QED
    BY <1>1, <2>3, <2>4, <2>5 DEF RInv
<1>3. CASE Happens
  BY <1>1, <1>3, HappensRecords, Standing DEF Happens, books
<1>4. ASSUME NEW w \in Workers, StartLink(w)
      PROVE  RInv' /\ NotBack
  BY <1>1, <1>4, StartLinkRecords, Standing DEF StartLink, books
<1>5. ASSUME NEW w \in Workers, NEW c \in Conns, StartSync(w, c) \/ StartDisconnect(w, c)
      PROVE  RInv' /\ NotBack
  BY <1>1, <1>5, FollowSound, Standing DEF StartSync, StartDisconnect, Active, books
<1>6. ASSUME NEW w \in Workers, Snapshot(w) \/ Page(w) \/ Restart(w)
      PROVE  RInv' /\ NotBack
  <2>1. UNCHANGED <<conn, account>>
    BY <1>6 DEF Snapshot, Page, Restart, books
  <2>2. QED
    BY <1>1, <1>6, <2>1, SnapshotRecords, PageRecords, RestartRecords, Standing
<1>7. ASSUME NEW w \in Workers, CommitLink(w) \/ CommitSync(w) \/ CommitDisconnect(w)
      PROVE  RInv' /\ NotBack
  BY <1>1, <1>7, CommitLinkRecords, CommitSyncRecords, CommitDisconnectRecords
<1>8. ASSUME NEW w \in Workers, Revoke(w)
      PROVE  RInv' /\ NotBack
  BY <1>1, <1>8, RevokeRecords, Standing DEF Revoke, books
<1>9. ASSUME NEW w \in Workers, Abandon(w)
      PROVE  RInv' /\ NotBack
  BY <1>1, <1>9, Ending, Standing DEF Abandon, books
<1>10. QED
  BY <1>2, <1>3, <1>4, <1>5, <1>6, <1>7, <1>8, <1>9 DEF Next

LEMMA RecordsInductive == Spec => []RInv
<1>1. Init => RInv
  BY RecordsInit
<1>2. RInv /\ [Next]_vars => RInv'
  BY RecordsStep
<1>3. QED
  BY <1>1, <1>2, PTL DEF Spec

(* The records of a connection are what the bank held at its saved cursor, *)
(* whatever moved while the pages came and whoever synced or linked too.   *)
THEOREM RecordsCorrect == Spec => []RecordsMatchCursor
<1>1. RInv => RecordsMatchCursor
  BY DEF RInv, Books
<1>2. QED
  BY <1>1, RecordsInductive, PTL

(* A purchase is counted once, over both its rows and all connections.     *)
THEOREM CountedCorrect == Spec => []CountedOnce
<1>1. RInv => CountedOnce
  <2> SUFFICES ASSUME RInv, NEW x \in Purchases
               PROVE  Cardinality({r \in Conns \X Rows :
                                     r[2][1] = x /\ r[2] \in Counted(r[1])}) <= 1
    BY DEF CountedOnce
  <2> DEFINE rows == {r \in Conns \X Rows : r[2][1] = x /\ r[2] \in Counted(r[1])}
  <2>1. ASSUME NEW r \in rows, NEW q \in rows PROVE r = q
    <3>1. /\ r[1] \in Conns /\ q[1] \in Conns /\ r[2][1] = x /\ q[2][1] = x
          /\ r[2] \in Counted(r[1]) /\ q[2] \in Counted(q[1])
          /\ r = <<r[1], r[2]>> /\ q = <<q[1], q[2]>>
      OBVIOUS
    <3>2. r[1] = q[1]
      BY <3>1 DEF RInv, Books, Unlinked, OneLinked, Counted
    <3>3. \A id \in Counted(r[1]) : \E ch \in Held(conn[r[1]].cursor) : ch.id = id
      BY <3>1 DEF RInv, Books, RecordsMatchCursor
    <3>4. PICK ch \in Held(conn[r[1]].cursor) : ch.id = r[2]
      BY <3>1, <3>3
    <3>5. PICK other \in Held(conn[r[1]].cursor) : other.id = q[2]
      BY <3>1, <3>2, <3>3
    <3>6. Sound(Held(conn[r[1]].cursor))
      BY <3>1, Ranges DEF RInv, BankSound
    <3>7. ch = other
      BY <3>1, <3>4, <3>5, <3>6 DEF Sound
    <3>8. QED
      BY <3>1, <3>2, <3>4, <3>5, <3>7
  <2> HIDE DEF rows
  <2>2. CASE rows = {}
    BY <2>2, FS_EmptySet DEF rows
  <2>3. CASE rows # {}
    <3>1. PICK r : rows = {r}
      BY <2>1, <2>3
    <3>2. Cardinality(rows) = 1
      BY <3>1, FS_Singleton
    <3>3. QED
      BY <3>2 DEF rows
  <2>4. QED
    BY <2>2, <2>3
<1>2. QED
  BY <1>1, RecordsInductive, PTL

(* An account that is shown healthy has the newest balance there is for    *)
(* its connection, which is active.                                        *)
THEOREM HealthyCorrect == Spec => []HealthyIsCurrent
<1>1. RInv => HealthyIsCurrent
  BY DEF RInv, Books
<1>2. QED
  BY <1>1, RecordsInductive, PTL

(* No commit puts back a balance or a cursor that a later one replaced.    *)
THEOREM ForwardCorrect == Spec => NeverBackward
<1>1. RInv /\ [Next]_vars =>
         [\A c \in Conns :
             /\ conn'[c].cursor >= conn[c].cursor
             /\ \A a \in Accounts : account'[c][a].balance >= account[c][a].balance]_vars
  BY RecordsStep DEF NotBack
<1>2. QED
  BY <1>1, RecordsInductive, PTL DEF Spec, NeverBackward
=============================================================================
