------------------------------- MODULE BankSync -------------------------------
(***************************************************************************)
(* Linked banks: services/bank_operations.py, the adapter of               *)
(* integrations/plaid.py and the exchange of api/bank_routes.py.  A        *)
(* request asks the provider for a snapshot and then for the pages of      *)
(* changes since its connection's cursor, with no transaction open, and    *)
(* commits the whole batch in one transaction of the household             *)
(* (HouseholdStore), which is one step here.                               *)
(*                                                                         *)
(* The provider is a log of what the bank reported; a cursor is a place in *)
(* it.  What a request gets is what changed between two places, a change a *)
(* page, in any order.                                                     *)
(***************************************************************************)
EXTENDS Integers, Sequences, SequencesExt, FiniteSets

CONSTANTS
    Workers,         \* requests being handled
    Conns,           \* identifiers of connection rows
    Accounts,
    Purchases,
    AccountOf,       \* [Purchases -> Accounts]
    Attempts,        \* times a batch is fetched
    None,
    MaxRequests,     \* bound: requests the workers handle
    MaxEvents        \* bound: what happens at the bank

ASSUME BankAssumption ==
    /\ AccountOf \in [Purchases -> Accounts]
    /\ Conns # {} /\ Attempts \in Nat \ {0}
    /\ None \notin {"link", "sync", "disconnect"} \cup (Purchases \X {"pending", "posted"})
    /\ MaxRequests \in Nat /\ MaxEvents \in Nat

VARIABLES
    bank,            \* the provider: its log, complete accounts, the grant
    conn,            \* BankConnectionRow's
    account,         \* per connection, the accounts it imported
    record,          \* per connection, the transactions it imported
    pc, task,        \* what each worker is doing
    requests,
    events           \* what happened at the bank; dates a snapshot

books == <<conn, account, record>>
vars == <<bank, books, pc, task, requests, events>>

Forms == {"pending", "posted"}
Rows == Purchases \X Forms
Change == [id : Rows, amount : 0..2, link : Rows \cup {None}]

NoTask == [op |-> None, conn |-> None, version |-> 0, cursor |-> 0, snap |-> 0,
           shown |-> {}, changes |-> <<>>, epoch |-> 0, attempt |-> 1]
NoRow == [status |-> "none", token |-> FALSE, version |-> 0, cursor |-> 0]
(* since: the cursor from which an account is followed (ghost).            *)
NoAccount == [known |-> FALSE, healthy |-> FALSE, balance |-> 0, since |-> 0]

Init ==
    /\ bank \in [log : {<<>>}, shows : SUBSET Accounts, item : {"open"}]
    /\ conn = [c \in Conns |-> NoRow]
    /\ account = [c \in Conns |-> [a \in Accounts |-> NoAccount]]
    /\ record = [c \in Conns |-> <<>>]
    /\ pc = [w \in Workers |-> "idle"]
    /\ task = [w \in Workers |-> NoTask]
    /\ requests = 0 /\ events = 0

-----------------------------------------------------------------------------
(* What the bank holds at a place of its log: a set of live changes.       *)
Now == Len(bank.log)
Held(n) == IF n = 0 THEN {} ELSE bank.log[n]
Ids(held) == {ch.id : ch \in held}

(* What changed since a cursor.  The provider may leave out the removal of *)
(* a pending row when it sends the posted one that names it.               *)
Net(from) ==
    (Held(Now) \ Held(from))
    \cup {[id |-> id, amount |-> 0, link |-> None] : id \in Ids(Held(from)) \ Ids(Held(Now))}
Needed(net) ==
    {ch \in net : ch.amount = 0 => \A other \in net : other.link # ch.id}

Granted == bank.item = "granted"

Report(gone, new) ==
    bank' = [bank EXCEPT !.log = Append(@, (Held(Now) \ gone) \cup new)]
Purchase(x, form, link) == [id |-> <<x, form>>, amount |-> 1, link |-> link]
Happens ==
    /\ events < MaxEvents /\ events' = events + 1
    /\ UNCHANGED <<books, pc, task, requests>>
    /\ \/ \E x \in Purchases, form \in Forms :
             /\ \A n \in 1..Now : <<x, "pending">> \notin Ids(Held(n))
                               /\ <<x, "posted">> \notin Ids(Held(n))
             /\ Report({}, {Purchase(x, form, None)})
       \/ \E ch \in Held(Now) :
             \/ /\ ch.id[2] = "pending"
                /\ Report({ch}, {Purchase(ch.id[1], "posted", ch.id)})
             \/ Report({ch}, {})
             \/ /\ ch.amount = 1
                /\ Report({ch}, {[ch EXCEPT !.amount = 2]})
       \/ \E a \in Accounts :
             bank' = [bank EXCEPT !.shows = SymDiff(@, {a})]

-----------------------------------------------------------------------------
(* Requests. *)
At(w, step) == pc' = [pc EXCEPT ![w] = step]
Take(w, t) == task' = [task EXCEPT ![w] = t]
Over(w) == At(w, "idle") /\ Take(w, NoTask)
Arrive(w) == pc[w] = "idle" /\ requests < MaxRequests /\ requests' = requests + 1

AlreadyLinked == \E c \in Conns : conn[c].status # "none"

(* exchange: a repeated one is answered with the connection there is.      *)
StartLink(w) ==
    /\ Arrive(w)
    /\ bank.item # "removed"
    /\ bank' = [bank EXCEPT !.item = "granted"]
    /\ IF AlreadyLinked THEN UNCHANGED <<pc, task>>
       ELSE At(w, "snapshot") /\ Take(w, [NoTask EXCEPT !.op = "link"])
    /\ UNCHANGED <<books, events>>

Follow(w, op, c, step) ==
    /\ At(w, step)
    /\ Take(w, [NoTask EXCEPT !.op = op, !.conn = c, !.version = conn[c].version,
                              !.cursor = conn[c].cursor])
Active(c) == conn[c].status = "active" /\ conn[c].token

StartSync(w, c) ==
    /\ Arrive(w) /\ Active(c)
    /\ Follow(w, "sync", c, "snapshot")
    /\ UNCHANGED <<bank, books, events>>

StartDisconnect(w, c) ==
    /\ Arrive(w) /\ Active(c)
    /\ Follow(w, "disconnect", c, "removing")
    /\ UNCHANGED <<bank, books, events>>

(* account_snapshot: the balances of the moment, complete for some.        *)
Snapshot(w) ==
    /\ pc[w] = "snapshot" /\ Granted
    /\ At(w, "paging")
    /\ Take(w, [task[w] EXCEPT !.snap = events, !.shown = bank.shows])
    /\ UNCHANGED <<bank, books, requests, events>>

(* fetch_updates: one page, the last of which brings the next cursor.      *)
Moved(t) == t.changes # <<>> /\ t.epoch # Now
Delivered(t) == Range(t.changes)
Page(w) ==
    LET t == task[w]  all == Net(t.cursor) IN
    /\ pc[w] = "paging" /\ Granted /\ ~Moved(t)
    /\ \E got \in IF all = {} THEN {<<>>}
                 ELSE {Append(t.changes, ch) : ch \in all \ Delivered(t)} :
          /\ Take(w, [t EXCEPT !.changes = got, !.epoch = Now])
          /\ \/ Needed(all) \subseteq Range(got) /\ At(w, "fetched")
             \/ ~(all \subseteq Range(got)) /\ At(w, "paging")
    /\ UNCHANGED <<bank, books, requests, events>>

(* The bank's data moved while it was paged: the batch is fetched again    *)
(* from the saved cursor, if an attempt is left.                           *)
(* Mutant: the pages that came before are kept.                            *)
RestartedKept(t) == [t EXCEPT !.attempt = @ + 1, !.epoch = Now]
Restarted(t) == [t EXCEPT !.attempt = @ + 1, !.changes = <<>>]
Restart(w) ==
    /\ pc[w] = "paging" /\ Granted /\ Moved(task[w])
    /\ IF task[w].attempt < Attempts
       THEN Take(w, Restarted(task[w])) /\ UNCHANGED pc
       ELSE Over(w)
    /\ UNCHANGED <<bank, books, requests, events>>

-----------------------------------------------------------------------------
(* What one batch does to the household. *)

(* Mutant: what the snapshot leaves out is not marked.                     *)
ImportedQuietly(t, old) ==
    [a \in Accounts |->
        IF a \in t.shown
        THEN [known |-> TRUE, healthy |-> TRUE, balance |-> t.snap,
              since |-> IF old[a].known THEN old[a].since ELSE t.cursor]
        ELSE old[a]]
(* apply_accounts: what the snapshot leaves out keeps its last balance and *)
(* is marked; nothing is ever unmapped.                                    *)
Imported(t, old) ==
    [a \in Accounts |->
        IF a \in t.shown
        THEN [known |-> TRUE, healthy |-> TRUE, balance |-> t.snap,
              since |-> IF old[a].known THEN old[a].since ELSE t.cursor]
        ELSE [old[a] EXCEPT !.healthy = FALSE]]

(* apply_transactions: of the changes to rows of known accounts the last   *)
(* one of a row decides; it is live unless that is a removal, and the      *)
(* pending rows that posted ones name are reversed at the end.             *)
Followed(t, accounts) ==
    {i \in DOMAIN t.changes :
        \/ t.changes[i].amount = 0
        \/ accounts[AccountOf[t.changes[i].id[1]]].known}
About(t, S, id) == {i \in S : t.changes[i].id = id}
Upserts(t, S) == {i \in S : t.changes[i].amount # 0}
Newest(t, S) == t.changes[Max(S)]
(* Mutant: only the provider's own removals reverse pending rows.          *)
MatchedNone(t, S) == {}
Matched(t, S) == {t.changes[i].link : i \in S} \ {None}
Live(t, S, id, old) ==
    /\ id \notin Matched(t, S)
    /\ IF About(t, S, id) = {} THEN old[id].live
       ELSE Newest(t, About(t, S, id)).amount # 0
Amount(t, S, id, old) ==
    IF Upserts(t, About(t, S, id)) = {} THEN old[id].amount
    ELSE Newest(t, Upserts(t, About(t, S, id))).amount
Updated(t, accounts, old) ==
    LET S == Followed(t, accounts) IN
    [id \in DOMAIN old \cup {t.changes[i].id : i \in Upserts(t, S)} |->
        [live |-> Live(t, S, id, old), amount |-> Amount(t, S, id, old)]]

Save(c, t, row) ==
    LET accounts == Imported(t, account[c]) IN
    /\ conn' = [conn EXCEPT ![c] = row]
    /\ account' = [account EXCEPT ![c] = accounts]
    /\ record' = [record EXCEPT ![c] = Updated(t, accounts, record[c])]

Fresh == CHOOSE c \in Conns : conn[c].status = "none"
(* The exchange's transaction looks for a duplicate again.                 *)
CommitLink(w) ==
    /\ pc[w] = "fetched" /\ task[w].op = "link"
    /\ IF AlreadyLinked THEN UNCHANGED books
       ELSE Save(Fresh, task[w], [status |-> "active", token |-> TRUE, version |-> 1,
                                  cursor |-> task[w].epoch])
    /\ Over(w)
    /\ UNCHANGED <<bank, requests, events>>

(* Mutants: the version is not compared; nothing is.                       *)
UnchangedCursor(t) == Active(t.conn) /\ conn[t.conn].cursor = t.cursor
UnchangedAlways(t) == TRUE
Unchanged(t) ==
    /\ Active(t.conn)
    /\ conn[t.conn].version = t.version /\ conn[t.conn].cursor = t.cursor
CommitSync(w) ==
    LET t == task[w] IN
    /\ pc[w] = "fetched" /\ t.op = "sync"
    /\ IF Unchanged(t)
       THEN Save(t.conn, t, [conn[t.conn] EXCEPT !.cursor = t.epoch, !.version = @ + 1])
       ELSE UNCHANGED books
    /\ Over(w)
    /\ UNCHANGED <<bank, requests, events>>

-----------------------------------------------------------------------------
(* Disconnect: the grant first, the row after. *)
(* Mutant: a failed revocation is taken for one that was done.             *)
RefusalIgnored(w) == At(w, "removed") /\ UNCHANGED task
Refusal(w) == Over(w)
Revoke(w) ==
    /\ pc[w] = "removing"
    /\ \/ /\ Granted
          /\ bank' = [bank EXCEPT !.item = "removed"]
          /\ At(w, "removed")
          /\ UNCHANGED task
       \/ Refusal(w) /\ UNCHANGED bank
    /\ UNCHANGED <<books, requests, events>>

Closed(row) ==
    [row EXCEPT !.status = "disconnected", !.token = FALSE, !.version = @ + 1]
Stale(accounts) == [a \in Accounts |-> [accounts[a] EXCEPT !.healthy = FALSE]]
CommitDisconnect(w) ==
    LET c == task[w].conn IN
    /\ pc[w] = "removed"
    /\ IF conn[c].version = task[w].version
       THEN /\ conn' = [conn EXCEPT ![c] = Closed(@)]
            /\ account' = [account EXCEPT ![c] = Stale(@)]
            /\ UNCHANGED record
       ELSE UNCHANGED books
    /\ Over(w)
    /\ UNCHANGED <<bank, requests, events>>

(* The provider or the database fails, the named revision is not current,  *)
(* or the process dies: the request ends where it is.                      *)
Abandon(w) ==
    /\ pc[w] # "idle"
    /\ Over(w)
    /\ UNCHANGED <<bank, books, requests, events>>

-----------------------------------------------------------------------------
Next ==
    \/ Happens
    \/ \E w \in Workers :
          \/ StartLink(w)
          \/ \E c \in Conns : StartSync(w, c) \/ StartDisconnect(w, c)
          \/ Snapshot(w) \/ Page(w) \/ Restart(w)
          \/ CommitLink(w) \/ CommitSync(w)
          \/ Revoke(w) \/ CommitDisconnect(w)
          \/ Abandon(w)
Spec == Init /\ [][Next]_vars

-----------------------------------------------------------------------------
Steps == {"idle", "snapshot", "paging", "fetched", "removing", "removed"}
Tasks == [op : {"link", "sync", "disconnect", None}, conn : Conns \cup {None},
          version : Nat, cursor : Nat, snap : Nat, shown : SUBSET Accounts,
          changes : Seq(Change), epoch : Nat, attempt : 1..Attempts]
TypeOK ==
    /\ bank \in [log : Seq(SUBSET Change), shows : SUBSET Accounts,
                 item : {"open", "granted", "removed"}]
    /\ conn \in [Conns -> [status : {"none", "active", "disconnected"},
                           token : BOOLEAN, version : Nat, cursor : 0..Now]]
    /\ account \in [Conns -> [Accounts -> [known : BOOLEAN, healthy : BOOLEAN,
                                           balance : 0..events, since : 0..Now]]]
    /\ \A c \in Conns : /\ DOMAIN record[c] \subseteq Rows
                        /\ \A id \in DOMAIN record[c] :
                              record[c][id] \in [live : BOOLEAN, amount : 1..2]
    /\ pc \in [Workers -> Steps]
    /\ task \in [Workers -> Tasks]
    /\ requests \in Nat /\ events \in Nat

Counted(c) == {id \in DOMAIN record[c] : record[c][id].live}

(* The records of a connection are what the bank held at its cursor, with  *)
(* nothing lost since an account was first imported and nothing invented,  *)
(* whatever moved while the batches were paged and whoever synced too.     *)
RecordsMatchCursor ==
    \A c \in Conns :
        /\ \A id \in Counted(c) :
              \E ch \in Held(conn[c].cursor) :
                 ch.id = id /\ ch.amount = record[c][id].amount
        /\ \A id \in Ids(Held(conn[c].cursor)) :
              LET a == account[c][AccountOf[id[1]]] IN
              a.known /\ id \notin Ids(Held(a.since)) => id \in Counted(c)

(* A purchase counts once, though its pending and its posted rows come in  *)
(* any order, pages repeat, and the same grant is exchanged twice.         *)
CountedOnce ==
    \A x \in Purchases :
        Cardinality({r \in Conns \X Rows : r[2][1] = x /\ r[2] \in Counted(r[1])}) <= 1

(* A slow sync never puts back a balance, or a place in the changes, that  *)
(* a faster one has replaced.                                              *)
NeverBackward ==
    [][\A c \in Conns :
          /\ conn'[c].cursor >= conn[c].cursor
          /\ \A a \in Accounts : account'[c][a].balance >= account[c][a].balance]_vars

(* An account shown healthy has the newest balance its connection got, and *)
(* a connection that gets no more has no healthy account.                  *)
HealthyIsCurrent ==
    \A c \in Conns, a \in Accounts :
        account[c][a].healthy =>
            /\ conn[c].status = "active"
            /\ \A b \in Accounts : account[c][b].balance <= account[c][a].balance

(* An in-flight sync restores nothing of a disconnected connection.        *)
DisconnectedStays ==
    [][\A c \in Conns :
          conn[c].status = "disconnected" =>
              /\ conn'[c] = conn[c] /\ account'[c] = account[c]
              /\ record'[c] = record[c]]_vars

(* A connection is called disconnected, and its token forgotten, only when *)
(* the provider has revoked the grant.                                     *)
DisconnectedMeansRevoked ==
    \A c \in Conns :
        /\ conn[c].status = "disconnected" => bank.item = "removed"
        /\ conn[c].token <=> conn[c].status = "active"
=============================================================================
