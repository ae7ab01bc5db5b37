------------------------------ MODULE Catalog -------------------------------
(***************************************************************************)
(* The resources of the control API, services/control-api/server.go, on the *)
(* tables of pkg/storage: channels, assets and the entries of schedules.    *)
(* Clients send requests at the same time; a handler is several statements, *)
(* and between any two of them the statements of others run.                *)
(*                                                                          *)
(* What PostgreSQL does is modelled from how the code uses it (external):   *)
(* statements are atomic at the level READ COMMITTED, rows that a           *)
(* transaction has changed or selected FOR UPDATE are locked until its end, *)
(* foreign keys are checked by the statement, and of transactions that wait *)
(* for each other one is aborted.                                           *)
(*                                                                          *)
(* Every statement runs under the context of its request.  When that ends,  *)
(* or the connection is lost, the handler answers an error without knowing  *)
(* what the database makes of the statement it had sent: a COMMIT, or a     *)
(* statement that is a transaction of its own, may still be carried out.    *)
(*                                                                          *)
(* An edit writes one entry, to a slot of the schedule.  Commands,          *)
(* versions and idempotency keys are in module ScheduleEdits; an edit here  *)
(* has none.  Identifiers are numbers, for the order of pages.              *)
(***************************************************************************)
EXTENDS Migrations, Iteration

CONSTANTS
    Clients,        \* each sends one request; they are numbered in the order they do
    Requests,       \* the requests they may send: [op, key, id, slot, asset, uri, limit]
    FirstChannels,  \* the channels there are at the beginning, ...
    FirstAssets,    \* ... the assets, [id, uri], ...
    FirstEntries    \* ... and the entries, [channel, slot, asset, by]

\* the tables begin as the foreign keys and the edits of the past leave them
ASSUME CatalogAssumption ==
    /\ Clients \subseteq Nat \ {0}
    /\ \A e \in FirstEntries :
         /\ e.channel \in FirstChannels /\ e.asset \in {a.id : a \in FirstAssets} \cup {0} /\ e.by \notin Clients
         /\ \A f \in FirstEntries : e.channel = f.channel /\ e.slot = f.slot => e = f

\* identifiers are not empty (validID) and a page has at least one item (queryInt); 0 is the empty string
ASSUME ListsAssumption ==
    /\ IsFiniteSet(FirstChannels) /\ FirstChannels \subseteq Nat \ {0}
    /\ IsFiniteSet(FirstAssets) /\ \A a \in FirstAssets : a.id \in Nat \ {0}
    /\ \A r \in Requests : /\ r.op \in {"create_channel", "create_asset"} => r.id \in Nat \ {0}
                           /\ r.limit \in Nat \ {0}

VARIABLES
    channels, assets, entries,  \* the tables, as committed
    request,        \* what each client has asked for: a set of at most one request
    pc,             \* the statement its handler is at
    tx,             \* its transaction: the channel rows it has locked, the entries it sees, deletes and adds
    answer,         \* the status of its answer, 0 while there is none, Unheard if it has not heard from the database
    changed,        \* whether its request has changed the tables
    walk            \* of a client that lists: the cursor, what it was given, and what was there all the time

catalogVars == <<channels, assets, entries, request, pc, tx, answer, changed, walk>>
vars == <<migrationVars, catalogVars>>

\* The code answers 500 here too (server.fail), to a client that may be gone; the model tells the two apart.
Unheard == 499

NoTx   == [row |-> {}, snap |-> {}, gone |-> {}, new |-> {}]
NoWalk == [cursor |-> 0, items |-> <<>>, stayed |-> {}]

Init ==
    /\ MigrationsInit
    /\ channels = FirstChannels /\ assets = FirstAssets /\ entries = FirstEntries
    /\ request = [c \in Clients |-> {}] /\ pc = [c \in Clients |-> "idle"]
    /\ tx = [c \in Clients |-> NoTx] /\ answer = [c \in Clients |-> 0]
    /\ changed = [c \in Clients |-> FALSE] /\ walk = [c \in Clients |-> NoWalk]

The(c) == CHOOSE r \in request[c] : TRUE

AssetIds == {a.id : a \in assets}
OfChannel(ch) == {e \in entries : e.channel = ch}

\* what a request lists
Rows(r) == IF r.op = "list_assets" THEN AssetIds ELSE channels

-----------------------------------------------------------------------------
(* Locks *)

HoldsRow(d, ch)  == ch \in tx[d].row
HoldsEntry(d, e) == e \in tx[d].gone
UsesAsset(d, a)  == \E e \in tx[d].new : e.asset = a

\* whom the statement that c is at has to wait for
WaitsFor(c, d) ==
    /\ c # d
    /\ \/ pc[c] \in {"select_for_update", "delete_channel", "update_channel"} /\ HoldsRow(d, The(c).id)
       \* a row that is about to be deleted still stands in the way of another with its key
       \/ pc[c] = "insert_channel" /\ HoldsRow(d, The(c).id) /\ pc[d] = "commit_delete"
       \/ pc[c] = "delete_entries" /\ \E e \in tx[c].snap \cap entries : HoldsEntry(d, e)
       \/ pc[c] = "delete_asset" /\ UsesAsset(d, The(c).id)

\* statements that, once they are sent, take effect without the handler: those that commit what others can see
Commits == {"insert_channel", "commit_delete", "commit_edit", "insert_asset", "delete_asset"}

Runs(c, statement) ==
    /\ pc[c] = statement /\ (answer[c] = 0 \/ statement \in Commits)
    /\ \A d \in Clients : ~WaitsFor(c, d)

\* the tables are changed; what is missing from them now was not there all the time, for clients that walk through them
Tables(ch, as, en) ==
    /\ channels' = ch /\ assets' = as /\ entries' = en
    /\ walk' = [c \in Clients |-> [walk[c] EXCEPT !.stayed =
                    @ \cap IF \E r \in request[c] : r.op = "list_assets" THEN {a.id : a \in as} ELSE ch]]

SameTables == UNCHANGED <<channels, assets, entries, walk>>

\* the handler goes on
Goto(c, statement, t) ==
    /\ pc' = [pc EXCEPT ![c] = statement]
    /\ tx' = [tx EXCEPT ![c] = t]
    /\ changed' = [changed EXCEPT ![c] = @ \/ <<channels, assets, entries>>' # <<channels, assets, entries>>]
    /\ UNCHANGED <<request, answer, migrationVars>>

\* mutant of Ended: an error leaves the transaction open
EndedOnSuccess(c, status) == IF status < 400 THEN NoTx ELSE tx[c]

\* what becomes of the transaction at the end of a handler: what is not committed is rolled back (defer tx.Rollback)
Ended(c, status) == NoTx

\* the database is done with the request; who has had an answer before gets no other
Answer(c, status) ==
    /\ answer' = [answer EXCEPT ![c] = IF @ = 0 THEN status ELSE @]
    /\ tx' = [tx EXCEPT ![c] = Ended(c, status)]
    /\ changed' = [changed EXCEPT ![c] = @ \/ <<channels, assets, entries>>' # <<channels, assets, entries>>]
    /\ pc' = [pc EXCEPT ![c] = "idle"]
    /\ UNCHANGED <<request, migrationVars>>

-----------------------------------------------------------------------------
(* Authorisation *)

\* Key.Allows; channel 0: an action that is not about one channel
Allows(key, scope, channel) ==
    /\ {scope, "admin"} \cap key.scopes # {}
    /\ channel # 0 => key.all \/ channel \in key.channels

\* the middleware of a route (server.routes): the scope it requires, and whether of the channel in its path
Required(r) ==
    CASE r.op \in {"list_channels", "list_assets"} -> <<"read", 0>>
      [] r.op = "replace" -> <<"schedule", r.id>>
      [] OTHER -> <<"admin", 0>>

FirstStatement(op) ==
    CASE op = "create_channel" -> "insert_channel"
      [] op = "update_channel" -> "update_channel"
      [] op = "delete_channel" -> "select_entries"
      [] op = "replace"        -> "get_channel"
      [] op = "create_asset"   -> "insert_asset"
      [] op = "delete_asset"   -> "select_users"
      [] OTHER                 -> "page"

\* a client sends its request, and Require lets it through or not
Send(c, r) ==
    /\ Connected /\ request[c] = {} /\ \A d \in Clients : d < c => request[d] # {}
    /\ request' = [request EXCEPT ![c] = {r}]
    /\ \/ /\ Allows(r.key, Required(r)[1], Required(r)[2])
          /\ pc' = [pc EXCEPT ![c] = FirstStatement(r.op)] /\ UNCHANGED answer
       \/ /\ ~Allows(r.key, Required(r)[1], Required(r)[2])
          /\ answer' = [answer EXCEPT ![c] = 403] /\ UNCHANGED pc
    /\ walk' = [walk EXCEPT ![c].stayed = IF r.op \in {"list_channels", "list_assets"} THEN Rows(r) ELSE {}]
    /\ UNCHANGED <<channels, assets, entries, tx, changed, migrationVars>>

-----------------------------------------------------------------------------
(* Channels *)

\* createChannel: the row is inserted, ...
InsertChannel(c) ==
    /\ Runs(c, "insert_channel")
    /\ IF The(c).id \in channels THEN SameTables /\ Answer(c, 409)
       ELSE Tables(channels \cup {The(c).id}, assets, entries) /\ Goto(c, "get_created", NoTx)

\* ... and read again for the answer
GetCreated(c) ==
    /\ Runs(c, "get_created")
    /\ SameTables /\ Answer(c, IF The(c).id \in channels THEN 201 ELSE 404)

\* updateChannel: one statement, which changes nothing others look at
UpdateChannel(c) ==
    /\ Runs(c, "update_channel")
    /\ SameTables /\ Answer(c, IF The(c).id \in channels THEN 200 ELSE 404)

\* DeleteChannel: the first statement begins, ...
SelectEntries(c) ==
    /\ Runs(c, "select_entries")
    /\ SameTables /\ Goto(c, "delete_entries", [NoTx EXCEPT !.snap = OfChannel(The(c).id)])

\* mutant of DeleteEntries: the entries are deleted without a transaction
DeleteEntriesAtOnce(c) ==
    /\ Runs(c, "delete_entries")
    /\ Tables(channels, assets, entries \ tx[c].snap)
    /\ Goto(c, IF The(c).op = "replace" THEN "insert_entry" ELSE "delete_channel", tx[c])

\* ... and, when the rows it has seen are free, deletes those that are left of them.  So does replaceInTx.
DeleteEntries(c) ==
    /\ Runs(c, "delete_entries")
    /\ SameTables
    /\ Goto(c, IF The(c).op = "replace" THEN "insert_entry" ELSE "delete_channel",
            [row |-> tx[c].row, snap |-> {}, gone |-> tx[c].snap \cap entries, new |-> {}])

\* the second statement: entries that were added since are in the way (23503, which this function does not map)
DeleteChannel(c) ==
    LET id == The(c).id IN
    /\ Runs(c, "delete_channel")
    /\ SameTables
    /\ \/ id \notin channels /\ Answer(c, 404)
       \/ id \in channels /\ OfChannel(id) \ tx[c].gone # {} /\ Answer(c, 500)
       \/ /\ id \in channels /\ OfChannel(id) \ tx[c].gone = {}
          /\ Goto(c, "commit_delete", [tx[c] EXCEPT !.row = {id}])

CommitDelete(c) ==
    /\ Runs(c, "commit_delete")
    /\ Tables(channels \ {The(c).id}, assets, entries \ tx[c].gone)
    /\ Answer(c, 204)

-----------------------------------------------------------------------------
(* Schedules *)

\* replaceSchedule, up to the transaction: the channel is looked up, ...
GetChannel(c) ==
    /\ Runs(c, "get_channel")
    /\ SameTables
    /\ IF The(c).id \in channels THEN Goto(c, "missing_assets", NoTx) ELSE Answer(c, 404)

\* ... and the assets of its entries (asset 0: an entry with a URI of its own)
MissingAssets(c) ==
    /\ Runs(c, "missing_assets")
    /\ SameTables
    /\ IF The(c).asset \in AssetIds \cup {0} THEN Goto(c, "select_for_update", NoTx) ELSE Answer(c, 422)

\* what replaceInTx will replace
Window(r) == {e \in OfChannel(r.id) : e.slot = r.slot}

\* mutant of LockChannel: the row is selected FOR SHARE
LockChannelShared(c) ==
    /\ pc[c] = "select_for_update" /\ answer[c] = 0
    /\ SameTables
    /\ IF The(c).id \in channels
       THEN Goto(c, "delete_entries", [row |-> {The(c).id}, snap |-> Window(The(c)), gone |-> {}, new |-> {}])
       ELSE Answer(c, 404)

\* EditSchedule: the channel row is locked; from now on only a deletion that waits for it has locked entries
LockChannel(c) ==
    /\ Runs(c, "select_for_update")
    /\ SameTables
    /\ IF The(c).id \in channels
       THEN Goto(c, "delete_entries", [row |-> {The(c).id}, snap |-> Window(The(c)), gone |-> {}, new |-> {}])
       ELSE Answer(c, 404)

\* replaceInTx: the new entries; one that refers to an asset that is gone by now fails (23503, ErrUnknownReference)
InsertEntry(c) ==
    LET r == The(c)
        e == [channel |-> r.id, slot |-> r.slot, asset |-> r.asset, by |-> c]
    IN  /\ Runs(c, "insert_entry")
        /\ SameTables
        /\ IF r.asset \in AssetIds \cup {0} THEN Goto(c, "commit_edit", [tx[c] EXCEPT !.new = {e}])
           ELSE Answer(c, 422)

\* mutant of CommitEdit: the error of Commit is not looked at
CommitUnchecked(c) ==
    /\ Runs(c, "commit_edit")
    /\ \/ SameTables
       \/ Tables(channels, assets, (entries \ tx[c].gone) \cup tx[c].new)
    /\ Answer(c, 200)

CommitEdit(c) ==
    /\ Runs(c, "commit_edit")
    /\ Tables(channels, assets, (entries \ tx[c].gone) \cup tx[c].new)
    /\ Answer(c, 200)

-----------------------------------------------------------------------------
(* Assets *)

\* createAsset: identifiers and URIs are unique
InsertAsset(c) ==
    LET r == The(c) IN
    /\ Runs(c, "insert_asset")
    /\ IF \E a \in assets : a.id = r.id \/ a.uri = r.uri THEN SameTables /\ Answer(c, 409)
       ELSE Tables(channels, assets \cup {[id |-> r.id, uri |-> r.uri]}, entries) /\ Answer(c, 201)

\* DeleteAsset: it is looked up whether an entry uses the asset, ...
SelectUsers(c) ==
    /\ Runs(c, "select_users")
    /\ SameTables
    /\ IF \E e \in entries : e.asset = The(c).id THEN Answer(c, 409) ELSE Goto(c, "delete_asset", NoTx)

\* ... and the row is deleted, unless an entry has come to use it (23503, which this function does not map)
DeleteAsset(c) ==
    LET id == The(c).id IN
    /\ Runs(c, "delete_asset")
    /\ \/ id \notin AssetIds /\ SameTables /\ Answer(c, 404)
       \/ id \in AssetIds /\ (\E e \in entries : e.asset = id) /\ SameTables /\ Answer(c, 500)
       \/ /\ id \in AssetIds /\ ~ \E e \in entries : e.asset = id
          /\ Tables(channels, {a \in assets : a.id # id}, entries) /\ Answer(c, 204)

-----------------------------------------------------------------------------
(* Lists *)

\* ListChannelsPage and ListAssets: the first ids after the cursor, in order
PageAfter(ids, cursor, limit) ==
    LET after == {i \in ids : i > cursor}
        rank(i) == Cardinality({j \in after : j <= i})
    IN  [n \in 1 .. IF limit < Cardinality(after) THEN limit ELSE Cardinality(after)
         |-> CHOOSE i \in after : rank(i) = n]

Sees(r, i) == r.op = "list_assets" \/ Allows(r.key, "read", i)
Seen(r, ids) == {i \in ids : Sees(r, i)}

\* mutant of Listed: the cursor is the last of the items the key may see
ListedKept(r, ids, cursor) ==
    LET page == PageAfter(ids, cursor, r.limit + 1)
        kept == Filter(SubSeq(page, 1, IF Len(page) > r.limit THEN r.limit ELSE Len(page)), Seen(r, ids))
    IN  [items |-> kept, next |-> IF Len(page) > r.limit /\ kept # <<>> THEN kept[Len(kept)] ELSE 0]

\* listChannels and listAssets: one item more is asked for, to know whether there is another page (next = 0: none);
\* what the key may not see is taken out after that
Listed(r, ids, cursor) ==
    LET page == PageAfter(ids, cursor, r.limit + 1) IN
    IF Len(page) > r.limit
    THEN [items |-> Filter(SubSeq(page, 1, r.limit), Seen(r, ids)), next |-> page[r.limit]]
    ELSE [items |-> Filter(page, Seen(r, ids)), next |-> 0]

\* a client walks through a list, page after page
List(c) ==
    LET r == The(c)
        page == Listed(r, Rows(r), walk[c].cursor)
    IN  /\ Runs(c, "page")
        /\ walk' = [walk EXCEPT ![c] = [cursor |-> page.next, items |-> @.items \o page.items, stayed |-> @.stayed]]
        /\ UNCHANGED <<channels, assets, entries>>
        /\ IF page.next = 0 THEN Answer(c, 200) ELSE Goto(c, "page", NoTx)

-----------------------------------------------------------------------------

\* PostgreSQL aborts one of two transactions that wait for each other
DeadlockVictim(c) ==
    /\ answer[c] = 0 /\ \E d \in Clients : WaitsFor(c, d) /\ WaitsFor(d, c)
    /\ SameTables /\ Answer(c, 500)

\* The client goes away, the 30 seconds a request may take (middleware.Timeout) are over, or the connection to the
\* database is lost: the handler ends.  What the database was doing for it, it goes on doing, and holds its locks: ...
Cancel(c) ==
    /\ pc[c] # "idle" /\ answer[c] = 0
    /\ answer' = [answer EXCEPT ![c] = Unheard]
    /\ pc' = [pc EXCEPT ![c] = IF tx[c] = NoTx /\ @ \notin Commits THEN "idle" ELSE @]
    /\ SameTables /\ UNCHANGED <<request, tx, changed, migrationVars>>

\* ... it carries out the statement (Runs) if that commits, or rolls back, when it was not sent or is cancelled
RollBack(c) ==
    /\ pc[c] # "idle" /\ answer[c] = Unheard
    /\ SameTables /\ Answer(c, Unheard)

HandlerStep(c) ==
    \/ InsertChannel(c) \/ GetCreated(c) \/ UpdateChannel(c)
    \/ SelectEntries(c) \/ DeleteEntries(c) \/ DeleteChannel(c) \/ CommitDelete(c)
    \/ GetChannel(c) \/ MissingAssets(c) \/ LockChannel(c) \/ InsertEntry(c) \/ CommitEdit(c)
    \/ InsertAsset(c) \/ SelectUsers(c) \/ DeleteAsset(c)
    \/ List(c)
    \/ DeadlockVictim(c)

Next ==
    \/ MigrationsNext /\ UNCHANGED catalogVars
    \/ \E c \in Clients : (\E r \in Requests : Send(c, r)) \/ HandlerStep(c) \/ Cancel(c) \/ RollBack(c)

\* while a statement can be run, one is; and a connection that was given up (pgx closes it) is found closed
Spec == Init /\ [][Next]_vars /\ WF_vars(\E c \in Clients : HandlerStep(c) \/ RollBack(c))

-----------------------------------------------------------------------------
(* Properties *)

\* The type of the state; the tables refer to what is in the tables; edits of one channel run one after the other.
TypeOK ==
    /\ \A e \in entries : e.channel \in channels /\ e.asset \in AssetIds \cup {0}
    /\ \A e, f \in entries : e.channel = f.channel /\ e.slot = f.slot => e = f
    /\ \A c, d \in Clients : tx[c].row \cap tx[d].row # {} => c = d
    /\ \A c \in Clients : answer[c] \in {0, 200, 201, 204, 403, 404, 409, 422, Unheard, 500}

tables == <<channels, assets, entries>>

\* the tables are changed into what the request of c asks for, all of it and nothing else
Whole(c) ==
    LET r == The(c)
        x == [channel |-> r.id, slot |-> r.slot, asset |-> r.asset, by |-> c]
    IN  tables' = CASE r.op = "create_channel" -> <<channels \cup {r.id}, assets, entries>>
                    [] r.op = "delete_channel" -> <<channels \ {r.id}, assets, entries \ OfChannel(r.id)>>
                    [] r.op = "replace"        -> <<channels, assets, (entries \ Window(r)) \cup {x}>>
                    [] r.op = "create_asset"   -> <<channels, assets \cup {[id |-> r.id, uri |-> r.uri]}, entries>>
                    [] r.op = "delete_asset"   -> <<channels, {a \in assets : a.id # r.id}, entries>>
                    [] OTHER                   -> tables

\* An answer that refuses says that nothing was changed.  The exception is createChannel, which inserts and reads in
\* two statements and is answered 404 when the channel is deleted in between.
RefusalsAreTrue ==
    \A c \in Clients :
        changed[c] /\ answer[c] >= 400 => answer[c] = Unheard \/ (The(c).op = "create_channel" /\ answer[c] = 404)

\* Requests are carried out one at a time, at most once and entirely or not at all, although a handler is several
\* statements and others run between them, and also when it ends while a statement is under way, so that nobody knows
\* which of the two it was.  Above all, a deletion of a channel that fails leaves its schedule alone.
AllOrNothing ==
    /\ []RefusalsAreTrue
    /\ [][\E c \in Clients : ~changed[c] /\ changed'[c] /\ Whole(c)]_tables

\* The entries of an edit that was acknowledged stay until another edit of the same window or the deletion of the
\* channel is carried out, which was not refused: it is acknowledged, or its client has not heard.
AcknowledgedStays ==
    \A c \in Clients :
        answer[c] = 200 /\ (\E r \in request[c] : r.op = "replace") =>
        \/ \E e \in entries : e.by = c
        \/ \E d \in Clients \ {c} : /\ changed[d] /\ The(d).id = The(c).id
                                    /\ \/ The(d).op = "replace" /\ The(d).slot = The(c).slot /\ answer[d] \in {200, Unheard}
                                       \/ The(d).op = "delete_channel" /\ answer[d] \in {204, Unheard}

\* A walk through the pages of a list gives, once each, everything that was there from the first page to the last and
\* that the key may see, and nothing the key may not see, while channels and assets come and go between the pages.
WalkIsComplete ==
    \A c \in Clients : answer[c] = 200 /\ (\E r \in request[c] : r.op \in {"list_channels", "list_assets"}) =>
        LET items == walk[c].items
            given == {items[n] : n \in DOMAIN items}
        IN  /\ Cardinality(given) = Len(items)
            /\ \A i \in given : Sees(The(c), i)
            /\ \A i \in walk[c].stayed : Sees(The(c), i) => i \in given

UnderWay == {c \in Clients : request[c] # {} /\ answer[c] = 0}

\* Every request is answered: transactions that lock rows in opposite orders, DeleteChannel (entries, then the channel)
\* and EditSchedule (the channel, then entries), do not wait for each other for ever, and no error path keeps a lock.
EveryRequestIsAnswered == UnderWay # {} ~> UnderWay = {}
=============================================================================
