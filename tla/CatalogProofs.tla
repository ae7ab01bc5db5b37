--------------------------- MODULE CatalogProofs ----------------------------
(***************************************************************************)
(* Proofs about the database: the migrations, and the resources of the      *)
(* control API, for any number of services and clients, any requests and    *)
(* any tables to begin with.                                                *)
(***************************************************************************)
EXTENDS Catalog, IterationProofs, SequenceTheorems

-----------------------------------------------------------------------------
(* Migrations *)

\* the schema has been through the migrations that are recorded, in order
SchemaOK ==
    /\ applied \in Seq(Nat) /\ Len(applied) <= Steps
    /\ \A i \in 1 .. Len(applied) : applied[i] = i
    /\ recorded = 1 .. Len(applied)

ServicesOK ==
    /\ service \in [Services -> [at : {"down", "lock", "check", "exec", "commit", "connected"},
                                 step : Nat, tx : Seq(Nat)]]
    /\ advisory \subseteq Services
    /\ \A s, t \in advisory : s = t

\* who migrates holds the lock and is at the first migration that is not recorded, or before it
Migrating(s) ==
    /\ service[s].at \in {"check", "exec", "commit"} => s \in advisory
    /\ service[s].at = "check" => service[s].step \in 1 .. Len(applied) + 1
    /\ service[s].at \in {"exec", "commit"} => service[s].step = Len(applied) + 1 /\ service[s].step <= Steps
    /\ service[s].at = "commit" => service[s].tx = <<service[s].step>>
    /\ service[s].at = "connected" => Len(applied) = Steps

MigrationsInv == SchemaOK /\ ServicesOK /\ \A s \in Services : Migrating(s)

\* No schema and no service to begin with.
LEMMA MigrationsStart == MigrationsInit => MigrationsInv
BY MigrationsAssumption DEF MigrationsInit, Down, MigrationsInv, SchemaOK, ServicesOK, Migrating

\* One service migrates at a time, and the transaction of a migration records it too.
LEMMA MigrationsKept == MigrationsInv /\ [MigrationsNext]_migrationVars => MigrationsInv'
<1> SUFFICES ASSUME MigrationsInv, [MigrationsNext]_migrationVars PROVE MigrationsInv'
  OBVIOUS
<1> USE MigrationsAssumption DEF MigrationsInv, ServicesOK
<1> DEFINE Types == [at : {"down", "lock", "check", "exec", "commit", "connected"}, step : Nat, tx : Seq(Nat)]
<1>1. ASSUME NEW s \in Services, Connect(s) PROVE MigrationsInv'
  <2>1. SchemaOK' /\ advisory' \subseteq Services /\ \A t, u \in advisory' : t = u
    BY <1>1 DEF Connect, SchemaOK, Migrating
  <2>2. service' = [service EXCEPT ![s] = service'[s]] /\ service'[s] \in Types
    BY <1>1 DEF Connect, Down
  <2>3. Migrating(s)'
    BY <1>1 DEF Connect, Down, SchemaOK, Migrating
  <2>4. \A t \in Services \ {s} : Migrating(t)'
    BY <1>1 DEF Connect, SchemaOK, Migrating
  <2> QED BY <2>1, <2>2, <2>3, <2>4
<1>2. ASSUME NEW s \in Services, Lock(s) PROVE MigrationsInv'
  <2>1. SchemaOK' /\ advisory' \subseteq Services /\ \A t, u \in advisory' : t = u
    BY <1>2 DEF Lock, SchemaOK, Migrating
  <2>2. service' = [service EXCEPT ![s] = service'[s]] /\ service'[s] \in Types
    BY <1>2 DEF Lock, Down
  <2>3. Migrating(s)'
    BY <1>2 DEF Lock, Down, SchemaOK, Migrating
  <2>4. \A t \in Services \ {s} : Migrating(t)'
    BY <1>2 DEF Lock, SchemaOK, Migrating
  <2> QED BY <2>1, <2>2, <2>3, <2>4
<1>3. ASSUME NEW s \in Services, Check(s) PROVE MigrationsInv'
  <2> DEFINE step == service[s].step
  <2>1. service[s].at = "check" /\ s \in advisory /\ step \in 1 .. Len(applied) + 1 /\ SchemaOK'
        /\ UNCHANGED <<applied, recorded>>
    BY <1>3 DEF Check, SchemaOK, Migrating
  <2>2. CASE step > Steps /\ service' = [service EXCEPT ![s] = [Down EXCEPT !.at = "connected"]] /\ advisory' = advisory \ {s}
    <3>1. Len(applied) = Steps
      BY <2>1, <2>2 DEF SchemaOK
    <3>2. [Down EXCEPT !.at = "connected"] = [at |-> "connected", step |-> 0, tx |-> <<>>]
          /\ [at |-> "connected", step |-> 0, tx |-> <<>>] \in Types
      BY DEF Down
    <3>3. \A t \in Services : Migrating(t)'
      BY <2>1, <2>2, <3>1, <3>2 DEF Migrating
    <3> QED BY <2>1, <2>2, <3>2, <3>3
  <2>3. CASE step \in recorded /\ service' = [service EXCEPT ![s].step = step + 1] /\ UNCHANGED advisory
    <3>1. step + 1 \in 1 .. Len(applied) + 1
      BY <2>1, <2>3 DEF SchemaOK
    <3>2. \A t \in Services : Migrating(t)'
      BY <2>1, <2>3, <3>1 DEF Migrating
    <3> QED BY <2>1, <2>3, <3>1, <3>2
  <2>4. CASE step <= Steps /\ step \notin recorded /\ service' = [service EXCEPT ![s].at = "exec"] /\ UNCHANGED advisory
    <3>1. step = Len(applied) + 1
      BY <2>1, <2>4 DEF SchemaOK
    <3>2. \A t \in Services : Migrating(t)'
      BY <2>1, <2>4, <3>1 DEF Migrating
    <3> QED BY <2>1, <2>4, <3>2
  <2> QED BY <1>3, <2>2, <2>3, <2>4 DEF Check
<1>4. ASSUME NEW s \in Services, Exec(s) PROVE MigrationsInv'
  <2> DEFINE step == service[s].step
  <2>1. SchemaOK' /\ step \in Nat /\ <<step>> \in Seq(Nat)
    BY <1>4 DEF Exec, SchemaOK
  <2>2. service' = [service EXCEPT ![s] = [at |-> "commit", step |-> step, tx |-> <<step>>]]
    BY <1>4 DEF Exec
  <2>3. \A t \in Services : Migrating(t)'
    BY <1>4, <2>2 DEF Exec, Migrating
  <2> QED BY <1>4, <2>1, <2>2, <2>3 DEF Exec
<1>5. ASSUME NEW s \in Services, Commit(s) PROVE MigrationsInv'
  <2> DEFINE step == service[s].step
  <2>1. step = Len(applied) + 1 /\ step <= Steps /\ service[s].tx = <<step>> /\ step \in Nat /\ s \in advisory
    BY <1>5 DEF Commit, Migrating
  <2>2. applied' = Append(applied, step) /\ recorded' = recorded \cup {step} /\ advisory' = advisory
    BY <1>5, <2>1 DEF Commit, SchemaOK
  <2>3. SchemaOK' /\ Len(applied') = Len(applied) + 1
    BY <2>1, <2>2 DEF SchemaOK
  <2>4. service' = [service EXCEPT ![s] = [at |-> "check", step |-> step + 1, tx |-> <<>>]]
    BY <1>5 DEF Commit
  <2>5. \A t \in Services : Migrating(t)'
    BY <2>1, <2>2, <2>3, <2>4 DEF Migrating, SchemaOK
  <2> QED BY <2>1, <2>2, <2>3, <2>4, <2>5
<1>6. ASSUME NEW s \in Services, Lose(s) PROVE MigrationsInv'
  <2>1. SchemaOK' /\ advisory' \subseteq Services /\ \A t, u \in advisory' : t = u
    BY <1>6 DEF Lose, SchemaOK, Migrating
  <2>2. service' = [service EXCEPT ![s] = service'[s]] /\ service'[s] \in Types
    BY <1>6 DEF Lose, Down
  <2>3. Migrating(s)'
    BY <1>6 DEF Lose, Down, SchemaOK, Migrating
  <2>4. \A t \in Services \ {s} : Migrating(t)'
    BY <1>6 DEF Lose, SchemaOK, Migrating
  <2> QED BY <2>1, <2>2, <2>3, <2>4
<1>7. CASE UNCHANGED migrationVars
  BY <1>7 DEF migrationVars, SchemaOK, Migrating
<1> QED BY <1>1, <1>2, <1>3, <1>4, <1>5, <1>6, <1>7 DEF MigrationsNext
-----------------------------------------------------------------------------
(* The resources: the inductive invariant *)

Statuses == {0, 200, 201, 204, 403, 404, 409, 422, Unheard, 500}

\* a request the database is not done with
Active(c) == pc[c] # "idle"

IsTx(t) == \E row, snap, gone, new : t = [row |-> row, snap |-> snap, gone |-> gone, new |-> new]

ShapesOK ==
    /\ DOMAIN request = Clients /\ \A c \in Clients : request[c] = {} \/ \E r \in Requests : request[c] = {r}
    /\ \A c \in Clients : request[c] = {} => pc[c] = "idle" /\ answer[c] = 0
    /\ \A c \in Clients : Active(c) => answer[c] \in {0, Unheard}
    /\ DOMAIN pc = Clients /\ DOMAIN tx = Clients
    /\ answer \in [Clients -> Statuses] /\ changed \in [Clients -> BOOLEAN]

\* the statements of a handler
ItsStatement(op, l) ==
    /\ l \in {"insert_channel", "get_created"} => op = "create_channel"
    /\ l \in {"select_entries", "delete_channel", "commit_delete"} => op = "delete_channel"
    /\ l = "delete_entries" => op \in {"delete_channel", "replace"}
    /\ l \in {"get_channel", "missing_assets", "select_for_update", "insert_entry", "commit_edit"} => op = "replace"
    /\ l = "insert_asset" => op = "create_asset"
    /\ l \in {"update_channel", "page"} => op # "replace"
    /\ l \in {"select_users", "delete_asset"} => op = "delete_asset"

\* the entry an edit writes
Entry(c) == [channel |-> The(c).id, slot |-> The(c).slot, asset |-> The(c).asset, by |-> c]

\* A transaction t of client c at statement l: a row it has locked is there; what it deletes is of its channel, and of
\* its window if it is an edit; what it writes is its entry, and the asset of that is there; an edit that has locked the
\* row has seen, and then deletes, all of its window; a deletion that has locked the row deletes all of the channel.
Fits(c, l, t) ==
    LET r == The(c) IN
    /\ IsTx(t) /\ ItsStatement(r.op, l)
    /\ t.row # {} => t.row = {r.id} /\ r.id \in channels
    /\ \A e \in t.gone \cup t.snap : e.channel = r.id /\ (r.op = "replace" => e.slot = r.slot)
    /\ t.new # {} => t.new = {Entry(c)} /\ r.asset \in AssetIds \cup {0}
    /\ l = "delete_entries" /\ r.op = "replace" => t.row = {r.id} /\ Window(r) \subseteq t.snap
    /\ l \in {"insert_entry", "commit_edit"} => t.row = {r.id} /\ Window(r) \subseteq t.gone
    /\ l = "commit_edit" => t.new = {Entry(c)}
    /\ l = "commit_delete" => t.row = {r.id} /\ OfChannel(r.id) \subseteq t.gone

TransactionsOK == \A c \in Clients : IF Active(c) THEN Fits(c, pc[c], tx[c]) ELSE tx[c] = NoTx

\* edits of one channel run one after the other
RowsApart == \A c, d \in Clients : c # d => tx[c].row \cap tx[d].row = {}

TablesOK ==
    /\ \A e \in entries : e.channel \in channels /\ e.asset \in AssetIds \cup {0}
    /\ \A e, f \in entries : e.channel = f.channel /\ e.slot = f.slot => e = f

\* who wrote an entry was asked to
EntriesOwned ==
    \A e \in entries : e.by \in Clients =>
        request[e.by] # {} /\ e.channel = The(e.by).id /\ e.slot = The(e.by).slot

\* who has changed something: a request that succeeded or has not heard, or one that has created a channel; it has
\* come to its end, or is about to read the channel again
ChangedOK ==
    \A c \in Clients : changed[c] =>
        /\ request[c] # {} /\ (Active(c) => pc[c] = "get_created") /\ (answer[c] = 0 => Active(c))
        /\ answer[c] \in {0, 200, 201, 204, Unheard} \/ (The(c).op = "create_channel" /\ answer[c] = 404)

CatalogInv == ShapesOK /\ TransactionsOK /\ RowsApart /\ TablesOK /\ EntriesOwned /\ ChangedOK /\ AcknowledgedStays
-----------------------------------------------------------------------------
(* Steps that leave the tables alone *)

\* A record of four fields is a transaction.
LEMMA TxShape ==
    /\ \A row, snap, gone, new : IsTx([row |-> row, snap |-> snap, gone |-> gone, new |-> new])
    /\ IsTx(NoTx)
BY DEF IsTx, NoTx

\* A client has one request.
LEMMA OneRequest ==
    ASSUME ShapesOK, NEW c \in Clients, request[c] # {}
    PROVE  The(c) \in Requests /\ request[c] = {The(c)}
BY DEF ShapesOK, The

\* What is read from the tables and the requests does not change if they do not.
LEMMA SameReads ==
    ASSUME UNCHANGED <<channels, assets, entries, request>>
    PROVE  /\ \A c : The(c)' = The(c) /\ Entry(c)' = Entry(c)
           /\ AssetIds' = AssetIds
           /\ \A id : OfChannel(id)' = OfChannel(id)
           /\ \A r : Window(r)' = Window(r)
           /\ \A c, l, t : Fits(c, l, t)' <=> Fits(c, l, t)
<1>1. \A c : The(c)' = The(c)
  BY DEF The
<1>2. \A c : Entry(c)' = Entry(c)
  BY <1>1 DEF Entry
<1>3. AssetIds' = AssetIds
  BY DEF AssetIds
<1>4. \A id : OfChannel(id)' = OfChannel(id)
  BY DEF OfChannel
<1>5. \A r : Window(r)' = Window(r)
  BY <1>4 DEF Window
<1>6. \A c, l, t : Fits(c, l, t)' <=> Fits(c, l, t)
  BY <1>1, <1>2, <1>3, <1>4, <1>5 DEF Fits
<1> QED BY <1>1, <1>2, <1>3, <1>4, <1>5, <1>6

\* a step of the handler of c
HandlerOf(c) ==
    /\ request' = request
    /\ DOMAIN pc' = Clients /\ DOMAIN tx' = Clients
    /\ \A d \in Clients \ {c} : pc'[d] = pc[d] /\ tx'[d] = tx[d]
    /\ answer' = [answer EXCEPT ![c] = answer'[c]] /\ answer'[c] \in Statuses
    /\ changed' = [changed EXCEPT ![c] = changed'[c]] /\ changed'[c] \in BOOLEAN

\* The handler of one client goes on, and what it has then fits.
LEMMA LocalStep ==
    ASSUME CatalogInv, NEW c \in Clients, Active(c), UNCHANGED <<channels, assets, entries, changed>>, HandlerOf(c),
           pc'[c] # "idle" => Fits(c, pc'[c], tx'[c]) /\ answer'[c] \in {0, Unheard} /\ (changed[c] => pc'[c] = "get_created"),
           pc'[c] = "idle" => tx'[c] = NoTx,
           answer[c] # 0 => answer'[c] = answer[c],
           \A d \in Clients \ {c} : tx'[c].row \cap tx[d].row = {},
           answer'[c] = 200 => The(c).op # "replace",
           changed[c] => \/ answer'[c] \in {200, 201, 204, Unheard}
                         \/ answer'[c] = 404 /\ The(c).op = "create_channel"
    PROVE  CatalogInv'
<1> USE DEF HandlerOf
<1>1. /\ \A d : The(d)' = The(d) /\ AssetIds' = AssetIds
      /\ \A d, m, u : Fits(d, m, u)' <=> Fits(d, m, u)
  BY SameReads
<1>2. \A d \in Clients \ {c} : pc'[d] = pc[d] /\ tx'[d] = tx[d] /\ answer'[d] = answer[d] /\ (Active(d)' <=> Active(d))
  BY DEF CatalogInv, ShapesOK, Active
<1>3. Active(c)' <=> pc'[c] # "idle"
  BY DEF Active
<1>4. request[c] # {}
  BY DEF CatalogInv, ShapesOK, Active
<1>5. ShapesOK'
  BY <1>2, <1>3, <1>4 DEF CatalogInv, ShapesOK
<1>6. TransactionsOK'
  BY <1>1, <1>2, <1>3 DEF CatalogInv, TransactionsOK
<1>7. RowsApart'
  BY <1>2, <1>3 DEF CatalogInv, RowsApart
<1>8. TablesOK'
  BY <1>1 DEF CatalogInv, TablesOK
<1>9. EntriesOwned'
  BY <1>1 DEF CatalogInv, EntriesOwned
<1>10. ChangedOK'
  <2>1. changed[c] => answer'[c] # 0
    BY DEF Unheard
  <2> QED BY <1>1, <1>2, <1>3, <2>1 DEF CatalogInv, ChangedOK
<1>11. AcknowledgedStays'
  <2>1. \A r \in request[c] : r = The(c)
    BY <1>4, OneRequest DEF CatalogInv
  <2>2. \A d \in Clients : answer[d] # 0 => answer'[d] = answer[d]
    BY <1>2
  <2>3. answer'[c] = 200 => ~ \E r \in request[c] : r.op = "replace"
    BY <2>1
  <2>4. \A d \in Clients : answer'[d] = 200 /\ (\E r \in request[d] : r.op = "replace") => answer[d] = 200
    BY <1>2, <2>3
  <2> QED BY <1>1, <2>2, <2>4 DEF CatalogInv, AcknowledgedStays, Unheard
<1> QED BY <1>5, <1>6, <1>7, <1>8, <1>9, <1>10, <1>11 DEF CatalogInv

\* The database is done with a request, and its transaction is at an end.
LEMMA AnswerFacts ==
    ASSUME CatalogInv, NEW c \in Clients, Active(c), NEW a \in Statuses \ {0}, Answer(c, a)
    PROVE  /\ HandlerOf(c) /\ tx'[c] = NoTx /\ pc'[c] = "idle" /\ answer[c] \in {0, Unheard} /\ request[c] # {}
           /\ answer'[c] = (IF answer[c] = 0 THEN a ELSE Unheard)
           /\ changed'[c] = (changed[c] \/ <<channels, assets, entries>>' # <<channels, assets, entries>>)
<1>1. answer[c] \in {0, Unheard} /\ request[c] # {}
  BY DEF CatalogInv, ShapesOK, Active
<1>2. answer'[c] = (IF answer[c] = 0 THEN a ELSE Unheard)
  BY <1>1 DEF Answer, CatalogInv, ShapesOK
<1> QED BY <1>1, <1>2 DEF HandlerOf, Answer, Ended, CatalogInv, ShapesOK, Statuses

\* A handler answers and has left the tables alone; its transaction is rolled back.
LEMMA AnswerStep ==
    ASSUME CatalogInv, NEW c \in Clients, Active(c), UNCHANGED <<channels, assets, entries>>,
           NEW a \in Statuses \ {0}, Answer(c, a), a = 200 => The(c).op # "replace",
           pc[c] = "get_created" => a \in {201, 404, Unheard}
    PROVE  CatalogInv'
<1>1. /\ HandlerOf(c) /\ tx'[c] = NoTx /\ pc'[c] = "idle" /\ answer[c] \in {0, Unheard}
      /\ answer'[c] = (IF answer[c] = 0 THEN a ELSE Unheard)
  BY AnswerFacts
<1>2. changed' = changed
  BY DEF Answer, CatalogInv, ShapesOK
<1>3. changed[c] => answer'[c] \in {200, 201, 204, Unheard} \/ (answer'[c] = 404 /\ The(c).op = "create_channel")
  <2>1. changed[c] => pc[c] = "get_created" /\ Fits(c, pc[c], tx[c])
    BY DEF CatalogInv, ChangedOK, TransactionsOK
  <2> QED BY <1>1, <2>1 DEF Fits, ItsStatement
<1>4. \A d \in Clients \ {c} : tx'[c].row \cap tx[d].row = {}
  BY <1>1 DEF NoTx
<1>5. answer'[c] = 200 => The(c).op # "replace"
  BY <1>1 DEF Unheard
<1> QED BY <1>1, <1>2, <1>3, <1>4, <1>5, LocalStep

\* A handler goes on and has left the tables alone.
LEMMA GotoStep ==
    ASSUME CatalogInv, NEW c \in Clients, Active(c), UNCHANGED <<channels, assets, entries>>,
           NEW l, NEW t, Goto(c, l, t), Fits(c, l, t), l # "idle", pc[c] # "get_created",
           t.row # {} => t.row = tx[c].row \/ \A d \in Clients \ {c} : t.row \cap tx[d].row = {}
    PROVE  CatalogInv'
<1>1. changed' = changed /\ ~ changed[c]
  BY DEF Goto, CatalogInv, ShapesOK, ChangedOK
<1>2. HandlerOf(c) /\ pc'[c] = l /\ tx'[c] = t /\ answer'[c] = answer[c] /\ answer[c] \in {0, Unheard}
  BY <1>1 DEF HandlerOf, Goto, CatalogInv, ShapesOK
<1>3. \A d \in Clients \ {c} : tx'[c].row \cap tx[d].row = {}
  BY <1>2 DEF CatalogInv, RowsApart
<1>4. answer'[c] # 200
  BY <1>2 DEF Unheard
<1> QED BY <1>1, <1>2, <1>3, <1>4, LocalStep

-----------------------------------------------------------------------------
(* Steps that change the tables *)

\* The transaction of another client still fits, if the tables keep what it relies on.
LEMMA OthersFit ==
    ASSUME UNCHANGED request, NEW d, NEW l, NEW t, Fits(d, l, t), t.row \subseteq channels',
           t.new # {} => The(d).asset \in AssetIds' \cup {0},
           t.row # {} => \A e \in entries' \ entries : e.channel # The(d).id
    PROVE  Fits(d, l, t)'
<1>1. The(d)' = The(d) /\ Entry(d)' = Entry(d)
  BY DEF The, Entry
<1> DEFINE r == The(d)
<1>2. IsTx(t) /\ ItsStatement(r.op, l)
  BY DEF Fits
<1>3. t.row # {} => t.row = {r.id} /\ r.id \in channels'
  BY DEF Fits
<1>4. \A e \in t.gone \cup t.snap : e.channel = r.id /\ (r.op = "replace" => e.slot = r.slot)
  BY DEF Fits
<1>5. t.new # {} => t.new = {Entry(d)} /\ r.asset \in AssetIds' \cup {0}
  BY DEF Fits
<1>6. t.row # {} => OfChannel(r.id)' \subseteq OfChannel(r.id) /\ Window(r)' \subseteq Window(r)
  <2>1. SUFFICES ASSUME t.row # {} PROVE OfChannel(r.id)' \subseteq OfChannel(r.id) /\ Window(r)' \subseteq Window(r)
    OBVIOUS
  <2>2. OfChannel(r.id)' = {e \in entries' : e.channel = r.id}
    BY <1>1 DEF OfChannel
  <2>3. OfChannel(r.id)' \subseteq OfChannel(r.id)
    BY <2>1, <2>2 DEF OfChannel
  <2>4. Window(r)' = {e \in OfChannel(r.id)' : e.slot = r.slot}
    BY <1>1 DEF Window
  <2> QED BY <2>3, <2>4 DEF Window
<1> QED BY <1>1, <1>2, <1>3, <1>4, <1>5, <1>6 DEF Fits

\* A handler changes the tables in the last step of its transaction.
LEMMA TableStep ==
    ASSUME CatalogInv, NEW c \in Clients, Active(c), HandlerOf(c), tx'[c] = NoTx,
           \/ answer'[c] \in {200, 201, 204, Unheard} /\ pc'[c] = "idle"
           \/ answer'[c] \in {0, Unheard} /\ pc'[c] = "get_created" /\ The(c).op = "create_channel",
           \A d \in Clients \ {c} : Active(d) =>
                /\ tx[d].row \subseteq channels'
                /\ tx[d].new # {} => The(d).asset \in AssetIds' \cup {0}
                /\ tx[d].row # {} => \A e \in entries' \ entries : e.channel # The(d).id,
           TablesOK', EntriesOwned', AcknowledgedStays'
    PROVE  CatalogInv'
<1> USE DEF HandlerOf
<1>1. \A d : The(d)' = The(d)
  BY DEF The
<1>2. \A d \in Clients \ {c} : /\ pc'[d] = pc[d] /\ tx'[d] = tx[d] /\ answer'[d] = answer[d] /\ changed'[d] = changed[d]
                               /\ Active(d)' <=> Active(d)
  BY DEF CatalogInv, ShapesOK, Active
<1>3. /\ Active(c)' <=> pc'[c] # "idle"
      /\ request[c] # {}
  BY DEF CatalogInv, ShapesOK, Active
<1>4. ShapesOK'
  BY <1>2, <1>3 DEF CatalogInv, ShapesOK, Unheard
<1>5. TransactionsOK'
  <2>1. Active(c)' => Fits(c, "get_created", NoTx)'
    BY <1>1, <1>3, TxShape DEF Fits, NoTx, ItsStatement
  <2>2. \A d \in Clients \ {c} : Active(d) => Fits(d, pc[d], tx[d])'
    BY <1>2, OthersFit DEF CatalogInv, TransactionsOK
  <2> QED BY <1>2, <1>3, <2>1, <2>2 DEF CatalogInv, TransactionsOK
<1>6. RowsApart'
  BY <1>2, <1>3 DEF CatalogInv, RowsApart, NoTx
<1>7. ChangedOK'
  <2>1. ASSUME NEW d \in Clients \ {c}, changed'[d]
        PROVE  /\ request'[d] # {} /\ (Active(d)' => pc'[d] = "get_created") /\ (answer'[d] = 0 => Active(d)')
               /\ answer'[d] \in {0, 200, 201, 204, Unheard} \/ (The(d)'.op = "create_channel" /\ answer'[d] = 404)
    BY <1>1, <1>2, <2>1 DEF CatalogInv, ChangedOK
  <2>2. /\ request'[c] # {} /\ (Active(c)' => pc'[c] = "get_created") /\ (answer'[c] = 0 => Active(c)')
        /\ answer'[c] \in {0, 200, 201, 204, Unheard}
    BY <1>3 DEF Unheard
  <2> QED BY <2>1, <2>2 DEF ChangedOK
<1> QED BY <1>4, <1>5, <1>6, <1>7 DEF CatalogInv
-----------------------------------------------------------------------------
(* The statements that leave the tables alone *)

\* A statement that runs is one of a request under way, it waits for nobody, and nothing was changed before it.
LEMMA RunsActive ==
    ASSUME CatalogInv, NEW c \in Clients, NEW l, Runs(c, l), l # "idle"
    PROVE  /\ Active(c) /\ pc[c] = l /\ Fits(c, l, tx[c]) /\ (\A d \in Clients : ~ WaitsFor(c, d))
           /\ l # "get_created" => ~ changed[c]
           /\ request[c] # {} /\ (l \notin Commits => answer[c] = 0)
<1>1. pc[c] = l /\ (answer[c] = 0 \/ l \in Commits) /\ \A d \in Clients : ~ WaitsFor(c, d)
  BY DEF Runs
<1>2. Active(c)
  BY <1>1 DEF Active
<1>3. Fits(c, l, tx[c])
  BY <1>1, <1>2 DEF CatalogInv, TransactionsOK
<1>4. (l # "get_created" => ~ changed[c]) /\ request[c] # {}
  BY <1>1, <1>2 DEF CatalogInv, ChangedOK, ShapesOK
<1> QED BY <1>1, <1>2, <1>3, <1>4

\* An empty transaction fits wherever no other is asked for.
LEMMA EmptyFits ==
    ASSUME NEW c, NEW l, ItsStatement(The(c).op, l),
           l \notin {"insert_entry", "commit_edit", "commit_delete"},
           l = "delete_entries" => The(c).op # "replace"
    PROVE  Fits(c, l, NoTx)
BY TxShape DEF Fits, NoTx

\* The answers that come without a change.
LEMMA AnswersKeep ==
    ASSUME CatalogInv, NEW c \in Clients,
           \/ GetCreated(c) \/ UpdateChannel(c) \/ DeadlockVictim(c) \/ RollBack(c)
    PROVE  CatalogInv'
<1> USE DEF Statuses
<1>1. CASE GetCreated(c)
  <2>1. Active(c) /\ pc[c] = "get_created" /\ Fits(c, "get_created", tx[c])
    BY <1>1, RunsActive DEF GetCreated
  <2>2. The(c).op = "create_channel"
    BY <2>1 DEF Fits, ItsStatement
  <2> QED BY <1>1, <2>1, <2>2, AnswerStep DEF GetCreated, SameTables
<1>2. CASE UpdateChannel(c)
  <2>1. Active(c) /\ pc[c] = "update_channel" /\ Fits(c, "update_channel", tx[c])
    BY <1>2, RunsActive DEF UpdateChannel
  <2>2. The(c).op # "replace"
    BY <2>1 DEF Fits, ItsStatement
  <2> QED BY <1>2, <2>1, <2>2, AnswerStep DEF UpdateChannel, SameTables
<1>3. CASE DeadlockVictim(c)
  <2>1. Active(c) /\ pc[c] # "get_created"
    BY <1>3 DEF DeadlockVictim, WaitsFor, Active
  <2> QED BY <1>3, <2>1, AnswerStep DEF DeadlockVictim, SameTables
<1>4. CASE RollBack(c)
  <2>1. Active(c) /\ Unheard \in Statuses \ {0} /\ Unheard # 200
    BY <1>4 DEF RollBack, Active, Unheard
  <2> QED BY <1>4, <2>1, AnswerStep DEF RollBack, SameTables
<1> QED BY <1>1, <1>2, <1>3, <1>4

\* A handler ends before it has heard; what the database has of it still fits.
LEMMA CancelKeeps ==
    ASSUME CatalogInv, NEW c \in Clients, Cancel(c)
    PROVE  CatalogInv'
<1>1. Active(c) /\ answer[c] = 0 /\ Fits(c, pc[c], tx[c])
  BY DEF Cancel, Active, CatalogInv, TransactionsOK
<1>2. /\ HandlerOf(c) /\ tx' = tx /\ answer'[c] = Unheard /\ pc'[c] \in {pc[c], "idle"}
      /\ pc'[c] = "idle" => tx[c] = NoTx
  <2>1. answer' = [answer EXCEPT ![c] = Unheard] /\ UNCHANGED <<request, tx, changed>>
    BY DEF Cancel
  <2>2. pc' = [pc EXCEPT ![c] = IF tx[c] = NoTx /\ pc[c] \notin Commits THEN "idle" ELSE pc[c]]
    BY DEF Cancel
  <2> QED BY <1>1, <2>1, <2>2 DEF HandlerOf, CatalogInv, ShapesOK, Statuses, Active
<1>3. UNCHANGED <<channels, assets, entries, changed>>
  BY DEF Cancel, SameTables
<1>4. \A d \in Clients \ {c} : tx'[c].row \cap tx[d].row = {}
  BY <1>2 DEF CatalogInv, RowsApart
<1>5. pc'[c] # "idle" /\ changed[c] => pc'[c] = "get_created"
  BY <1>1, <1>2 DEF CatalogInv, ChangedOK
<1> QED BY <1>1, <1>2, <1>3, <1>4, <1>5, LocalStep DEF Unheard

\* The first statements of an edit, and those that look something up.
LEMMA LookupsKeep ==
    ASSUME CatalogInv, NEW c \in Clients,
           GetChannel(c) \/ MissingAssets(c) \/ SelectUsers(c) \/ List(c)
    PROVE  CatalogInv'
<1> USE DEF Statuses
<1>0. NoTx.row = {}
  BY DEF NoTx
<1>1. CASE GetChannel(c)
  <2>1. Active(c) /\ pc[c] = "get_channel" /\ Fits(c, "get_channel", tx[c])
    BY <1>1, RunsActive DEF GetChannel
  <2>2. Fits(c, "missing_assets", NoTx)
    BY <2>1, EmptyFits DEF Fits, ItsStatement
  <2> QED BY <1>0, <1>1, <2>1, <2>2, AnswerStep, GotoStep DEF GetChannel, SameTables
<1>2. CASE MissingAssets(c)
  <2>1. Active(c) /\ pc[c] = "missing_assets" /\ Fits(c, "missing_assets", tx[c])
    BY <1>2, RunsActive DEF MissingAssets
  <2>2. Fits(c, "select_for_update", NoTx)
    BY <2>1, EmptyFits DEF Fits, ItsStatement
  <2> QED BY <1>0, <1>2, <2>1, <2>2, AnswerStep, GotoStep DEF MissingAssets, SameTables
<1>3. CASE SelectUsers(c)
  <2>1. Active(c) /\ pc[c] = "select_users" /\ Fits(c, "select_users", tx[c])
    BY <1>3, RunsActive DEF SelectUsers
  <2>2. Fits(c, "delete_asset", NoTx)
    BY <2>1, EmptyFits DEF Fits, ItsStatement
  <2> QED BY <1>0, <1>3, <2>1, <2>2, AnswerStep, GotoStep DEF SelectUsers, SameTables
<1>4. CASE List(c)
  <2>1. Active(c) /\ pc[c] = "page" /\ Fits(c, "page", tx[c])
    BY <1>4, RunsActive DEF List
  <2>2. Fits(c, "page", NoTx) /\ The(c).op # "replace"
    BY <2>1, EmptyFits DEF Fits, ItsStatement
  <2>3. UNCHANGED <<channels, assets, entries>> /\ (Answer(c, 200) \/ Goto(c, "page", NoTx))
    BY <1>4 DEF List
  <2> QED BY <1>0, <2>1, <2>2, <2>3, AnswerStep, GotoStep
<1> QED BY <1>1, <1>2, <1>3, <1>4

\* The statements of a deletion and of an edit that look at entries and lock rows.
LEMMA LocksKeep ==
    ASSUME CatalogInv, NEW c \in Clients,
           SelectEntries(c) \/ DeleteEntries(c) \/ DeleteChannel(c) \/ LockChannel(c) \/ InsertEntry(c)
    PROVE  CatalogInv'
<1> USE DEF Statuses
<1> DEFINE r == The(c)
<1>1. CASE SelectEntries(c)
  <2> DEFINE t == [NoTx EXCEPT !.snap = OfChannel(r.id)]
  <2>1. Active(c) /\ pc[c] = "select_entries" /\ Fits(c, "select_entries", tx[c])
    BY <1>1, RunsActive DEF SelectEntries
  <2>2. t = [row |-> {}, snap |-> OfChannel(r.id), gone |-> {}, new |-> {}]
    BY DEF NoTx
  <2>3. Fits(c, "delete_entries", t) /\ t.row = {}
    BY <2>1, <2>2, TxShape DEF Fits, ItsStatement, OfChannel
  <2>4. Goto(c, "delete_entries", t) /\ UNCHANGED <<channels, assets, entries>>
    BY <1>1 DEF SelectEntries, SameTables
  <2> HIDE DEF t
  <2> QED BY <2>1, <2>3, <2>4, GotoStep
<1>2. CASE DeleteEntries(c)
  <2> DEFINE t == [row |-> tx[c].row, snap |-> {}, gone |-> tx[c].snap \cap entries, new |-> {}]
             l == IF r.op = "replace" THEN "insert_entry" ELSE "delete_channel"
  <2>1. Active(c) /\ pc[c] = "delete_entries" /\ Fits(c, "delete_entries", tx[c])
    BY <1>2, RunsActive DEF DeleteEntries
  <2>2. Window(r) \subseteq entries
    BY DEF Window, OfChannel
  <2>3. Fits(c, l, t) /\ t.row = tx[c].row /\ l # "idle"
    BY <2>1, <2>2, TxShape DEF Fits, ItsStatement
  <2>4. Goto(c, l, t) /\ UNCHANGED <<channels, assets, entries>>
    BY <1>2 DEF DeleteEntries, SameTables
  <2> HIDE DEF t, l
  <2> QED BY <2>1, <2>3, <2>4, GotoStep
<1>3. CASE DeleteChannel(c)
  <2> DEFINE t == [tx[c] EXCEPT !.row = {r.id}]
  <2>1. Active(c) /\ pc[c] = "delete_channel" /\ Fits(c, "delete_channel", tx[c]) /\ \A d \in Clients : ~ WaitsFor(c, d)
    BY <1>3, RunsActive DEF DeleteChannel
  <2>2. t = [row |-> {r.id}, snap |-> tx[c].snap, gone |-> tx[c].gone, new |-> tx[c].new]
    <3>1. IsTx(tx[c])
      BY <2>1 DEF Fits
    <3> QED BY <3>1 DEF IsTx
  <2>3. r.op = "delete_channel"
    BY <2>1 DEF Fits, ItsStatement
  <2>4. CASE Answer(c, 404) \/ Answer(c, 500)
    BY <1>3, <2>1, <2>3, <2>4, AnswerStep DEF DeleteChannel, SameTables
  <2>5. CASE r.id \in channels /\ OfChannel(r.id) \ tx[c].gone = {} /\ Goto(c, "commit_delete", t)
    <3>1. OfChannel(r.id) \subseteq tx[c].gone
      BY <2>5
    <3>2. Fits(c, "commit_delete", t)
      BY <2>1, <2>2, <2>3, <2>5, <3>1, TxShape DEF Fits, ItsStatement
    <3>3. \A d \in Clients \ {c} : r.id \notin tx[d].row
      BY <2>1 DEF WaitsFor, HoldsRow, Active
    <3>4. \A d \in Clients \ {c} : t.row \cap tx[d].row = {}
      BY <2>2, <3>3
    <3>5. UNCHANGED <<channels, assets, entries>>
      BY <1>3 DEF DeleteChannel, SameTables
    <3> HIDE DEF t
    <3> QED BY <2>1, <2>5, <3>2, <3>4, <3>5, GotoStep
  <2> QED BY <1>3, <2>4, <2>5 DEF DeleteChannel
<1>4. CASE LockChannel(c)
  <2> DEFINE t == [row |-> {r.id}, snap |-> Window(r), gone |-> {}, new |-> {}]
  <2>1. /\ Active(c) /\ pc[c] = "select_for_update" /\ Fits(c, "select_for_update", tx[c])
        /\ \A d \in Clients : ~ WaitsFor(c, d)
    BY <1>4, RunsActive DEF LockChannel
  <2>2. r.op = "replace" /\ UNCHANGED <<channels, assets, entries>>
    BY <1>4, <2>1 DEF Fits, ItsStatement, LockChannel, SameTables
  <2>3. CASE Answer(c, 404)
    BY <2>1, <2>2, <2>3, AnswerStep
  <2>4. CASE r.id \in channels /\ Goto(c, "delete_entries", t)
    <3>1. \A e \in Window(r) : e.channel = r.id /\ e.slot = r.slot
      BY DEF Window, OfChannel
    <3>2. Fits(c, "delete_entries", t)
      BY <2>1, <2>2, <2>4, <3>1, TxShape DEF Fits, ItsStatement
    <3>3. \A d \in Clients \ {c} : r.id \notin tx[d].row
      BY <2>1 DEF WaitsFor, HoldsRow, Active
    <3>4. \A d \in Clients \ {c} : t.row \cap tx[d].row = {}
      BY <3>3
    <3> HIDE DEF t
    <3> QED BY <2>1, <2>2, <2>4, <3>2, <3>4, GotoStep
  <2> QED BY <1>4, <2>3, <2>4 DEF LockChannel
<1>5. CASE InsertEntry(c)
  <2> DEFINE t == [tx[c] EXCEPT !.new = {Entry(c)}]
  <2>1. Active(c) /\ pc[c] = "insert_entry" /\ Fits(c, "insert_entry", tx[c])
    BY <1>5, RunsActive DEF InsertEntry
  <2>2. t = [row |-> tx[c].row, snap |-> tx[c].snap, gone |-> tx[c].gone, new |-> {Entry(c)}]
    <3>1. IsTx(tx[c])
      BY <2>1 DEF Fits
    <3> QED BY <3>1 DEF IsTx
  <2>3. CASE Answer(c, 422)
    BY <1>5, <2>1, <2>3, AnswerStep DEF InsertEntry, SameTables
  <2>4. CASE r.asset \in AssetIds \cup {0} /\ Goto(c, "commit_edit", t)
    <3>1. Fits(c, "commit_edit", t) /\ t.row = tx[c].row
      BY <2>1, <2>2, <2>4, TxShape DEF Fits, ItsStatement
    <3>2. UNCHANGED <<channels, assets, entries>>
      BY <1>5 DEF InsertEntry, SameTables
    <3> HIDE DEF t
    <3> QED BY <2>1, <2>4, <3>1, <3>2, GotoStep
  <2> QED BY <1>5, <2>3, <2>4 DEF InsertEntry, Entry
<1> QED BY <1>1, <1>2, <1>3, <1>4, <1>5
-----------------------------------------------------------------------------
(* The statements that change the tables *)

\* c has done away with what was written for channel id and slot, and was not refused
CarriesOut(c, id, slot) ==
    /\ changed'[c] /\ The(c).id = id
    /\ \/ The(c).op = "replace" /\ The(c).slot = slot /\ answer'[c] \in {200, Unheard}
       \/ The(c).op = "delete_channel" /\ answer'[c] \in {204, Unheard}

\* What was acknowledged stays, if who removes an entry of it carries out what it was asked for.
LEMMA AcknowledgedKept ==
    ASSUME CatalogInv, NEW c \in Clients, Active(c), HandlerOf(c), ~ changed[c],
           answer[c] # 0 => answer'[c] = answer[c],
           answer'[c] = 200 /\ The(c).op = "replace" => \E e \in entries' : e.by = c,
           \A e \in entries \ entries' : CarriesOut(c, e.channel, e.slot)
    PROVE  AcknowledgedStays'
<1> DEFINE Gone(d, f) == /\ The(f).id = The(d).id
                         /\ \/ The(f).op = "replace" /\ The(f).slot = The(d).slot /\ answer[f] \in {200, Unheard}
                            \/ The(f).op = "delete_channel" /\ answer[f] \in {204, Unheard}
<1>1. \A d : The(d)' = The(d)
  BY DEF The, HandlerOf
<1>2. SUFFICES ASSUME NEW d \in Clients, answer'[d] = 200, \E r \in request[d] : r.op = "replace"
      PROVE  \/ \E e \in entries' : e.by = d
             \/ \E f \in Clients \ {d} : changed'[f] /\ Gone(d, f)'
  BY <1>1 DEF AcknowledgedStays, HandlerOf
<1>3. request[c] # {}
  BY DEF CatalogInv, ShapesOK, Active
<1>4. CASE d = c
  <2>1. request[c] = {The(c)}
    BY <1>3, OneRequest DEF CatalogInv
  <2> QED BY <1>2, <1>4, <2>1
<1>5. CASE d # c
  <2>1. answer[d] = 200
    BY <1>2, <1>5 DEF HandlerOf, CatalogInv, ShapesOK
  <2>2. \A f \in Clients : f # c => answer'[f] = answer[f] /\ changed'[f] = changed[f]
    BY DEF HandlerOf, CatalogInv, ShapesOK
  <2>3. CASE \E e \in entries : e.by = d
    <3>1. PICK e \in entries : e.by = d
      BY <2>3
    <3>2. CASE e \in entries'
      BY <3>1, <3>2
    <3>3. CASE e \notin entries'
      <4>1. CarriesOut(c, e.channel, e.slot) /\ e.channel = The(d).id /\ e.slot = The(d).slot
        BY <3>1, <3>3 DEF CatalogInv, EntriesOwned
      <4> QED BY <1>1, <1>5, <4>1 DEF CarriesOut
    <3> QED BY <3>2, <3>3
  <2>4. CASE \E f \in Clients \ {d} : changed[f] /\ Gone(d, f)
    <3>1. PICK f \in Clients \ {d} : changed[f] /\ Gone(d, f)
      BY <2>4
    <3>2. changed'[f] /\ answer'[f] = answer[f]
      BY <2>2, <3>1
    <3> QED BY <1>1, <3>1, <3>2
  <2>5. (\E e \in entries : e.by = d) \/ \E f \in Clients \ {d} : changed[f] /\ Gone(d, f)
    BY <1>2, <2>1 DEF CatalogInv, AcknowledgedStays
  <2> QED BY <2>3, <2>4, <2>5
<1> QED BY <1>4, <1>5

\* Where nobody writes or deletes an entry, entries are still of who wrote them.
LEMMA OwnersKept ==
    ASSUME EntriesOwned, UNCHANGED request, entries' \subseteq entries
    PROVE  EntriesOwned'
<1>1. \A d : The(d)' = The(d)
  BY DEF The
<1> QED BY <1>1 DEF EntriesOwned

\* A channel comes.
LEMMA InsertChannelKeeps ==
    ASSUME CatalogInv, NEW c \in Clients, InsertChannel(c)
    PROVE  CatalogInv'
<1> USE DEF Statuses
<1>1. Active(c) /\ pc[c] = "insert_channel" /\ Fits(c, "insert_channel", tx[c]) /\ ~ changed[c]
  BY RunsActive DEF InsertChannel
<1>2. The(c).op = "create_channel"
  BY <1>1 DEF Fits, ItsStatement
<1>3. CASE SameTables /\ Answer(c, 409)
  BY <1>1, <1>3, AnswerStep DEF SameTables
<1>4. CASE Tables(channels \cup {The(c).id}, assets, entries) /\ Goto(c, "get_created", NoTx)
  <2>1. channels \subseteq channels' /\ UNCHANGED <<assets, entries>>
    BY <1>4 DEF Tables
  <2>2. /\ HandlerOf(c) /\ tx'[c] = NoTx /\ pc'[c] = "get_created"
        /\ answer'[c] = answer[c] /\ answer[c] \in {0, Unheard} /\ Unheard # 200
    BY <1>1, <1>4 DEF Goto, HandlerOf, CatalogInv, ShapesOK, Unheard
  <2>3. AssetIds' = AssetIds
    BY <2>1 DEF AssetIds
  <2>4. TablesOK' /\ EntriesOwned'
    BY <2>1, <2>2, <2>3, OwnersKept DEF CatalogInv, TablesOK, HandlerOf
  <2>5. AcknowledgedStays'
    BY <1>1, <2>1, <2>2, AcknowledgedKept
  <2>6. \A d \in Clients \ {c} : Active(d) =>
            /\ tx[d].row \subseteq channels'
            /\ tx[d].new # {} => The(d).asset \in AssetIds' \cup {0}
            /\ tx[d].row # {} => \A e \in entries' \ entries : e.channel # The(d).id
    BY <2>1, <2>3 DEF CatalogInv, TransactionsOK, Fits
  <2> QED BY <1>1, <1>2, <2>2, <2>4, <2>5, <2>6, TableStep
<1> QED BY <1>3, <1>4 DEF InsertChannel

\* An asset comes.
LEMMA InsertAssetKeeps ==
    ASSUME CatalogInv, NEW c \in Clients, InsertAsset(c)
    PROVE  CatalogInv'
<1> USE DEF Statuses
<1> DEFINE a == [id |-> The(c).id, uri |-> The(c).uri]
<1>1. Active(c) /\ pc[c] = "insert_asset" /\ Fits(c, "insert_asset", tx[c]) /\ ~ changed[c]
  BY RunsActive DEF InsertAsset
<1>2. CASE SameTables /\ Answer(c, 409)
  BY <1>1, <1>2, AnswerStep DEF SameTables
<1>3. CASE Tables(channels, assets \cup {a}, entries) /\ Answer(c, 201)
  <2>1. assets \subseteq assets' /\ UNCHANGED <<channels, entries>>
    BY <1>3 DEF Tables
  <2>2. /\ HandlerOf(c) /\ tx'[c] = NoTx /\ pc'[c] = "idle" /\ answer[c] \in {0, Unheard}
        /\ answer'[c] = (IF answer[c] = 0 THEN 201 ELSE Unheard)
    BY <1>1, <1>3, AnswerFacts
  <2> USE DEF Unheard
  <2>3. AssetIds \subseteq AssetIds'
    BY <2>1 DEF AssetIds
  <2>4. TablesOK' /\ EntriesOwned'
    BY <2>1, <2>2, <2>3, OwnersKept DEF CatalogInv, TablesOK, HandlerOf
  <2>5. AcknowledgedStays'
    BY <1>1, <2>1, <2>2, AcknowledgedKept
  <2>6. \A d \in Clients \ {c} : Active(d) =>
            /\ tx[d].row \subseteq channels'
            /\ tx[d].new # {} => The(d).asset \in AssetIds' \cup {0}
            /\ tx[d].row # {} => \A e \in entries' \ entries : e.channel # The(d).id
    BY <2>1, <2>3 DEF CatalogInv, TransactionsOK, Fits
  <2> QED BY <1>1, <2>2, <2>4, <2>5, <2>6, TableStep
<1> QED BY <1>2, <1>3 DEF InsertAsset

\* An asset goes, and no entry, written or about to be, refers to it.
LEMMA DeleteAssetKeeps ==
    ASSUME CatalogInv, NEW c \in Clients, DeleteAsset(c)
    PROVE  CatalogInv'
<1> USE DEF Statuses
<1> DEFINE id == The(c).id
<1>1. /\ Active(c) /\ pc[c] = "delete_asset" /\ Fits(c, "delete_asset", tx[c]) /\ ~ changed[c]
      /\ \A d \in Clients : ~ WaitsFor(c, d)
  BY RunsActive DEF DeleteAsset
<1>2. CASE SameTables /\ (Answer(c, 404) \/ Answer(c, 500))
  BY <1>1, <1>2, AnswerStep DEF SameTables
<1>3. CASE /\ ~ \E e \in entries : e.asset = id
           /\ Tables(channels, {a \in assets : a.id # id}, entries) /\ Answer(c, 204)
  <2>1. assets' = {a \in assets : a.id # id} /\ UNCHANGED <<channels, entries>>
    BY <1>3 DEF Tables
  <2>2. /\ HandlerOf(c) /\ tx'[c] = NoTx /\ pc'[c] = "idle" /\ answer[c] \in {0, Unheard}
        /\ answer'[c] = (IF answer[c] = 0 THEN 204 ELSE Unheard)
    BY <1>1, <1>3, AnswerFacts
  <2> USE DEF Unheard
  <2>3. AssetIds' = AssetIds \ {id}
    BY <2>1 DEF AssetIds
  <2>4. TablesOK' /\ EntriesOwned'
    BY <1>3, <2>1, <2>2, <2>3, OwnersKept DEF CatalogInv, TablesOK, HandlerOf
  <2>5. AcknowledgedStays'
    BY <1>1, <2>1, <2>2, AcknowledgedKept
  <2>6. ASSUME NEW d \in Clients \ {c}, Active(d)
        PROVE  /\ tx[d].row \subseteq channels'
               /\ tx[d].new # {} => The(d).asset \in AssetIds' \cup {0}
               /\ tx[d].row # {} => \A e \in entries' \ entries : e.channel # The(d).id
    <3>1. Fits(d, pc[d], tx[d])
      BY <2>6 DEF CatalogInv, TransactionsOK
    <3>2. ~ \E e \in tx[d].new : e.asset = id
      BY <1>1 DEF WaitsFor, UsesAsset, Active
    <3>3. Entry(d).asset = The(d).asset
      BY DEF Entry
    <3> QED BY <2>1, <2>3, <3>1, <3>2, <3>3 DEF Fits
  <2> QED BY <1>1, <2>2, <2>4, <2>5, <2>6, TableStep
<1> QED BY <1>2, <1>3 DEF DeleteAsset
\* A channel goes with all its entries.
LEMMA CommitDeleteKeeps ==
    ASSUME CatalogInv, NEW c \in Clients, CommitDelete(c)
    PROVE  CatalogInv'
<1> USE DEF Statuses
<1> DEFINE r == The(c)
<1>1. Active(c) /\ pc[c] = "commit_delete" /\ Fits(c, "commit_delete", tx[c]) /\ ~ changed[c]
  BY RunsActive DEF CommitDelete
<1>2. /\ r.op = "delete_channel" /\ tx[c].row = {r.id} /\ OfChannel(r.id) \subseteq tx[c].gone
      /\ \A e \in tx[c].gone : e.channel = r.id
  BY <1>1 DEF Fits, ItsStatement
<1>3. channels' = channels \ {r.id} /\ assets' = assets /\ entries' = entries \ tx[c].gone
  BY DEF CommitDelete, Tables
<1>4. /\ HandlerOf(c) /\ tx'[c] = NoTx /\ pc'[c] = "idle" /\ answer[c] \in {0, Unheard}
      /\ answer'[c] = (IF answer[c] = 0 THEN 204 ELSE Unheard)
      /\ changed'[c] = (changed[c] \/ <<channels, assets, entries>>' # <<channels, assets, entries>>)
  BY <1>1, AnswerFacts DEF CommitDelete
<1> USE DEF Unheard
<1>5. AssetIds' = AssetIds
  BY <1>3 DEF AssetIds
<1>6. \A e \in entries' : e \in entries /\ e.channel # r.id
  BY <1>2, <1>3 DEF OfChannel
<1>7. TablesOK' /\ EntriesOwned'
  BY <1>3, <1>4, <1>5, <1>6, OwnersKept DEF CatalogInv, TablesOK, HandlerOf
<1>8. AcknowledgedStays'
  <2>0. answer'[c] \in {204, Unheard}
    BY <1>4
  <2>1. \A e \in entries \ entries' : CarriesOut(c, e.channel, e.slot)
    <3> SUFFICES ASSUME NEW e \in entries, e \notin entries'
                 PROVE  CarriesOut(c, e.channel, e.slot)
      OBVIOUS
    <3>1. e \in tx[c].gone /\ entries' # entries
      BY <1>3
    <3>2. e.channel = The(c).id /\ The(c).op = "delete_channel"
      BY <1>2, <3>1
    <3>3. changed'[c]
      BY <1>4, <3>1
    <3> QED BY <2>0, <3>2, <3>3 DEF CarriesOut
  <2> QED BY <1>1, <1>4, <2>1, AcknowledgedKept
<1>9. ASSUME NEW d \in Clients \ {c}, Active(d)
      PROVE  /\ tx[d].row \subseteq channels'
             /\ tx[d].new # {} => The(d).asset \in AssetIds' \cup {0}
             /\ tx[d].row # {} => \A e \in entries' \ entries : e.channel # The(d).id
  <2>1. Fits(d, pc[d], tx[d])
    BY <1>9 DEF CatalogInv, TransactionsOK
  <2>2. tx[c].row \cap tx[d].row = {}
    BY DEF CatalogInv, RowsApart
  <2> QED BY <1>2, <1>3, <1>5, <2>1, <2>2 DEF Fits
<1> QED BY <1>1, <1>4, <1>7, <1>8, <1>9, TableStep

\* The window of an edit is replaced.
LEMMA CommitEditKeeps ==
    ASSUME CatalogInv, NEW c \in Clients, CommitEdit(c)
    PROVE  CatalogInv'
<1> USE DEF Statuses
<1> DEFINE r == The(c)
           x == Entry(c)
<1>1. Active(c) /\ pc[c] = "commit_edit" /\ Fits(c, "commit_edit", tx[c]) /\ ~ changed[c]
  BY RunsActive DEF CommitEdit
<1>2. /\ r.op = "replace" /\ tx[c].row = {r.id} /\ r.id \in channels /\ Window(r) \subseteq tx[c].gone
      /\ tx[c].new = {x} /\ r.asset \in AssetIds \cup {0}
      /\ \A e \in tx[c].gone : e.channel = r.id /\ e.slot = r.slot
  BY <1>1 DEF Fits, ItsStatement
<1>3. channels' = channels /\ assets' = assets /\ entries' = (entries \ tx[c].gone) \cup {x}
  BY <1>2 DEF CommitEdit, Tables
<1>4. /\ HandlerOf(c) /\ tx'[c] = NoTx /\ pc'[c] = "idle" /\ answer[c] \in {0, Unheard} /\ request[c] # {}
      /\ answer'[c] = (IF answer[c] = 0 THEN 200 ELSE Unheard)
      /\ changed'[c] = (changed[c] \/ <<channels, assets, entries>>' # <<channels, assets, entries>>)
  BY <1>1, AnswerFacts DEF CommitEdit
<1> USE DEF Unheard
<1>5. AssetIds' = AssetIds /\ x.channel = r.id /\ x.slot = r.slot /\ x.asset = r.asset /\ x.by = c
  BY <1>3 DEF AssetIds, Entry
<1>6. \A e \in entries \ tx[c].gone : ~ (e.channel = r.id /\ e.slot = r.slot)
  BY <1>2 DEF Window, OfChannel
<1> HIDE DEF x
<1>7. TablesOK'
  BY <1>2, <1>3, <1>5, <1>6 DEF CatalogInv, TablesOK
<1>8. EntriesOwned'
  <2>1. \A d : The(d)' = The(d)
    BY <1>4 DEF The, HandlerOf
  <2> QED BY <1>1, <1>3, <1>4, <1>5, <2>1 DEF CatalogInv, EntriesOwned, HandlerOf, Active
<1>9. AcknowledgedStays'
  <2>0. entries' # entries => changed'[c]
    BY <1>4
  <2>1. \A e \in entries \ entries' : CarriesOut(c, e.channel, e.slot)
    <3> SUFFICES ASSUME NEW e \in entries, e \notin entries'
                 PROVE  CarriesOut(c, e.channel, e.slot)
      OBVIOUS
    <3>1. e \in tx[c].gone /\ entries' # entries
      BY <1>3
    <3>2. e.channel = The(c).id /\ e.slot = The(c).slot /\ The(c).op = "replace"
      BY <1>2, <3>1
    <3>3. answer'[c] \in {200, Unheard}
      BY <1>4
    <3> QED BY <2>0, <3>1, <3>2, <3>3 DEF CarriesOut
  <2>2. \E e \in entries' : e.by = c
    BY <1>3, <1>5
  <2> QED BY <1>1, <1>4, <2>1, <2>2, AcknowledgedKept
<1>10. ASSUME NEW d \in Clients \ {c}, Active(d)
      PROVE  /\ tx[d].row \subseteq channels'
             /\ tx[d].new # {} => The(d).asset \in AssetIds' \cup {0}
             /\ tx[d].row # {} => \A e \in entries' \ entries : e.channel # The(d).id
  <2>1. Fits(d, pc[d], tx[d])
    BY <1>10 DEF CatalogInv, TransactionsOK
  <2>2. tx[c].row \cap tx[d].row = {}
    BY DEF CatalogInv, RowsApart
  <2>3. \A e \in entries' \ entries : e = x
    BY <1>3
  <2> QED BY <1>2, <1>3, <1>5, <2>1, <2>2, <2>3 DEF Fits
<1> QED BY <1>1, <1>4, <1>7, <1>8, <1>9, <1>10, TableStep

-----------------------------------------------------------------------------
(* The invariant holds, and what follows from it *)

\* The first statement of a handler is one of its own.
LEMMA FirstIsItsStatement ==
    ASSUME NEW op
    PROVE  /\ ItsStatement(op, FirstStatement(op))
           /\ FirstStatement(op) \notin {"insert_entry", "commit_edit", "commit_delete", "delete_entries", "get_created"}
BY DEF FirstStatement, ItsStatement

\* A request arrives.
LEMMA SendKeeps ==
    ASSUME CatalogInv, NEW c \in Clients, NEW r \in Requests, Send(c, r)
    PROVE  CatalogInv'
<1> USE DEF Statuses
<1>1. /\ request[c] = {} /\ request' = [request EXCEPT ![c] = {r}]
      /\ \/ pc' = [pc EXCEPT ![c] = FirstStatement(r.op)] /\ answer' = answer
         \/ pc' = pc /\ answer' = [answer EXCEPT ![c] = 403]
      /\ UNCHANGED <<channels, assets, entries, tx, changed>>
  BY Zenon DEF Send
<1>2. /\ ~ Active(c) /\ tx[c] = NoTx /\ answer[c] = 0 /\ ~ changed[c]
      /\ pc[c] = "idle" /\ request'[c] = {r}
      /\ (pc'[c] = FirstStatement(r.op) /\ answer'[c] = 0) \/ (pc'[c] = "idle" /\ answer'[c] = 403)
  BY <1>1 DEF CatalogInv, ShapesOK, TransactionsOK, Active, ChangedOK
<1>3. \A d \in Clients \ {c} : /\ request'[d] = request[d] /\ pc'[d] = pc[d] /\ answer'[d] = answer[d]
                               /\ The(d)' = The(d) /\ (Active(d)' <=> Active(d))
  <2>1. \A d \in Clients \ {c} : request'[d] = request[d] /\ pc'[d] = pc[d] /\ answer'[d] = answer[d]
    BY <1>1 DEF CatalogInv, ShapesOK
  <2> QED BY <2>1 DEF The, Active
<1>4. The(c)' = r
  BY <1>2 DEF The
<1>5. AssetIds' = AssetIds /\ \A id : OfChannel(id)' = OfChannel(id)
  BY <1>1 DEF AssetIds, OfChannel
<1>6. ShapesOK'
  BY <1>1, <1>2, <1>3, FirstIsItsStatement DEF CatalogInv, ShapesOK, Active
<1>7. TransactionsOK'
  <2>1. Fits(c, FirstStatement(r.op), NoTx)'
    BY <1>4, FirstIsItsStatement, TxShape DEF Fits, NoTx
  <2>2. ASSUME NEW d \in Clients \ {c}, NEW l, NEW t, Fits(d, l, t) PROVE Fits(d, l, t)'
    <3>1. The(d)' = The(d) /\ Entry(d)' = Entry(d) /\ Window(The(d))' = Window(The(d))
      BY <1>3, <1>5 DEF Entry, Window
    <3> QED BY <1>1, <1>5, <2>2, <3>1 DEF Fits
  <2> QED BY <1>1, <1>2, <1>3, <2>1, <2>2 DEF CatalogInv, TransactionsOK, Active
<1>8. RowsApart' /\ TablesOK'
  BY <1>1, <1>5 DEF CatalogInv, RowsApart, TablesOK
<1>9. EntriesOwned'
  BY <1>1, <1>2, <1>3 DEF CatalogInv, EntriesOwned
<1>10. ChangedOK'
  BY <1>1, <1>2, <1>3 DEF CatalogInv, ChangedOK
<1>11. AcknowledgedStays'
  BY <1>1, <1>2, <1>3 DEF CatalogInv, AcknowledgedStays
<1> QED BY <1>6, <1>7, <1>8, <1>9, <1>10, <1>11 DEF CatalogInv

\* There are no requests to begin with, and the tables are in order.
LEMMA CatalogStart == Init => CatalogInv
<1> SUFFICES ASSUME Init PROVE CatalogInv
  OBVIOUS
<1>1. ShapesOK
  BY DEF Init, ShapesOK, Statuses
<1>2. TransactionsOK /\ RowsApart
  BY DEF Init, TransactionsOK, RowsApart, Active, NoTx
<1>3. TablesOK /\ EntriesOwned
  BY CatalogAssumption DEF Init, TablesOK, EntriesOwned, AssetIds
<1>4. ChangedOK /\ AcknowledgedStays
  BY DEF Init, ChangedOK, AcknowledgedStays
<1> QED BY <1>1, <1>2, <1>3, <1>4 DEF CatalogInv

\* Every step keeps both invariants.
LEMMA CatalogKept == MigrationsInv /\ CatalogInv /\ [Next]_vars => MigrationsInv' /\ CatalogInv'
<1> SUFFICES ASSUME MigrationsInv, CatalogInv, [Next]_vars PROVE MigrationsInv' /\ CatalogInv'
  OBVIOUS
<1>1. ASSUME UNCHANGED catalogVars PROVE CatalogInv'
  <2>1. UNCHANGED <<channels, assets, entries, request, pc, tx, answer, changed>>
    BY <1>1 DEF catalogVars
  <2>2. /\ \A c : The(c)' = The(c) /\ AssetIds' = AssetIds
        /\ \A c, l, t : Fits(c, l, t)' <=> Fits(c, l, t)
    BY <2>1, SameReads
  <2>3. TransactionsOK'
    BY <2>1, <2>2 DEF CatalogInv, TransactionsOK, Active
  <2>4. ShapesOK' /\ RowsApart' /\ TablesOK' /\ EntriesOwned'
    BY <2>1, <2>2 DEF CatalogInv, ShapesOK, RowsApart, TablesOK, EntriesOwned, Active
  <2>5. ChangedOK' /\ AcknowledgedStays'
    BY <2>1, <2>2 DEF CatalogInv, ChangedOK, AcknowledgedStays, Active
  <2> QED BY <2>3, <2>4, <2>5 DEF CatalogInv
<1>2. ASSUME NEW c \in Clients, (\E r \in Requests : Send(c, r)) \/ HandlerStep(c) \/ Cancel(c) \/ RollBack(c)
      PROVE  CatalogInv'
  BY <1>2, SendKeeps, AnswersKeep, CancelKeeps, LookupsKeep, LocksKeep, InsertChannelKeeps, InsertAssetKeeps, DeleteAssetKeeps,
     CommitDeleteKeeps, CommitEditKeeps DEF HandlerStep
<1>3. [MigrationsNext]_migrationVars
  <2>1. ASSUME NEW c \in Clients, (\E r \in Requests : Send(c, r)) \/ HandlerStep(c) \/ Cancel(c) \/ RollBack(c)
        PROVE  UNCHANGED migrationVars
    BY <2>1, ZenonT(60) DEF HandlerStep, Send, Cancel, RollBack, InsertChannel, GetCreated, UpdateChannel, SelectEntries, DeleteEntries,
                DeleteChannel, CommitDelete, GetChannel, MissingAssets, LockChannel, InsertEntry, CommitEdit, InsertAsset,
                SelectUsers, DeleteAsset, List, DeadlockVictim, Goto, Answer
  <2> QED BY <2>1 DEF Next, vars
<1>4. CatalogInv'
  BY <1>1, <1>2 DEF Next, vars
<1> QED BY <1>3, <1>4, MigrationsKept

\* The migrations are applied in order and once each, whichever services start, in whichever order, and wherever
\* connections are lost between two statements; a service that is connected has the whole schema.
THEOREM SchemaIsWhole == Spec => []AppliedOnce
<1>1. Init => MigrationsInv /\ CatalogInv
  BY MigrationsStart, CatalogStart DEF Init
<1>2. MigrationsInv => AppliedOnce
  BY DEF MigrationsInv, SchemaOK, Migrating, AppliedOnce
<1> QED BY <1>1, <1>2, CatalogKept, PTL DEF Spec

\* References hold and windows have one entry, whichever edits and deletions run at once, in whichever order they lock.
THEOREM TablesAreSound == Spec => []TypeOK
<1>1. Init => MigrationsInv /\ CatalogInv
  BY MigrationsStart, CatalogStart DEF Init
<1>2. CatalogInv => TypeOK
  BY DEF CatalogInv, TypeOK, TablesOK, RowsApart, ShapesOK, Statuses
<1> QED BY <1>1, <1>2, CatalogKept, PTL DEF Spec

\* A statement that changes the tables is the last of its request, and makes the whole of the change.
LEMMA CommitsWhole ==
    ASSUME CatalogInv, tables' # tables, NEW c \in Clients,
           InsertChannel(c) \/ CommitDelete(c) \/ CommitEdit(c) \/ InsertAsset(c) \/ DeleteAsset(c)
    PROVE  ~ changed[c] /\ changed'[c] /\ Whole(c)
<1> DEFINE r == The(c)
<1>1. CASE InsertChannel(c)
  <2>1. Fits(c, "insert_channel", tx[c]) /\ ~ changed[c]
    BY <1>1, RunsActive DEF InsertChannel
  <2>2. r.op = "create_channel"
    BY <2>1 DEF Fits, ItsStatement
  <2>3. Tables(channels \cup {r.id}, assets, entries) /\ Goto(c, "get_created", NoTx)
    BY <1>1 DEF InsertChannel, SameTables, tables
  <2>4. changed'[c]
    BY <2>3 DEF Goto, tables, CatalogInv, ShapesOK
  <2>5. tables' = <<channels \cup {r.id}, assets, entries>>
    BY <2>3 DEF Tables, tables
  <2> QED BY <2>1, <2>2, <2>4, <2>5 DEF Whole
<1>2. CASE CommitDelete(c)
  <2>1. Active(c) /\ Fits(c, "commit_delete", tx[c]) /\ ~ changed[c]
    BY <1>2, RunsActive DEF CommitDelete
  <2>2. r.op = "delete_channel" /\ OfChannel(r.id) \subseteq tx[c].gone /\ \A e \in tx[c].gone : e.channel = r.id
    BY <2>1 DEF Fits, ItsStatement
  <2>3. entries \ tx[c].gone = entries \ OfChannel(r.id)
    BY <2>2 DEF OfChannel
  <2>4. tables' = <<channels \ {r.id}, assets, entries \ OfChannel(r.id)>>
    BY <1>2, <2>3 DEF CommitDelete, Tables, tables
  <2>5. changed'[c]
    BY <1>2 DEF CommitDelete, Answer, tables, CatalogInv, ShapesOK
  <2> QED BY <2>1, <2>2, <2>4, <2>5 DEF Whole
<1>3. CASE CommitEdit(c)
  <2> DEFINE x == [channel |-> r.id, slot |-> r.slot, asset |-> r.asset, by |-> c]
  <2>1. Active(c) /\ Fits(c, "commit_edit", tx[c]) /\ ~ changed[c]
    BY <1>3, RunsActive DEF CommitEdit
  <2>2. /\ r.op = "replace" /\ Window(r) \subseteq tx[c].gone /\ tx[c].new = {x}
        /\ \A e \in tx[c].gone : e.channel = r.id /\ e.slot = r.slot
    BY <2>1 DEF Fits, ItsStatement, Entry
  <2> HIDE DEF x
  <2>3. entries \ tx[c].gone = entries \ Window(r)
    BY <2>2 DEF Window, OfChannel
  <2>4. tables' = <<channels, assets, (entries \ Window(r)) \cup {x}>>
    BY <1>3, <2>2, <2>3 DEF CommitEdit, Tables, tables
  <2>5. changed'[c]
    BY <1>3 DEF CommitEdit, Answer, tables, CatalogInv, ShapesOK
  <2> QED BY <2>1, <2>2, <2>4, <2>5 DEF Whole, x
<1>4. CASE InsertAsset(c)
  <2>1. Fits(c, "insert_asset", tx[c]) /\ ~ changed[c]
    BY <1>4, RunsActive DEF InsertAsset
  <2>2. r.op = "create_asset"
    BY <2>1 DEF Fits, ItsStatement
  <2>3. Tables(channels, assets \cup {[id |-> r.id, uri |-> r.uri]}, entries) /\ Answer(c, 201)
    BY <1>4 DEF InsertAsset, SameTables, tables
  <2>4. changed'[c]
    BY <2>3 DEF Answer, tables, CatalogInv, ShapesOK
  <2>5. tables' = <<channels, assets \cup {[id |-> r.id, uri |-> r.uri]}, entries>>
    BY <2>3 DEF Tables, tables
  <2> QED BY <2>1, <2>2, <2>4, <2>5 DEF Whole
<1>5. CASE DeleteAsset(c)
  <2>1. Fits(c, "delete_asset", tx[c]) /\ ~ changed[c]
    BY <1>5, RunsActive DEF DeleteAsset
  <2>2. r.op = "delete_asset"
    BY <2>1 DEF Fits, ItsStatement
  <2>3. Tables(channels, {a \in assets : a.id # r.id}, entries) /\ Answer(c, 204)
    BY <1>5 DEF DeleteAsset, SameTables, tables
  <2>4. changed'[c]
    BY <2>3 DEF Answer, tables, CatalogInv, ShapesOK
  <2>5. tables' = <<channels, {a \in assets : a.id # r.id}, entries>>
    BY <2>3 DEF Tables, tables
  <2> QED BY <2>1, <2>2, <2>4, <2>5 DEF Whole
<1> QED BY <1>1, <1>2, <1>3, <1>4, <1>5

\* The other steps leave the tables alone.
LEMMA ChangesAreWhole ==
    CatalogInv /\ [Next]_vars => [\E c \in Clients : ~ changed[c] /\ changed'[c] /\ Whole(c)]_tables
<1> SUFFICES ASSUME CatalogInv, [Next]_vars, tables' # tables
             PROVE  \E c \in Clients : ~ changed[c] /\ changed'[c] /\ Whole(c)
  OBVIOUS
<1>1. ~ UNCHANGED <<channels, assets, entries>>
  BY DEF tables
<1>2. PICK c \in Clients : (\E r \in Requests : Send(c, r)) \/ HandlerStep(c) \/ Cancel(c) \/ RollBack(c)
  BY <1>1 DEF Next, vars, catalogVars
<1>3. ~ (\E r \in Requests : Send(c, r)) /\ ~ Cancel(c) /\ ~ RollBack(c)
  BY <1>1 DEF Send, Cancel, RollBack, SameTables
<1>4. HandlerStep(c)
  BY <1>2, <1>3
<1>5. /\ ~ GetCreated(c) /\ ~ UpdateChannel(c) /\ ~ SelectEntries(c) /\ ~ DeleteEntries(c) /\ ~ DeleteChannel(c)
      /\ ~ GetChannel(c) /\ ~ MissingAssets(c) /\ ~ LockChannel(c) /\ ~ InsertEntry(c) /\ ~ SelectUsers(c)
      /\ ~ List(c) /\ ~ DeadlockVictim(c)
  BY <1>1 DEF GetCreated, UpdateChannel, SelectEntries, DeleteEntries, DeleteChannel, GetChannel, MissingAssets,
              LockChannel, InsertEntry, SelectUsers, List, DeadlockVictim, SameTables
<1>6. InsertChannel(c) \/ CommitDelete(c) \/ CommitEdit(c) \/ InsertAsset(c) \/ DeleteAsset(c)
  BY <1>4, <1>5 DEF HandlerStep
<1> QED BY <1>6, CommitsWhole

\* Requests are carried out one at a time, at most once, and entirely or not at all, whichever run at once, wherever they
\* fail and whenever their clients or their connections go, also while a commit is under way; what is refused has
\* changed nothing, but for the request that creates a channel and cannot read it.
THEOREM RequestsAreAtomic == Spec => AllOrNothing
<1>1. Init => MigrationsInv /\ CatalogInv
  BY MigrationsStart, CatalogStart DEF Init
<1>2. CatalogInv => RefusalsAreTrue
  BY DEF CatalogInv, RefusalsAreTrue, ChangedOK, ShapesOK, Statuses
<1> QED BY <1>1, <1>2, CatalogKept, ChangesAreWhole, PTL DEF Spec, AllOrNothing

\* An edit that was acknowledged is undone only by a later one that was carried out, and whose client was not refused.
THEOREM EditsStay == Spec => []AcknowledgedStays
<1>1. Init => MigrationsInv /\ CatalogInv
  BY MigrationsStart, CatalogStart DEF Init
<1>2. CatalogInv => AcknowledgedStays
  BY DEF CatalogInv
<1> QED BY <1>1, <1>2, CatalogKept, PTL DEF Spec

-----------------------------------------------------------------------------
(* Pages *)

\* A page: the smallest ids after the cursor, in order; a page that is not full has all of them.
LEMMA PageFacts ==
    ASSUME NEW ids \in SUBSET Nat, IsFiniteSet(ids), NEW cursor \in Nat, NEW limit \in Nat
    PROVE  LET page == PageAfter(ids, cursor, limit)
               after == {i \in ids : i > cursor}
           IN  /\ Rising(page) /\ Len(page) <= limit /\ Elements(page) \subseteq after
               /\ Len(page) < limit => Elements(page) = after
               /\ \A n \in 1 .. Len(page), i \in after : i <= page[n] => i \in Elements(page)
<1> DEFINE A == {i \in ids : i > cursor}
           rank == [i \in A |-> Cardinality({j \in A : j <= i})]
           N == Cardinality(A)
           M == IF limit < N THEN limit ELSE N
           page == [n \in 1 .. M |-> CHOOSE i \in A : rank[i] = n]
<1>1. PageAfter(ids, cursor, limit) = page
  <2> DEFINE F(n) == CHOOSE i \in A : Cardinality({j \in A : j <= i}) = n
             G(n) == CHOOSE i \in A : rank[i] = n
  <2>1. \A n : F(n) = G(n)
    OBVIOUS
  <2>2. PageAfter(ids, cursor, limit) = [n \in 1 .. M |-> F(n)]
    BY DEF PageAfter
  <2>3. page = [n \in 1 .. M |-> G(n)]
    BY Zenon
  <2> HIDE DEF A, M, rank, F, G, page
  <2> QED BY <2>1, <2>2, <2>3
<1>2. A \in SUBSET Nat /\ IsFiniteSet(A)
  BY FS_Subset
<1>3. /\ N \in Nat
      /\ rank \in [A -> 1 .. N]
      /\ \A i, j \in A : i < j <=> rank[i] < rank[j]
      /\ \A n \in 1 .. N : \E i \in A : rank[i] = n
  <2> HIDE DEF A
  <2> DEFINE key == [i \in A |-> i]
  <2>1. key \in [A -> Nat] /\ \A i \in A : key[i] = i
    BY <1>2
  <2>2. \A i \in A : {j \in A : key[j] <= key[i]} = {j \in A : j <= i}
    BY <2>1
  <2> HIDE DEF key
  <2>3. \A i \in A : rank[i] = Cardinality({j \in A : key[j] <= key[i]})
    BY <2>2
  <2>4. DOMAIN rank = A /\ rank = [i \in A |-> rank[i]]
    OBVIOUS
  <2> HIDE DEF rank
  <2> QED BY <1>2, <2>1, <2>3, <2>4, Ranks
<1> HIDE DEF A, rank, N
<1>4. M \in Nat /\ M <= limit /\ M <= N /\ (M < limit => M = N)
  BY <1>3
<1> HIDE DEF M
<1>5. \A n \in 1 .. M : page[n] \in A /\ rank[page[n]] = n
  BY <1>3, <1>4
<1>6. page \in Seq(Nat) /\ Len(page) = M
  <2>1. page \in [1 .. M -> Nat]
    BY <1>2, <1>5
  <2> HIDE DEF page
  <2>2. page \in Seq(Nat)
    BY <1>4, <2>1, SeqDef
  <2> QED BY <1>4, <2>1, <2>2
<1> HIDE DEF page
<1>7. Rising(page)
  <2>1. \A m, n \in 1 .. M : m < n => page[m] < page[n]
    BY <1>3, <1>5
  <2> QED BY <1>6, <2>1 DEF Rising
<1>8. Elements(page) = {page[n] : n \in 1 .. M}
  BY <1>6 DEF Elements
<1>9. \A i \in A : rank[i] \in 1 .. M => i \in Elements(page)
  <2> SUFFICES ASSUME NEW i \in A, rank[i] \in 1 .. M PROVE i = page[rank[i]]
    BY <1>8
  <2> DEFINE p == page[rank[i]]
  <2>1. p \in A /\ rank[p] = rank[i]
    BY <1>5
  <2> HIDE DEF p
  <2>2. p \in Nat /\ i \in Nat /\ ~(p < i) /\ ~(i < p)
    BY <1>2, <1>3, <2>1
  <2>3. p = i
    BY <2>2
  <2> QED BY <2>3 DEF p
<1>10. Elements(page) \subseteq A
  BY <1>5, <1>8
<1>11. M < limit => Elements(page) = A
  BY <1>3, <1>4, <1>9, <1>10
<1>12. ASSUME NEW n \in 1 .. M, NEW i \in A, i <= page[n] PROVE i \in Elements(page)
  <2>0. page[n] \in A /\ rank[page[n]] = n /\ page[n] \in Nat /\ i \in Nat
    BY <1>2, <1>5
  <2>1. ~(page[n] < i) /\ page[n] \in A /\ rank[page[n]] = n
    BY <1>12, <2>0
  <2>2. ~(n < rank[i]) /\ rank[i] \in 1 .. N
    BY <1>3, <2>1
  <2>3. rank[i] \in 1 .. M
    BY <1>3, <1>4, <2>2
  <2> QED BY <1>9, <2>3
<1> QED BY <1>1, <1>4, <1>6, <1>7, <1>10, <1>11, <1>12 DEF A

\* One answer of a list: what the key may see of the ids after the cursor and, if there is another page, up to the next
\* cursor, in order.
LEMMA ListedFacts ==
    ASSUME NEW r, r.limit \in Nat \ {0}, NEW ids \in SUBSET Nat, IsFiniteSet(ids), NEW cursor \in Nat
    PROVE  LET page == Listed(r, ids, cursor)
           IN  /\ Rising(page.items) /\ page.next \in Nat
               /\ page.next # 0 => page.next > cursor
               /\ Elements(page.items) = {i \in Seen(r, ids) : i > cursor /\ (page.next # 0 => i <= page.next)}
<1> DEFINE p == PageAfter(ids, cursor, r.limit + 1)
           A == {i \in ids : i > cursor}
           S == Seen(r, ids)
           k == r.limit
           res == Listed(r, ids, cursor)
<1>1. /\ Rising(p) /\ Len(p) <= k + 1 /\ Elements(p) \subseteq A
      /\ Len(p) < k + 1 => Elements(p) = A
      /\ \A n \in 1 .. Len(p), i \in A : i <= p[n] => i \in Elements(p)
  BY PageFacts
<1>2. k \in Nat \ {0} /\ Len(p) \in Nat /\ A \subseteq Nat /\ S \subseteq ids
  <2>1. p \in Seq(Nat)
    BY <1>1 DEF Rising
  <2>2. S \subseteq ids
    BY DEF Seen
  <2>3. A \subseteq Nat
    OBVIOUS
  <2>4. k \in Nat \ {0}
    OBVIOUS
  <2> HIDE DEF p, S, A, k
  <2> QED BY <2>1, <2>2, <2>3, <2>4
<1>3. Listed(r, ids, cursor) = IF Len(p) > k THEN [items |-> Filter(SubSeq(p, 1, k), S), next |-> p[k]]
                               ELSE [items |-> Filter(p, S), next |-> 0]
  BY DEF Listed
<1>4. A \cap S = {i \in S : i > cursor}
  BY <1>2
<1>5. \A i \in A : i > cursor /\ i \in Nat
  BY <1>2
<1> HIDE DEF p, A, S, k
<1>6. CASE Len(p) > k
  <2>1. k \in 1 .. Len(p) /\ p[k] \in Elements(p)
    BY <1>2, <1>6 DEF Elements
  <2>2. p[k] \in A
    BY <1>1, <2>1
  <2>3. p[k] \in Nat /\ p[k] > cursor /\ p[k] # 0
    BY <1>5, <2>2
  <2>4. Rising(SubSeq(p, 1, k)) /\ Elements(SubSeq(p, 1, k)) = {x \in Elements(p) : x <= p[k]}
    BY <1>1, <2>1, RisingStart
  <2>5. {x \in Elements(p) : x <= p[k]} = {x \in A : x <= p[k]}
    BY <1>1, <2>1
  <2>6. /\ Rising(Filter(SubSeq(p, 1, k), S))
        /\ Elements(Filter(SubSeq(p, 1, k), S)) = {x \in A : x <= p[k]} \cap S
    BY <2>4, <2>5, RisingFilter
  <2>7. {x \in A : x <= p[k]} \cap S = {i \in S : i > cursor /\ i <= p[k]}
    BY <1>4
  <2>8. res.items = Filter(SubSeq(p, 1, k), S) /\ res.next = p[k]
    BY <1>3, <1>6
  <2> HIDE DEF res
  <2>9. Rising(res.items) /\ res.next \in Nat /\ res.next > cursor /\ res.next # 0
    BY <2>3, <2>6, <2>8
  <2>10. Elements(res.items) = {i \in S : i > cursor /\ (res.next # 0 => i <= res.next)}
    BY <2>3, <2>6, <2>7, <2>8
  <2> QED BY <2>9, <2>10 DEF res, S
<1>7. CASE ~(Len(p) > k)
  <2>1. Elements(p) = A
    <3>1. Len(p) < k + 1
      BY <1>2, <1>7
    <3> QED BY <1>1, <3>1
  <2>2. Rising(Filter(p, S)) /\ Elements(Filter(p, S)) = A \cap S
    BY <1>1, <2>1, RisingFilter
  <2>3. res.items = Filter(p, S) /\ res.next = 0
    BY <1>3, <1>7
  <2> HIDE DEF res
  <2>4. Elements(res.items) = {i \in S : i > cursor /\ (res.next # 0 => i <= res.next)}
    BY <1>4, <2>2, <2>3
  <2> QED BY <2>2, <2>3, <2>4 DEF res, S
<1> QED BY <1>6, <1>7

-----------------------------------------------------------------------------
(* Walks through the lists *)

Lister(c) == request[c] # {} /\ The(c).op \in {"list_channels", "list_assets"}

\* the tables are finite, and no identifier is empty
TablesFinite ==
    /\ IsFiniteSet(channels) /\ channels \subseteq Nat \ {0}
    /\ IsFiniteSet(AssetIds) /\ AssetIds \subseteq Nat \ {0}

\* The walk of c: it was given nothing twice and nothing its key may not see; up to the cursor, and at the end
\* altogether, it was given all that its key may see of what was there all the time.
Walking(c) ==
    LET given == Elements(walk[c].items) IN
    /\ answer[c] = 0 => pc[c] = "page"
    /\ Rising(walk[c].items)
    /\ \A i \in given : Sees(The(c), i)
    /\ walk[c].stayed \subseteq Rows(The(c))
    /\ answer[c] = 0 => /\ \A i \in given : i <= walk[c].cursor
                        /\ \A i \in walk[c].stayed : Sees(The(c), i) /\ i <= walk[c].cursor => i \in given
    /\ answer[c] = 200 => \A i \in walk[c].stayed : Sees(The(c), i) => i \in given

WalksTyped == walk \in [Clients -> [cursor : Nat, items : Seq(Nat), stayed : SUBSET Nat]]

WalksInv ==
    /\ TablesFinite /\ WalksTyped
    /\ \A c \in Clients : (request[c] = {} => walk[c] = NoWalk) /\ (Lister(c) => Walking(c))

\* The tables there are to begin with are finite.
LEMMA WalksStart == Init => WalksInv
<1> SUFFICES ASSUME Init PROVE WalksInv
  OBVIOUS
<1>1. IsFiniteSet(AssetIds) /\ AssetIds \subseteq Nat \ {0}
  <2> DEFINE f == [a \in FirstAssets |-> a.id]
             T == {a.id : a \in FirstAssets}
  <2>1. f \in Surjection(FirstAssets, T)
    BY DEF Surjection
  <2>2. T \subseteq Nat \ {0}
    BY ListsAssumption
  <2>3. AssetIds = T
    BY DEF Init, AssetIds
  <2>4. IsFiniteSet(FirstAssets)
    BY ListsAssumption
  <2> HIDE DEF f, T
  <2>5. IsFiniteSet(T)
    BY <2>1, <2>4, FS_Surjection
  <2> QED BY <2>2, <2>3, <2>5
<1>2. TablesFinite
  BY <1>1, ListsAssumption DEF Init, TablesFinite
<1>3. WalksTyped
  BY DEF Init, NoWalk, WalksTyped
<1> QED BY <1>2, <1>3 DEF Init, WalksInv, Lister

\* A walk goes on being one while its client does nothing, or is answered an error, and rows come and go.
LEMMA WalkingStays ==
    ASSUME NEW c, Walking(c), request'[c] = request[c], walk'[c].items = walk[c].items,
           walk'[c].cursor = walk[c].cursor, walk'[c].stayed \subseteq walk[c].stayed, walk'[c].stayed \subseteq Rows(The(c))',
           answer'[c] \in {0, 200} => answer'[c] = answer[c] /\ pc'[c] = pc[c]
    PROVE  Walking(c)'
<1>1. The(c)' = The(c)
  BY DEF The
<1>2. \A i : Sees(The(c), i)' <=> Sees(The(c), i)
  BY <1>1 DEF Sees, Allows
<1> QED BY <1>1, <1>2 DEF Walking

\* a step of the handler of c that gives it no page: what was there all the time was, and still is
NoPage(c) ==
    /\ request' = request
    /\ \A d \in Clients \ {c} : answer'[d] = answer[d] /\ pc'[d] = pc[d]
    /\ Lister(c) => answer'[c] \notin {0, 200}
    /\ WalksTyped'
    /\ \A d \in Clients : /\ walk'[d].items = walk[d].items /\ walk'[d].cursor = walk[d].cursor
                          /\ walk'[d].stayed \subseteq walk[d].stayed
                          /\ Lister(d) => walk'[d].stayed \subseteq Rows(The(d))'

\* Such a step is none for the walks.
LEMMA NoPageKeeps ==
    ASSUME WalksInv, NEW c \in Clients, NoPage(c), TablesFinite'
    PROVE  WalksInv'
<1>1. \A d : Lister(d)' <=> Lister(d)
  BY DEF NoPage, Lister, The
<1>2. ASSUME NEW d \in Clients, request[d] = {} PROVE walk'[d] = NoWalk
  <2>0. walk[d] = NoWalk
    BY <1>2, Zenon DEF WalksInv
  <2>1. walk'[d] \in [cursor : Nat, items : Seq(Nat), stayed : SUBSET Nat]
    BY DEF NoPage, WalksTyped
  <2>2. walk'[d].items = <<>> /\ walk'[d].cursor = 0 /\ walk'[d].stayed = {}
    BY <2>0 DEF NoPage, NoWalk
  <2> QED BY <2>1, <2>2 DEF NoWalk
<1>3. ASSUME NEW d \in Clients, Lister(d) PROVE Walking(d)'
  <2>1. answer'[d] \in {0, 200} => answer'[d] = answer[d] /\ pc'[d] = pc[d]
    BY <1>3 DEF NoPage
  <2>2. Walking(d)
    BY <1>3 DEF WalksInv
  <2> QED BY <1>3, <2>1, <2>2, WalkingStays DEF NoPage
<1> QED BY <1>1, <1>2, <1>3 DEF WalksInv, NoPage

\* Tables that do not change.
LEMMA SameTablesNoPage ==
    ASSUME WalksInv, NEW c \in Clients, SameTables, request' = request,
           \A d \in Clients \ {c} : answer'[d] = answer[d] /\ pc'[d] = pc[d],
           Lister(c) => answer'[c] \notin {0, 200}
    PROVE  WalksInv'
<1>1. AssetIds' = AssetIds /\ channels' = channels /\ walk' = walk
  BY DEF SameTables, AssetIds
<1>2. \A r : Rows(r)' = Rows(r)
  BY <1>1 DEF Rows
<1>3. \A d : The(d)' = The(d) /\ Rows(The(d))' = Rows(The(d))
  BY <1>2 DEF The, Rows, AssetIds, SameTables
<1>4. NoPage(c)
  BY <1>1, <1>3 DEF NoPage, WalksInv, WalksTyped, Walking
<1>5. TablesFinite'
  BY <1>1 DEF WalksInv, TablesFinite
<1> QED BY <1>4, <1>5, NoPageKeeps

\* Tables that change: what they lose is no longer among what was there all the time.
LEMMA TablesNoPage ==
    ASSUME ShapesOK, WalksInv, NEW c \in Clients, NEW ch, NEW as, NEW en, Tables(ch, as, en), request' = request,
           \A d \in Clients \ {c} : answer'[d] = answer[d] /\ pc'[d] = pc[d],
           ~ Lister(c), TablesFinite'
    PROVE  WalksInv'
<1> DEFINE Left(d) == IF \E r \in request[d] : r.op = "list_assets" THEN {a.id : a \in as} ELSE ch
<1>1. channels' = ch /\ AssetIds' = {a.id : a \in as}
  BY DEF Tables, AssetIds
<1>2. walk' = [d \in Clients |-> [walk[d] EXCEPT !.stayed = @ \cap Left(d)]]
  BY DEF Tables
<1>3. ASSUME NEW d \in Clients, Lister(d) PROVE Left(d) = Rows(The(d))'
  <2>1. The(d)' = The(d) /\ request[d] = {The(d)}
    BY <1>3, OneRequest DEF Lister, The
  <2> QED BY <1>1, <2>1 DEF Rows
<1> HIDE DEF Left
<1>4. \A d \in Clients : walk[d] \in [cursor : Nat, items : Seq(Nat), stayed : SUBSET Nat]
  BY DEF WalksInv, WalksTyped
<1>5. WalksTyped'
  BY <1>2, <1>4 DEF WalksTyped
<1>6. \A d \in Clients : /\ walk'[d].items = walk[d].items /\ walk'[d].cursor = walk[d].cursor
                         /\ walk'[d].stayed = walk[d].stayed \cap Left(d)
  BY <1>2, <1>4
<1>7. NoPage(c)
  BY <1>3, <1>5, <1>6 DEF NoPage
<1> QED BY <1>7, NoPageKeeps

\* A request that is sent: nothing was given yet, and all that is there has been there all the time.
LEMMA SendWalks ==
    ASSUME ShapesOK, WalksInv, NEW c \in Clients, NEW r \in Requests, Send(c, r)
    PROVE  WalksInv'
<1> DEFINE first == IF r.op \in {"list_channels", "list_assets"} THEN Rows(r) ELSE {}
<1>1. /\ request' = [request EXCEPT ![c] = {r}] /\ request[c] = {}
      /\ walk' = [walk EXCEPT ![c].stayed = first] /\ UNCHANGED <<channels, assets>>
      /\ \/ pc' = [pc EXCEPT ![c] = FirstStatement(r.op)] /\ answer' = answer
         \/ pc' = pc /\ answer' = [answer EXCEPT ![c] = 403]
  BY Zenon DEF Send
<1>2. AssetIds' = AssetIds /\ Rows(r)' = Rows(r)
  BY <1>1 DEF AssetIds, Rows
<1>3. TablesFinite'
  BY <1>1, <1>2 DEF WalksInv, TablesFinite
<1>4. Rows(r) \subseteq Nat \ {0}
  BY DEF WalksInv, TablesFinite, Rows
<1>5. walk[c] = NoWalk
  BY <1>1 DEF WalksInv
<1>6. walk'[c] = [cursor |-> 0, items |-> <<>>, stayed |-> first]
  <2>1. DOMAIN walk = Clients
    BY DEF WalksInv, WalksTyped
  <2> HIDE DEF first
  <2>2. walk'[c] = [walk[c] EXCEPT !.stayed = first]
    BY <1>1, <2>1
  <2>3. [NoWalk EXCEPT !.stayed = first] = [cursor |-> 0, items |-> <<>>, stayed |-> first]
    BY DEF NoWalk
  <2> QED BY <1>5, <2>2, <2>3
<1>7. WalksTyped' /\ \A d \in Clients \ {c} : walk'[d] = walk[d]
  <2>1. first \subseteq Nat
    BY <1>4
  <2> HIDE DEF first
  <2>2. walk'[c] \in [cursor : Nat, items : Seq(Nat), stayed : SUBSET Nat]
    BY <1>6, <2>1
  <2> QED BY <1>1, <2>2 DEF WalksInv, WalksTyped
<1>8. request'[c] = {r} /\ The(c)' = r
  BY <1>1 DEF ShapesOK, The
<1>9. Lister(c)' => Walking(c)'
  <2> SUFFICES ASSUME r.op \in {"list_channels", "list_assets"} PROVE Walking(c)'
    BY <1>8 DEF Lister
  <2>1. FirstStatement(r.op) = "page"
    BY Zenon DEF FirstStatement
  <2>2. (pc'[c] = "page" /\ answer'[c] = 0) \/ answer'[c] = 403
    BY <1>1, <2>1 DEF ShapesOK
  <2>3. first = Rows(r) /\ Rows(The(c))' = Rows(r)
    BY <1>2, <1>8 DEF Rows
  <2>4. \A i \in first : ~(i <= 0)
    BY <1>4, <2>3
  <2> HIDE DEF first
  <2>5. Rising(walk'[c].items) /\ Elements(walk'[c].items) = {} /\ walk'[c].stayed = first /\ walk'[c].cursor = 0
    BY <1>6, RisingEmpty
  <2> QED BY <1>1, <2>2, <2>3, <2>4, <2>5 DEF Walking
<1>10. ASSUME NEW d \in Clients \ {c}
       PROVE  (request'[d] = {} => walk'[d] = NoWalk) /\ (Lister(d)' => Walking(d)')
  <2>1. request'[d] = request[d] /\ walk'[d] = walk[d] /\ pc'[d] = pc[d] /\ answer'[d] = answer[d]
    BY <1>1, <1>7 DEF ShapesOK
  <2>2. The(d)' = The(d) /\ (Lister(d)' <=> Lister(d))
    BY <2>1 DEF The, Lister
  <2>3. Rows(The(d))' = Rows(The(d))
    BY <1>1, <1>2, <2>2 DEF Rows
  <2>4. Lister(d) => Walking(d) /\ walk'[d].stayed \subseteq Rows(The(d))'
    BY <2>1, <2>3 DEF WalksInv, Walking
  <2> QED BY <2>1, <2>2, <2>4, WalkingStays DEF WalksInv
<1> QED BY <1>3, <1>7, <1>8, <1>9, <1>10 DEF WalksInv

\* A page: it goes on where the one before ended.
LEMMA ListWalks ==
    ASSUME CatalogInv, WalksInv, NEW c \in Clients, List(c)
    PROVE  WalksInv'
<1> DEFINE r == The(c)
           rows == Rows(r)
           w == walk[c]
           page == Listed(r, rows, w.cursor)
<1>1. answer[c] = 0 /\ request[c] # {} /\ r \in Requests /\ r.limit \in Nat \ {0}
  <2>1. answer[c] = 0 /\ request[c] # {}
    BY RunsActive DEF List, Commits
  <2> QED BY <2>1, OneRequest, ListsAssumption DEF CatalogInv
<1>2. w \in [cursor : Nat, items : Seq(Nat), stayed : SUBSET Nat]
  BY DEF WalksInv, WalksTyped
<1>3. rows \in SUBSET Nat /\ IsFiniteSet(rows)
  BY DEF WalksInv, TablesFinite, Rows
<1>4. /\ Rising(page.items) /\ page.next \in Nat
      /\ page.next # 0 => page.next > w.cursor
      /\ Elements(page.items) = {i \in Seen(r, rows) : i > w.cursor /\ (page.next # 0 => i <= page.next)}
  <2>1. w.cursor \in Nat
    BY <1>2
  <2>2. r.limit \in Nat \ {0} /\ rows \in SUBSET Nat /\ IsFiniteSet(rows)
    BY <1>1, <1>3
  <2> DEFINE k == w.cursor
  <2> HIDE DEF r, rows, k
  <2>3. LET p == Listed(r, rows, k)
        IN  /\ Rising(p.items) /\ p.next \in Nat
            /\ p.next # 0 => p.next > k
            /\ Elements(p.items) = {i \in Seen(r, rows) : i > k /\ (p.next # 0 => i <= p.next)}
    BY <2>1, <2>2, ListedFacts, Zenon DEF k
  <2> QED BY <2>3, Zenon DEF k
<1>5. /\ walk' = [walk EXCEPT ![c] = [cursor |-> page.next, items |-> w.items \o page.items, stayed |-> w.stayed]]
      /\ UNCHANGED <<channels, assets, entries>>
  BY DEF List
<1>6. /\ request' = request
      /\ \A d \in Clients \ {c} : pc'[d] = pc[d] /\ answer'[d] = answer[d]
      /\ answer'[c] = IF page.next = 0 THEN 200 ELSE 0
      /\ page.next # 0 => pc'[c] = "page"
  <2>1. DOMAIN pc = Clients /\ DOMAIN answer = Clients /\ answer[c] = 0
    BY <1>1 DEF CatalogInv, ShapesOK
  <2> HIDE DEF page
  <2>2. IF page.next = 0 THEN Answer(c, 200) ELSE Goto(c, "page", NoTx)
    BY DEF List, page
  <2> QED BY <2>1, <2>2 DEF Answer, Goto
<1>7. AssetIds' = AssetIds /\ channels' = channels
  BY <1>5 DEF AssetIds
<1>8. \A d : The(d)' = The(d) /\ (Lister(d)' <=> Lister(d)) /\ Rows(The(d))' = Rows(The(d))
  BY <1>6, <1>7 DEF The, Lister, Rows
<1>9. TablesFinite'
  BY <1>7 DEF WalksInv, TablesFinite
<1> HIDE DEF page
<1>10. /\ walk'[c] = [cursor |-> page.next, items |-> w.items \o page.items, stayed |-> w.stayed]
       /\ \A d \in Clients \ {c} : walk'[d] = walk[d]
  BY <1>5 DEF WalksInv, WalksTyped
<1>11. WalksTyped'
  <2>1. page.items \in Seq(Nat)
    BY <1>4 DEF Rising
  <2>2. [cursor |-> page.next, items |-> w.items \o page.items, stayed |-> w.stayed]
          \in [cursor : Nat, items : Seq(Nat), stayed : SUBSET Nat]
    BY <1>2, <1>4, <2>1
  <2> QED BY <1>5, <2>2 DEF WalksInv, WalksTyped
<1>12. ASSUME NEW d \in Clients \ {c}, Lister(d) PROVE Walking(d)'
  <2>1. Walking(d) /\ walk'[d].stayed \subseteq Rows(The(d))'
    BY <1>8, <1>10, <1>12 DEF WalksInv, Walking
  <2> QED BY <1>6, <1>10, <2>1, WalkingStays
<1>13. ASSUME Lister(c) PROVE Walking(c)'
  <2>1. Walking(c) /\ answer[c] = 0
    BY <1>1, <1>13 DEF WalksInv
  <2> DEFINE old == Elements(w.items)
             new == Elements(page.items)
  <2>2. /\ Rising(w.items) /\ (\A i \in old : Sees(r, i) /\ i <= w.cursor) /\ w.stayed \subseteq rows
        /\ \A i \in w.stayed : Sees(r, i) /\ i <= w.cursor => i \in old
    BY <2>1 DEF Walking
  <2>3. \A i \in rows : Sees(r, i) <=> i \in Seen(r, rows)
    BY DEF Seen
  <2>4. \A i : i \in Seen(r, rows) => i \in rows
    BY DEF Seen
  <2>5. old \subseteq Nat /\ w.cursor \in Nat
    BY <1>2 DEF Elements
  <2> HIDE DEF r, rows, w
  <2>6. \A x \in old, y \in new : x < y
    <3> SUFFICES ASSUME NEW x \in old, NEW y \in new PROVE x < y
      OBVIOUS
    <3>1. x \in Nat /\ x <= w.cursor
      BY <2>2, <2>5
    <3>2. y \in Seen(r, rows) /\ y > w.cursor
      BY <1>4
    <3>3. y \in Nat
      BY <1>3, <2>4, <3>2
    <3> HIDE DEF old, new
    <3> QED BY <2>5, <3>1, <3>2, <3>3
  <2>7. Rising(w.items \o page.items) /\ Elements(w.items \o page.items) = old \cup new
    BY <1>4, <2>2, <2>6, RisingConcat
  <2>8. \A i \in old \cup new : Sees(r, i)
    BY <1>4, <2>2, <2>3, <2>4
  <2>9. page.next # 0 => \A i \in old \cup new : i <= page.next
    BY <1>4, <2>2, <2>5
  <2>10. \A i \in w.stayed : Sees(r, i) /\ (page.next # 0 => i <= page.next) => i \in old \cup new
    <3> SUFFICES ASSUME NEW i \in w.stayed, Sees(r, i), page.next # 0 => i <= page.next PROVE i \in old \cup new
      OBVIOUS
    <3>1. i \in rows /\ i \in Nat /\ i \in Seen(r, rows)
      BY <1>3, <2>2, <2>3
    <3>2. CASE i <= w.cursor
      BY <2>2, <3>2
    <3>3. CASE i > w.cursor
      BY <1>4, <3>1, <3>3
    <3> QED BY <2>5, <3>1, <3>2, <3>3
  <2>11. The(c)' = r /\ \A i : Sees(The(c), i)' <=> Sees(r, i)
    BY <1>8 DEF r, Sees, Allows
  <2>12. walk'[c].items = w.items \o page.items /\ walk'[c].cursor = page.next /\ walk'[c].stayed = w.stayed
    <3>1. walk'[c] = [cursor |-> page.next, items |-> w.items \o page.items, stayed |-> w.stayed]
      BY <1>10
    <3> DEFINE v == walk'[c]
               z == w.items \o page.items
    <3>2. v = [cursor |-> page.next, items |-> z, stayed |-> w.stayed]
      BY <3>1
    <3> HIDE DEF v, z
    <3>3. v.items = z /\ v.cursor = page.next /\ v.stayed = w.stayed
      BY <3>2
    <3> QED BY <3>3 DEF v, z
  <2>13. walk'[c].stayed \subseteq Rows(The(c))'
    BY <1>8, <2>2, <2>12 DEF r, rows
  <2> HIDE DEF old, new
  <2> QED BY <1>6, <2>7, <2>8, <2>9, <2>10, <2>11, <2>12, <2>13 DEF Walking
<1> QED BY <1>1, <1>6, <1>8, <1>9, <1>10, <1>11, <1>12, <1>13 DEF WalksInv

\* The other steps give no page; only tables of requests that insert grow, by what is sent.
LEMMA OthersWalk ==
    ASSUME CatalogInv, WalksInv, NEW c \in Clients, HandlerStep(c) \/ Cancel(c) \/ RollBack(c), ~ List(c)
    PROVE  WalksInv'
<1> DEFINE Quiet == request' = request /\ \A d \in Clients \ {c} : answer'[d] = answer[d] /\ pc'[d] = pc[d]
<1>1. \A l, t : Goto(c, l, t) => Quiet
  BY DEF Goto, CatalogInv, ShapesOK
<1>2. \A a : Answer(c, a) => Quiet /\ (Active(c) => answer'[c] \in {a, Unheard})
  BY DEF Answer, CatalogInv, ShapesOK
<1>3. ASSUME NEW l, Runs(c, l), l # "idle" PROVE Active(c) /\ pc[c] = l /\ The(c) \in Requests /\ ItsStatement(The(c).op, l)
  <2>1. Active(c) /\ pc[c] = l /\ Fits(c, l, tx[c])
    BY <1>3, RunsActive
  <2>2. ItsStatement(The(c).op, l)
    BY <2>1 DEF Fits
  <2> QED BY <1>3, <2>1, <2>2, OneRequest, RunsActive DEF CatalogInv
<1>4. ASSUME NEW l, Runs(c, l), l \notin {"idle", "page"} PROVE ~ Lister(c)
  <2>1. CASE l \in Commits
    BY <1>3, <1>4, <2>1 DEF Commits, ItsStatement, Lister
  <2>2. CASE l \notin Commits
    BY <1>3, <1>4, <2>2, RunsActive DEF WalksInv, Walking
  <2> QED BY <2>1, <2>2
<1>5. ASSUME NEW l, Runs(c, l), l \notin {"idle", "page"}, SameTables, Quiet PROVE WalksInv'
  BY <1>4, <1>5, SameTablesNoPage
<1>6. ASSUME NEW a, a \notin {0, 200}, SameTables, Answer(c, a), Active(c) PROVE WalksInv'
  BY <1>2, <1>6, SameTablesNoPage DEF Unheard
<1>7. ASSUME NEW l, Runs(c, l), l \notin {"idle", "page"}, Quiet, NEW ch, NEW as, NEW en, Tables(ch, as, en),
             IsFiniteSet(ch), ch \subseteq Nat \ {0}, IsFiniteSet({a.id : a \in as}), {a.id : a \in as} \subseteq Nat \ {0}
      PROVE  WalksInv'
  <2>1. channels' = ch /\ AssetIds' = {a.id : a \in as}
    BY <1>7 DEF Tables, AssetIds
  <2>2. TablesFinite'
    BY <1>7, <2>1 DEF TablesFinite
  <2> QED BY <1>4, <1>7, <2>2, TablesNoPage DEF CatalogInv
<1>8. /\ IsFiniteSet(channels) /\ channels \subseteq Nat \ {0}
      /\ IsFiniteSet({a.id : a \in assets}) /\ {a.id : a \in assets} \subseteq Nat \ {0}
  BY DEF WalksInv, TablesFinite, AssetIds
<1> HIDE DEF Quiet
<1>9. CASE InsertChannel(c)
  <2>1. CASE SameTables /\ Answer(c, 409)
    BY <1>3, <1>6, <1>9, <2>1 DEF InsertChannel
  <2>2. CASE Tables(channels \cup {The(c).id}, assets, entries) /\ Goto(c, "get_created", NoTx)
    <3>1. Runs(c, "insert_channel")
      BY <1>9 DEF InsertChannel
    <3>2. The(c).id \in Nat \ {0}
      BY <1>3, <3>1, ListsAssumption DEF ItsStatement
    <3> DEFINE ch == channels \cup {The(c).id}
    <3>3. IsFiniteSet(ch) /\ ch \subseteq Nat \ {0}
      BY <1>8, <3>2, FS_AddElement
    <3>4. Tables(ch, assets, entries) /\ Quiet
      BY <1>1, <2>2
    <3> HIDE DEF ch
    <3> QED BY <1>7, <1>8, <3>1, <3>3, <3>4
  <2> QED BY <1>9, <2>1, <2>2 DEF InsertChannel
<1>10. CASE GetCreated(c) \/ UpdateChannel(c) \/ SelectEntries(c) \/ DeleteEntries(c)
  BY <1>1, <1>2, <1>5, <1>10 DEF GetCreated, UpdateChannel, SelectEntries, DeleteEntries
<1>11. CASE DeleteChannel(c) \/ GetChannel(c) \/ MissingAssets(c) \/ LockChannel(c) \/ InsertEntry(c) \/ SelectUsers(c)
  BY <1>1, <1>2, <1>5, <1>11 DEF DeleteChannel, GetChannel, MissingAssets, LockChannel, InsertEntry, SelectUsers
<1>12. CASE CommitDelete(c)
  <2>1. Runs(c, "commit_delete") /\ Tables(channels \ {The(c).id}, assets, entries \ tx[c].gone) /\ Quiet
    BY <1>2, <1>12 DEF CommitDelete
  <2>2. IsFiniteSet(channels \ {The(c).id}) /\ channels \ {The(c).id} \subseteq Nat \ {0}
    BY <1>8, FS_Subset
  <2> QED BY <1>7, <1>8, <2>1, <2>2
<1>13. CASE CommitEdit(c)
  <2>1. Runs(c, "commit_edit") /\ Tables(channels, assets, (entries \ tx[c].gone) \cup tx[c].new) /\ Quiet
    BY <1>2, <1>13 DEF CommitEdit
  <2> QED BY <1>7, <1>8, <2>1
<1>14. CASE InsertAsset(c)
  <2> DEFINE id == The(c).id
             as == assets \cup {[id |-> id, uri |-> The(c).uri]}
  <2>1. CASE SameTables /\ Answer(c, 409)
    BY <1>3, <1>6, <1>14, <2>1 DEF InsertAsset
  <2>2. CASE Tables(channels, as, entries) /\ Answer(c, 201)
    <3>1. Runs(c, "insert_asset")
      BY <1>14 DEF InsertAsset
    <3>2. id \in Nat \ {0}
      BY <1>3, <3>1, ListsAssumption DEF ItsStatement
    <3>3. {a.id : a \in as} = {a.id : a \in assets} \cup {id}
      <4> DEFINE new == [id |-> id, uri |-> The(c).uri]
      <4>1. new.id = id
        OBVIOUS
      <4>2. as = assets \cup {new}
        OBVIOUS
      <4> HIDE DEF new, as
      <4> QED BY <4>1, <4>2
    <3>4. IsFiniteSet({a.id : a \in assets} \cup {id}) /\ {a.id : a \in assets} \cup {id} \subseteq Nat \ {0}
      BY <1>8, <3>2, FS_AddElement
    <3>5. Quiet
      BY <1>2, <2>2
    <3>6. IsFiniteSet({a.id : a \in as}) /\ {a.id : a \in as} \subseteq Nat \ {0}
      BY <3>3, <3>4
    <3> HIDE DEF as
    <3> QED BY <1>7, <1>8, <2>2, <3>1, <3>5, <3>6
  <2> QED BY <1>14, <2>1, <2>2 DEF InsertAsset
<1>15. CASE DeleteAsset(c)
  <2> DEFINE as == {a \in assets : a.id # The(c).id}
  <2>1. Runs(c, "delete_asset")
    BY <1>15 DEF DeleteAsset
  <2>2. CASE SameTables /\ Quiet
    BY <1>5, <2>1, <2>2
  <2>3. CASE Tables(channels, as, entries) /\ Quiet
    <3>1. {a.id : a \in as} \subseteq {a.id : a \in assets}
      OBVIOUS
    <3>2. IsFiniteSet({a.id : a \in as}) /\ {a.id : a \in as} \subseteq Nat \ {0}
      BY <1>8, <3>1, FS_Subset
    <3> HIDE DEF as
    <3> QED BY <1>7, <1>8, <2>1, <2>3, <3>2
  <2> QED BY <1>2, <1>15, <2>2, <2>3 DEF DeleteAsset
<1>16. CASE DeadlockVictim(c) \/ RollBack(c)
  BY <1>6, <1>16 DEF DeadlockVictim, RollBack, WaitsFor, Active, Unheard
<1>17. CASE Cancel(c)
  <2>1. Quiet /\ SameTables /\ answer'[c] = Unheard
    BY <1>17 DEF Cancel, Quiet, CatalogInv, ShapesOK
  <2> QED BY <2>1, SameTablesNoPage DEF Quiet, Unheard
<1> QED BY <1>9, <1>10, <1>11, <1>12, <1>13, <1>14, <1>15, <1>16, <1>17 DEF HandlerStep

\* Walks through the lists, with the tables changing under them.
LEMMA WalksKept == CatalogInv /\ WalksInv /\ [Next]_vars => WalksInv'
<1> SUFFICES ASSUME CatalogInv, WalksInv, [Next]_vars PROVE WalksInv'
  OBVIOUS
<1>1. ASSUME UNCHANGED catalogVars PROVE WalksInv'
  <2>1. UNCHANGED <<channels, assets, request, pc, answer, walk>>
    BY <1>1 DEF catalogVars
  <2>2. AssetIds' = AssetIds /\ \A d : The(d)' = The(d)
    BY <2>1 DEF AssetIds, The
  <2>3. \A d : Rows(The(d))' = Rows(The(d)) /\ (Lister(d)' <=> Lister(d))
    BY <2>1, <2>2 DEF Rows, Lister
  <2>4. \A d \in Clients : Lister(d) => Walking(d)'
    BY <2>1, <2>3, WalkingStays DEF WalksInv, Walking
  <2>5. TablesFinite' /\ WalksTyped'
    BY <2>1, <2>2 DEF WalksInv, TablesFinite, WalksTyped
  <2> QED BY <2>1, <2>3, <2>4, <2>5 DEF WalksInv
<1>2. ASSUME NEW c \in Clients, NEW r \in Requests, Send(c, r) PROVE WalksInv'
  BY <1>2, SendWalks DEF CatalogInv
<1>3. ASSUME NEW c \in Clients, HandlerStep(c) \/ Cancel(c) \/ RollBack(c) PROVE WalksInv'
  BY <1>3, ListWalks, OthersWalk
<1> QED BY <1>1, <1>2, <1>3 DEF Next, vars

\* A walk through the pages of a list is complete and gives nothing twice, and nothing that the key may not see, for any
\* lists, page sizes and keys, however channels and assets are created and deleted between the pages.
THEOREM WalksAreComplete == Spec => []WalkIsComplete
<1>1. Init => MigrationsInv /\ CatalogInv /\ WalksInv
  BY MigrationsStart, CatalogStart, WalksStart DEF Init
<1>2. ShapesOK /\ WalksInv => WalkIsComplete
  <2> DEFINE Given(items) == {items[n] : n \in DOMAIN items}
             Complete(d) == LET items == walk[d].items IN
                            /\ Cardinality(Given(items)) = Len(items)
                            /\ \A i \in Given(items) : Sees(The(d), i)
                            /\ \A i \in walk[d].stayed : Sees(The(d), i) => i \in Given(items)
             Done(d) == answer[d] = 200 /\ \E r \in request[d] : r.op \in {"list_channels", "list_assets"}
  <2>0. WalkIsComplete <=> \A c \in Clients : Done(c) => Complete(c)
    BY Zenon DEF WalkIsComplete
  <2> HIDE DEF Complete, Done
  <2> SUFFICES ASSUME ShapesOK, WalksInv, NEW c \in Clients, Done(c) PROVE Complete(c)
    BY <2>0
  <2> USE DEF Done
  <2>1. request[c] = {The(c)}
    BY OneRequest
  <2>2. Walking(c)
    BY <2>1 DEF WalksInv, Lister
  <2> DEFINE items == walk[c].items
  <2>3. Rising(items)
    BY <2>2 DEF Walking
  <2>4. DOMAIN items = 1 .. Len(items)
    BY <2>3 DEF Rising
  <2>5. Elements(items) = {items[n] : n \in DOMAIN items}
    BY <2>4 DEF Elements
  <2>6. Cardinality(Elements(items)) = Len(items)
    BY <2>3, RisingOnce
  <2>7. Cardinality(Given(items)) = Len(items)
    BY <2>5, <2>6
  <2>8. \A i \in Given(items) : Sees(The(c), i)
    BY <2>2, <2>5 DEF Walking
  <2>9. \A i \in walk[c].stayed : Sees(The(c), i) => i \in Given(items)
    BY <2>2, <2>5 DEF Walking
  <2> QED BY <2>7, <2>8, <2>9 DEF Complete
<1>3. CatalogInv => ShapesOK
  BY DEF CatalogInv
<1> QED BY <1>1, <1>2, <1>3, CatalogKept, WalksKept, PTL DEF Spec
=============================================================================
