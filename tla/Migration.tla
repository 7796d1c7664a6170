----------------------------- MODULE Migration ------------------------------
(***************************************************************************)
(* The Alembic migration that creates the trading tables                   *)
(* (migrations/versions/2fb880750d65), run statement by statement in one   *)
(* PostgreSQL transaction (migrations/env.py) by the migrate job, by       *)
(* `make migrate` or by a developer; nothing keeps two of them apart.      *)
(* PostgreSQL and Alembic's own bookkeeping are external: DDL is           *)
(* transactional, and a statement waits for the open transaction that      *)
(* touched the same table.                                                 *)
(***************************************************************************)
EXTENDS Naturals, Sequences

CONSTANTS
    Migrators,     \* processes that may run alembic
    MaxCommands    \* bound: alembic commands started in a behaviour

MigrationAssumption == MaxCommands \in Nat

VARIABLES
    tables,        \* the committed schema: table -> {} or {its definition}
    own,           \* own[m]: the tables m's open transaction has changed
    command,       \* command[m]: "none", "upgrade" (head) or "downgrade" (base)
    plan,          \* plan[m]: the function alembic decided to run, or "nothing"
    at,            \* at[m]: the statement of the plan m is about to execute
    state,         \* state[m]: "idle", "connected", "running", "ok", "failed"
    disturbed,     \* disturbed[m]: another commit came after m read the version
    started        \* commands started so far

vars == <<tables, own, command, plan, at, state, disturbed, started>>

-----------------------------------------------------------------------------
(* A table: its columns (types are left out), those that may be NULL, its  *)
(* unique columns, the keys it references, and its indexes.                *)
Table(columns, unique) ==
    [columns |-> columns, nullable |-> {}, unique |-> unique,
     references |-> {}, indexes |-> {}]

VersionTable == "alembic_version"
AtHead == [version |-> "2fb880750d65"]
AtBase == [version |-> "none"]

CreateTable(t, def) == [op |-> "create_table", table |-> t, def |-> def]
CreateIndex(t, cols) == [op |-> "create_index", table |-> t, index |-> cols]
DropIndex(t, cols) == [op |-> "drop_index", table |-> t, index |-> cols]
DropTable(t) == [op |-> "drop_table", table |-> t]
Stamp(version) == [op |-> "stamp", table |-> VersionTable, version |-> version]

CreateEquitySnapshots ==
    <<CreateTable("equity_snapshots", Table(
          {"id", "cycle_id", "symbol", "mark_price", "cash_quote",
           "position_quantity", "equity_quote", "day_opening_equity",
           "taken_at"}, {"id"})),
      CreateIndex("equity_snapshots", <<"cycle_id">>),
      CreateIndex("equity_snapshots", <<"symbol", "taken_at">>)>>

OrderColumns ==
    {"id", "client_order_id", "cycle_id", "symbol", "side", "quantity",
     "reference_price", "status", "venue_order_id", "rejection_reason",
     "decision_reason", "created_at"}

\* A mutant: nothing makes the client order id unique.
CreateOrdersNotUnique ==
    <<CreateTable("orders",
          [Table(OrderColumns, {"id"})
              EXCEPT !.nullable = {"venue_order_id", "rejection_reason"}]),
      CreateIndex("orders", <<"cycle_id">>)>>

CreateOrders ==
    <<CreateTable("orders",
          [Table(OrderColumns, {"id", "client_order_id"})
              EXCEPT !.nullable = {"venue_order_id", "rejection_reason"}]),
      CreateIndex("orders", <<"cycle_id">>)>>

CreatePositions ==
    <<CreateTable("positions", Table(
          {"symbol", "quantity", "average_price", "updated_at"}, {"symbol"}))>>

CreateSignals ==
    <<CreateTable("signals", Table(
          {"id", "cycle_id", "symbol", "strategy", "action", "strength",
           "reason", "context", "as_of", "created_at"}, {"id"})),
      CreateIndex("signals", <<"cycle_id">>),
      CreateIndex("signals", <<"symbol", "as_of">>)>>

CreateFills ==
    <<CreateTable("fills",
          [Table({"id", "order_id", "client_order_id", "symbol", "side",
                  "quantity", "price", "fee_quote", "filled_at"}, {"id"})
              EXCEPT !.references = {<<"order_id", "orders", "id">>}]),
      CreateIndex("fills", <<"client_order_id">>),
      CreateIndex("fills", <<"order_id">>)>>

\* A mutant: fills come before the orders they reference.
UpgradeFillsFirst ==
    CreateEquitySnapshots \o CreateFills \o CreateOrders \o CreatePositions
    \o CreateSignals \o <<Stamp(AtHead)>>

(* upgrade(), and the row Alembic writes after it. *)
Upgrade ==
    CreateEquitySnapshots \o CreateOrders \o CreatePositions \o CreateSignals
    \o CreateFills \o <<Stamp(AtHead)>>

(* downgrade(), likewise. *)
Downgrade ==
    <<DropIndex("fills", <<"order_id">>),
      DropIndex("fills", <<"client_order_id">>),
      DropTable("fills"),
      DropIndex("signals", <<"symbol", "as_of">>),
      DropIndex("signals", <<"cycle_id">>),
      DropTable("signals"),
      DropTable("positions"),
      DropIndex("orders", <<"cycle_id">>),
      DropTable("orders"),
      DropIndex("equity_snapshots", <<"symbol", "taken_at">>),
      DropIndex("equity_snapshots", <<"cycle_id">>),
      DropTable("equity_snapshots"),
      Stamp(AtBase)>>

Script(p) == CASE p = "upgrade" -> Upgrade
               [] p = "downgrade" -> Downgrade
               [] OTHER -> <<>>

-----------------------------------------------------------------------------
(* Base.metadata: what the code of the bot expects of the database.        *)
TradingTables == {"equity_snapshots", "orders", "positions", "signals", "fills"}

Indexed(def, indexes) == [def EXCEPT !.indexes = indexes]

Models == [
    signals |-> Indexed(
        Table({"id", "cycle_id", "symbol", "strategy", "action", "strength",
               "reason", "context", "as_of", "created_at"}, {"id"}),
        {<<"cycle_id">>, <<"symbol", "as_of">>}),
    orders |-> [
        columns |-> {"id", "client_order_id", "cycle_id", "symbol", "side",
                     "quantity", "reference_price", "status",
                     "venue_order_id", "rejection_reason", "decision_reason",
                     "created_at"},
        nullable |-> {"venue_order_id", "rejection_reason"},
        unique |-> {"id", "client_order_id"}, references |-> {},
        indexes |-> {<<"cycle_id">>}],
    fills |-> [
        columns |-> {"id", "order_id", "client_order_id", "symbol", "side",
                     "quantity", "price", "fee_quote", "filled_at"},
        nullable |-> {}, unique |-> {"id"},
        references |-> {<<"order_id", "orders", "id">>},
        indexes |-> {<<"order_id">>, <<"client_order_id">>}],
    positions |-> Table(
        {"symbol", "quantity", "average_price", "updated_at"}, {"symbol"}),
    equity_snapshots |-> Indexed(
        Table({"id", "cycle_id", "symbol", "mark_price", "cash_quote",
               "position_quantity", "equity_quote", "day_opening_equity",
               "taken_at"}, {"id"}),
        {<<"cycle_id">>, <<"symbol", "taken_at">>})]

-----------------------------------------------------------------------------
(* PostgreSQL: what m's statements see, when one fails, when it waits.     *)

Touched(m) == DOMAIN own[m]

View(m) ==
    [t \in DOMAIN tables |-> IF t \in Touched(m) THEN own[m][t] ELSE tables[t]]

Exists(m, t) == View(m)[t] # {}

DefinitionOf(m, t) == CHOOSE def \in View(m)[t] : TRUE

ReferencesResolve(m, def) ==
    \A ref \in def.references :
        Exists(m, ref[2]) /\ ref[3] \in DefinitionOf(m, ref[2]).unique

Referenced(m, t) ==
    \E u \in TradingTables \ {t} :
        \E def \in View(m)[u] : \E ref \in def.references : ref[2] = t

Possible(m, s) ==
    CASE s.op = "create_table" -> ~Exists(m, s.table) /\ ReferencesResolve(m, s.def)
      [] s.op = "drop_table" -> Exists(m, s.table) /\ ~Referenced(m, s.table)
      [] s.op = "create_index" ->
            /\ Exists(m, s.table)
            /\ s.index \notin DefinitionOf(m, s.table).indexes
            /\ \A i \in DOMAIN s.index :
                   s.index[i] \in DefinitionOf(m, s.table).columns
      [] s.op = "drop_index" ->
            Exists(m, s.table) /\ s.index \in DefinitionOf(m, s.table).indexes
      [] OTHER -> Exists(m, s.table)

MustWait(m, t) == \E o \in Migrators \ {m} : t \in Touched(o)

Result(m, s) ==
    CASE s.op = "create_table" -> {s.def}
      [] s.op = "drop_table" -> {}
      [] s.op = "create_index" ->
            {[DefinitionOf(m, s.table) EXCEPT !.indexes = @ \cup {s.index}]}
      [] s.op = "drop_index" ->
            {[DefinitionOf(m, s.table) EXCEPT !.indexes = @ \ {s.index}]}
      [] OTHER -> {s.version}

-----------------------------------------------------------------------------
Init ==
    /\ tables = [t \in TradingTables \cup {VersionTable} |-> {}]
    /\ own = [m \in Migrators |-> <<>>]
    /\ command = [m \in Migrators |-> "none"]
    /\ plan = [m \in Migrators |-> "nothing"]
    /\ at = [m \in Migrators |-> 1]
    /\ state = [m \in Migrators |-> "idle"]
    /\ disturbed = [m \in Migrators |-> FALSE]
    /\ started = 0

(* alembic upgrade head, or downgrade base: without BOT_DATABASE_URL it    *)
(* fails before it connects.                                               *)
Start(m) ==
    /\ state[m] \in {"idle", "ok", "failed"}
    /\ started < MaxCommands
    /\ started' = started + 1
    /\ \E c \in {"upgrade", "downgrade"}, outcome \in {"connected", "failed"} :
          /\ command' = [command EXCEPT ![m] = c]
          /\ state' = [state EXCEPT ![m] = outcome]
    /\ plan' = [plan EXCEPT ![m] = "nothing"]
    /\ UNCHANGED <<tables, own, at, disturbed>>

(* run_migrations reads the version, without a lock, and plans.            *)
ReadVersion(m) ==
    /\ state[m] = "connected"
    /\ state' = [state EXCEPT ![m] = "running"]
    /\ plan' = [plan EXCEPT ![m] =
           IF command[m] = "upgrade" /\ tables[VersionTable] # {AtHead}
           THEN "upgrade"
           ELSE IF command[m] = "downgrade" /\ tables[VersionTable] = {AtHead}
           THEN "downgrade" ELSE "nothing"]
    /\ at' = [at EXCEPT ![m] = 1]
    /\ disturbed' = [disturbed EXCEPT ![m] = FALSE]
    /\ UNCHANGED <<tables, own, command, started>>

Write(m, t, defs) ==
    own' = [own EXCEPT ![m] =
               [u \in Touched(m) \cup {t} |-> IF u = t THEN defs ELSE own[m][u]]]

(* Alembic creates its version table in the same transaction.              *)
EnsureVersionTable(m) ==
    /\ state[m] = "running"
    /\ plan[m] # "nothing"
    /\ ~Exists(m, VersionTable)
    /\ ~MustWait(m, VersionTable)
    /\ Write(m, VersionTable, {AtBase})
    /\ UNCHANGED <<tables, command, plan, at, state, disturbed, started>>

Executing(m) ==
    /\ state[m] = "running"
    /\ at[m] <= Len(Script(plan[m]))
    /\ Exists(m, VersionTable)

Execute(m) ==
    LET s == Script(plan[m])[at[m]] IN
    /\ Executing(m)
    /\ Possible(m, s)
    /\ ~MustWait(m, s.table)
    /\ Write(m, s.table, Result(m, s))
    /\ at' = [at EXCEPT ![m] = @ + 1]
    /\ UNCHANGED <<tables, command, plan, state, disturbed, started>>

(* The end of the connection without a commit. *)
RollBack(m) ==
    /\ own' = [own EXCEPT ![m] = <<>>]
    /\ state' = [state EXCEPT ![m] = "failed"]
    /\ UNCHANGED <<tables, command, plan, at, disturbed, started>>

(* A statement fails; begin_transaction rolls back and alembic exits.      *)
StatementFails(m) ==
    /\ Executing(m)
    /\ ~Possible(m, Script(plan[m])[at[m]])
    /\ RollBack(m)

(* The job's timeout, or a lost connection.                                *)
Kill(m) ==
    /\ state[m] = "running"
    /\ RollBack(m)

(* The end of context.begin_transaction(). *)
Commit(m) ==
    /\ state[m] = "running"
    /\ at[m] > Len(Script(plan[m]))
    /\ tables' = View(m)
    /\ own' = [own EXCEPT ![m] = <<>>]
    /\ state' = [state EXCEPT ![m] = "ok"]
    /\ disturbed' = [o \in Migrators |->
           disturbed[o] \/ (o # m /\ plan[m] # "nothing")]
    /\ UNCHANGED <<command, plan, at, started>>

Next == \E m \in Migrators :
    \/ Start(m) \/ ReadVersion(m) \/ EnsureVersionTable(m) \/ Execute(m)
    \/ StatementFails(m) \/ Kill(m) \/ Commit(m)

Spec == Init /\ [][Next]_vars

-----------------------------------------------------------------------------
(* At every commit, whatever was killed, failed or ran beside it, the      *)
(* version row tells the schema: at head every table is what the models of *)
(* the bot expect, otherwise there is no trading table at all.             *)
VersionTellsTheSchema ==
    IF tables[VersionTable] = {AtHead}
    THEN \A t \in TradingTables : tables[t] = {Models[t]}
    ELSE \A t \in TradingTables : tables[t] = {}

(* A migration only fails on a statement because another one committed     *)
(* after it read the version: alone, upgrade and downgrade never meet a    *)
(* missing referenced table, a dropped index or a table already there.     *)
OnlyRivalsMakeItFail ==
    \A m \in Migrators :
        Executing(m) /\ ~disturbed[m] => Possible(m, Script(plan[m])[at[m]])
=============================================================================
