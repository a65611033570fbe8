--------------------------------- MODULE Db ---------------------------------
(* packages/vais-web/packages/db: server actions over the transactions of a  *)
(* driver (dt), the migration runner (dm), and the pure parts, one input at  *)
(* a time: the query builders, DDL, schema diffs and serialization (dq).     *)
EXTENDS Naturals, FiniteSets, Sequences, SequencesExt

CONSTANTS Actions,     \* calls of a createServerAction handler
          Retries, Statements, PoolSize,
          Timeout,     \* whether config.timeout is set
          DriverKind,  \* "postgres", "mysql" or "sqlite"
          Versions,    \* versions of the migrations, in the order given
          Throws,      \* migrations (positions) whose up() may throw
          MaxClients,  \* bound: clients the pool loses
          MaxLost      \* times a migration is run by a migrate() that then throws

\* Of the constants, for the proofs.
DbAssumption == /\ IsFiniteSet(Actions) /\ {Retries, Statements, PoolSize, MaxClients, MaxLost} \subseteq Nat
                /\ Timeout \in BOOLEAN /\ Versions \in Seq(Nat)

VARIABLES dt, dm, dq
dbVars == <<dt, dm, dq>>

----------------------------------------------------------------------------
(* Server actions.  An attempt is one transaction(); its writes are the      *)
(* pairs <<attempt, statement>>.  A postgres transaction has a client of the *)
(* pool to itself, mysql has one connection, and sqlite no transactions.     *)
Attempts == Actions \X (1 .. Retries + 1)
Conn(a) == IF DriverKind = "postgres" THEN a ELSE CHOOSE b \in Attempts : TRUE
DTInit == dt = [pc |-> [a \in Attempts |-> "none"], done |-> [a \in Attempts |-> 0],
                dirty |-> [a \in Attempts |-> {}], data |-> {}, free |-> PoolSize, lost |-> 0,
                action |-> [x \in Actions |-> "idle"], attempt |-> [x \in Actions |-> 1],
                timedOut |-> {}]

Release(s) == IF DriverKind = "postgres" THEN [s EXCEPT !.free = @ + 1] ELSE s
FlushWrites(s, a) == [s EXCEPT !.data = @ \cup s.dirty[Conn(a)], !.dirty[Conn(a)] = {}]

\* The catch of createServerAction: the next attempt, or the error.
AttemptFailed(s, x) ==
  IF s.attempt[x] <= Retries
  THEN [s EXCEPT !.attempt[x] = @ + 1, !.pc[<<x, s.attempt[x] + 1>>] = "connecting"]
  ELSE [s EXCEPT !.action[x] = "error"]
\* The promise of an attempt settles; only the current one is waited for.
SettleAttempt(s, a, outcome) ==
  LET x == a[1] s1 == [s EXCEPT !.pc[a] = outcome]
  IN CASE s.action[x] # "running" \/ s.attempt[x] # a[2] -> s1
       [] s.action[x] = "running" /\ s.attempt[x] = a[2] ->
            IF outcome = "ok" THEN [s1 EXCEPT !.action[x] = "ok"] ELSE AttemptFailed(s1, x)

CallAction(x) == /\ dt.action[x] = "idle"
                 /\ dt' = [dt EXCEPT !.action[x] = "running", !.pc[<<x, 1>>] = "connecting"]
BeginTransaction(a) ==
  /\ dt.pc[a] = "connecting"
  /\ CASE DriverKind = "postgres" -> /\ dt.free > 0
                                     /\ dt' = [dt EXCEPT !.free = @ - 1, !.pc[a] = "open"]
       [] DriverKind = "mysql" -> dt' = [FlushWrites(dt, a) EXCEPT !.pc[a] = "open"]
       [] OTHER -> dt' = [dt EXCEPT !.pc[a] = "open"]
\* BEGIN fails on a client that nothing gives back.
BeginFails(a) ==
  /\ DriverKind = "postgres" /\ dt.pc[a] = "connecting" /\ dt.free > 0 /\ dt.lost < MaxClients
  /\ dt' = SettleAttempt([dt EXCEPT !.free = @ - 1, !.lost = @ + 1], a, "error")
Statement(a) ==
  /\ dt.pc[a] = "open" /\ dt.done[a] < Statements
  /\ LET write == <<a, dt.done[a] + 1>> s1 == [dt EXCEPT !.done[a] = @ + 1]
     IN dt' = IF DriverKind = "sqlite" THEN [s1 EXCEPT !.data = @ \cup {write}]
              ELSE [s1 EXCEPT !.dirty[Conn(a)] = @ \cup {write}]
Commit(a) == /\ dt.pc[a] = "open" /\ dt.done[a] = Statements
             /\ dt' = SettleAttempt(Release(FlushWrites(dt, a)), a, "ok")
\* Broken variant: the writes of a failed attempt are kept.
FlushAnyway(a) == /\ dt.pc[a] = "open"
                  /\ dt' = SettleAttempt(Release(FlushWrites(dt, a)), a, "error")
\* What rollback() leaves.  A ROLLBACK that fails throws before the client of postgres
\* is released, with the transaction nobody will commit; mysql rolls nothing back when
\* COMMIT failed, for the transaction is closed by then, and its connection has the writes.
RolledBack(a) ==
  LET dropped == [dt EXCEPT !.dirty[Conn(a)] = {}]
  IN {Release(dropped)}
     \cup (IF DriverKind = "postgres" /\ dt.lost < MaxClients THEN {[dropped EXCEPT !.lost = @ + 1]} ELSE {})
     \cup (IF DriverKind = "mysql" THEN {dt} ELSE {})
\* The handler throws, or COMMIT fails.
Rollback(a) == /\ dt.pc[a] = "open"
               /\ \E s \in RolledBack(a) : dt' = SettleAttempt(s, a, "error")
\* The race of createServerAction: the attempt itself goes on.
TimeoutFires(x) ==
  /\ Timeout /\ dt.action[x] = "running"
  /\ dt' = AttemptFailed([dt EXCEPT !.timedOut = @ \cup {<<x, dt.attempt[x]>>}], x)
DTNext == \/ \E x \in Actions : CallAction(x) \/ TimeoutFires(x)
          \/ \E a \in Attempts : BeginTransaction(a) \/ BeginFails(a) \/ Statement(a)
                                 \/ Commit(a) \/ Rollback(a)

----------------------------------------------------------------------------
(* MigrationRunner: each migration is a position; ran counts what the caller *)
(* was given to execute, up minus down, and lost what it was not given.      *)
Migrations == DOMAIN Versions
\* By version; migrations of one version stay in the order given.
Before(i, j) == Versions[i] < Versions[j] \/ (Versions[i] = Versions[j] /\ i < j)
DMInit == dm = [applied |-> {}, ran |-> [m \in Migrations |-> 0], lost |-> [m \in Migrations |-> 0]]
Pending == {m \in Migrations : Versions[m] \notin dm.applied}
\* A throwing up() leaves the versions before it applied and returns nothing.
Counted(count, ms) == [m \in Migrations |-> count[m] + IF m \in ms THEN 1 ELSE 0]
Migrate ==
  \E bad \in SUBSET (Pending \cap Throws) :
    LET reached == {m \in Pending : \A b \in bad : Before(m, b)}
    IN /\ Pending # {} /\ \A m \in reached : bad = {} \/ dm.lost[m] < MaxLost
       /\ dm' = [applied |-> dm.applied \cup {Versions[m] : m \in reached},
                 ran |-> Counted(dm.ran, IF bad = {} THEN reached ELSE {}),
                 lost |-> Counted(dm.lost, IF bad = {} THEN {} ELSE reached)]
RollbackLast ==
  \E last \in Migrations \ Pending :
    /\ \A m \in Migrations \ Pending : m = last \/ Before(m, last)
    /\ dm' = [dm EXCEPT !.applied = @ \ {Versions[last]}, !.ran[last] = @ - 1]
DMNext == Migrate \/ RollbackLast

----------------------------------------------------------------------------
(* The pure parts.  A condition is an operator with its values.              *)
Conditions == {[op |-> "=", values |-> <<1>>], [op |-> "IN", values |-> <<2, 3>>],
               [op |-> "IS NULL", values |-> <<>>]}
Columns == [c : {"id", "name", "team"}, pk : BOOLEAN, nullable : BOOLEAN]
Inputs == [where : SeqOf(Conditions, 2), having : SeqOf(Conditions, 1), limit : {<<>>, <<7>>},
           offset : {<<>>, <<8>>}, data : {<<4>>, <<5, 6>>},
           old : SUBSET {"id", "name"}, new : SUBSET {"id", "team"}, sameTable : BOOLEAN]

\* A condition resolved in order: its placeholders are the next indices.
ResolveCondition(q, cond) ==
  LET n == IF cond.op \in {"IS NULL", "IS NOT NULL"} THEN 0
           ELSE IF cond.op = "IN" THEN Len(cond.values) ELSE 1
  IN [params |-> q.params \o SubSeq(cond.values, 1, n),
      sql |-> q.sql \o [i \in 1 .. n |-> Len(q.params) + i]]
ResolveConditions(q, conds) == FoldLeft(ResolveCondition, q, conds)
Bind(q, values) == [params |-> q.params \o values,
                    sql |-> q.sql \o [i \in DOMAIN values |-> Len(q.params) + i]]
Empty == [params |-> <<>>, sql |-> <<>>]
SelectSQL(i) == Bind(Bind(ResolveConditions(ResolveConditions(Empty, i.where), i.having), i.limit), i.offset)
InsertSQL(i) == Bind(Empty, i.data)
UpdateSQL(i) == ResolveConditions(Bind(Empty, i.data), i.where)
DeleteSQL(i) == ResolveConditions(Empty, i.where)
ClientUpdateSQL(i) == Bind(Bind(Empty, i.data), i.limit)

\* The constraints that a builder writes for a column: schema.ts and
\* migration.ts, and the sqlite and postgres drivers in their own order.
ColumnDDL(col) == (IF col.pk THEN {"PRIMARY KEY"} ELSE {})
                  \cup (IF ~col.nullable /\ ~col.pk THEN {"NOT NULL"} ELSE {})
BuildColumnDef(col) == CASE col.pk -> {"PRIMARY KEY"} [] ~col.pk /\ col.nullable -> {}
                         [] OTHER -> {"NOT NULL"}

\* diffSchemas(): statements over a table of columns; an old schema without
\* columns stands for null.
DiffUp(i) ==
  CASE i.old = {} -> <<[do |-> "create", cols |-> i.new]>>
    [] i.old # {} /\ ~i.sameTable -> <<[do |-> "drop", cols |-> {}], [do |-> "create", cols |-> i.new]>>
    [] OTHER -> <<[do |-> "add", cols |-> i.new \ i.old], [do |-> "remove", cols |-> i.old \ i.new]>>
DiffDown(i) ==
  CASE i.old = {} -> <<[do |-> "drop", cols |-> {}]>>
    [] i.old # {} /\ ~i.sameTable -> <<[do |-> "drop", cols |-> {}], [do |-> "create", cols |-> i.old]>>
    [] OTHER -> <<[do |-> "remove", cols |-> i.new \ i.old], [do |-> "add", cols |-> i.old \ i.new]>>

\* Values that cross the server boundary: the keys that schema lists come back.
Kinds == {"date", "bigint", "string", "undefined"}
SerializeValue(kind) == CASE kind = "date" -> "iso" [] kind = "bigint" -> "digits" [] OTHER -> kind
SerializeResult(row) == [k \in {x \in DOMAIN row : row[x] # "undefined"} |-> SerializeValue(row[k])]
DeserializeResult(row, schema) ==
  [k \in DOMAIN row |-> CASE k \in schema.dates /\ row[k] = "iso" -> "date"
                          [] k \in schema.bigints /\ row[k] = "digits" -> "bigint"
                          [] OTHER -> row[k]]

\* The in-memory stand-ins of the drivers: rows kept, rows affected, rows read.
SqliteMock(kind, rows) ==
  CASE kind = "INSERT" -> [rows |-> rows + 1, affected |-> 1, read |-> 0]
    [] kind = "UPDATE" -> [rows |-> rows, affected |-> rows, read |-> 0]
    [] kind = "DELETE" -> [rows |-> 0, affected |-> rows, read |-> 0]
    [] OTHER -> [rows |-> rows, affected |-> 0, read |-> rows]
MysqlMock(kind, rows) ==
  [rows |-> CASE kind = "INSERT" -> rows + 1 [] kind = "DELETE" -> 0 [] OTHER -> rows,
   affected |-> CASE kind = "INSERT" -> 1 [] kind \in {"UPDATE", "DELETE"} -> rows [] OTHER -> 0,
   read |-> IF kind = "SELECT" THEN rows ELSE 0]
PostgresMock(kind, rows) ==
  LET rowCount == CASE kind = "INSERT" -> 1 [] OTHER -> rows
  IN [rows |-> CASE kind = "INSERT" -> rows + 1 [] kind = "DELETE" -> 0 [] OTHER -> rows,
      affected |-> IF kind = "SELECT" THEN 0 ELSE rowCount, read |-> IF kind = "SELECT" THEN rows ELSE 0]

\* withRollback(): the error of the driver, then the one of the callback.
WithRollback(began, callback, rolledBack) ==
  CASE ~began \/ ~rolledBack -> "driver error"
    [] began /\ rolledBack /\ callback = "throws" -> "callback error"
    [] OTHER -> "result"

DQInit == dq \in Inputs

----------------------------------------------------------------------------
DbTypes ==
  /\ \A a \in Attempts : dt.pc[a] \in {"none", "connecting", "open", "ok", "error"}
  /\ dt.data \subseteq Attempts \X (1 .. Statements) /\ dt.free \in 0 .. PoolSize
  /\ dm.applied \subseteq ToSet(Versions) /\ dq \in Inputs

\* Every write of a committed attempt is kept and none of one that failed; but
\* for attempts that timed out, which go on and may still commit, an action is
\* applied once if it succeeds and not at all if it fails, whatever was retried
\* (server.ts:222, client.ts:196).
ActionAtomic ==
  /\ \A a \in Attempts : dt.pc[a] \in {"ok", "error"} =>
       {i \in 1 .. Statements : <<a, i>> \in dt.data} = IF dt.pc[a] = "ok" THEN 1 .. Statements ELSE {}
  /\ \A x \in Actions : dt.action[x] \in {"ok", "error"} =>
       Cardinality({a \in Attempts \ dt.timedOut : a[1] = x /\ dt.pc[a] = "ok"})
         = IF dt.action[x] = "ok" THEN 1 ELSE 0

\* A client of the pool is in one transaction or free, except those on which
\* BEGIN or ROLLBACK failed: they never come back (postgres.ts:266, 308).
PoolKept == DriverKind = "postgres" =>
  dt.free + dt.lost + Cardinality({a \in Attempts : dt.pc[a] = "open"}) = PoolSize

\* What the runner reports as applied has no gap, whatever up() throws, and if
\* versions are distinct it is what its caller was given to run, except what a
\* migrate() ran that then threw (migration.ts:358, 372).
AppliedMatches ==
  /\ \A m, n \in Migrations :
       Before(m, n) /\ Versions[n] \in dm.applied => Versions[m] \in dm.applied
  /\ IsInjective(Versions) =>
       \A m \in Migrations : dm.ran[m] + dm.lost[m] = IF Versions[m] \in dm.applied THEN 1 ELSE 0

\* The n-th placeholder of a statement is bound to the n-th value, in the
\* order in which the builder was given them; a diff leads from the old
\* columns to the new ones and back; the builders agree on the constraints
\* and the stand-ins of the drivers on the rows.
Flat(conds) == FlattenSeq([j \in DOMAIN conds |-> conds[j].values])
After(cols, stmts) == FoldLeft(LAMBDA t, s : CASE s.do = "create" -> s.cols [] s.do = "drop" -> {}
                                               [] s.do = "add" -> t \cup s.cols
                                               [] OTHER -> t \ s.cols, cols, stmts)
StatementsRight ==
  /\ \A q \in {SelectSQL(dq), InsertSQL(dq), UpdateSQL(dq), DeleteSQL(dq), ClientUpdateSQL(dq)} :
       q.sql = [j \in DOMAIN q.params |-> j]
  /\ SelectSQL(dq).params = Flat(dq.where) \o Flat(dq.having) \o dq.limit \o dq.offset
  /\ UpdateSQL(dq).params = dq.data \o Flat(dq.where)
  /\ After(dq.old, DiffUp(dq)) = dq.new
  /\ After(dq.new, DiffDown(dq)) = dq.old
  /\ \A col \in Columns : ColumnDDL(col) = BuildColumnDef(col)
  /\ \A kind \in {"INSERT", "UPDATE", "DELETE", "SELECT"}, n \in 0 .. 2 :
       /\ SqliteMock(kind, n) = MysqlMock(kind, n)
       /\ MysqlMock(kind, n) = PostgresMock(kind, n)
  /\ \A b, r \in BOOLEAN : WithRollback(b, "returns", r) = "result" <=> b /\ r
  /\ LET row == [k \in dq.old |-> IF k = "id" THEN "bigint" ELSE "date"]
     IN DeserializeResult(SerializeResult(row), [dates |-> {"name"}, bigints |-> {"id"}]) = row
=============================================================================
