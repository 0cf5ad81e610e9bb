----------------------------- MODULE SqlClients -----------------------------
(***************************************************************************)
(* query() of the four SQL clients, which take no notice of options.timeout*)
(* and options.signal.  An Error holds no rows and counts zero of them.    *)
(***************************************************************************)
EXTENDS Operations

QueryResult ==
  LET data(rows, count) == [rows |-> rows, rowCount |-> count,
                            lastInsertId |-> Null, warnings |-> Null]
  IN Result("sql", data(EmptyList, Zero), data(Null, Null))

\* rows and rowCount of a statement that returns rows, and of another one
Rows == {<<EmptyList, Zero>>, <<List, Number>>}
Count == {<<EmptyList, Zero>>, <<EmptyList, Number>>}

Query(name, results, ids, warnings, failures) ==
  Operation(name, QueryResult,
            {Success([rows |-> r[1], rowCount |-> r[2],
                      lastInsertId |-> id, warnings |-> w]) :
               r \in results, id \in ids, w \in warnings},
            failures, {"closed", "answer"})

\* isConnectionError looks for words such as "timeout" or "pool" in any message.
mapPostgresError == {"closed", "connection", "misread"}
postgres == Query("postgres", Rows \cup Count, {Null}, {Null}, mapPostgresError)

\* The reply to INSERT, UPDATE or DELETE may have an id and a count of warnings.
convertMySqlError == {"closed", "connection", "misread"}
mysql == Query("mysql", Rows \cup Count, {Null, Number}, {Null, List}, convertMySqlError)

\* lastInsertRowId is that of the connection's last INSERT, whatever ran now.
convertSqliteError == {"closed", "connection", "misread"}
sqlite == Query("sqlite", Rows \cup Count, {Null, Number}, {Null}, convertSqliteError)

\* A statement that is no SELECT counts the rows DuckDB returned and drops them.
convertDuckDbError == {"closed", "connection", "misread"}
duckdb == Query("duckdb", Rows \cup Count, {Null}, {Null}, convertDuckDbError)

Commands == {postgres, mysql, sqlite, duckdb}

=============================================================================
