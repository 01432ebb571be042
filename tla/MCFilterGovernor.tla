-------------------------- MODULE MCFilterGovernor --------------------------
(* The two threads of the dual-writer that ask, one exact rule and one
   pattern, and statements on tables that meet each or neither, two of them
   under another name:
     INSERT INTO ks.log ... 'from'        UPDATE ks.migrations SET updated_at ...
     DELETE FROM ks.files                 DELETE FROM ks.log WHERE updated_at ...
     UPDATE ks.files SET note = 'into x'  DELETE fromd_at FROM ks.log
     INSERT INTO migrations               INSERT INTO ks.LOG *)
EXTENDS FilterGovernor

CONSTANTS io, retry, ks, log, LOG, migrations, files, d_at, word

MCCallers == {io, retry}
MCConfig == {<<ks, log>>, <<Star, migrations>>}
MCEdited == {<<ks, log>>, <<Star, migrations>>, <<ks, files>>}

Keyword(k) == [name |-> <<Unqualified, k>>, keyword |-> k, rest |-> Nothing]
Name(n) == [name |-> n, keyword |-> Nothing, rest |-> Nothing]
Other == Name(<<Unqualified, word>>)
Within(k, r) == [name |-> <<Unqualified, word>>, keyword |-> k, rest |-> <<Unqualified, r>>]

Insert(n, more) ==
  [verb |-> "INSERT", target |-> n, words |-> <<Other, Keyword("INTO"), Name(n)>> \o more]
Update(n, more) ==
  [verb |-> "UPDATE", target |-> n, words |-> <<Keyword("UPDATE"), Name(n)>> \o more]
Delete(columns, n, more) ==
  [verb |-> "DELETE", target |-> n,
   words |-> <<Other>> \o columns \o <<Keyword("FROM"), Name(n)>> \o more]

MCStatements ==
  { Insert(<<ks, log>>, <<Other, Keyword("FROM")>>),
    Insert(<<Unqualified, migrations>>, << >>),
    Insert(<<ks, LOG>>, << >>),
    Update(<<ks, migrations>>, <<Other, Within("UPDATE", d_at)>>),
    Update(<<ks, files>>, <<Other, Keyword("INTO"), Other>>),
    Delete(<< >>, <<ks, files>>, << >>),
    Delete(<< >>, <<ks, log>>, <<Other, Within("UPDATE", d_at)>>),
    Delete(<<Within("FROM", d_at)>>, <<ks, log>>, << >>) }

(* The session's keyspace is ks. *)
MCTableOf ==
  [n \in {s.target : s \in MCStatements} |-> <<ks, IF n[2] = LOG THEN log ELSE n[2]>>]
=============================================================================
