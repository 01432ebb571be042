--------------------------- MODULE FilterGovernor ---------------------------
(***************************************************************************)
(* BlacklistFilterGovernor of the dual-writer.  The io_context thread and  *)
(* the retry thread ask it about tables under a shared lock, the reload    *)
(* thread rebuilds its sets under the exclusive lock: it clears them and   *)
(* inserts the configured rules again one by one.                          *)
(*                                                                         *)
(* A table is named <<keyspace, table>>; the keyspace of a name written    *)
(* without one is Unqualified.  TableOf is the table a name stands for at  *)
(* the server: a name without a keyspace is completed by that of the       *)
(* session, and letters count as small ones.  A rule is the name of a      *)
(* table, or <<Star, table>> for a pattern "*.table".  The tenant rules are rebuilt in the same way  *)
(* and decide nothing here: is_enabled() without table rules leads to      *)
(* "Allow" whether or not there are tenants.                               *)
(*                                                                         *)
(* The name comes from the text of a statement.  A statement is what       *)
(* is_write_query lets through: its words, where spaces, "(" and ";" end a *)
(* word, and target, the name of its table as written.  A word is the      *)
(* name it would be, the keyword it contains, as a word of its own or      *)
(* inside a longer one, and the rest of the word after that keyword.       *)
(***************************************************************************)
EXTENDS Integers, FiniteSets, Sequences, SequencesExt

CONSTANTS
  Callers,      \* threads that ask
  Statements,   \* statements they ask about: [verb, words, target]
  Config,       \* config_.table_blacklist, copied by the constructor
  TableOf,      \* the table that the server takes a name for
  Edited,       \* what an operator later puts into the rules file
  Star,         \* the "*" of a pattern
  Unqualified,  \* no keyspace in the name
  Nothing,      \* no keyword, or nothing after it
  Unknown,      \* the "unknown" of extract_table_target
  MaxCalls      \* bound on the questions asked

(* The keyword before the table of each kind of statement, and where it stands
   in the words. *)
Clause == [INSERT |-> "INTO", UPDATE |-> "UPDATE", DELETE |-> "FROM"]

ClauseAt(s) ==
  {i \in 1 .. Len(s.words) - 1 : /\ s.words[i].keyword = Clause[s.verb] /\ s.words[i].rest = Nothing
                                /\ s.words[i + 1].name = s.target}

(* The grammar of a write: its table follows its keyword. *)
ASSUME StatementsAssumption ==
  /\ \A s \in Statements :
       /\ s.verb \in DOMAIN Clause
       /\ s.words \in Seq(Range(s.words))
       /\ \A i \in DOMAIN s.words : s.words[i].keyword \in {"INTO", "UPDATE", "FROM", Nothing}
       /\ ClauseAt(s) # {}
  /\ Nothing \notin {"INTO", "UPDATE", "FROM"} /\ Nothing \notin Statements
  /\ MaxCalls \in Nat

(* Tables have a keyspace, which is none of the special ones; the entries of
   the rules file are "keyspace.table patterns" (filter-rules.yaml:5). *)
ASSUME NamesAssumption ==
  /\ \A s \in Statements : LET t == TableOf[s.target] IN t = <<t[1], t[2]>> /\ t[1] \notin {Unqualified, Star}
  /\ \A r \in Config : r = <<r[1], r[2]>>

VARIABLES
  table_blacklist,  \* table_blacklist_
  reload_pc,        \* where reload_config is
  readers,          \* threads that hold mutex_ shared
  asking,           \* per caller: where it is, its question and the last decision
  calls,            \* questions asked so far
  tables_skipped,   \* stats_.tables_skipped
  file              \* the rules file on disk

vars == <<table_blacklist, reload_pc, readers, asking, calls, tables_skipped, file>>

Decisions == {"none", "Allow", "SkipTable"}

Init ==
  /\ table_blacklist = Config
  /\ reload_pc = "sleep"
  /\ readers = {}
  /\ asking = [c \in Callers |-> [at |-> "idle", stmt |-> Nothing, name |-> Nothing, decision |-> "none"]]
  /\ calls = 0 /\ tables_skipped = 0
  /\ file = Config

(* A caller may take the shared lock. *)
SharedLockFree == reload_pc \notin {"locked", "filling"}

(* extract_table_target: the token after the first INTO of the text, or else
   the first UPDATE, or else the first FROM. *)
Keywords == <<"INTO", "UPDATE", "FROM">>

Find(words, k) == SelectInSeq(words, LAMBDA w : w.keyword = k)

TokenAfter(words, i) ==
  IF words[i].rest # Nothing THEN words[i].rest
  ELSE IF i < Len(words) THEN words[i + 1].name ELSE Nothing

ExtractTableTarget(words) ==
  LET k == SelectInSeq(Keywords, LAMBDA x : Find(words, x) # 0)
  IN IF k = 0 THEN Unknown ELSE TokenAfter(words, Find(words, Keywords[k]))

Extracted == {ExtractTableTarget(s.words) : s \in Statements}

(* The gate of write(), or of the retry thread with the name kept with the
   statement: is_enabled() first, with a lock of its own. *)
IsEnabled(c, s) ==
  /\ asking[c].at = "idle" /\ calls < MaxCalls
  /\ SharedLockFree
  /\ LET n == ExtractTableTarget(s.words)
         on == table_blacklist # {}
     IN asking' = [asking EXCEPT ![c] = [at |-> IF on THEN "enabled" ELSE "idle",
                                         stmt |-> s, name |-> n,
                                         decision |-> IF on THEN "none" ELSE "Allow"]]
  /\ calls' = calls + 1
  /\ UNCHANGED <<table_blacklist, reload_pc, readers, tables_skipped, file>>

LockShared(c) ==
  /\ asking[c].at = "enabled"
  /\ SharedLockFree
  /\ readers' = readers \union {c}
  /\ asking' = [asking EXCEPT ![c].at = "exact"]
  /\ UNCHANGED <<table_blacklist, reload_pc, calls, tables_skipped, file>>

Decide(c, d) ==
  /\ asking' = [asking EXCEPT ![c].at = "idle", ![c].decision = d]
  /\ readers' = readers \ {c}
  /\ tables_skipped' = IF d = "SkipTable" THEN tables_skipped + 1 ELSE tables_skipped

(* should_skip_table: the exact lookup ... *)
ExactMatch(c) ==
  /\ asking[c].at = "exact"
  /\ \/ asking[c].name \in table_blacklist /\ Decide(c, "SkipTable")
     \/ /\ asking[c].name \notin table_blacklist
        /\ asking' = [asking EXCEPT ![c].at = "wildcard"]
        /\ UNCHANGED <<readers, tables_skipped>>
  /\ UNCHANGED <<table_blacklist, reload_pc, calls, file>>

(* ... then the patterns, which compare what follows the last dot of a name
   that has one. *)
WildcardMatches(rules, n) == n[1] # Unqualified /\ <<Star, n[2]>> \in rules

WildcardMatch(c) ==
  /\ asking[c].at = "wildcard"
  /\ Decide(c, IF WildcardMatches(table_blacklist, asking[c].name) THEN "SkipTable" ELSE "Allow")
  /\ UNCHANGED <<table_blacklist, reload_pc, calls, file>>

-----------------------------------------------------------------------------
(* reload_config, on the reload thread *)

(* Mutant of ReloadLock: the lock is taken while callers hold it shared. *)
ReloadLockShared ==
  /\ reload_pc = "sleep"
  /\ reload_pc' = "locked"
  /\ UNCHANGED <<table_blacklist, readers, asking, calls, tables_skipped, file>>

ReloadLock ==
  /\ reload_pc = "sleep" /\ readers = {}
  /\ reload_pc' = "locked"
  /\ UNCHANGED <<table_blacklist, readers, asking, calls, tables_skipped, file>>

ReloadClear ==
  /\ reload_pc = "locked"
  /\ table_blacklist' = {}
  /\ reload_pc' = "filling"
  /\ UNCHANGED <<readers, asking, calls, tables_skipped, file>>

(* The rules come from config_, the copy made by the constructor. *)
ReloadInsert(r) ==
  /\ reload_pc = "filling" /\ r \notin table_blacklist
  /\ table_blacklist' = table_blacklist \union {r}
  /\ UNCHANGED <<reload_pc, readers, asking, calls, tables_skipped, file>>

ReloadUnlock ==
  /\ reload_pc = "filling" /\ Config \subseteq table_blacklist
  /\ reload_pc' = "sleep"
  /\ UNCHANGED <<table_blacklist, readers, asking, calls, tables_skipped, file>>

(* An operator edits the rules file. *)
EditFile ==
  /\ file # Edited
  /\ file' = Edited
  /\ UNCHANGED <<table_blacklist, reload_pc, readers, asking, calls, tables_skipped>>

Reload == ReloadLock \/ ReloadClear \/ (\E r \in Config : ReloadInsert(r)) \/ ReloadUnlock

Ask(c) == (\E s \in Statements : IsEnabled(c, s)) \/ LockShared(c) \/ ExactMatch(c) \/ WildcardMatch(c)

Next == Reload \/ EditFile \/ \E c \in Callers : Ask(c)

(* The reload thread wakes every minute and the lock is held briefly by
   everyone. *)
Spec == Init /\ [][Next]_vars
FairSpec == /\ Spec /\ WF_vars(Reload)
            /\ \A c \in Callers : WF_vars(LockShared(c) \/ ExactMatch(c) \/ WildcardMatch(c))

-----------------------------------------------------------------------------
TypeOK ==
  /\ table_blacklist \subseteq Config
  /\ reload_pc \in {"sleep", "locked", "filling"}
  /\ readers \subseteq Callers
  /\ asking \in [Callers -> [at : {"idle", "enabled", "exact", "wildcard"},
                            stmt : Statements \union {Nothing},
                            name : Extracted \union {Nothing}, decision : Decisions]]
  /\ calls \in 0..MaxCalls /\ tables_skipped \in Nat
  /\ file \in {Config, Edited}

(* What the rules file says about a table: an entry names it, or names it in
   all keyspaces. *)
Excluded(t) == \E r \in Config : r[1] \in {t[1], Star} /\ r[2] = t[2]

(* The statement calls its table something else than the rules do: it leaves
   the keyspace to the session, or uses capital letters. *)
Alias(s) == TableOf[s.target] # s.target

(* A keyword in some other word, a column or a value, draws the search away
   from the table: one that is tried before the statement's own, or the same
   one further to the left. *)
Rank(k) == SelectInSeq(Keywords, LAMBDA x : x = k)

Misleading(s) ==
  LET own == Clause[s.verb]
  IN \E i \in DOMAIN s.words : LET k == s.words[i].keyword IN
       k # Nothing /\ (Rank(k) < Rank(own) \/ (k = own /\ i < Min(ClauseAt(s))))

(* should_skip_table and extract_table_target: a statement's table is skipped
   exactly if the rules file excludes it, whatever the reload does meanwhile.
   There are two exceptions, and no other: another of the statement's words
   misleads the search, or the statement writes its table under another name.
   INSERT INTO migrations is one: it writes to the session's ks.migrations,
   which "*.migrations" excludes "in all keyspaces" (filter-rules.yaml:23), and
   is not skipped. *)
DecisionsMatchRules ==
  \A c \in Callers : LET a == asking[c] IN
    a.at = "idle" /\ a.decision # "none" =>
      \/ Misleading(a.stmt) \/ Alias(a.stmt)
      \/ a.decision = IF Excluded(TableOf[a.stmt.target]) THEN "SkipTable" ELSE "Allow"

(* "Config will be reloaded every N seconds without service restart"
   (config/filter-rules.yaml:30): an edited file takes effect. *)
HotReload == file = Edited ~> table_blacklist = Edited

-----------------------------------------------------------------------------
(* Inductive invariant.  Whoever holds the lock shared keeps the reload out,
   and the rules are whole whenever the reload does not hold it. *)
LockInv ==
  /\ readers = {c \in Callers : asking[c].at \in {"exact", "wildcard"}}
  /\ reload_pc # "sleep" => readers = {}
  /\ reload_pc # "filling" => table_blacklist = Config

(* A question is about the table found in its statement; it comes to the
   patterns when no rule names the table itself. *)
QuestionInv ==
  \A c \in Callers : LET a == asking[c] IN
    /\ a.at # "idle" \/ a.decision # "none" =>
         a.stmt \in Statements /\ a.name = ExtractTableTarget(a.stmt.words)
    /\ a.at = "wildcard" => a.name \notin Config

IInv == TypeOK /\ LockInv /\ QuestionInv /\ DecisionsMatchRules
=============================================================================
