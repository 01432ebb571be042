------------------------- MODULE FilterGovernorProofs -------------------------
(***************************************************************************)
(* For any rules, callers and statements: the filter skips the tables that *)
(* the rules file excludes, unless one of the statement's other words      *)
(* misleads it or the statement writes its table under another name.       *)
(***************************************************************************)
EXTENDS FilterGovernor, TLAPS, WellFoundedInduction

-----------------------------------------------------------------------------
(* The search in the words of a statement *)

(* A non-empty set of positions has a first one. *)
LEMMA MinOfPositions ==
  ASSUME NEW S \in SUBSET Nat, S # {}
  PROVE  Min(S) \in S /\ \A y \in S : Min(S) <= y
<1> DEFINE Less == {pair \in Nat \X Nat : pair[1] < pair[2]}
<1>1. IsWellFoundedOn(Less, Nat)
  BY NatLessThanWellFounded DEF OpToRel
<1>2. \A x, y \in S : y < x => <<y, x>> \in Less
  <2> SUFFICES ASSUME NEW x \in S, NEW y \in S, y < x
               PROVE  <<y, x>> \in Less
    BY Zenon
  <2>1. <<y, x>> \in Nat \X Nat /\ <<y, x>>[1] < <<y, x>>[2]
    OBVIOUS
  <2> QED
    BY <2>1, Zenon
<1> HIDE DEF Less
<1>3. PICK x \in S : \A y \in S : ~(<<y, x>> \in Less)
  BY <1>1, WFMin
<1>4. \A y \in S : x <= y
  <2>1. \A y \in S : ~(y < x)
    BY <1>2, <1>3, Zenon
  <2> QED
    BY <2>1
<1> QED
  BY <1>4 DEF Min

(* Find is the first word that contains the keyword, 0 when there is none. *)
LEMMA FindFirst ==
  ASSUME NEW T, NEW words \in Seq(T), NEW k
  PROVE  /\ \/ Find(words, k) = 0
            \/ Find(words, k) \in 1 .. Len(words) /\ words[Find(words, k)].keyword = k
         /\ \A i \in 1 .. Len(words) :
              words[i].keyword = k => Find(words, k) # 0 /\ Find(words, k) <= i
<1> DEFINE I == {i \in 1 .. Len(words) : words[i].keyword = k}
<1>1. Find(words, k) = IF I # {} THEN Min(I) ELSE 0
  BY DEF Find, SelectInSeq
<1>2. I \in SUBSET Nat /\ 0 \notin I
  OBVIOUS
<1>3. I # {} => Min(I) \in I /\ \A y \in I : Min(I) <= y
  BY <1>2, MinOfPositions
<1> QED
  BY <1>1, <1>2, <1>3

(* The order in which the keywords are tried. *)
LEMMA Ranks == Rank("INTO") = 1 /\ Rank("UPDATE") = 2 /\ Rank("FROM") = 3
<1>1. ASSUME NEW k, NEW n \in 1..3, Keywords[n] = k
      PROVE  Rank(k) = n
  <2> DEFINE I == {i \in 1 .. Len(Keywords) : Keywords[i] = k}
  <2>1. I = {n}
    BY <1>1 DEF Keywords
  <2>2. Rank(k) = Min(I)
    BY <2>1 DEF Rank, SelectInSeq
  <2> HIDE DEF I
  <2>3. I \in SUBSET Nat /\ I # {}
    BY <2>1
  <2>4. Min(I) \in I
    BY <2>3, MinOfPositions
  <2> QED
    BY <2>1, <2>2, <2>4
<1> QED
  BY <1>1 DEF Keywords

(* The first keyword of that order that occurs anywhere decides. *)
LEMMA FirstKeyword ==
  ASSUME NEW words, NEW n \in 1..3,
         Find(words, Keywords[n]) # 0,
         \A m \in 1..3 : m < n => Find(words, Keywords[m]) = 0
  PROVE  ExtractTableTarget(words) = TokenAfter(words, Find(words, Keywords[n]))
<1> DEFINE I == {i \in 1 .. Len(Keywords) : Find(words, Keywords[i]) # 0}
           k == SelectInSeq(Keywords, LAMBDA x : Find(words, x) # 0)
<1>1. Len(Keywords) = 3
  BY DEF Keywords
<1>2. n \in I /\ I \in SUBSET Nat /\ \A m \in I : n <= m
  BY <1>1
<1>3. Min(I) = n
  BY <1>2, MinOfPositions
<1>4. k = n
  BY <1>2, <1>3 DEF SelectInSeq
<1> QED
  BY <1>4 DEF ExtractTableTarget

(* Unless another word misleads the search, the name that is found is the
   table of the statement. *)
LEMMA TableFound ==
  ASSUME NEW s \in Statements, ~Misleading(s)
  PROVE  ExtractTableTarget(s.words) = s.target
<1> DEFINE own == Clause[s.verb]
           at == Min(ClauseAt(s))
<1>1. /\ s.verb \in {"INSERT", "UPDATE", "DELETE"} /\ s.words \in Seq(Range(s.words))
      /\ \A i \in 1 .. Len(s.words) : s.words[i].keyword \in {"INTO", "UPDATE", "FROM", Nothing}
      /\ ClauseAt(s) # {} /\ Nothing \notin {"INTO", "UPDATE", "FROM"}
  BY StatementsAssumption DEF Clause
<1>2. PICK n \in 1..3 : own = Keywords[n] /\ Rank(own) = n
  BY <1>1, Ranks DEF Clause, Keywords
<1>3. at \in ClauseAt(s)
  <2>1. ClauseAt(s) \in SUBSET Nat
    BY DEF ClauseAt
  <2> QED
    BY <1>1, <2>1, MinOfPositions
<1>4. \A i \in 1 .. Len(s.words) :
        s.words[i].keyword # Nothing =>
          ~(Rank(s.words[i].keyword) < Rank(own)) /\ ~(s.words[i].keyword = own /\ i < at)
  BY <1>1 DEF Misleading
<1> HIDE DEF at
<1>5. /\ at \in 1 .. Len(s.words) /\ at < Len(s.words)
      /\ s.words[at].keyword = own /\ s.words[at].rest = Nothing /\ s.words[at + 1].name = s.target
  BY <1>1, <1>3 DEF ClauseAt
<1> HIDE DEF own
<1>6. own # Nothing
  BY <1>1, <1>2 DEF Keywords
<1>7. Find(s.words, own) = at
  <2>1. Find(s.words, own) # 0 /\ Find(s.words, own) <= at
    BY <1>1, <1>5, FindFirst
  <2>2. Find(s.words, own) \in 1 .. Len(s.words) /\ s.words[Find(s.words, own)].keyword = own
    BY <1>1, <2>1, FindFirst
  <2> QED
    BY <1>5, <1>4, <1>6, <2>1, <2>2
<1>8. ASSUME NEW m \in 1..3, m < n
      PROVE  Find(s.words, Keywords[m]) = 0
  <2>1. Rank(Keywords[m]) = m /\ Keywords[m] # Nothing
    BY <1>1, Ranks DEF Keywords
  <2>2. ASSUME NEW i \in 1 .. Len(s.words), s.words[i].keyword = Keywords[m]
        PROVE  FALSE
    BY <1>2, <1>4, <1>8, <2>1, <2>2
  <2> QED
    BY <1>1, <2>2, FindFirst
<1>9. ExtractTableTarget(s.words) = TokenAfter(s.words, at)
  <2>1. Find(s.words, Keywords[n]) # 0
    BY <1>2, <1>5, <1>7
  <2> QED
    BY <1>2, <1>7, <1>8, <2>1, FirstKeyword
<1> QED
  BY <1>5, <1>9 DEF TokenAfter

-----------------------------------------------------------------------------
(* What the lookup says on the whole rules *)

LookupSkips(n) == n \in Config \/ WildcardMatches(Config, n)

(* About a table under its own name the two lookups, one for the name and one
   for the pattern, say what the entries of the file mean. *)
LEMMA LookupReadsRules ==
  ASSUME NEW s \in Statements, ~Alias(s)
  PROVE  LookupSkips(s.target) <=> Excluded(TableOf[s.target])
<1> DEFINE t == TableOf[s.target]
<1>1. t = s.target /\ t = <<t[1], t[2]>> /\ t[1] # Unqualified /\ \A r \in Config : r = <<r[1], r[2]>>
  BY NamesAssumption DEF Alias
<1> HIDE DEF t
<1>2. ASSUME LookupSkips(t)
      PROVE  Excluded(t)
  <2>1. CASE t \in Config
    BY <2>1 DEF Excluded
  <2>2. CASE <<Star, t[2]>> \in Config
    <3>1. <<Star, t[2]>>[1] = Star /\ <<Star, t[2]>>[2] = t[2]
      OBVIOUS
    <3> QED
      BY <2>2, <3>1 DEF Excluded
  <2> QED
    BY <1>2, <2>1, <2>2 DEF LookupSkips, WildcardMatches
<1>3. ASSUME NEW r \in Config, r[1] \in {t[1], Star}, r[2] = t[2]
      PROVE  LookupSkips(t)
  <2>1. r = <<r[1], r[2]>>
    BY <1>1
  <2>2. CASE r[1] = t[1]
    <3>1. r = t
      BY <1>1, <1>3, <2>1, <2>2
    <3> QED
      BY <3>1 DEF LookupSkips
  <2>3. CASE r[1] = Star
    <3>1. r = <<Star, t[2]>>
      BY <1>3, <2>1, <2>3
    <3> QED
      BY <1>1, <3>1 DEF LookupSkips, WildcardMatches
  <2> QED
    BY <1>3, <2>2, <2>3
<1> QED
  BY <1>1, <1>2, <1>3 DEF Excluded, t

-----------------------------------------------------------------------------
(* The inductive invariant: one lemma per kind of step *)

(* Nobody has asked, and the rules are those of the constructor. *)
LEMMA InvInit == Init => IInv
<1> SUFFICES ASSUME Init PROVE IInv
  OBVIOUS
<1>1. TypeOK
  BY StatementsAssumption DEF Init, TypeOK, Decisions
<1>2. LockInv /\ QuestionInv /\ DecisionsMatchRules
  BY DEF Init, LockInv, QuestionInv, DecisionsMatchRules
<1> QED
  BY <1>1, <1>2 DEF IInv

(* The reload takes the lock when no caller holds it, and gives it back when
   every rule is in its place again. *)
LEMMA ReloadStep ==
  ASSUME IInv, Reload \/ EditFile
  PROVE  IInv'
<1>1. UNCHANGED <<readers, asking, calls, tables_skipped>>
  BY DEF Reload, ReloadLock, ReloadClear, ReloadInsert, ReloadUnlock, EditFile
<1>2. TypeOK'
  BY <1>1 DEF IInv, TypeOK, Reload, ReloadLock, ReloadClear, ReloadInsert, ReloadUnlock, EditFile
<1>3. LockInv'
  BY <1>1 DEF IInv, TypeOK, LockInv, Reload, ReloadLock, ReloadClear, ReloadInsert, ReloadUnlock, EditFile
<1>4. QuestionInv' /\ DecisionsMatchRules'
  BY <1>1 DEF IInv, QuestionInv, DecisionsMatchRules
<1> QED
  BY <1>2, <1>3, <1>4 DEF IInv

(* is_enabled() sees whole rules: without any, nothing is skipped. *)
LEMMA IsEnabledStep ==
  ASSUME IInv, NEW c \in Callers, NEW s \in Statements, IsEnabled(c, s)
  PROVE  IInv'
<1> DEFINE n == ExtractTableTarget(s.words)
<1>1. /\ UNCHANGED <<table_blacklist, reload_pc, readers, tables_skipped, file>> /\ calls' = calls + 1
      /\ calls < MaxCalls /\ asking[c].at = "idle" /\ table_blacklist = Config
  BY DEF IsEnabled, SharedLockFree, IInv, LockInv, TypeOK
<1>2. PICK on \in BOOLEAN :
        /\ on <=> Config # {}
        /\ asking' = [asking EXCEPT ![c] = [at |-> IF on THEN "enabled" ELSE "idle", stmt |-> s, name |-> n,
                                            decision |-> IF on THEN "none" ELSE "Allow"]]
  BY <1>1 DEF IsEnabled
<1>3. n \in Extracted
  BY DEF Extracted
<1> HIDE DEF n
<1>4. /\ \A d \in Callers \ {c} : asking'[d] = asking[d]
      /\ asking'[c].stmt = s /\ asking'[c].name = n
      /\ \/ Config # {} /\ asking'[c].at = "enabled" /\ asking'[c].decision = "none"
         \/ Config = {} /\ asking'[c].at = "idle" /\ asking'[c].decision = "Allow"
  BY <1>2 DEF IInv, TypeOK
<1>5. TypeOK'
  BY <1>1, <1>2, <1>3, StatementsAssumption DEF IInv, TypeOK, Decisions
<1>6. LockInv'
  BY <1>1, <1>4 DEF IInv, LockInv
<1>7. QuestionInv'
  BY <1>1, <1>4 DEF IInv, QuestionInv, n
<1>8. DecisionsMatchRules'
  <2>1. Config = {} => ~Excluded(TableOf[s.target])
    BY DEF Excluded
  <2> QED
    BY <1>4, <2>1 DEF IInv, DecisionsMatchRules
<1> QED
  BY <1>5, <1>6, <1>7, <1>8 DEF IInv

(* A caller that gets the lock finds no reload in progress. *)
LEMMA LockSharedStep ==
  ASSUME IInv, NEW c \in Callers, LockShared(c)
  PROVE  IInv'
<1>1. /\ UNCHANGED <<table_blacklist, reload_pc, calls, tables_skipped, file>>
      /\ reload_pc = "sleep" /\ readers' = readers \union {c} /\ asking[c].at = "enabled"
  BY DEF LockShared, SharedLockFree, IInv, TypeOK
<1>2. TypeOK'
  BY <1>1 DEF IInv, TypeOK, LockShared
<1>3. /\ \A d \in Callers \ {c} : asking'[d] = asking[d]
      /\ asking'[c].at = "exact" /\ asking'[c].stmt = asking[c].stmt /\ asking'[c].name = asking[c].name
      /\ asking'[c].decision = asking[c].decision
  BY DEF LockShared, IInv, TypeOK
<1> QED
  BY <1>1, <1>2, <1>3 DEF IInv, LockInv, QuestionInv, DecisionsMatchRules

(* A decision on whole rules about the name of the question. *)
LEMMA DecideStep ==
  ASSUME IInv, NEW c \in Callers, asking[c].at \in {"exact", "wildcard"}, NEW d \in {"Allow", "SkipTable"},
         d = "SkipTable" <=> LookupSkips(asking[c].name),
         Decide(c, d), UNCHANGED <<table_blacklist, reload_pc, calls, file>>
  PROVE  IInv'
<1>1. TypeOK'
  <2> DEFINE Question == [at : {"idle", "enabled", "exact", "wildcard"}, stmt : Statements \union {Nothing},
                          name : Extracted \union {Nothing}, decision : Decisions]
  <2>1. asking \in [Callers -> Question]
    BY DEF IInv, TypeOK
  <2>2. asking' \in [Callers -> Question]
    BY <2>1 DEF Decide, Decisions
  <2>3. tables_skipped' \in Nat /\ readers' \subseteq Callers
    BY DEF IInv, TypeOK, Decide
  <2> QED
    BY <2>2, <2>3 DEF IInv, TypeOK
<1>2. /\ \A e \in Callers \ {c} : asking'[e] = asking[e]
      /\ asking'[c].at = "idle" /\ asking'[c].stmt = asking[c].stmt /\ asking'[c].name = asking[c].name
      /\ asking'[c].decision = d /\ readers' = readers \ {c}
  BY DEF Decide, IInv, TypeOK
<1>3. LockInv'
  BY <1>2 DEF IInv, LockInv
<1>4. QuestionInv'
  BY <1>2 DEF IInv, QuestionInv
<1>5. DecisionsMatchRules'
  <2>1. asking[c].stmt \in Statements /\ asking[c].name = ExtractTableTarget(asking[c].stmt.words)
    BY DEF IInv, QuestionInv
  <2>2. Misleading(asking[c].stmt) \/ asking[c].name = asking[c].stmt.target
    BY <2>1, TableFound
  <2>3. Alias(asking[c].stmt) \/ (LookupSkips(asking[c].stmt.target) <=> Excluded(TableOf[asking[c].stmt.target]))
    BY <2>1, LookupReadsRules
  <2> QED
    BY <1>2, <2>2, <2>3 DEF IInv, DecisionsMatchRules
<1> QED
  BY <1>1, <1>3, <1>4, <1>5 DEF IInv

(* Under the shared lock the lookup sees the rules of the configuration. *)
LEMMA ExactMatchStep ==
  ASSUME IInv, NEW c \in Callers, ExactMatch(c)
  PROVE  IInv'
<1>1. table_blacklist = Config /\ asking[c].at = "exact"
  BY DEF ExactMatch, IInv, LockInv
<1>2. CASE asking[c].name \in table_blacklist
  <2>1. Decide(c, "SkipTable") /\ LookupSkips(asking[c].name)
    BY <1>1, <1>2 DEF ExactMatch, LookupSkips
  <2> QED
    BY <1>1, <2>1, DecideStep DEF ExactMatch
<1>3. CASE asking[c].name \notin table_blacklist
  <2>1. /\ asking' = [asking EXCEPT ![c].at = "wildcard"]
        /\ UNCHANGED <<table_blacklist, reload_pc, readers, calls, tables_skipped, file>>
    BY <1>3 DEF ExactMatch
  <2>2. TypeOK'
    BY <2>1 DEF IInv, TypeOK
  <2>3. /\ \A d \in Callers \ {c} : asking'[d] = asking[d]
        /\ asking'[c].at = "wildcard" /\ asking'[c].stmt = asking[c].stmt
        /\ asking'[c].name = asking[c].name
    BY <2>1 DEF IInv, TypeOK
  <2> QED
    BY <1>1, <1>3, <2>1, <2>2, <2>3 DEF IInv, LockInv, QuestionInv, DecisionsMatchRules
<1> QED
  BY <1>2, <1>3

(* The patterns are tried when no rule names the table itself. *)
LEMMA WildcardMatchStep ==
  ASSUME IInv, NEW c \in Callers, WildcardMatch(c)
  PROVE  IInv'
<1>1. /\ table_blacklist = Config /\ asking[c].at = "wildcard" /\ asking[c].name \notin Config
      /\ UNCHANGED <<table_blacklist, reload_pc, calls, file>>
  BY DEF WildcardMatch, IInv, LockInv, QuestionInv
<1>2. CASE WildcardMatches(Config, asking[c].name)
  BY <1>1, <1>2, DecideStep DEF WildcardMatch, LookupSkips
<1>3. CASE ~WildcardMatches(Config, asking[c].name)
  BY <1>1, <1>3, DecideStep DEF WildcardMatch, LookupSkips
<1> QED
  BY <1>2, <1>3

(* The invariant of callers and reload together. *)
THEOREM Invariance == Spec => []IInv
<1>1. IInv /\ [Next]_vars => IInv'
  <2>1. ASSUME IInv, UNCHANGED vars
        PROVE  IInv'
    BY <2>1 DEF IInv, TypeOK, LockInv, QuestionInv, DecisionsMatchRules, vars
  <2> QED
    BY <2>1, ReloadStep, IsEnabledStep, LockSharedStep, ExactMatchStep, WildcardMatchStep DEF Next, Ask
<1> QED
  BY InvInit, <1>1, PTL DEF Spec

(* A statement is kept from the target exactly if the rules file excludes the
   table it writes to, unless another of its words misleads the search or it
   writes the table under another name than the rules do. *)
THEOREM DecisionsRight == Spec => []DecisionsMatchRules
<1>1. IInv => DecisionsMatchRules
  BY DEF IInv
<1> QED
  BY Invariance, <1>1, PTL
=============================================================================
