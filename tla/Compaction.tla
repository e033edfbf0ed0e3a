----------------------------- MODULE Compaction ------------------------------
(***************************************************************************)
(* Where a compaction cuts the session: findCutPoint and prepareCompaction     *)
(* (packages/coding-agent/src/core/compaction/compaction.ts), on every branch   *)
(* an agent can write, compacted any number of times.                           *)
(***************************************************************************)
EXTENDS Integers, Sequences, FiniteSets, FiniteSetsExt

CONSTANTS Sizes,   \* estimated tokens of a message
          Budgets, \* settings.keepRecentTokens
          MaxLog   \* bound: entries of the branch
ASSUME CompactionAssumption ==
  /\ Sizes \subseteq Nat \ {0} /\ IsFiniteSet(Sizes) /\ Sizes # {}
  /\ Budgets \subseteq Nat /\ MaxLog \in Nat

VARIABLES log,      \* pathEntries, root to leaf
          openCalls \* tool calls of the last assistant message without a result
compactionVars == <<log, openCalls>>

Messages == {"user", "assistant", "toolResult", "bashExecution"}
\* Entries that are no messages: settings and labels, messages of extensions, compactions.
Others == {"model_change", "custom_message", "compaction"}
LogEntry == [kind : Messages, size : Sizes] \cup [kind : Others, keep : Nat]
IsMessageEntry(e) == e.kind \in Messages

CompactionTypeOK == log \in Seq(LogEntry) /\ openCalls \in 0..2

CompactionInit == log = <<>> /\ openCalls = 0

-----------------------------------------------------------------------------
CompactionEntries(es) == {i \in DOMAIN es : es[i].kind = "compaction"}

\* Mutant: every message is a place to cut.
AnyMessage(es, start) == {i \in start..Len(es) : IsMessageEntry(es[i])}

\* findValidCutPoints: anything a model takes for a user or assistant message.
ValidCutPoints(es, start) ==
  {i \in start..Len(es) : es[i].kind \in {"user", "assistant", "bashExecution", "custom_message"}}

Tokens(es, I) == MapThenSumSet(LAMBDA i : es[i].size, {i \in I : IsMessageEntry(es[i])})

\* Mutant: the sizes are added up from the front.
FromTheFront(es, start, keep) ==
  LET reached == {i \in start..Len(es) : IsMessageEntry(es[i]) /\ Tokens(es, start..i) >= keep}
  IN IF reached = {} THEN {} ELSE {Min(reached)}

\* Backwards from the newest entry: the message with which the budget is reached.
BudgetReachedAt(es, start, keep) ==
  LET reached == {i \in start..Len(es) : IsMessageEntry(es[i]) /\ Tokens(es, i..Len(es)) >= keep}
  IN IF reached = {} THEN {} ELSE {Max(reached)}

\* findCutPoint: the first cut point from there on, else the first of all; then back
\* over entries that are neither message nor compaction.
FindCutPoint(es, start, keep) ==
  LET points == ValidCutPoints(es, start)
      after == {c \in points : \E i \in BudgetReachedAt(es, start, keep) : c >= i}
      cut == IF after = {} THEN Min(points) ELSE Min(after)
      passed == {i \in start..cut : \A j \in i..(cut - 1) :
                                      ~IsMessageEntry(es[j]) /\ es[j].kind # "compaction"}
  IN IF points = {} THEN start ELSE Min(passed)

\* findTurnStartIndex.
TurnStart(es, start, i) ==
  LET begins == {j \in start..i : es[j].kind \in {"user", "bashExecution", "custom_message"}}
  IN IF es[i].kind = "user" THEN {} ELSE IF begins = {} THEN {} ELSE {Max(begins)}

\* Where the last compaction's kept part begins.
BoundaryStart(es) ==
  LET c == CompactionEntries(es) IN IF c = {} THEN 1 ELSE es[Max(c)].keep

\* prepareCompaction: what is summarised, what is summarised as the beginning of a
\* split turn, and what stays.
Prepared(es, keep) ==
  LET start == BoundaryStart(es)
      first == FindCutPoint(es, start, keep)
      turn == TurnStart(es, start, first)
      historyEnd == IF turn = {} THEN first ELSE Max(turn)
  IN [summarised |-> start..(historyEnd - 1),
      prefix     |-> historyEnd..(first - 1),
      kept       |-> first..Len(es)]

MayCompact(es) == es # <<>> /\ Len(es) \notin CompactionEntries(es)

-----------------------------------------------------------------------------
(* What is written into a session: a tool result for every call, before any    *)
(* other message.                                                              *)
WriteMessage(kind, size, calls) ==
  /\ kind \in {"user", "assistant", "bashExecution"} /\ openCalls = 0
  /\ calls > 0 => kind = "assistant"
  /\ log' = Append(log, [kind |-> kind, size |-> size])
  /\ openCalls' = calls

WriteToolResult(size) ==
  /\ openCalls > 0 /\ openCalls' = openCalls - 1
  /\ log' = Append(log, [kind |-> "toolResult", size |-> size])

\* Settings are changed at any time, extensions speak between the turns.
WriteOther(kind) ==
  /\ kind \in {"model_change", "custom_message"}
  /\ kind = "custom_message" => openCalls = 0
  /\ log' = Append(log, [kind |-> kind, keep |-> 0])
  /\ UNCHANGED openCalls

CompactLog(keep) ==
  /\ MayCompact(log) /\ openCalls = 0
  /\ log' = Append(log, [kind |-> "compaction", keep |-> Min(Prepared(log, keep).kept)])
  /\ UNCHANGED openCalls

CompactionNext ==
  /\ Len(log) < MaxLog
  /\ \/ \E kind \in Messages, size \in Sizes, calls \in 0..2 : WriteMessage(kind, size, calls)
     \/ \E size \in Sizes : WriteToolResult(size)
     \/ \E kind \in Others : WriteOther(kind)
     \/ \E keep \in Budgets : CompactLog(keep)

CompactionSpec == CompactionInit /\ [][CompactionNext]_compactionVars

-----------------------------------------------------------------------------
\* "Never cut at tool results (they must follow their tool call)" (compaction.ts:294):
\* whatever the budget, a tool result is kept only with the message that called it,
\* after any number of compactions.
CutKeepsCalls ==
  MayCompact(log) => \A keep \in Budgets :
    LET kept == Prepared(log, keep).kept IN
    \A r \in kept : log[r].kind = "toolResult"
      => \E a \in kept : /\ a < r /\ log[a].kind = "assistant"
                         /\ \A i \in (a + 1)..r : log[i].kind \notin {"user", "bashExecution"}

\* A compaction leaves about keepRecentTokens: less than the budget and one message
\* more, unless what follows the last place to cut alone exceeds it.
CutKeepsAboutTheBudget ==
  MayCompact(log) => \A keep \in Budgets :
    LET points == ValidCutPoints(log, BoundaryStart(log))
        kept == Prepared(log, keep).kept
    IN \/ Tokens(log, kept) < keep + Max(Sizes)
       \/ points = {} \/ Tokens(log, (Max(points) + 1)..Len(log)) >= keep

\* A cut is neither too early for a call nor too late for the budget.
CutIsSound == CutKeepsCalls /\ CutKeepsAboutTheBudget
=============================================================================
