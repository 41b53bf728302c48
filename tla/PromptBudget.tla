---------------------------- MODULE PromptBudget ----------------------------
(***************************************************************************)
(* The one budgeting pass over a prompt (services/chat/context_budget.rs,  *)
(* llm/budget.rs) and the check of the assembled request that follows it   *)
(* (api/chat/turn.rs).  Texts are their sizes in bytes: the estimate is    *)
(* one token per byte.                                                     *)
(***************************************************************************)
EXTENDS Integers, Sequences

CONSTANTS
  Window, Output,       \* of the model
  MinReserve, RequestOverhead, MessageOverhead, NativeEnvelope,
  RegionTags,           \* the opening and closing tags of the evidence region
  Markup,               \* what the inline element puts around a passage
  MaxMessage,           \* MAX_TOKENS_PER_HISTORY_MESSAGE
  Turns,                \* [native, instructions, question, memory, history]: what a turn
                        \* brings, a memory of 0 being none, the oldest message first
  Contexts              \* [whole, child]: an entry's size with its passage, and with the
                        \* matched child only, 0 when there is no other passage

Inputs == [native : BOOLEAN, instructions : Nat, question : Nat, memory : Nat, history : Seq(Nat)]

ASSUME BudgetAssumption ==
  /\ Window \in Nat /\ Output \in Nat /\ MinReserve \in Nat /\ RequestOverhead \in Nat
  /\ NativeEnvelope \in Nat /\ RegionTags \in Nat /\ Markup \in Nat /\ MaxMessage \in Nat
  /\ NativeEnvelope <= Markup      \* "The XML envelope is the larger of the two"
  /\ MessageOverhead \in Nat \ {0}
  /\ Turns \subseteq Inputs
  /\ Contexts \subseteq [whole : Nat, child : Nat]

VARIABLES
  turn,            \* the inputs
  phase,           \* "ready", "evidence", "history", "check", then an ending
  memoryKept, evidenceBudget, remaining,
  evidence,        \* the retrieved contexts, in the order retrieval presents them
  selected,        \* "whole" or "child" for each context admitted, from the first
  spent,           \* on evidence
  region,          \* bytes the renderer emits for the admitted entries
  kept,            \* messages of the history kept, from the newest
  historySpent

budgetVars == <<turn, phase, memoryKept, evidenceBudget, remaining, evidence, selected,
                spent, region, kept, historySpent>>

Smaller(a, b) == IF a <= b THEN a ELSE b
Larger(a, b) == IF a >= b THEN a ELSE b
SaturatingSub(a, b) == Larger(a - b, 0)

Reserve == Larger(MinReserve, (Window * 5) \div 100)

PromptAllowance == SaturatingSub(SaturatingSub(SaturatingSub(Window, Reserve), Output), RequestOverhead)

EvidenceCap == (Window * 60) \div 100

MemoryCap == (Window * 10) \div 100

-----------------------------------------------------------------------------
(* allocate.                                                               *)

Mandatory(t) == t.instructions + t.question + MessageOverhead

Refuses(t) == Mandatory(t) > PromptAllowance

\* Memory is kept whole or not at all.
KeepsMemory(t) ==
  t.memory > 0 /\ t.memory <= MemoryCap /\ t.memory <= PromptAllowance - Mandatory(t)

Remaining(t) == PromptAllowance - Mandatory(t) - (IF KeepsMemory(t) THEN t.memory ELSE 0)

\* What retrieval is told it may load whole.
EvidenceAllowance(t) == IF Refuses(t) THEN 0 ELSE Smaller(Remaining(t), EvidenceCap)

-----------------------------------------------------------------------------
(* The prices of the renderer.                                             *)

EntryTokens(native, size) == size + (IF native THEN NativeEnvelope ELSE Markup + 1)

RegionOverhead(native) == IF native THEN 0 ELSE RegionTags + 2

\* A running total: from base on, what comes first costs together.
RunningTotals(base, prices) ==
  LET total[n \in 0 .. Len(prices)] == IF n = 0 THEN base ELSE total[n - 1] + prices[n]
  IN  total

HistoryTokens(size) == Smaller(size, MaxMessage) + MessageOverhead

BudgetInit ==
  /\ turn \in Turns /\ phase = "ready"
  /\ memoryKept = FALSE /\ evidenceBudget = 0 /\ remaining = 0
  /\ evidence = <<>> /\ selected = <<>> /\ spent = 0 /\ region = 0
  /\ kept = 0 /\ historySpent = 0

Allocate(contexts) ==
  /\ phase = "ready" /\ contexts # <<>>
  /\ evidence' = contexts
  /\ IF Refuses(turn)
     THEN /\ phase' = "tooLarge"
          /\ UNCHANGED <<memoryKept, evidenceBudget, remaining, spent>>
     ELSE /\ phase' = "evidence"
          /\ memoryKept' = KeepsMemory(turn)
          /\ remaining' = Remaining(turn)
          /\ evidenceBudget' = EvidenceAllowance(turn)
          /\ spent' = RegionOverhead(turn.native)
  /\ UNCHANGED <<turn, selected, region, kept, historySpent>>

-----------------------------------------------------------------------------
(* fit_prompt: evidence from the top, stopping at the first that does not  *)
(* fit; then the newest history.                                           *)

Fits(size) == spent + EntryTokens(turn.native, size) <= evidenceBudget

InHand == evidence[Len(selected) + 1]

\* Mutant: the price of an entry is not compared with what was already spent.
AdmitAlone(form) ==
  /\ phase = "evidence" /\ Len(selected) < Len(evidence)
  /\ LET size == IF form = "whole" THEN InHand.whole ELSE InHand.child IN
     /\ EntryTokens(turn.native, size) <= evidenceBudget
     /\ form = "child" => InHand.child > 0
     /\ spent' = spent + EntryTokens(turn.native, size) /\ region' = region + Markup + size
  /\ selected' = Append(selected, form)
  /\ UNCHANGED <<turn, phase, memoryKept, evidenceBudget, remaining, evidence, kept, historySpent>>

\* The parent passage, or in its place the child that matched.
Admit(form) ==
  /\ phase = "evidence" /\ Len(selected) < Len(evidence)
  /\ LET size == IF form = "whole" THEN InHand.whole ELSE InHand.child IN
     /\ Fits(size)
     /\ form = "child" => InHand.child > 0 /\ ~Fits(InHand.whole)
     /\ spent' = spent + EntryTokens(turn.native, size) /\ region' = region + Markup + size
  /\ selected' = Append(selected, form)
  /\ UNCHANGED <<turn, phase, memoryKept, evidenceBudget, remaining, evidence, kept, historySpent>>

\* The rest is dropped; without any evidence there is nothing to generate from.
StopAdmitting ==
  /\ phase = "evidence"
  /\ Len(selected) < Len(evidence) =>
       ~Fits(InHand.whole) /\ ~(InHand.child > 0 /\ Fits(InHand.child))
  /\ IF selected = <<>>
     THEN phase' = "noEvidenceFits" /\ spent' = 0 /\ UNCHANGED remaining
     ELSE phase' = "history" /\ remaining' = SaturatingSub(remaining, spent) /\ UNCHANGED spent
  /\ UNCHANGED <<turn, memoryKept, evidenceBudget, evidence, selected, region, kept, historySpent>>

NextMessage == turn.history[Len(turn.history) - kept]

HistoryFits == historySpent + HistoryTokens(NextMessage) <= remaining

KeepMessage ==
  /\ phase = "history" /\ kept < Len(turn.history) /\ HistoryFits
  /\ kept' = kept + 1 /\ historySpent' = historySpent + HistoryTokens(NextMessage)
  /\ UNCHANGED <<turn, phase, memoryKept, evidenceBudget, remaining, evidence, selected, spent, region>>

DropOlder ==
  /\ phase = "history" /\ (kept < Len(turn.history) => ~HistoryFits)
  /\ phase' = "check"
  /\ UNCHANGED <<turn, memoryKept, evidenceBudget, remaining, evidence, selected, spent, region, kept, historySpent>>

-----------------------------------------------------------------------------
(* The assembled request.                                                  *)

\* assemble puts two bytes before the region and before the memory.
SystemPrompt ==
  turn.instructions
  + (IF turn.native THEN 0 ELSE 2 + RegionTags + 1 + region)
  + (IF memoryKept THEN 2 + turn.memory ELSE 0)

\* build_messages appends the question to the history; native documents ride apart.
RequestTokens ==
  RequestOverhead + SystemPrompt + historySpent + turn.question + MessageOverhead
  + (IF turn.native THEN spent ELSE 0)

Admits == RequestTokens + Output + Reserve <= Window

CheckRequest ==
  /\ phase = "check"
  /\ phase' = IF Admits THEN "sent" ELSE "overBudget"
  /\ UNCHANGED <<turn, memoryKept, evidenceBudget, remaining, evidence, selected, spent, region, kept, historySpent>>

FitStep == Admit("whole") \/ Admit("child") \/ StopAdmitting \/ KeepMessage \/ DropOlder \/ CheckRequest

BudgetNext == (\E contexts \in Seq(Contexts) : Allocate(contexts)) \/ FitStep

BudgetSpec == BudgetInit /\ [][BudgetNext]_budgetVars

-----------------------------------------------------------------------------
Phases == {"ready", "evidence", "history", "check", "sent", "overBudget", "tooLarge", "noEvidenceFits"}

BudgetTypeOK ==
  /\ turn \in Turns /\ phase \in Phases
  /\ memoryKept \in BOOLEAN
  /\ evidenceBudget \in Nat /\ remaining \in Nat /\ spent \in Nat /\ region \in Nat
  /\ historySpent \in Nat
  /\ evidence \in Seq(Contexts) /\ selected \in Seq({"whole", "child"})
  /\ Len(selected) <= Len(evidence)
  /\ kept \in 0 .. Len(turn.history)

\* What the pass does not price is the separator before the memory block, and the
\* slack of the third inline entry covers it: a request the pass fitted is refused by
\* the final check only when it carries memory and, inline, one or two contexts.
OnlyMemoryOverflows ==
  phase = "overBudget" => memoryKept /\ (turn.native \/ Len(selected) <= 2)
=============================================================================
