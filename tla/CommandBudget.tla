--------------------------- MODULE CommandBudget ---------------------------
(***************************************************************************)
(* process/budget.cpp: how much of a command's time is left for the next   *)
(* scanimage call.  A time is the time since beginCommand.                 *)
(***************************************************************************)
EXTENDS Integers

CONSTANTS
  TotalBudget,        \* totalBudget, for each command that has one
  HostCeiling,        \* hostCeiling, for the same commands
  PerCallCeiling,     \* kPerCallCeiling
  MinimumUsefulCall,  \* kMinimumUsefulCall
  TimeoutGrace,       \* kTimeoutGraceMs, the most a call runs over its timeout
  RetryDelay          \* kRetryDelay, the pause between two attempts

Budgeted == {"detect", "capabilities"}

\* What the numbers of the source must satisfy, and do (CapabilityCommandProofs).
BudgetsFit(total, host, perCall, useful, grace, delay) ==
  /\ total \in [Budgeted -> Nat] /\ host \in [Budgeted -> Nat]
  /\ perCall \in Nat /\ useful \in Nat /\ grace \in Nat /\ delay \in Nat
  /\ useful > 0
  /\ \A c \in Budgeted : total[c] + grace + delay <= host[c]

ASSUME BudgetAssumption ==
  BudgetsFit(TotalBudget, HostCeiling, PerCallCeiling, MinimumUsefulCall, TimeoutGrace, RetryDelay)

\* The values of budget.cpp, budget.h, child.cpp and backend.cpp, in milliseconds.
SourceTotals == [c \in Budgeted |-> IF c = "detect" THEN 75000 ELSE 150000]
SourceCeilings == [c \in Budgeted |-> IF c = "detect" THEN 90000 ELSE 180000]

Remaining(c, t) == IF t < TotalBudget[c] THEN TotalBudget[c] - t ELSE 0

\* nextCallTimeout answers at all.
MayCall(c, t) == c \in Budgeted => Remaining(c, t) >= MinimumUsefulCall

\* Mutant of NextCallTimeout: each call has the whole ceiling.
NextCallTimeoutWhole(c, t) == PerCallCeiling

\* nextCallTimeout, where it answers.
NextCallTimeout(c, t) ==
  IF c \in Budgeted /\ Remaining(c, t) < PerCallCeiling THEN Remaining(c, t) ELSE PerCallCeiling
=============================================================================
