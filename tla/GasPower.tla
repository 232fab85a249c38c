------------------------------ MODULE GasPower ------------------------------
(***************************************************************************)
(* How much gas an event may use: eventcheck/gaspowercheck. Pure           *)
(* operators, for one of the two configurations (short and long term, each *)
(* with an account of its own that works alike: an event needs both).      *)
(* Validators weigh the same; a group is the set of them. Times are in     *)
(* seconds.                                                                *)
(***************************************************************************)
EXTENDS Integers, FiniteSets

CONSTANTS
  AllocPerSec, MaxAllocPeriod, StartupAllocPeriod, MinStartupGas,  \* rules
  MinEnsuredAlloc  \* the most that an event may use

ASSUME GasPowerAssumption ==
  {AllocPerSec, MaxAllocPeriod, StartupAllocPeriod, MinStartupGas, MinEnsuredAlloc} \subseteq Nat

Larger(m, n) == IF m < n THEN n ELSE m
Smaller(m, n) == IF m < n THEN m ELSE n

----------------------------------------------------------------------------
(* CalcValidatorGasPowerPerSec *)

PerSec(group) == AllocPerSec \div Cardinality(group)
MaxGasPower(group) == Larger(PerSec(group) * MaxAllocPeriod, MinEnsuredAlloc)
Startup(group) == Larger(PerSec(group) * StartupAllocPeriod, MinStartupGas)

----------------------------------------------------------------------------
(* An account: what its last event left, and when *)

\* What has been allocated until time, on top of what is left; the first event of an epoch has
\* at least the startup.
CalcValidatorGasPower(group, account, time, first) ==
  LET left == IF first THEN Larger(account.left, Startup(group)) ELSE account.left
      allocated == (time - Smaller(account.time, time)) * PerSec(group)
  IN Smaller(allocated + left, MaxGasPower(group))

NoEvent == [left |-> 0, time |-> -1]

\* The account that an epoch begins with, of one whose last confirmed event in the epoch before
\* left prev.
EpochAccount(prev, epochStart, refund) ==
  IF prev = NoEvent THEN [left |-> refund, time |-> epochStart]
  ELSE [prev EXCEPT !.left = @ + refund]
=============================================================================
