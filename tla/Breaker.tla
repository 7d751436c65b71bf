------------------------------- MODULE Breaker -------------------------------
(***************************************************************************)
(* osp::Breaker: the circuit breaker with graded degradation.  The whole   *)
(* state is one packed word and Update replaces it with one exchange, so   *)
(* each event is one step whichever thread it comes from.                  *)
(***************************************************************************)
EXTENDS Integers

CONSTANT CooldownCycles

VARIABLES
  state,   \* the packed word
  since    \* dispatch cycles since the last break, up to CooldownCycles, and
           \* the healthy windows of the recovery since then

vars == <<state, since>>

kDirectTimeoutThreshold == 3
kRtcTimeoutThreshold == 3
kWatermarkViolationPct == 80
kLowWatermarkPct == 50
kHighWatermarkPersist == 3
kLowWatermarkPersist == 3
kHealthyWindowsRequired == 3
kCounterMask == 3

(* The four Enter functions, with ResetMetrics. *)
Enter(level, cooldown) ==
  [level |-> level, cooldown |-> cooldown,
   direct |-> 0, rtc |-> 0, high |-> 0, low |-> 0, healthy |-> 0, probe |-> FALSE]

EnterL1 == Enter("BrokenL1", CooldownCycles)
EnterL2 == Enter("BrokenL2", CooldownCycles)
EnterSafe == Enter("Safe", CooldownCycles)

(* Mutant: a restore from Safe clears the cooldown. *)
EnterRecovering_NoCooldown(s) == Enter("Recovering", 0)

EnterRecovering(s) == Enter("Recovering", s.cooldown)

Increment(n) == IF n < kCounterMask THEN n + 1 ELSE n

-----------------------------------------------------------------------------
(* The transitions *)

DirectTimeout(s) ==
  LET t == [s EXCEPT !.direct = Increment(@)] IN
    CASE s.level = "Recovering" -> EnterL2
      [] s.level = "Normal" /\ t.direct >= kDirectTimeoutThreshold -> EnterL1
      [] OTHER -> t

RtcTimeout(s) ==
  LET t == [s EXCEPT !.rtc = Increment(@)] IN
    CASE s.level = "Recovering" -> EnterL2
      [] s.level \in {"Normal", "BrokenL1"} /\ t.rtc >= kRtcTimeoutThreshold -> EnterL2
      [] OTHER -> t

Watermark(s, percent) ==
  LET high == percent > kWatermarkViolationPct
      low == percent < kLowWatermarkPct
      t == [s EXCEPT !.high = IF high THEN Increment(@) ELSE 0,
                     !.low = IF low /\ ~high THEN Increment(@) ELSE 0]
  IN CASE s.level \in {"Normal", "BrokenL1"} /\ t.high >= kHighWatermarkPersist -> EnterL2
       [] /\ s.level \in {"BrokenL1", "BrokenL2"}
          /\ t.cooldown = 0 /\ t.low >= kLowWatermarkPersist -> EnterRecovering(t)
       [] s.level = "Recovering" /\ ~low -> EnterL2
       [] OTHER -> t

Overflow(s) == IF s.level \in {"Normal", "BrokenL1", "Recovering"} THEN EnterL2 ELSE s

KeyReserveExhausted(s) == IF s.level = "Safe" THEN s ELSE EnterSafe

DispatchCycle(s) ==
  LET t == [s EXCEPT !.cooldown = IF @ > 0 THEN @ - 1 ELSE 0] IN
    IF ~(s.level = "Recovering" /\ t.cooldown = 0 /\ s.probe) THEN t
    ELSE IF Increment(t.healthy) >= kHealthyWindowsRequired
      THEN [t EXCEPT !.level = "Normal", !.healthy = 0, !.probe = FALSE]
      ELSE [t EXCEPT !.healthy = Increment(@), !.probe = FALSE]

ProbeSuccess(s) == IF s.level = "Recovering" THEN [s EXCEPT !.probe = TRUE] ELSE s

ProbeFailure(s) == IF s.level = "Recovering" THEN EnterL2 ELSE s

ExternalSafeRestore(s) == IF s.level = "Safe" THEN EnterRecovering(s) ELSE s

(* A qualifying call does not touch the cooldown. *)
RtcOk(s) == [s EXCEPT !.direct = 0, !.rtc = 0]

-----------------------------------------------------------------------------
Init ==
  /\ state = Enter("Normal", 0)
  /\ since = [cycles |-> 0, windows |-> 0]

Broken == {"BrokenL1", "BrokenL2", "Safe"}
Count(n, limit) == IF n < limit THEN n + 1 ELSE n

(* What the history records of a step: a break starts it anew, a dispatch  *)
(* cycle that finds a successful probe with CooldownCycles passed is a     *)
(* window.                                                                 *)
History(cycle) ==
  since' =
    IF state'.level \in Broken /\ state'.level # state.level
      THEN [cycles |-> 0, windows |-> 0]
      ELSE [cycles |-> IF cycle THEN Count(since.cycles, CooldownCycles) ELSE since.cycles,
            windows |-> IF state.level # "Recovering" THEN 0
                        ELSE IF cycle /\ state.probe /\ since.cycles + 1 >= CooldownCycles
                          THEN Count(since.windows, kHealthyWindowsRequired)
                          ELSE since.windows]

Update(s) == state' = s /\ History(FALSE)

OnDirectTimeout == Update(DirectTimeout(state))
OnRtcTimeout == Update(RtcTimeout(state))
OnWatermark(percent) == Update(Watermark(state, percent))
OnWatermarkViolation == OnWatermark(kWatermarkViolationPct + 1)
OnOverflow == Update(Overflow(state))
OnKeyReserveExhausted == Update(KeyReserveExhausted(state))
OnWatchdog == OnKeyReserveExhausted
OnDispatchCycle == state' = DispatchCycle(state) /\ History(TRUE)
OnProbeSuccess == Update(ProbeSuccess(state))
OnProbeFailure == Update(ProbeFailure(state))
OnExternalSafeRestore == Update(ExternalSafeRestore(state))
OnRtcOk == Update(RtcOk(state))

(* Samples on both sides of the two thresholds. *)
Percents == {kLowWatermarkPct - 1, kLowWatermarkPct, kWatermarkViolationPct}

Next ==
  \/ OnDirectTimeout \/ OnRtcTimeout \/ OnRtcOk \/ OnOverflow
  \/ (\E p \in Percents : OnWatermark(p)) \/ OnWatermarkViolation
  \/ OnKeyReserveExhausted \/ OnWatchdog \/ OnExternalSafeRestore
  \/ OnDispatchCycle \/ OnProbeSuccess \/ OnProbeFailure

Spec == Init /\ [][Next]_vars

-----------------------------------------------------------------------------
(* Properties *)

(* "the recovery window is never skipped": the breaker becomes Normal only *)
(* from Recovering, after kHealthyWindowsRequired windows in which a probe *)
(* succeeded, all of them CooldownCycles or more dispatch cycles after the *)
(* last break; Safe is left for Recovering only.                           *)
RecoveryEarned ==
  [][/\ state'.level = "Normal" /\ state.level # "Normal" =>
          state.level = "Recovering" /\ since'.windows = kHealthyWindowsRequired
     /\ state.level = "Safe" => state'.level \in {"Safe", "Recovering"}]_vars
=============================================================================
