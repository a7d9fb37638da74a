----------------------------- MODULE FaultGuard -----------------------------
(***************************************************************************)
(* The USB enumeration fault guard of esp_rtl_sdr.cpp: three words in RTC  *)
(* memory that outlive a panic, a one-shot settle timer, and the check     *)
(* every install begins with.  The steps are action operators over the     *)
(* guard's own variables, conjoined by HostSession with the calls they are *)
(* made in.                                                                *)
(*                                                                         *)
(* The timer itself is not state: time is not modelled, and whether it is  *)
(* the timer of this install or one that boot_check forgot without         *)
(* stopping it, it may fire whenever this boot's risk is pending.  The     *)
(* history "past" is what really happened, for the properties only.        *)
(***************************************************************************)
EXTENDS Naturals

CONSTANTS
    Threshold,  \* kUsbFaultGuardPanicThreshold
    MaxStreak   \* bound: panics in a row, and counted panics

ASSUME ThresholdPositive == Threshold \in Nat \ {0}
ASSUME StreakBound == MaxStreak \in Nat /\ MaxStreak >= Threshold

VARIABLES
    rtc,    \* s_usb_fault_guard: [valid (magic), panics, risk]
    safe,   \* s_usb_fault_guard_safe_mode_this_boot
    reason, \* esp_reset_reason() of this boot
    fresh,  \* no install in this boot yet: no timer was started
    past    \* history, see GuardTypeOK

guardVars == <<rtc, safe, reason, fresh, past>>

NoPast == [streak |-> 0,      \* boots in a row that ended in a panic; Threshold stays
           loop |-> 0,        \* ... enumerating, with the guard never disarmed
           blurred |-> FALSE, \* an install met the risk of another install of
                              \* its boot, or a boot without one kept the risk
           dropped |-> FALSE] \* the guard was disarmed in this boot

GuardTypeOK ==
    /\ rtc \in [valid: BOOLEAN, panics: 0..MaxStreak, risk: BOOLEAN]
    /\ safe \in BOOLEAN
    /\ reason \in {"power", "panic", "other"}
    /\ fresh \in BOOLEAN
    /\ past \in [streak: 0..MaxStreak, loop: 0..MaxStreak,
                 blurred: BOOLEAN, dropped: BOOLEAN]

GuardInit ==
    /\ rtc = [valid |-> FALSE, panics |-> 0, risk |-> FALSE]
    /\ safe = FALSE
    /\ reason = "power"
    /\ fresh = TRUE
    /\ past = NoPast

(***************************************************************************)
(* The helpers of the guard.                                               *)
(***************************************************************************)

Disarmed(r) == [r EXCEPT !.risk = FALSE]
Armed(r) == [r EXCEPT !.risk = TRUE]

\* Mutant of Checked: the reason of the reset is not looked at.
CheckedAnyReset ==
    LET panics == IF ~rtc.valid THEN 0
                  ELSE IF rtc.risk THEN rtc.panics + 1
                  ELSE IF rtc.panics < Threshold THEN 0 ELSE rtc.panics
    IN  [valid |-> TRUE, panics |-> panics, risk |-> FALSE]

\* Mutant of Checked: a boot without a pending risk clears the latch as well.
CheckedForgets ==
    LET panics == IF rtc.valid /\ rtc.risk /\ reason = "panic" THEN rtc.panics + 1 ELSE 0
    IN  [valid |-> TRUE, panics |-> panics, risk |-> FALSE]

\* usb_fault_guard_boot_check.
Checked ==
    LET panics == IF ~rtc.valid THEN 0
                  ELSE IF rtc.risk THEN (IF reason = "panic" THEN rtc.panics + 1 ELSE 0)
                  ELSE IF rtc.panics < Threshold THEN 0 ELSE rtc.panics
    IN  [valid |-> TRUE, panics |-> panics, risk |-> FALSE]

Latched == Checked.panics >= Threshold

\* Mutant of InstallChecks: the guard is not armed.
InstallChecksUnarmed ==
    /\ fresh' = FALSE
    /\ past' = [past EXCEPT !.blurred = @ \/ (rtc.risk /\ ~fresh)]
    /\ UNCHANGED reason
    /\ rtc' = Checked
    /\ safe' = Latched

\* What an install does to the guard: it refuses, or arms.
InstallChecks ==
    /\ fresh' = FALSE
    /\ past' = [past EXCEPT !.blurred = @ \/ (rtc.risk /\ ~fresh)]
    /\ UNCHANGED reason
    /\ rtc' = IF Latched THEN Checked ELSE Armed(Checked)
    /\ safe' = Latched

\* usb_fault_guard_disarm.
GuardDisarm ==
    /\ rtc' = Disarmed(rtc)
    /\ past' = [past EXCEPT !.dropped = TRUE]
    /\ UNCHANGED <<safe, reason, fresh>>

\* recover_failed_enumeration: disarm, then arm.
GuardRearm ==
    /\ rtc' = Armed(rtc)
    /\ UNCHANGED <<safe, reason, fresh, past>>

\* usb_fault_guard_timer_cb.
TimerFires == rtc.risk /\ ~fresh /\ GuardDisarm

\* esp_rtl_sdr_usb_fault_guard_reset.
GuardReset ==
    /\ rtc' = [valid |-> TRUE, panics |-> 0, risk |-> FALSE]
    /\ safe' = FALSE
    /\ past' = [past EXCEPT !.streak = 0, !.loop = 0, !.blurred = FALSE, !.dropped = TRUE]
    /\ UNCHANGED <<reason, fresh>>

\* A reset of the chip. RTC memory survives all but a loss of power; timers
\* and the flag of this boot do not.
Reset(why, enumerating) ==
    /\ why = "panic" => past.streak < MaxStreak /\ rtc.panics < MaxStreak
    /\ rtc' = IF why = "power" THEN [valid |-> FALSE, panics |-> 0, risk |-> FALSE] ELSE rtc
    /\ safe' = FALSE
    /\ reason' = why
    /\ fresh' = TRUE
    /\ past' = [NoPast EXCEPT
         !.streak = IF why = "panic" THEN past.streak + 1
                    ELSE IF why = "other" /\ past.streak >= Threshold THEN past.streak ELSE 0,
         !.loop = IF why = "panic" /\ enumerating /\ ~past.dropped THEN past.loop + 1 ELSE 0,
         !.blurred = (past.blurred \/ (fresh /\ rtc.risk)) /\ why # "power"]

(***************************************************************************)
(* Properties.                                                             *)
(***************************************************************************)

\* CHANGELOG 378-382: the guard counts consecutive boots that panic. It never
\* counts more than there were, as long as every boot installs and no install
\* is made while the risk of an earlier one of its boot is pending.
LatchEarned == ~past.blurred /\ ~fresh => rtc.panics <= past.streak

\* "After 3 consecutive enumeration-time panics": safe mode means at least
\* so many panics, however often install was called.
LatchNeedsPanics == safe => past.streak >= Threshold

\* The reason for the guard: as many panics in a row while a device is being
\* enumerated, in boots in which nothing disarmed the guard, are the last.
CrashLoopEnds == past.loop <= Threshold

\* esp_rtl_sdr.h 159-172: a latched guard stays latched over resets until it is
\* cleared or power is lost, if no install overlaps the risk of another.
LatchSticks ==
    [][rtc.panics >= Threshold /\ ~past.blurred /\ ~past.blurred' =>
         rtc'.panics >= Threshold \/ GuardReset \/ reason' = "power"]_guardVars
=============================================================================
