------------------------------ MODULE EnumRetry ------------------------------
(***************************************************************************)
(* When the root port is power-cycled because nothing enumerates:          *)
(* rtl_usb::EnumRetry (rtl_usb_guard.hpp) and the time side of             *)
(* recover_failed_enumeration (esp_rtl_sdr.cpp), on a clock that wraps.    *)
(*                                                                         *)
(* One tick is the scan interval or longer.  "real" and "quiet" are the    *)
(* true times the wrapping clock stands for, kept for the properties.      *)
(***************************************************************************)
EXTENDS Naturals

CONSTANTS
    Wrap,          \* the clock counts modulo Wrap (2^32 ms)
    FirstWait,     \* kFirstWaitMs
    MaxWait,       \* kMaxWaitMs
    ScanEvery,     \* kEnumCheckEveryMs
    OffTime,       \* kRootPortOffMs
    FreshSession,  \* no session ends while the wait is counting
    Idle           \* model value: no cycle under way

ASSUME RetryTimes == /\ {Wrap, FirstWait, MaxWait, ScanEvery, OffTime} \subseteq Nat \ {0}
                     /\ FirstWait <= MaxWait /\ OffTime < FirstWait
                     /\ MaxWait + OffTime + 2 * ScanEvery < Wrap
ASSUME RetryDiscipline == FreshSession \in BOOLEAN /\ Idle \notin Nat

VARIABLES
    now,      \* the clock
    retry,    \* EnumRetry: [counting, since, wait]
    lastScan, \* enum_last_scan
    up,       \* a session of this driver has the host installed
    device,   \* "none", "listed": enumerated, "open": some handle has it open
    cycling,  \* Idle, or the time the port stays off
    real,     \* since a device was seen, the host came up, or the last cycle
    quiet     \* since the last scan

vars == <<now, retry, lastScan, up, device, cycling, real, quiet>>

Slack == 2 * ScanEvery + 1   \* the scans that begin and end a wait may each be late
Cap == MaxWait + Slack + 1

TypeOK ==
    /\ now \in 0..(Wrap - 1)
    /\ retry \in [counting: BOOLEAN, since: 0..(Wrap - 1), wait: FirstWait..MaxWait]
    /\ lastScan \in 0..(Wrap - 1)
    /\ up \in BOOLEAN /\ device \in {"none", "listed", "open"}
    /\ cycling \in (0..OffTime) \cup {Idle}
    /\ real \in 0..Cap /\ quiet \in 0..Cap

Init ==
    /\ now \in 0..(Wrap - 1) /\ lastScan = 0
    /\ retry = [counting |-> FALSE, since |-> 0, wait |-> FirstWait]
    /\ up = FALSE /\ device = "none" /\ cycling = Idle
    /\ real = 0 /\ quiet = 0

\* static_cast<uint32_t>(now - then)
Elapsed(then) == (now + Wrap - then) % Wrap

Least(a, b) == IF a < b THEN a ELSE b

DevicePresent == retry' = [retry EXCEPT !.counting = FALSE, !.wait = FirstWait]

\* Mutant of Due: a deadline is compared, which a clock that wraps breaks.
DueAtDeadline == retry.counting /\ now >= retry.since + retry.wait

Due == retry.counting /\ Elapsed(retry.since) >= retry.wait

\* Mutant of NoDevice: the wait is counted from an earlier one.
NoDeviceStale ==
    retry' = IF ~retry.counting THEN [retry EXCEPT !.counting = TRUE]
             ELSE IF Due THEN [retry EXCEPT !.since = now, !.wait = Least(2 * @, MaxWait)]
             ELSE retry

NoDevice ==
    retry' = IF ~retry.counting THEN [retry EXCEPT !.counting = TRUE, !.since = now]
             ELSE IF Due THEN [retry EXCEPT !.since = now, !.wait = Least(2 * @, MaxWait)]
             ELSE retry

(***************************************************************************)
(* Steps.                                                                  *)
(***************************************************************************)

\* Client tasks loop every few milliseconds: time does not pass a scan that is
\* overdue, unless the task that scans is inside a power cycle.
Tick ==
    /\ up /\ cycling = Idle => quiet <= ScanEvery
    /\ cycling # 0
    /\ now' = (now + 1) % Wrap
    /\ real' = Least(real + 1, Cap) /\ quiet' = Least(quiet + 1, Cap)
    /\ cycling' = IF cycling = Idle THEN Idle ELSE cycling - 1
    /\ UNCHANGED <<retry, lastScan, up, device>>

\* recover_failed_enumeration of a handle without a device.
Scan ==
    /\ up /\ Elapsed(lastScan) >= ScanEvery
    /\ lastScan' = now /\ quiet' = 0
    /\ IF device # "none"
       THEN DevicePresent /\ real' = 0 /\ UNCHANGED cycling
       ELSE /\ NoDevice
            /\ IF Due THEN cycling = Idle /\ cycling' = OffTime /\ real' = 0
               ELSE UNCHANGED <<cycling, real>>
    /\ UNCHANGED <<now, up, device>>

\* recover_failed_enumeration of the handle that has a device open: no limit.
SeeOpen ==
    /\ up /\ device = "open"
    /\ DevicePresent /\ real' = 0 /\ quiet' = 0
    /\ UNCHANGED <<now, lastScan, up, device, cycling>>

\* The port is on again: cycled().
PowerBack ==
    /\ cycling = 0
    /\ cycling' = Idle /\ real' = 0
    /\ retry' = [retry EXCEPT !.since = now]
    /\ UNCHANGED <<now, lastScan, up, device, quiet>>

Bus ==
    /\ \/ device = "none" /\ up /\ cycling = Idle /\ device' = "listed"
       \/ device = "listed" /\ device' \in {"none", "open"}
       \/ device = "open" /\ device' \in {"none", "listed"}
    /\ UNCHANGED <<now, retry, lastScan, up, cycling, real, quiet>>

\* The wait is not reset when a session begins, nor when it ends, which takes a
\* device on the bus (session_release).
HostUp ==
    /\ ~up /\ up' = TRUE
    /\ real' = 0 /\ quiet' = 0
    /\ UNCHANGED <<now, retry, lastScan, device, cycling>>

HostDown ==
    /\ up /\ cycling = Idle /\ device = "listed"
    /\ FreshSession => ~retry.counting
    /\ up' = FALSE /\ device' = "none"
    /\ UNCHANGED <<now, retry, lastScan, cycling, real, quiet>>

Next == Tick \/ Scan \/ SeeOpen \/ PowerBack \/ Bus \/ HostUp \/ HostDown

Spec == Init /\ [][Next]_vars

(***************************************************************************)
(* Properties.                                                             *)
(***************************************************************************)

\* rtl_usb_guard.hpp 85-88, CHANGELOG: the port is cycled only after the bus
\* had no device for the whole wait, counted from when a device was last seen,
\* the session began or the port came back; a clock that wraps changes nothing.
CycleAfterWait == [][cycling = Idle /\ cycling' # Idle => real >= retry.wait]_vars

\* ... and it is cycled then: an empty bus never waits longer than the wait
\* and the two scan intervals it begins and ends in, whatever the clock reads.
CycleInTime == up /\ device = "none" /\ cycling = Idle => real <= retry.wait + Slack
=============================================================================
