------------------------------- MODULE RtcSync -------------------------------
(***************************************************************************)
(* Controller::fixTime(): at start controller_read compares the clock of   *)
(* its charge controller with the local time, and sets it when the dates   *)
(* differ or the times of day differ by more than Tolerance seconds.       *)
(*                                                                         *)
(* The local time is taken before the clock is read over the bus and is    *)
(* what is written after that; both transactions take their time, behind   *)
(* the other services.  A read that fails leaves zeros, a date of long     *)
(* ago.  Time is in seconds, Day seconds make a date.                      *)
(***************************************************************************)
EXTENDS Integers

CONSTANTS
    Day,         \* seconds of a day
    Tolerance,   \* 30
    MaxNow,      \* bound: seconds the local clock runs
    FirstNow, FirstRtc   \* what the clocks show at first: two sets

ASSUME RtcAssumption ==
    /\ Day \in Nat \ {0} /\ Tolerance \in Nat
    /\ MaxNow \in Nat
    /\ FirstNow \subseteq {x \in Nat : x >= Day} /\ FirstRtc \subseteq Nat

VARIABLES
    pc,      \* "start", "read", "compare", "write" or "done"
    now,     \* the local clock
    rtc,     \* the clock of the controller, which runs as well
    local,   \* local_time: the local clock when fixTime() looked at it
    remote,  \* remote_time: what the read returned, Zeros when it failed
    wrote    \* the clock has been set

rtcVars == <<pc, now, rtc, local, remote, wrote>>

Zeros == 0

Distance(x, y) == IF x >= y THEN x - y ELSE y - x
Date(x) == x \div Day
TimeOfDay(x) == x % Day

\* Mutant: abs() is missing.
Differ_NoAbs(x, y) ==
    \/ Date(x) # Date(y)
    \/ TimeOfDay(x) - TimeOfDay(y) > Tolerance

\* The condition fixTime() sets the clock under.
Differ(x, y) ==
    \/ Date(x) # Date(y)
    \/ Distance(TimeOfDay(x), TimeOfDay(y)) > Tolerance

RtcTypeOK ==
    /\ pc \in {"start", "read", "compare", "write", "done"}
    /\ now \in Nat /\ rtc \in Nat /\ local \in Nat /\ remote \in Nat
    /\ wrote \in BOOLEAN

RtcInit ==
    /\ pc = "start" /\ now \in FirstNow /\ rtc \in FirstRtc
    /\ local = 0 /\ remote = Zeros /\ wrote = FALSE

\* localtime() of time().
Capture ==
    /\ pc = "start"
    /\ local' = now /\ pc' = "read"
    /\ UNCHANGED <<now, rtc, remote, wrote>>

\* readVariable( RTC_MINUTE_SECOND, 1, 3, value ): its result is not looked at.
ReadRtc ==
    /\ pc = "read"
    /\ remote' \in {rtc, Zeros}
    /\ pc' = "compare"
    /\ UNCHANGED <<now, rtc, local, wrote>>

Compare ==
    /\ pc = "compare"
    /\ pc' = IF Differ(local, remote) THEN "write" ELSE "done"
    /\ UNCHANGED <<now, rtc, local, remote, wrote>>

\* writeRawVariable(): the controller takes it, or it is lost; nobody looks.
WriteRtc ==
    /\ pc = "write"
    /\ \/ rtc' = local /\ wrote' = TRUE
       \/ UNCHANGED <<rtc, wrote>>
    /\ pc' = "done"
    /\ UNCHANGED <<now, local, remote>>

\* Both clocks run.
Tick ==
    /\ now < MaxNow /\ pc # "done"
    /\ now' = now + 1 /\ rtc' = rtc + 1
    /\ UNCHANGED <<pc, local, remote, wrote>>

Rest == pc = "done" /\ UNCHANGED rtcVars

RtcNext == Capture \/ ReadRtc \/ Compare \/ WriteRtc \/ Tick \/ Rest

RtcSpec == RtcInit /\ [][RtcNext]_rtcVars

-----------------------------------------------------------------------------
(* Properties. *)

\* The time since fixTime() looked at the local clock.
Waited == now - local

\* When fixTime() is done, and did not lose the write, the clock is right up to
\* the tolerance and the time the bus took: the write sets a time that is old
\* by then, and the comparison is with a clock read later than the local one;
\* also around midnight, where the times of day are far apart.
Synced ==
    pc = "done" /\ (wrote \/ ~Differ(local, remote))
        => Distance(now, rtc) <= Tolerance + Waited
=============================================================================
