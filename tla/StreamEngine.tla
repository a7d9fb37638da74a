---------------------------- MODULE StreamEngine ----------------------------
(***************************************************************************)
(* The streaming engine of one esp_rtl_sdr handle (esp_rtl_sdr.cpp): the   *)
(* pool of bulk URBs, the EP0 window flag ep0_sideband_busy, and the four  *)
(* kinds of task that share the handle:                                    *)
(*   - application tasks calling start, stop, reset, retune and the gain / *)
(*     bias / bandwidth setters,                                           *)
(*   - the delivery task, which recovers stalls and applies queued work,   *)
(*   - the USB client task, which runs bulk_cb and cleans up after an      *)
(*     unplug,                                                             *)
(*   - the USB host (external), which completes, fails and returns URBs.   *)
(*                                                                         *)
(* One action is one stretch of the code in which no other task can see an *)
(* intermediate value that matters: a critical section of the handle       *)
(* mutex, or the accesses between two reads of the unlocked shared fields. *)
(* The volatile counter live_urbs is read and written back in two steps.   *)
(***************************************************************************)
EXTENDS Naturals, FiniteSets

CONSTANTS
    N,            \* URBs in the bulk pool (cfg.transfer_count)
    App,          \* application tasks
    Ops,          \* Ops[a]: the API calls task a makes
    Freqs,        \* LO frequencies; 0 is "no retune pending"
    StartAlone,   \* no other call is under way while a stream starts
    SteadyFaults, \* device faults hit only while no start is under way
    MaxRecover,   \* kEpRecoverAttempts
    MaxErrors,    \* bound: failing or malformed bulk completions
    MaxEp0Faults, \* bound: EP0 sequences, claims and allocations that fail
    MaxUnplugs,   \* bound: disconnects
    MaxLate       \* bound: poll windows that expire while URBs are returning

ASSUME UrbCount == N \in Nat \ {0}
ASSUME TaskNames == {"delivery", "client"} \cap App = {}
ASSUME OpsOfApps == Ops \in [App -> SUBSET {"start", "stop", "reset", "retune", "control"}]
ASSUME FreqValues == Freqs \subseteq Nat \ {0} /\ Freqs # {}
ASSUME Disciplines == StartAlone \in BOOLEAN /\ SteadyFaults \in BOOLEAN
ASSUME RecoverAttempts == MaxRecover \in Nat
ASSUME BoundValues == {MaxErrors, MaxEp0Faults, MaxUnplugs, MaxLate} \subseteq Nat

VARIABLES
    h,      \* the fields of esp_rtl_sdr_handle
    usb,    \* the device and the host stack
    pc,     \* where each task is
    loc,    \* locals of each task
    gn      \* the client task's unplug cleanup: [phase, held]

vars == <<h, usb, pc, loc, gn>>

Urbs == 1..N
Task == App \cup {"delivery", "client"}
NoFreq == 0

\* Locals of a task that is in no call.
Fresh == [op |-> "none", f |-> NoFreq, idx |-> 1, tmp |-> 0, ok |-> TRUE]

States == {"IDLE", "STARTING", "STREAMING", "STOPPING", "FAULT"}
Outcomes == {"ok", "bad", "lost"}  \* data, malformed data, returned without data
OpNames == {"none", "start", "alloc", "stop", "retune", "control", "recover", "side"}
PCs == {"pump", "cb_submit", "cb_load", "cb_store", "none", "top", "chk_retune",
        "chk_side", "emit", "rec_begin", "sb_enter", "ready", "pause", "poll", "poll2",
        "drained", "resume", "rs_submit", "inc_load", "inc_store", "release",
        "rt_enter", "rt_take", "ep0", "sp_take", "sp_mark", "sp_ep0", "sp_free",
        "st_claim", "st_ep0", "st_alloc", "st_free", "st_pool", "st_arm", "st_submit",
        "fail_tail", "ct_queue", "ct_ep0"}

Init ==
    /\ h = [state |-> "IDLE", streaming |-> FALSE, pause |-> FALSE, live |-> 0,
            stall |-> FALSE, recov |-> 0, busy |-> FALSE, retuneBusy |-> FALSE,
            pend |-> NoFreq, side |-> FALSE, freq |-> NoFreq,
            dev |-> TRUE, gone |-> FALSE, iface |-> FALSE, pool |-> FALSE]
    /\ usb = [urb |-> [i \in Urbs |-> "idle"], halted |-> FALSE, plugged |-> TRUE,
              errors |-> 0, faults |-> 0, unplugs |-> 0, late |-> 0]
    /\ pc = [t \in Task |-> IF t = "client" THEN "pump"
                            ELSE IF t = "delivery" THEN "none" ELSE "ready"]
    /\ loc = [t \in Task |-> Fresh]
    /\ gn = [phase |-> "none", held |-> FALSE]

-----------------------------------------------------------------------------
(* Helpers.                                                                *)

Goto(t, l) == pc' = [pc EXCEPT ![t] = l]
Clear(t) == loc' = [loc EXCEPT ![t] = Fresh]
ClearIf(t, ends) == loc' = [loc EXCEPT ![t] = IF ends THEN Fresh ELSE @]

\* Where a task continues when the current call or sub-step of its loop ends.
After(t) ==
    IF t # "delivery" THEN "ready"
    ELSE CASE loc[t].op = "recover" -> "chk_retune"
           [] loc[t].op = "retune"  -> "chk_side"
           [] OTHER                 -> "emit"

Flying(i) == usb.urb[i] = "flight"
InCallback == pc["client"] \in {"cb_submit", "cb_load", "cb_store"}

\* A URB the host, or a callback that is still running, may touch.
Outstanding(i) == usb.urb[i] # "idle" \/ (InCallback /\ loc["client"].idx = i)
AllReturned == \A i \in Urbs : ~Outstanding(i)

\* usb_host_transfer_submit accepts a URB of a claimed, present, running pipe.
CanSubmit(i) == /\ h.pool /\ h.dev /\ h.iface
                /\ usb.plugged /\ ~usb.halted /\ usb.urb[i] = "idle"

\* usb_host_endpoint_halt / _flush / _clear: queued URBs come back, pipe runs.
Flushed(u) == [u EXCEPT !.urb = [i \in Urbs |-> IF u.urb[i] = "flight" THEN "lost" ELSE u.urb[i]],
                        !.halted = FALSE]

\* A bounded wait runs out: always possible once nothing is left to return,
\* otherwise within the budget of late completions.
MayExpire == AllReturned \/ usb.late < MaxLate
Expired(u) == [u EXCEPT !.late = IF AllReturned THEN @ ELSE @ + 1]

-----------------------------------------------------------------------------
(* The host controller and the device (external).                          *)

Starting == \E a \in App : loc[a].op \in {"start", "alloc"}
MayFault == SteadyFaults => ~Starting

Complete(i) ==
    /\ Flying(i) /\ usb.plugged /\ ~usb.halted
    /\ usb' = [usb EXCEPT !.urb[i] = "ok"]
    /\ UNCHANGED <<h, pc, loc, gn>>

\* A transfer error halts the bulk endpoint.
Fail(i) ==
    /\ Flying(i) /\ usb.plugged /\ ~usb.halted /\ usb.errors < MaxErrors /\ MayFault
    /\ usb' = [usb EXCEPT !.urb[i] = "lost", !.halted = TRUE, !.errors = @ + 1]
    /\ UNCHANGED <<h, pc, loc, gn>>

\* An odd byte count, which acquisition mode rejects.
Malform(i) ==
    /\ Flying(i) /\ usb.plugged /\ ~usb.halted /\ usb.errors < MaxErrors /\ MayFault
    /\ usb' = [usb EXCEPT !.urb[i] = "bad", !.errors = @ + 1]
    /\ UNCHANGED <<h, pc, loc, gn>>

\* The host hands back the URBs of a halted or removed pipe.
Retire(i) ==
    /\ Flying(i) /\ (usb.halted \/ ~usb.plugged)
    /\ usb' = [usb EXCEPT !.urb[i] = "lost"]
    /\ UNCHANGED <<h, pc, loc, gn>>

Unplug ==
    /\ usb.plugged /\ h.dev /\ usb.unplugs < MaxUnplugs /\ MayFault
    /\ usb' = [usb EXCEPT !.plugged = FALSE, !.unplugs = @ + 1]
    /\ UNCHANGED <<h, pc, loc, gn>>

-----------------------------------------------------------------------------
(* bulk_cb, on the client task.                                            *)

CbBegin(i) ==
    /\ pc["client"] = "pump" /\ usb.urb[i] \in Outcomes
    /\ LET bad  == usb.urb[i] = "bad"
           live == h.streaming /\ ~bad /\ ~h.pause /\ ~h.gone
       IN  /\ h' = [h EXCEPT !.streaming = @ /\ ~bad,
                             !.state = IF bad THEN "FAULT" ELSE @,
                             !.recov = IF usb.urb[i] = "ok" /\ live THEN 0 ELSE @]
           /\ Goto("client", IF live THEN "cb_submit" ELSE "cb_load")
    /\ usb' = [usb EXCEPT !.urb[i] = "idle"]
    /\ loc' = [loc EXCEPT !["client"].idx = i]
    /\ UNCHANGED gn

\* Mutant of CbSubmit: a resubmitted URB is also counted down.
CbSubmitFallsThrough ==
    /\ pc["client"] = "cb_submit"
    /\ LET i == loc["client"].idx
       IN  IF CanSubmit(i)
           THEN /\ usb' = [usb EXCEPT !.urb[i] = "flight"]
                /\ Goto("client", "cb_load") /\ UNCHANGED <<h, loc>>
           ELSE /\ h' = [h EXCEPT !.stall = TRUE]
                /\ Goto("client", "cb_load") /\ UNCHANGED <<usb, loc>>
    /\ UNCHANGED gn

\* Mutant of CbSubmit: a refused resubmit is not reported to the delivery task.
CbSubmitSilent ==
    /\ pc["client"] = "cb_submit"
    /\ LET i == loc["client"].idx
       IN  IF CanSubmit(i)
           THEN /\ usb' = [usb EXCEPT !.urb[i] = "flight"]
                /\ Goto("client", "pump") /\ Clear("client") /\ UNCHANGED h
           ELSE /\ h' = [h EXCEPT !.stall = @]
                /\ Goto("client", "cb_load") /\ UNCHANGED <<usb, loc>>
    /\ UNCHANGED gn

CbSubmit ==
    /\ pc["client"] = "cb_submit"
    /\ LET i == loc["client"].idx
       IN  IF CanSubmit(i)
           THEN /\ usb' = [usb EXCEPT !.urb[i] = "flight"]
                /\ Goto("client", "pump") /\ Clear("client") /\ UNCHANGED h
           ELSE /\ h' = [h EXCEPT !.stall = TRUE]
                /\ Goto("client", "cb_load") /\ UNCHANGED <<usb, loc>>
    /\ UNCHANGED gn

CbLoad ==
    /\ pc["client"] = "cb_load"
    /\ IF h.live > 0
       THEN /\ loc' = [loc EXCEPT !["client"].tmp = h.live]
            /\ Goto("client", "cb_store")
       ELSE Clear("client") /\ Goto("client", "pump")
    /\ UNCHANGED <<h, usb, gn>>

\* Mutant of CbStore: a returned URB is counted down twice.
CbStoreTwice ==
    /\ pc["client"] = "cb_store"
    /\ h' = [h EXCEPT !.live = loc["client"].tmp - 2]
    /\ Goto("client", "pump") /\ Clear("client")
    /\ UNCHANGED <<usb, gn>>

CbStore ==
    /\ pc["client"] = "cb_store"
    /\ h' = [h EXCEPT !.live = loc["client"].tmp - 1]
    /\ Goto("client", "pump") /\ Clear("client")
    /\ UNCHANGED <<usb, gn>>

-----------------------------------------------------------------------------
(* drain_live_urbs: poll, then halt/flush/clear and poll again.            *)

PollDone(t) ==
    /\ pc[t] \in {"poll", "poll2"} /\ h.live = 0
    /\ loc' = [loc EXCEPT ![t].ok = TRUE]
    /\ Goto(t, "drained")
    /\ UNCHANGED <<h, usb, gn>>

PollExpire(t) ==
    /\ pc[t] = "poll" /\ h.live > 0 /\ MayExpire
    /\ usb' = IF h.dev THEN Flushed(Expired(usb)) ELSE Expired(usb)
    /\ loc' = [loc EXCEPT ![t].ok = FALSE]
    /\ Goto(t, IF h.dev THEN "poll2" ELSE "drained")
    /\ UNCHANGED <<h, gn>>

PollGiveUp(t) ==
    /\ pc[t] = "poll2" /\ h.live > 0 /\ MayExpire
    /\ usb' = Expired(usb)
    /\ loc' = [loc EXCEPT ![t].ok = FALSE]
    /\ Goto(t, "drained")
    /\ UNCHANGED <<h, gn>>

\* bulk_pause_and_drain: nothing to drain once the stream has stopped.
PauseBulk(t) ==
    /\ pc[t] = "pause"
    /\ h' = [h EXCEPT !.pause = @ \/ h.streaming]
    /\ loc' = [loc EXCEPT ![t].ok = TRUE]
    /\ Goto(t, IF h.streaming THEN "poll" ELSE "drained")
    /\ UNCHANGED <<usb, gn>>

(* bulk_resume, after the caller's test of state # FAULT where it has one. *)
\* Mutant of ResumeBegin: pause_resubmit is not cleared.
ResumeBeginStaysPaused(t) ==
    /\ pc[t] = "resume"
    /\ LET go == h.streaming /\ h.pool
       IN  IF h.state = "FAULT" /\ loc[t].op # "recover"
           THEN /\ Goto(t, "release") /\ UNCHANGED <<h, loc>>
           ELSE /\ h' = [h EXCEPT !.live = IF go THEN 0 ELSE @]
                /\ loc' = [loc EXCEPT ![t].idx = IF go THEN 1 ELSE N + 1]
                /\ Goto(t, "rs_submit")
    /\ UNCHANGED <<usb, gn>>

ResumeBegin(t) ==
    /\ pc[t] = "resume"
    /\ LET go == h.streaming /\ h.pool
       IN  IF h.state = "FAULT" /\ loc[t].op # "recover"
           THEN /\ Goto(t, "release") /\ UNCHANGED <<h, loc>>
           ELSE /\ h' = [h EXCEPT !.pause = FALSE, !.live = IF go THEN 0 ELSE @]
                /\ loc' = [loc EXCEPT ![t].idx = IF go THEN 1 ELSE N + 1]
                /\ Goto(t, "rs_submit")
    /\ UNCHANGED <<usb, gn>>

\* A refused submit is skipped.
ResumeSubmit(t) ==
    /\ pc[t] = "rs_submit" /\ loc[t].idx \in Urbs
    /\ LET i == loc[t].idx
       IN  IF CanSubmit(i)
           THEN /\ usb' = [usb EXCEPT !.urb[i] = "flight"]
                /\ Goto(t, "inc_load") /\ UNCHANGED loc
           ELSE /\ loc' = [loc EXCEPT ![t].idx = @ + 1] /\ UNCHANGED <<usb, pc>>
    /\ UNCHANGED <<h, gn>>

ResumeEnd(t) ==
    /\ pc[t] = "rs_submit" /\ loc[t].idx \notin Urbs
    /\ Goto(t, IF loc[t].op = "recover" THEN After(t) ELSE "release")
    /\ IF loc[t].op = "recover" THEN Clear(t) ELSE loc' = [loc EXCEPT ![t].idx = 1]
    /\ UNCHANGED <<h, usb, gn>>

\* live_urbs++ after a successful submit, in bulk_resume and in start.
IncLoad(t) ==
    /\ pc[t] = "inc_load"
    /\ loc' = [loc EXCEPT ![t].tmp = h.live]
    /\ Goto(t, "inc_store")
    /\ UNCHANGED <<h, usb, gn>>

IncStore(t) ==
    /\ pc[t] = "inc_store"
    /\ h' = [h EXCEPT !.live = loc[t].tmp + 1]
    /\ loc' = [loc EXCEPT ![t].idx = @ + 1, ![t].tmp = 0]
    /\ Goto(t, IF loc[t].op = "start" THEN "st_submit" ELSE "rs_submit")
    /\ UNCHANGED <<usb, gn>>

\* Mutant of Release: retune_busy is not cleared.
ReleaseKeepsRetuneBusy(t) ==
    /\ pc[t] = "release"
    /\ h' = [h EXCEPT !.busy = FALSE]
    /\ Goto(t, After(t)) /\ Clear(t)
    /\ UNCHANGED <<usb, gn>>

\* The end of an EP0 window taken for a retune or a control.
Release(t) ==
    /\ pc[t] = "release"
    /\ h' = [h EXCEPT !.busy = FALSE,
                      !.retuneBusy = IF loc[t].op = "retune" THEN FALSE ELSE @]
    /\ Goto(t, After(t)) /\ Clear(t)
    /\ UNCHANGED <<usb, gn>>

-----------------------------------------------------------------------------
(* EP0 work: control transfers on the device, possible while it is there.   *)

Ep0Works == usb.plugged /\ h.dev
Ep0MayFail == ~Ep0Works \/ usb.faults < MaxEp0Faults
Faulted(u) == [u EXCEPT !.faults = IF Ep0Works THEN @ + 1 ELSE @]

(* apply_pending_retune: by an application task or the delivery task.       *)

RetuneEnter(t) ==
    /\ pc[t] = "rt_enter"
    /\ IF h.streaming /\ h.pend # NoFreq
       THEN loc' = [loc EXCEPT ![t].f = h.pend] /\ Goto(t, "rt_take")
       ELSE Clear(t) /\ Goto(t, After(t))
    /\ UNCHANGED <<h, usb, gn>>

RetuneTake(t) ==
    /\ pc[t] = "rt_take"
    /\ IF h.busy
       THEN Goto(t, After(t)) /\ Clear(t) /\ UNCHANGED h
       ELSE /\ h' = [h EXCEPT !.busy = TRUE, !.retuneBusy = TRUE]
            /\ Goto(t, "pause") /\ UNCHANGED loc
    /\ UNCHANGED <<usb, gn>>

\* Mutant of RetuneDrained: a drain timeout is ignored.
RetuneDrainedAnyway(t) ==
    /\ pc[t] = "drained" /\ loc[t].op = "retune"
    /\ \/ /\ ~h.streaming
          /\ h' = [h EXCEPT !.pause = FALSE,
                            !.pend = IF @ = loc[t].f THEN NoFreq ELSE @]
          /\ Goto(t, "release") /\ UNCHANGED loc
       \/ /\ h.streaming
          /\ loc' = [loc EXCEPT ![t].f = IF h.pend # NoFreq THEN h.pend ELSE @]
          /\ Goto(t, "ep0") /\ UNCHANGED h
    /\ UNCHANGED <<usb, gn>>

\* Drain timeout: the request and the pause stay. Stopped meanwhile: both go.
\* Otherwise tune to the newest request.
RetuneDrained(t) ==
    /\ pc[t] = "drained" /\ loc[t].op = "retune"
    /\ \/ /\ ~loc[t].ok
          /\ Goto(t, "release") /\ UNCHANGED <<h, loc>>
       \/ /\ loc[t].ok /\ ~h.streaming
          /\ h' = [h EXCEPT !.pause = FALSE,
                            !.pend = IF @ = loc[t].f THEN NoFreq ELSE @]
          /\ Goto(t, "release") /\ UNCHANGED loc
       \/ /\ loc[t].ok /\ h.streaming
          /\ loc' = [loc EXCEPT ![t].f = IF h.pend # NoFreq THEN h.pend ELSE @]
          /\ Goto(t, "ep0") /\ UNCHANGED h
    /\ UNCHANGED <<usb, gn>>

\* Mutant of RetuneEp0: the queue is emptied whatever it holds by now.
RetuneEp0DropsNewer(t) ==
    /\ pc[t] = "ep0" /\ loc[t].op = "retune"
    /\ LET done == [h EXCEPT !.pend = NoFreq]
       IN  \/ /\ Ep0Works
              /\ \E s \in {h.side, FALSE} :    \* direct sampling cancels gain work
                    h' = [done EXCEPT !.freq = loc[t].f, !.side = s]
              /\ UNCHANGED usb
           \/ /\ Ep0MayFail /\ usb' = Faulted(usb)
              /\ h' \in {done, [done EXCEPT !.streaming = FALSE, !.state = "FAULT"]}
    /\ Goto(t, "resume")
    /\ UNCHANGED <<loc, gn>>

\* The tune succeeds, fails, or succeeds with a failed FIFO reset (a fault).
RetuneEp0(t) ==
    /\ pc[t] = "ep0" /\ loc[t].op = "retune"
    /\ LET done == [h EXCEPT !.pend = IF @ = loc[t].f THEN NoFreq ELSE @]
       IN  \/ /\ Ep0Works
              /\ \E s \in {h.side, FALSE} :    \* direct sampling cancels gain work
                    h' = [done EXCEPT !.freq = loc[t].f, !.side = s]
              /\ UNCHANGED usb
           \/ /\ Ep0MayFail /\ usb' = Faulted(usb)
              /\ h' \in {done, [done EXCEPT !.streaming = FALSE, !.state = "FAULT"]}
    /\ Goto(t, "resume")
    /\ UNCHANGED <<loc, gn>>

(* apply_pending_sideband_ep0: only the delivery task calls it.             *)

SideEnter ==
    /\ pc["delivery"] = "sb_enter"
    /\ IF h.streaming /\ ~h.busy /\ h.side
       THEN /\ h' = [h EXCEPT !.busy = TRUE, !.side = FALSE]
            /\ Goto("delivery", "pause") /\ UNCHANGED loc
       ELSE /\ Goto("delivery", "emit") /\ Clear("delivery") /\ UNCHANGED h
    /\ UNCHANGED <<usb, gn>>

SideDrained ==
    /\ pc["delivery"] = "drained" /\ loc["delivery"].op = "side"
    /\ h' = [h EXCEPT !.side = @ \/ ~loc["delivery"].ok]
    /\ Goto("delivery", IF loc["delivery"].ok THEN "ep0" ELSE "release")
    /\ UNCHANGED <<usb, loc, gn>>

SideEp0 ==
    /\ pc["delivery"] = "ep0" /\ loc["delivery"].op = "side"
    /\ \/ Ep0Works /\ UNCHANGED <<h, usb>>
       \/ /\ Ep0MayFail /\ usb' = Faulted(usb)
          /\ h' \in {h, [h EXCEPT !.streaming = FALSE, !.state = "FAULT"]}
    /\ Goto("delivery", "resume")
    /\ UNCHANGED <<loc, gn>>

-----------------------------------------------------------------------------
(* delivery_task_fn.                                                        *)

DeliveryStep(from, op, cond, to, else) ==
    /\ pc["delivery"] = from
    /\ IF cond
       THEN loc' = [loc EXCEPT !["delivery"].op = op] /\ Goto("delivery", to)
       ELSE Goto("delivery", else) /\ UNCHANGED loc
    /\ UNCHANGED <<h, usb, gn>>

CheckStall ==
    DeliveryStep("top", "recover",
        h.streaming /\ h.stall /\ ~h.pause /\ ~h.retuneBusy /\ ~h.busy,
        "rec_begin", "chk_retune")

CheckRetune ==
    DeliveryStep("chk_retune", "retune",
        h.streaming /\ h.pend # NoFreq /\ ~h.retuneBusy /\ ~h.busy,
        "rt_enter", "chk_side")

CheckSide ==
    DeliveryStep("chk_side", "side",
        h.streaming /\ ~h.retuneBusy /\ ~h.busy /\ h.side,
        "sb_enter", "emit")

\* An IQ block goes to the event callback, which may queue a retune.
Emit ==
    /\ pc["delivery"] = "emit"
    /\ \/ UNCHANGED h
       \/ /\ h.state = "STREAMING" /\ h.streaming
          /\ \E a \in App : "retune" \in Ops[a]
          /\ \E f \in Freqs : h' = [h EXCEPT !.pend = f]
    /\ Goto("delivery", "top")
    /\ UNCHANGED <<usb, loc, gn>>

(* bulk_recover_stall. It does not take the EP0 window.                     *)

RecoverBegin ==
    /\ pc["delivery"] = "rec_begin"
    /\ \/ ~h.pool /\ Goto("delivery", "chk_retune") /\ Clear("delivery") /\ UNCHANGED h
       \/ /\ h.pool /\ h.recov >= MaxRecover
          /\ h' = [h EXCEPT !.stall = FALSE, !.streaming = FALSE, !.state = "FAULT"]
          /\ Goto("delivery", "chk_retune") /\ Clear("delivery")
       \/ /\ h.pool /\ h.recov < MaxRecover
          /\ h' = [h EXCEPT !.stall = FALSE, !.recov = @ + 1, !.pause = TRUE]
          /\ Goto("delivery", "poll") /\ UNCHANGED loc
    /\ UNCHANGED <<usb, gn>>

\* Mutant of RecoverDrained: the halted endpoint is not cleared.
RecoverDrainedHalted ==
    /\ pc["delivery"] = "drained" /\ loc["delivery"].op = "recover"
    /\ IF loc["delivery"].ok
       THEN /\ usb' = usb
            /\ Goto("delivery", "resume") /\ UNCHANGED <<h, loc>>
       ELSE /\ h' = [h EXCEPT !.streaming = FALSE, !.state = "FAULT"]
            /\ Goto("delivery", "chk_retune") /\ Clear("delivery") /\ UNCHANGED usb
    /\ UNCHANGED gn

RecoverDrained ==
    /\ pc["delivery"] = "drained" /\ loc["delivery"].op = "recover"
    /\ IF loc["delivery"].ok
       THEN /\ usb' = IF h.dev THEN Flushed(usb) ELSE usb
            /\ Goto("delivery", "resume") /\ UNCHANGED <<h, loc>>
       ELSE /\ h' = [h EXCEPT !.streaming = FALSE, !.state = "FAULT"]
            /\ Goto("delivery", "chk_retune") /\ Clear("delivery") /\ UNCHANGED usb
    /\ UNCHANGED gn

-----------------------------------------------------------------------------
(* esp_rtl_sdr_stop and stop_stream_internal.                               *)

Call(a, op) == pc[a] = "ready" /\ op \in Ops[a] /\ (StartAlone => ~Starting)
Enter(a, op, l) == /\ loc' = [loc EXCEPT ![a].op = op]
                   /\ Goto(a, l)

\* The state is tested under the mutex, which is released before the stop.
StopCall(a) ==
    /\ Call(a, "stop") /\ h.state \notin {"IDLE", "STARTING"}
    /\ Enter(a, "stop", "sp_take")
    /\ UNCHANGED <<h, usb, gn>>

\* Back to the caller: the failing start, or the application.
StopReturn(t) == /\ Goto(t, IF loc[t].op = "start" THEN "fail_tail" ELSE "ready")
                 /\ ClearIf(t, loc[t].op # "start")

StopTake(t) ==
    /\ pc[t] = "sp_take"
    /\ \/ /\ ~h.busy /\ h' = [h EXCEPT !.busy = TRUE]
          /\ Goto(t, "sp_mark") /\ UNCHANGED <<usb, loc>>
       \/ h.busy /\ StopReturn(t) /\ UNCHANGED <<h, usb>>    \* deadline
    /\ UNCHANGED gn

\* Mutant of StopMark: the state stays STREAMING while the stream is torn down.
StopMarkLate(t) ==
    /\ pc[t] = "sp_mark"
    /\ h' = [h EXCEPT !.pause = TRUE, !.streaming = FALSE,
                      !.pend = NoFreq, !.side = FALSE]
    /\ Goto(t, "poll")
    /\ UNCHANGED <<usb, loc, gn>>

StopMark(t) ==
    /\ pc[t] = "sp_mark"
    /\ h' = [h EXCEPT !.state = "STOPPING", !.pause = TRUE, !.streaming = FALSE,
                      !.pend = NoFreq, !.side = FALSE]
    /\ Goto(t, "poll")
    /\ UNCHANGED <<usb, loc, gn>>

\* Mutant of StopDrained: a drain timeout is ignored.
StopDrainedAnyway(t) ==
    /\ pc[t] = "drained" /\ loc[t].op \in {"stop", "start"}
    /\ IF TRUE
       THEN /\ h' = [h EXCEPT !.live = 0, !.pause = FALSE]
            /\ Goto(t, "sp_ep0") /\ UNCHANGED loc
       ELSE /\ h' = [h EXCEPT !.state = "FAULT", !.busy = FALSE]
            /\ StopReturn(t)
    /\ UNCHANGED <<usb, gn>>

StopDrained(t) ==
    /\ pc[t] = "drained" /\ loc[t].op \in {"stop", "start"}
    /\ IF loc[t].ok
       THEN /\ h' = [h EXCEPT !.live = 0, !.pause = FALSE]
            /\ Goto(t, "sp_ep0") /\ UNCHANGED loc
       ELSE /\ h' = [h EXCEPT !.state = "FAULT", !.busy = FALSE]
            /\ StopReturn(t)
    /\ UNCHANGED <<usb, gn>>

\* Best-effort cleanup over EP0, then the interface is given back.
StopCleanup(t) ==
    /\ pc[t] = "sp_ep0"
    /\ h' = [h EXCEPT !.iface = @ /\ ~h.dev]
    /\ Goto(t, "sp_free")
    /\ UNCHANGED <<usb, loc, gn>>

\* Mutant of StopFree: the pool is not freed.
StopFreeKeeps(t) ==
    /\ pc[t] = "sp_free"
    /\ h' = [h EXCEPT !.state = "IDLE", !.busy = FALSE]
    /\ StopReturn(t)
    /\ UNCHANGED <<usb, gn>>

\* free_bulk_pool refuses while URBs are counted live.
StopFree(t) ==
    /\ pc[t] = "sp_free"
    /\ h' = [h EXCEPT !.pool = @ /\ h.live > 0, !.state = "IDLE", !.busy = FALSE]
    /\ StopReturn(t)
    /\ UNCHANGED <<usb, gn>>

(* esp_rtl_sdr_reset: one critical section.                                 *)

Reset(a) ==
    /\ Call(a, "reset")
    /\ h.state \notin {"STREAMING", "STOPPING", "STARTING"} /\ h.live = 0
    /\ h' = [h EXCEPT !.pool = FALSE, !.state = "IDLE"]
    /\ UNCHANGED <<usb, pc, loc, gn>>

-----------------------------------------------------------------------------
(* esp_rtl_sdr_start. It never takes the EP0 window.                        *)

\* Nothing of the previous stream is left over: the applications have joined
\* their calls and the delivery task is not inside queued work. A start takes
\* seconds of EP0, that remainder microseconds unless the task is starved.
NoCallUnderWay ==
    /\ \A b \in App : pc[b] = "ready"
    /\ pc["delivery"] \in {"none", "top", "chk_retune", "chk_side", "emit"}

StartCall(a) ==
    /\ Call(a, "start") /\ h.state = "IDLE" /\ h.dev
    /\ StartAlone => NoCallUnderWay
    /\ h' = [h EXCEPT !.state = "STARTING"]
    /\ Enter(a, "start", "st_claim")
    /\ UNCHANGED <<usb, gn>>

\* A failing start remembers in tmp whether its error was ERR_USB.
StartFails(a, isUsb) ==
    /\ loc' = [loc EXCEPT ![a] = [Fresh EXCEPT !.op = "start", !.tmp = IF isUsb THEN 1 ELSE 0]]
    /\ Goto(a, "sp_take")

StartClaim(a) ==
    /\ pc[a] = "st_claim"
    /\ \/ /\ Ep0Works /\ ~h.iface
          /\ h' = [h EXCEPT !.iface = TRUE]
          /\ Goto(a, "st_ep0") /\ UNCHANGED <<usb, loc>>
       \/ /\ h.iface \/ Ep0MayFail
          /\ usb' = IF h.iface THEN usb ELSE Faulted(usb)
          /\ StartFails(a, TRUE) /\ UNCHANGED h
    /\ UNCHANGED gn

\* Tables, sample rate and tuner.
StartEp0(a) ==
    /\ pc[a] = "st_ep0"
    /\ \/ /\ Ep0Works /\ Goto(a, "st_alloc") /\ UNCHANGED <<usb, loc>>
       \/ /\ Ep0MayFail /\ usb' = Faulted(usb)
          /\ \E isUsb \in BOOLEAN : StartFails(a, isUsb)
    /\ UNCHANGED <<h, gn>>

\* alloc_bulk_pool: reclaim what a timed-out stop left, or refuse.
StartAlloc(a) ==
    /\ pc[a] = "st_alloc"
    /\ IF h.live > 0
       THEN Enter(a, "alloc", "poll")
       ELSE Goto(a, "st_free") /\ UNCHANGED loc
    /\ UNCHANGED <<h, usb, gn>>

AllocDrained(a) ==
    /\ pc[a] = "drained" /\ loc[a].op = "alloc"
    /\ IF loc[a].ok THEN Enter(a, "start", "st_free") ELSE StartFails(a, FALSE)
    /\ UNCHANGED <<h, usb, gn>>

StartFreeOld(a) ==
    /\ pc[a] = "st_free"
    /\ h' = [h EXCEPT !.pool = @ /\ h.live > 0]
    /\ IF h.pool /\ h.live > 0
       THEN StartFails(a, FALSE)
       ELSE Goto(a, "st_pool") /\ UNCHANGED loc
    /\ UNCHANGED <<usb, gn>>

\* New URBs, rings and, on the first start, the delivery task.
StartPool(a) ==
    /\ pc[a] = "st_pool"
    /\ \/ /\ h' = [h EXCEPT !.pool = TRUE]
          /\ pc' = [pc EXCEPT ![a] = "st_arm",
                              !["delivery"] = IF @ = "none" THEN "top" ELSE @]
          /\ UNCHANGED <<usb, loc>>
       \/ /\ Ep0MayFail /\ usb' = Faulted(usb)
          /\ h' \in {h, [h EXCEPT !.pool = TRUE]}
          /\ StartFails(a, FALSE)
    /\ UNCHANGED gn

\* The counters and flags of the new stream, then, in acquisition mode, a FIFO
\* reset over EP0 that may fail.
Armed(f) == [h EXCEPT !.freq = f, !.pend = NoFreq, !.retuneBusy = FALSE,
                      !.pause = FALSE, !.live = 0]

StartArm(a) ==
    /\ pc[a] = "st_arm"
    /\ \E f \in Freqs :
          \/ /\ h' = [Armed(f) EXCEPT !.streaming = TRUE]
             /\ loc' = [loc EXCEPT ![a].idx = 1]
             /\ Goto(a, "st_submit") /\ UNCHANGED usb
          \/ /\ Ep0MayFail /\ usb' = Faulted(usb) /\ h' = Armed(f)
             /\ \E isUsb \in BOOLEAN : StartFails(a, isUsb)
    /\ UNCHANGED gn

\* Mutant of StartSubmit: a refused submit is tried again.
StartSubmitRetries(a) ==
    /\ pc[a] = "st_submit" /\ loc[a].idx \in Urbs /\ h.pool
    /\ LET i == loc[a].idx
       IN  IF CanSubmit(i)
           THEN /\ usb' = [usb EXCEPT !.urb[i] = "flight"]
                /\ Goto(a, "inc_load") /\ UNCHANGED <<h, loc>>
           ELSE UNCHANGED <<h, usb, pc, loc>>
    /\ UNCHANGED gn

StartSubmit(a) ==
    /\ pc[a] = "st_submit" /\ loc[a].idx \in Urbs /\ h.pool
    /\ LET i == loc[a].idx
       IN  IF CanSubmit(i)
           THEN /\ usb' = [usb EXCEPT !.urb[i] = "flight"]
                /\ Goto(a, "inc_load") /\ UNCHANGED <<h, loc>>
           ELSE /\ h' = [h EXCEPT !.streaming = FALSE]
                /\ StartFails(a, TRUE) /\ UNCHANGED usb
    /\ UNCHANGED gn

StartEnd(a) ==
    /\ pc[a] = "st_submit" /\ (loc[a].idx \notin Urbs \/ ~h.pool)
    /\ h' = [h EXCEPT !.state = "STREAMING"]
    /\ Goto(a, "ready") /\ Clear(a)
    /\ UNCHANGED <<usb, gn>>

StartFailTail(a) ==
    /\ pc[a] = "fail_tail"
    /\ h' = [h EXCEPT !.state = IF loc[a].tmp = 1 THEN "FAULT" ELSE "IDLE"]
    /\ Goto(a, "ready") /\ Clear(a)
    /\ UNCHANGED <<usb, gn>>

-----------------------------------------------------------------------------
(* esp_rtl_sdr_retune_hz and the gain / bias / bandwidth setters.           *)

\* Checked and queued under the mutex, applied after it is released.
RetuneCall(a) ==
    /\ Call(a, "retune") /\ h.state = "STREAMING" /\ h.streaming
    /\ \E f \in Freqs : h' = [h EXCEPT !.pend = f]
    /\ Enter(a, "retune", "rt_enter")
    /\ UNCHANGED <<usb, gn>>

\* Checked under the mutex; streaming is read after it is released.
ControlCall(a) ==
    /\ Call(a, "control") /\ h.iface /\ h.dev
    /\ Enter(a, "control", IF h.streaming THEN "ct_queue" ELSE "ct_ep0")
    /\ UNCHANGED <<h, usb, gn>>

ControlQueue(a) ==
    /\ pc[a] = "ct_queue"
    /\ h' = [h EXCEPT !.side = TRUE]
    /\ Goto(a, "ready") /\ Clear(a)
    /\ UNCHANGED <<usb, gn>>

\* Not streaming: the setter writes the device itself, without the window.
ControlEp0(a) ==
    /\ pc[a] = "ct_ep0"
    /\ Goto(a, "ready") /\ Clear(a)
    /\ UNCHANGED <<h, usb, gn>>

-----------------------------------------------------------------------------
(* The client task after a disconnect: client_task_fn, release_after_unplug *)
(* and close_opened_device. While it waits it keeps running bulk_cb.        *)

Client(phase) == pc["client"] = "pump" /\ gn.phase = phase

GoneEvent ==
    /\ Client("none") /\ ~usb.plugged /\ h.dev /\ ~h.gone
    /\ h' = [h EXCEPT !.gone = TRUE]
    /\ UNCHANGED <<usb, pc, loc, gn>>

GoneBegin ==
    /\ Client("none") /\ h.gone
    /\ h' = [h EXCEPT !.streaming = FALSE]
    /\ gn' = [gn EXCEPT !.phase = "wait"]
    /\ UNCHANGED <<usb, pc, loc>>

GoneTake ==
    /\ Client("wait") /\ ~gn.held /\ ~h.busy
    /\ h' = [h EXCEPT !.busy = TRUE]
    /\ gn' = [gn EXCEPT !.held = TRUE]
    /\ UNCHANGED <<usb, pc, loc>>

GoneIdle ==
    /\ \/ Client("wait") /\ gn.held
       \/ Client("flush")
    /\ h.live = 0
    /\ gn' = [gn EXCEPT !.phase = "close"]
    /\ UNCHANGED <<h, usb, pc, loc>>

\* The wait runs out: flush the endpoint if URBs are still counted live.
GoneExpire ==
    /\ Client("wait") /\ ~(gn.held /\ h.live = 0)
    /\ h.live > 0 => MayExpire
    /\ usb' = IF h.live > 0 THEN Flushed(Expired(usb)) ELSE usb
    /\ gn' = [gn EXCEPT !.phase = IF h.live > 0 THEN "flush" ELSE "close"]
    /\ UNCHANGED <<h, pc, loc>>

GoneGiveUp ==
    /\ Client("flush") /\ h.live > 0 /\ MayExpire
    /\ usb' = Expired(usb)
    /\ gn' = [gn EXCEPT !.phase = "close"]
    /\ UNCHANGED <<h, pc, loc>>

GoneClose ==
    /\ Client("close")
    /\ h' = [h EXCEPT !.iface = FALSE, !.dev = FALSE]
    /\ gn' = [gn EXCEPT !.phase = "finish"]
    /\ UNCHANGED <<usb, pc, loc>>

\* Mutant of GoneFinish: the window is given back whoever holds it.
GoneFinishAlways ==
    /\ Client("finish")
    /\ h' = [h EXCEPT !.gone = FALSE, !.pend = NoFreq, !.side = FALSE,
                      !.state = "IDLE", !.busy = FALSE]
    /\ gn' = [phase |-> "none", held |-> FALSE]
    /\ UNCHANGED <<usb, pc, loc>>

\* Mutant of GoneFinish: dev_gone is not cleared.
GoneFinishStays ==
    /\ Client("finish")
    /\ h' = [h EXCEPT !.pend = NoFreq, !.side = FALSE,
                      !.state = "IDLE", !.busy = @ /\ ~gn.held]
    /\ gn' = [phase |-> "none", held |-> FALSE]
    /\ UNCHANGED <<usb, pc, loc>>

\* Last, the window goes back if this task held it.
GoneFinish ==
    /\ Client("finish")
    /\ h' = [h EXCEPT !.gone = FALSE, !.pend = NoFreq, !.side = FALSE,
                      !.state = "IDLE", !.busy = @ /\ ~gn.held]
    /\ gn' = [phase |-> "none", held |-> FALSE]
    /\ UNCHANGED <<usb, pc, loc>>

\* The device comes back and the client task opens it.
Reopen ==
    /\ Client("none") /\ ~usb.plugged /\ ~h.dev /\ ~h.gone
    /\ \A i \in Urbs : ~Flying(i)
    /\ usb' = [usb EXCEPT !.plugged = TRUE, !.halted = FALSE]
    /\ h' = [h EXCEPT !.dev = TRUE]
    /\ UNCHANGED <<pc, loc, gn>>

-----------------------------------------------------------------------------
Host == \E i \in Urbs : Complete(i) \/ Fail(i) \/ Malform(i) \/ Retire(i)

Callback == (\E i \in Urbs : CbBegin(i)) \/ CbSubmit \/ CbLoad \/ CbStore

Drain(t) == PollDone(t) \/ PollExpire(t) \/ PollGiveUp(t) \/ PauseBulk(t)

Resume(t) == \/ ResumeBegin(t) \/ ResumeSubmit(t) \/ ResumeEnd(t)
             \/ IncLoad(t) \/ IncStore(t) \/ Release(t)

Retune(t) == RetuneEnter(t) \/ RetuneTake(t) \/ RetuneDrained(t) \/ RetuneEp0(t)

Delivery == \/ CheckStall \/ CheckRetune \/ CheckSide \/ Emit
            \/ RecoverBegin \/ RecoverDrained \/ SideEnter \/ SideDrained \/ SideEp0
            \/ Drain("delivery") \/ Resume("delivery") \/ Retune("delivery")

Stop(a) == \/ StopTake(a) \/ StopMark(a) \/ StopDrained(a)
           \/ StopCleanup(a) \/ StopFree(a)

Start(a) == \/ StartClaim(a) \/ StartEp0(a) \/ StartAlloc(a) \/ AllocDrained(a)
            \/ StartFreeOld(a) \/ StartPool(a) \/ StartArm(a) \/ StartSubmit(a)
            \/ StartEnd(a) \/ StartFailTail(a)

\* A call an application makes, and what a call already made does next.
Begin(a) == StartCall(a) \/ StopCall(a) \/ Reset(a) \/ RetuneCall(a) \/ ControlCall(a)
Continue(a) == \/ Start(a) \/ Stop(a) \/ Drain(a) \/ Resume(a) \/ Retune(a)
               \/ ControlQueue(a) \/ ControlEp0(a)

GoneStep == GoneEvent \/ GoneBegin \/ GoneTake \/ GoneIdle \/ GoneExpire
            \/ GoneGiveUp \/ GoneClose \/ GoneFinish

Next == \/ Host \/ Callback \/ Delivery \/ GoneStep \/ Reopen \/ Unplug
        \/ \E a \in App : Begin(a) \/ Continue(a)

Spec == Init /\ [][Next]_vars

\* Every task of the scheduler and the host controller keep running; no call
\* is ever forced on an application, and no fault on the device.
Fairness == /\ \A i \in Urbs : WF_vars(Complete(i)) /\ WF_vars(Retire(i))
            /\ WF_vars(Callback) /\ WF_vars(Delivery) /\ WF_vars(GoneStep)
            /\ \A a \in App : WF_vars(Continue(a))

FairSpec == Spec /\ Fairness
-----------------------------------------------------------------------------
(* Properties.                                                              *)

Handle == [state : States, streaming : BOOLEAN, pause : BOOLEAN, live : Nat,
           stall : BOOLEAN, recov : Nat, busy : BOOLEAN, retuneBusy : BOOLEAN,
           pend : Freqs \cup {NoFreq}, side : BOOLEAN, freq : Freqs \cup {NoFreq},
           dev : BOOLEAN, gone : BOOLEAN, iface : BOOLEAN, pool : BOOLEAN]
Usb == [urb : [Urbs -> {"idle", "flight"} \cup Outcomes], halted : BOOLEAN,
        plugged : BOOLEAN, errors : Nat, faults : Nat, unplugs : Nat, late : Nat]
Locals == [op : OpNames, f : Freqs \cup {NoFreq}, idx : Nat, tmp : Nat, ok : BOOLEAN]
Gone == [phase : {"none", "wait", "flush", "close", "finish"}, held : BOOLEAN]

\* Every variable has its type.
TypeOK ==
    /\ h \in Handle
    /\ usb \in Usb
    /\ pc \in [Task -> PCs]
    /\ loc \in [Task -> Locals]
    /\ gn \in Gone

\* Places between taking ep0_sideband_busy and giving it back.
InWindow(place, op) ==
    \/ place \in {"pause", "ep0", "release", "sp_mark", "sp_ep0", "sp_free"}
    \/ /\ place \in {"poll", "poll2", "drained"}
       /\ op \in {"retune", "side", "stop", "start"}
    \/ /\ place \in {"resume", "rs_submit", "inc_load", "inc_store"}
       /\ op \in {"retune", "side"}

Holds(t) == (t = "client" /\ gn.held) \/ InWindow(pc[t], loc[t].op)

\* The EP0 window belongs to at most one of the application tasks, the
\* delivery task and the client task, and ep0_sideband_busy is set exactly
\* while it belongs to one: no path through retune, sideband, stop, a failed
\* start or an unplug leaks it or gives back a window another task holds.
WindowExclusive ==
    /\ \A t, u \in Task : Holds(t) /\ Holds(u) => t = u
    /\ h.busy <=> \E t \in Task : Holds(t)

\* While a task works on EP0 inside the window no bulk URB is in flight.
Ep0Quiet ==
    (\E t \in Task : pc[t] = "ep0" \/ (pc[t] = "sp_ep0" /\ h.iface /\ h.dev))
        => \A i \in Urbs : ~Flying(i)

\* The URB pool is never gone while the host or a callback still has a URB.
NoFreeInFlight == ~h.pool => AllReturned

\* live_urbs counts the URBs that are out, up to a submit not counted yet and
\* a callback that has not yet counted down.
LiveExact ==
    h.live + Cardinality({t \in Task : pc[t] \in {"inc_load", "inc_store"}})
        = Cardinality({i \in Urbs : Outstanding(i)})

\* In STATE_STREAMING the driver has a device, a claimed interface, a pool
\* and resubmitting callbacks.
StreamingIsReal ==
    h.state = "STREAMING" => h.streaming /\ h.dev /\ h.iface /\ h.pool

\* An IDLE handle has no URB out and no pool: nothing a callback could touch.
IdleHasNoBulk ==
    h.state = "IDLE" => ~h.streaming /\ ~h.pool /\ AllReturned

\* An IDLE handle has left nothing of its last stream behind that could
\* disturb the next start: no interface claim, no pause, no queued retune.
IdleIsClean ==
    h.state = "IDLE" => ~h.iface /\ ~h.pause /\ h.pend = NoFreq

\* A stream reported as running never sits with no URB out and nobody who
\* will submit one: a paused or stalled stream has a task or a flag for it.
NoSilentStream ==
    ~ /\ h.state = "STREAMING" /\ h.streaming /\ h.dev /\ ~h.gone
      /\ ~h.pause /\ ~h.stall /\ ~h.busy
      /\ AllReturned /\ pc["delivery"] = "top"

\* A retune request disappears only by being tuned to, by an EP0 failure, or
\* with the stream: a request that arrives during the tune survives it.
LatestRetuneKept ==
    [][h.pend # NoFreq /\ h'.pend = NoFreq
         => h'.freq = h.pend \/ ~h'.streaming \/ usb'.faults > usb.faults]_vars

\* While the pause stands at most one more URB goes out: only a callback that
\* had already seen the stream running resubmits, and no callback that begins
\* under the pause, nor any submit loop, puts a URB back in flight.
PauseHolds ==
    [][h.pause => /\ pc'["client"] = "cb_submit" => pc["client"] = "cb_submit"
                  /\ \A i \in Urbs : ~Flying(i) /\ usb'.urb[i] = "flight"
                        => pc["client"] = "cb_submit"]_vars

\* Every call returns.
CallsReturn == \A a \in App : pc[a] # "ready" ~> pc[a] = "ready"

\* A paused stream is resumed or given up.
PauseEnds == h.pause /\ h.streaming ~> ~h.pause \/ ~h.streaming

\* A retune queued in a running stream is applied or superseded, or the stream
\* ends: no failed sequence or expired drain leaves it waiting for ever.
RetuneServed == \A f \in Freqs : h.pend = f /\ h.streaming ~> h.pend # f \/ ~h.streaming

\* A halted bulk endpoint of a running stream is cleared or the stream stops.
StallServed == usb.halted /\ h.streaming ~> ~usb.halted \/ ~h.streaming

\* The cleanup after a disconnect ends, whatever the other tasks hold.
GoneServed == h.gone ~> ~h.gone

\* STATE_STREAMING is never half-open: outside the cleanup of a disconnect it
\* comes with an open device and a claimed interface.
NoHalfOpen ==
    h.state = "STREAMING" /\ ~h.gone /\ gn.phase = "none" => h.dev /\ h.iface
=============================================================================
