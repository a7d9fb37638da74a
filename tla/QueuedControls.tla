---------------------------- MODULE QueuedControls ----------------------------
(***************************************************************************)
(* The controls of a running stream: setters of application tasks leave a  *)
(* value and a flag, the delivery task takes what is queued, pauses the    *)
(* bulk transfers and writes it, and stop ends with everything off         *)
(* (esp_rtl_sdr.cpp, esp_rtl_sdr_set_... and apply_pending_sideband_ep0).  *)
(*                                                                         *)
(* A setter takes the handle mutex for its checks and again to settle, but *)
(* looks at streaming and queues or writes between the two.  What the      *)
(* records of a control are is in Tuner; here a control is written or not. *)
(***************************************************************************)
EXTENDS Integers

CONSTANTS
    Tasks,     \* tasks of the application
    Gains,     \* steps of the gain ladder, positive numbers
    Widths,    \* tuner widths
    Quick,     \* no setter runs between the delivery task's copy and its clear
    TakeTurns, \* the application neither stops nor starts while one of its
               \* setters runs, and leaves the bias alone while it stops
    OneTuner,  \* gain and gain mode are set by one task at a time
    MaxOps, MaxFaults  \* bounds: calls, failed writes and drains that time out

ASSUME ControlSets == /\ Gains \subseteq Nat \ {0} /\ Gains # {}
                      /\ Widths \subseteq Nat /\ 0 \in Widths
ASSUME ControlBounds == {Quick, TakeTurns, OneTuner} \subseteq BOOLEAN /\ {MaxOps, MaxFaults} \subseteq Nat

VARIABLES
    st,       \* streaming, stopping, idle; the interface is claimed unless idle
    busy,     \* ep0_sideband_busy
    pend,     \* the controls with their pending flag set
    val,      \* their queued values
    mode, auto, gain,  \* gain_mode, tuner_auto_applied, gain_tenth_db (0 if never set)
    want,     \* bias_tee_want, rtl_agc_want
    hw,       \* what the dongle has
    call,     \* each task: the setter it is in
    job,      \* apply_pending_sideband_ep0: its copy and how far it is
    last,     \* what was last queued or written directly, control by control
    told,     \* the tuner setting of the last accepted call, no-ops included
    troubled, \* controls with a failed write or a queue put back, until the next start
    ops, faults

settings == <<mode, auto, gain, want>>
history == <<last, told, troubled>>
vars == <<st, busy, pend, val, settings, hw, call, job, history, ops, faults>>

Flags == {"bias", "mode", "gain", "agc", "width"}
Controls == {"bias", "tuner", "agc", "width"}
Control(op) == IF op \in {"mode", "gain"} THEN "tuner" ELSE op
AutoGain == 0    \* of the tuner, else a step of the ladder; "mode" 0 is AUTO, 1 MANUAL
Values(op) == CASE op = "gain" -> Gains [] op = "width" -> Widths [] OTHER -> {0, 1}
NoCall == [op |-> "none", v |-> 0, at |-> "none", ok |-> TRUE]
NoJob == [at |-> "none", do |-> {}, val |-> [f \in Flags |-> 0]]

\* A ladder step is 1 when none was set: MANUAL then means the first.
Step == IF gain = 0 THEN CHOOSE g \in Gains : \A k \in Gains : g <= k ELSE gain

TunerOf(op, v) == IF op = "gain" THEN v ELSE IF v = 0 THEN AutoGain ELSE Step

\* What a request means for the tuner: MANUAL keeps the step asked for before.
AnyStep == -1
Meant(op, v, before) == IF op = "gain" THEN v ELSE IF v = 0 THEN AutoGain
                        ELSE IF before = AutoGain THEN AnyStep ELSE before
Same(v, meant) == v = meant \/ (meant = AnyStep /\ v # AutoGain)

Off == [bias |-> 0, tuner |-> AutoGain, agc |-> 0, width |-> 0]

Init ==
    /\ st = "streaming" /\ busy = "none" /\ pend = {} /\ val = [f \in Flags |-> 0]
    /\ mode = 0 /\ auto = TRUE /\ gain = 0 /\ want = [bias |-> 0, agc |-> 0]
    /\ hw = Off /\ call = [t \in Tasks |-> NoCall] /\ job = NoJob
    /\ last = Off /\ told = AutoGain /\ troubled = {} /\ ops = 0 /\ faults = 0

TypeOK ==
    /\ st \in {"streaming", "stopping", "idle"} /\ busy \in {"none", "delivery", "stop"}
    /\ pend \subseteq Flags /\ \A f \in Flags : val[f] \in Values(f) \cup {0}
    /\ mode \in {0, 1} /\ auto \in BOOLEAN /\ gain \in Gains \cup {0}
    /\ want \in [bias: {0, 1}, agc: {0, 1}]
    /\ {hw, last} \subseteq [bias: {0, 1}, tuner: Gains \cup {AutoGain, AnyStep},
                             agc: {0, 1}, width: Widths]
    /\ told \in Gains \cup {AutoGain, AnyStep} /\ troubled \subseteq Controls
    /\ \A t \in Tasks : /\ call[t].op \in Flags \cup {"none"}
                        /\ call[t].at \in {"none", "look", "queue", "direct", "settle"}
                        /\ (call[t].at = "none" <=> call[t] = NoCall)
    /\ job.at \in {"none", "copied", "drain", "bias", "tuner", "agc", "width"} /\ job.do \subseteq Flags
    /\ (job.at # "none" <=> busy = "delivery") /\ (st = "stopping" <=> busy = "stop")
    /\ ops \in 0..MaxOps /\ faults \in 0..MaxFaults

(***************************************************************************)
(* The setters.                                                            *)
(***************************************************************************)

NoSetter == \A t \in Tasks : call[t] = NoCall

In(t, at) == call[t].at = at
Goto(t, at) == call' = [call EXCEPT ![t].at = at]
Leave(t) == call' = [call EXCEPT ![t] = NoCall]

Enter(t, op, v, at) ==
    /\ call[t] = NoCall /\ ops < MaxOps /\ ops' = ops + 1 /\ st # "idle"
    /\ call' = [call EXCEPT ![t] = [op |-> op, v |-> v, at |-> at, ok |-> TRUE]]
    /\ UNCHANGED <<st, busy, val, hw, job, faults>>

TunerFree == OneTuner => \A t \in Tasks : call[t].op \notin {"gain", "mode"}

\* Under the mutex.  A manual gain cancels a queued AUTO and forgets AUTO.
SetGain(t, v) ==
    /\ Enter(t, "gain", v, "look") /\ TunerFree
    /\ mode' = 1 /\ auto' = FALSE /\ pend' = pend \ {"mode"}
    /\ UNCHANGED <<gain, want, history>>

SetBias(t, v) ==
    /\ Enter(t, "bias", v, "look") /\ (TakeTurns => st = "streaming")
    /\ want' = [want EXCEPT !.bias = v]
    /\ UNCHANGED <<pend, mode, auto, gain, history>>

Already(v) == (IF v = 0 THEN auto ELSE mode = 1) /\ "mode" \notin pend

SetMode(t, v) ==
    /\ Enter(t, "mode", v, "look") /\ TunerFree /\ ~Already(v)
    /\ UNCHANGED <<pend, settings, history>>

\* ESP_OK at once.
SetModeAgain(t, v) ==
    /\ call[t] = NoCall /\ ops < MaxOps /\ ops' = ops + 1 /\ st # "idle"
    /\ Already(v) /\ told' = Meant("mode", v, told)
    /\ UNCHANGED <<st, busy, pend, val, settings, hw, call, job, last, troubled, faults>>

\* These queue under the mutex.
QueueLocked(op, v) ==
    /\ ~(Quick /\ job.at = "copied")
    /\ pend' = pend \cup {op} /\ val' = [val EXCEPT ![op] = v] /\ last' = [last EXCEPT ![op] = v]

SetAgc(t, v) ==
    /\ call[t] = NoCall /\ ops < MaxOps /\ ops' = ops + 1 /\ st # "idle"
    /\ IF st = "streaming"
       THEN QueueLocked("agc", v) /\ want' = [want EXCEPT !.agc = v] /\ UNCHANGED call
       ELSE /\ call' = [call EXCEPT ![t] = [op |-> "agc", v |-> v, at |-> "direct", ok |-> TRUE]]
            /\ UNCHANGED <<pend, val, last, want>>
    /\ UNCHANGED <<st, busy, mode, auto, gain, hw, job, told, troubled, faults>>

SetWidth(t, v) ==
    /\ call[t] = NoCall /\ ops < MaxOps /\ ops' = ops + 1 /\ st = "streaming"
    /\ QueueLocked("width", v)
    /\ UNCHANGED <<st, busy, settings, hw, call, job, told, troubled, faults>>

Look(t) ==
    /\ In(t, "look") /\ Goto(t, IF st = "streaming" THEN "queue" ELSE "direct")
    /\ UNCHANGED <<st, busy, pend, val, settings, hw, job, history, ops, faults>>

\* Mutant of Queue: AUTO leaves a queued ladder write.
QueueBoth(t) ==
    LET c == call[t] IN
    /\ In(t, "queue") /\ ~(Quick /\ job.at = "copied") /\ Goto(t, "settle")
    /\ pend' = pend \cup {c.op} /\ val' = [val EXCEPT ![c.op] = c.v]
    /\ want' = IF c.op = "bias" THEN [want EXCEPT !.bias = c.v] ELSE want
    /\ last' = [last EXCEPT ![Control(c.op)] = IF c.op = "bias" THEN c.v ELSE Meant(c.op, c.v, @)]
    /\ told' = IF c.op = "bias" THEN told ELSE Meant(c.op, c.v, told)
    /\ UNCHANGED <<st, busy, mode, auto, gain, hw, job, troubled, ops, faults>>

\* apply_profile_gain, _gain_mode, _bias: AUTO replaces a queued ladder write.
Queue(t) ==
    LET c == call[t]
        gone == IF c.op = "mode" /\ c.v = 0 THEN {"gain"} ELSE {} IN
    /\ In(t, "queue") /\ ~(Quick /\ job.at = "copied") /\ Goto(t, "settle")
    /\ pend' = (pend \ gone) \cup {c.op} /\ val' = [val EXCEPT ![c.op] = c.v]
    /\ want' = IF c.op = "bias" THEN [want EXCEPT !.bias = c.v] ELSE want
    /\ last' = [last EXCEPT ![Control(c.op)] = IF c.op = "bias" THEN c.v ELSE Meant(c.op, c.v, @)]
    /\ told' = IF c.op = "bias" THEN told ELSE Meant(c.op, c.v, told)
    /\ UNCHANGED <<st, busy, mode, auto, gain, hw, job, troubled, ops, faults>>

\* Not streaming: the setter writes by itself, without the EP0 window.
Direct(t) ==
    LET c == call[t]
        v == IF c.op \in {"bias", "agc"} THEN c.v ELSE TunerOf(c.op, c.v) IN
    /\ In(t, "direct") /\ Goto(t, "settle")
    /\ hw' = [hw EXCEPT ![Control(c.op)] = v] /\ last' = [last EXCEPT ![Control(c.op)] = v]
    /\ told' = IF Control(c.op) = "tuner" THEN v ELSE told
    /\ auto' = IF c.op = "mode" THEN c.v = 0 ELSE auto
    /\ gain' = IF c.op = "mode" /\ c.v = 1 THEN Step ELSE gain
    /\ UNCHANGED <<st, busy, pend, val, mode, want, job, troubled, ops, faults>>

\* A failed bias is switched off as well as it goes.
DirectFails(t) ==
    LET c == call[t] IN
    /\ In(t, "direct") /\ faults < MaxFaults /\ faults' = faults + 1
    /\ call' = [call EXCEPT ![t].at = "settle", ![t].ok = FALSE]
    /\ hw' \in {hw} \cup (IF c.op = "bias" THEN {[hw EXCEPT !.bias = 0]} ELSE {})
    /\ troubled' = troubled \cup {Control(c.op)}
    /\ UNCHANGED <<st, busy, pend, val, settings, job, last, told, ops>>

\* Under the mutex again.
Settle(t) ==
    LET c == call[t] IN
    /\ In(t, "settle") /\ Leave(t)
    /\ mode' = IF c.op = "mode" /\ c.ok THEN c.v ELSE mode
    /\ gain' = IF c.op = "gain" /\ c.ok THEN c.v ELSE gain
    /\ want' = CASE c.op = "agc" /\ c.ok -> [want EXCEPT !.agc = c.v]
                 [] c.op = "bias" /\ ~c.ok -> [want EXCEPT !.bias = 0]
                 [] OTHER -> want
    /\ UNCHANGED <<st, busy, pend, val, auto, hw, job, history, ops, faults>>

(***************************************************************************)
(* apply_pending_sideband_ep0, on the delivery task.                       *)
(***************************************************************************)

Copy ==
    /\ st = "streaming" /\ busy = "none" /\ pend # {}
    /\ busy' = "delivery" /\ job' = [at |-> "copied", do |-> pend, val |-> val]
    /\ UNCHANGED <<st, pend, val, settings, hw, call, history, ops, faults>>

Clear ==
    /\ job.at = "copied" /\ pend' = {} /\ job' = [job EXCEPT !.at = "drain"]
    /\ UNCHANGED <<st, busy, val, settings, hw, call, history, ops, faults>>

Drained ==
    /\ job.at = "drain" /\ job' = [job EXCEPT !.at = "bias"]
    /\ UNCHANGED <<st, busy, pend, val, settings, hw, call, history, ops, faults>>

\* The value of width was read before the drain, the others' too.
PutBack ==
    /\ job.at = "drain" /\ faults < MaxFaults /\ faults' = faults + 1
    /\ pend' = pend \cup job.do /\ job' = NoJob /\ busy' = "none"
    /\ troubled' = troubled \cup (IF job.do \cap {"gain", "mode"} # {} THEN {"tuner"} ELSE {})
    /\ UNCHANGED <<st, val, settings, hw, call, last, told, ops>>

Turn == [bias |-> "tuner", tuner |-> "agc", agc |-> "width", width |-> "none"]
Onward == IF job.at = "width" THEN job' = NoJob /\ busy' = "none"
          ELSE job' = [job EXCEPT !.at = Turn[job.at]] /\ UNCHANGED busy
Wanted == \/ job.at \in {"bias", "agc", "width"} /\ job.at \in job.do
          \/ job.at = "tuner" /\ job.do \cap {"mode", "gain"} # {}

\* A ladder write wins over a stale AUTO.
Target == IF "gain" \in job.do THEN job.val["gain"]
          ELSE IF job.val["mode"] = 0 THEN AutoGain ELSE Step

Skip ==
    /\ job.at \in {"bias", "tuner", "agc", "width"} /\ ~Wanted /\ Onward
    /\ UNCHANGED <<st, pend, val, settings, hw, call, history, ops, faults>>

Apply ==
    LET v == IF job.at = "tuner" THEN Target ELSE job.val[job.at] IN
    /\ job.at \in {"bias", "tuner", "agc", "width"} /\ Wanted /\ Onward
    /\ hw' = [hw EXCEPT ![job.at] = v]
    /\ IF job.at = "tuner"
       THEN /\ auto' = (v = AutoGain) /\ mode' = (IF v = AutoGain THEN 0 ELSE 1)
            /\ gain' = IF v = AutoGain THEN gain ELSE v
       ELSE UNCHANGED <<mode, auto, gain>>
    /\ want' = IF job.at = "bias" THEN [want EXCEPT !.bias = v] ELSE want
    /\ UNCHANGED <<st, pend, val, call, history, ops, faults>>

ApplyFails ==
    LET v == IF job.at = "tuner" THEN Target ELSE job.val[job.at] IN
    /\ job.at \in {"bias", "tuner", "agc", "width"} /\ Wanted /\ Onward
    /\ faults < MaxFaults /\ faults' = faults + 1
    /\ hw' \in {hw, [hw EXCEPT ![job.at] = IF job.at = "bias" THEN 0 ELSE v]}
    /\ want' = IF job.at = "bias" THEN [want EXCEPT !.bias = 0] ELSE want
    /\ troubled' = troubled \cup {job.at}
    /\ UNCHANGED <<st, pend, val, mode, auto, gain, call, last, told, ops>>

(***************************************************************************)
(* Stop and start.                                                         *)
(***************************************************************************)

\* Mutant of StopBegins: a queued request outlives the stream.
StopKeepsQueue ==
    /\ st = "streaming" /\ busy = "none" /\ ops < MaxOps /\ ops' = ops + 1
    /\ (TakeTurns => NoSetter)
    /\ busy' = "stop" /\ st' = "stopping" /\ want' = [want EXCEPT !.bias = 0]
    /\ UNCHANGED <<pend, val, mode, auto, gain, hw, call, job, history, faults>>

\* stop_stream_internal: "a queued bias ON can never race the final OFF".
StopBegins ==
    /\ st = "streaming" /\ busy = "none" /\ ops < MaxOps /\ ops' = ops + 1
    /\ (TakeTurns => NoSetter)
    /\ busy' = "stop" /\ st' = "stopping" /\ pend' = {} /\ want' = [want EXCEPT !.bias = 0]
    /\ UNCHANGED <<val, mode, auto, gain, hw, call, job, history, faults>>

StopEnds ==
    /\ st = "stopping" /\ st' = "idle" /\ busy' = "none"
    /\ \/ hw' = [hw EXCEPT !.bias = 0] /\ UNCHANGED <<faults, troubled>>
       \/ faults < MaxFaults /\ faults' = faults + 1 /\ UNCHANGED hw /\ troubled' = troubled \cup {"bias"}
    /\ UNCHANGED <<pend, val, settings, call, job, last, told, ops>>

\* On the Blog V4: bias and RTL AGC as wanted, the tuner in AUTO if that was
\* applied, else as the gain registers were.  A step the stop dropped from the
\* queue is still in gain_tenth_db, and what MANUAL means.
Start ==
    /\ st = "idle" /\ (TakeTurns => NoSetter) /\ st' = "streaming" /\ ops < MaxOps /\ ops' = ops + 1
    /\ hw' = [bias |-> want.bias, agc |-> want.agc, width |-> 0,
              tuner |-> IF auto THEN AutoGain ELSE IF hw.tuner = AutoGain THEN AnyStep ELSE hw.tuner]
    /\ last' = [hw' EXCEPT !.tuner = IF @ \in {AutoGain, gain} THEN @ ELSE AnyStep]
    /\ told' = hw'.tuner /\ troubled' = {}
    /\ UNCHANGED <<busy, pend, val, settings, call, job, faults>>

Next ==
    \/ \E t \in Tasks :
         \/ \E v \in Gains : SetGain(t, v)
         \/ \E v \in {0, 1} : SetBias(t, v) \/ SetMode(t, v) \/ SetModeAgain(t, v) \/ SetAgc(t, v)
         \/ \E v \in Widths : SetWidth(t, v)
         \/ Look(t) \/ Queue(t) \/ Direct(t) \/ DirectFails(t) \/ Settle(t)
    \/ Copy \/ Clear \/ Drained \/ PutBack \/ Skip \/ Apply \/ ApplyFails
    \/ StopBegins \/ StopEnds \/ Start

Spec == Init /\ [][Next]_vars

(***************************************************************************)
(* Properties.                                                             *)
(***************************************************************************)

Rest == busy = "none" /\ NoSetter
Settled == Rest /\ st = "streaming" /\ pend = {}

\* cpp 6384, "If newer requests arrived while busy, leave them for next
\* delivery pass": when nothing is left to do, every control has the value last
\* queued for it, whatever came while earlier ones were being written.
QueuedServed == Settled => \A c \in Controls \ troubled : Same(hw[c], last[c])

\* API_REFERENCE.md 1257: MANUAL will "Restore last ladder step", also when the
\* setters of two tasks overlap (esp_rtl_sdr.h 23, "Thread-safe per handle").
ManualRestores ==
    Settled /\ "tuner" \notin troubled /\ last.tuner \in Gains => hw.tuner = last.tuner

\* API_REFERENCE.md 1270: ESP_OK of a gain or gain mode call means the request
\* was queued or applied; once all is written the tuner is as the last such
\* call asked for.
AcceptedServed == Settled /\ "tuner" \notin troubled => Same(hw.tuner, told)

\* API_REFERENCE.md 1263: the bias-T is off on stop, and no request for it is left over.
BiasOffStopped ==
    Rest /\ st = "idle" /\ "bias" \notin troubled =>
        hw.bias = 0 /\ want.bias = 0 /\ "bias" \notin pend

\* An AUTO call is a no-op while tuner_auto_applied is set: the tuner is then in
\* AUTO, or something queued is about to decide it.
NoOpIsSafe == Settled /\ auto /\ "tuner" \notin troubled => hw.tuner = AutoGain
=============================================================================
