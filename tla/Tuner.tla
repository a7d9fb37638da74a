-------------------------------- MODULE Tuner --------------------------------
(***************************************************************************)
(* What the driver believes of the dongle and what is in its registers:    *)
(* the register shadow, the programs of EP0 records that start, hot        *)
(* retune, gain and tuner bandwidth run, the bandwidth transaction with    *)
(* its rollback, and the route by the tuner or by direct sampling          *)
(* (esp_rtl_sdr.cpp, measured_tuner_bandwidth.hpp, rtl_profile.hpp).       *)
(*                                                                         *)
(* Groups of hardware registers are one register here, a table of records  *)
(* one write to each register it sets; a record that fails leaves its      *)
(* register as it was or written, for a transfer that timed out still may  *)
(* take effect.  EP0 is ours alone while a program runs (StreamEngine,     *)
(* ControlTransfer); requests of the application come at any time.         *)
(* Frequencies are below the rows of the V4's front end that write the AGC *)
(* register themselves, and hf_direct_min_hz keeps its default.            *)
(***************************************************************************)
EXTENDS Naturals, Sequences

CONSTANTS
    Freqs,        \* frequencies, positive numbers
    Low,          \* those below the cutoff: direct sampling or upconverter
    Widths,       \* tuner widths, 0 is automatic
    LowWidths,    \* those the upconverter route offers
    Boards,       \* profiles this instance looks at
    Passes,       \* attempts at a gain program
    CrossFaults,  \* records may fail on the way into and out of direct sampling
    None,         \* model value
    MaxFaults, MaxOps  \* bounds: failed records, requests

ASSUME TunerSets == /\ Freqs \subseteq Nat \ {0} /\ Low \subseteq Freqs
                    /\ 0 \in LowWidths /\ LowWidths \subseteq Widths /\ Widths \subseteq Nat
                    /\ Boards \subseteq {"v3", "v4", "v4l", "nooelec", "e4000"}
ASSUME TunerBounds == /\ Passes \in Nat \ {0} /\ CrossFaults \in BOOLEAN
                      /\ {MaxFaults, MaxOps} \subseteq Nat
                      /\ None \notin Freqs \cup Widths

VARIABLES
    board,    \* profile of the dongle
    hw,       \* what the registers hold
    shadow,   \* tuner_reg_val where tuner_reg_known, else None
    st,       \* idle, streaming or fault
    freq,     \* frequency_hz
    retune,   \* pending_retune_hz
    want, asked,       \* bandwidth_requested_hz, pending_bandwidth
    applied, valid,    \* bandwidth_applied with its frequency, bandwidth_applied_valid
    mode, auto, gain,  \* gain_mode, tuner_auto_applied, the queued gain request
    certain,  \* configuration_certain: the metadata may name the frequency
    job, prog,         \* the program under way and the records it still has
    faults, ops

vars == <<board, hw, shadow, st, freq, retune, want, asked, applied, valid, mode, auto, gain,
          certain, job, prog, faults, ops>>
requests == <<retune, want, asked, gain>>

TunerRegs == {"filter", "pll", "agc"}   \* behind I2C, shadowed
Regs == TunerRegs \cup {"demod", "mode", "route"}

\* What a register may hold: tuples with a name in front.
Boot == <<"boot">>
Standby == <<"standby">>
Native == <<"native">>
DirectIn == <<"direct">>
Automatic == <<"auto">>
Manual == <<"manual">>
Nco(f) == <<"nco", f>>
Route(f) == <<"route", f>>
At(f, plan) == <<"at", f, plan>>
Plans == {Boot} \cup {<<"width", w>> : w \in Widths}
Values == [filter |-> Plans \cup {Standby},
           pll |-> {Boot} \cup {At(f, p) : f \in Freqs, p \in Plans},
           agc |-> {Boot, Standby, Automatic, Manual},
           demod |-> Plans \cup {Nco(f) : f \in Freqs},
           mode |-> {Boot, Native, DirectIn},
           route |-> {Boot} \cup {Route(f) : f \in Freqs}]

\* None, which the shadow has for a register it does not know, is no value.
ASSUME NoneIsUnknown == \A r \in Regs : None \notin Values[r]

NoJob == [kind |-> "none", f |-> None, w |-> None, old |-> None, gain |-> "none",
          phase |-> "none", ok |-> TRUE, n |-> 0]

Restores == board \in {"v3", "nooelec"}     \* rtl_profile_demod_if_restore_hz
Direct == IF Restores THEN Low ELSE {}      \* rtl_profile_uses_v3_direct_sampling
HasWidths == board # "e4000"

\* measured_tuner_bandwidth_list, at 2.4 MS/s.
Offered(f) == IF ~HasWidths \/ f \in Direct THEN {}
              ELSE IF f \in Low /\ ~Restores THEN LowWidths ELSE Widths

\* The IF and the filter of a width; automatic is the boot state, but the
\* Nooelec's has values of its own.
Plan(w) == IF w = 0 /\ board # "nooelec" THEN Boot ELSE <<"width", w>>

Init ==
    /\ board \in Boards
    /\ hw = [r \in Regs |-> Boot] /\ shadow = [r \in TunerRegs |-> None]
    /\ st = "idle" /\ freq \in Freqs
    /\ retune = None /\ want = 0 /\ asked = FALSE
    /\ applied = [f |-> None, w |-> None] /\ valid = FALSE
    /\ mode = "auto" /\ auto = FALSE /\ gain = "none"
    /\ certain = TRUE /\ job = NoJob /\ prog = <<>> /\ faults = 0 /\ ops = 0

TypeOK ==
    /\ board \in Boards
    /\ DOMAIN hw = Regs /\ \A r \in Regs : hw[r] \in Values[r]
    /\ DOMAIN shadow = TunerRegs /\ \A r \in TunerRegs : shadow[r] \in Values[r] \cup {None}
    /\ st \in {"idle", "streaming", "fault"}
    /\ freq \in Freqs /\ retune \in Freqs \cup {None}
    /\ want \in Widths /\ {asked, valid, auto, certain, CrossFaults} \subseteq BOOLEAN
    /\ applied \in [f: Freqs \cup {None}, w: Widths \cup {None}]
    /\ (valid => applied.w \in Offered(applied.f))
    /\ mode \in {"auto", "manual"} /\ gain \in {"none", "auto", "manual"}
    /\ job.kind \in {"none", "start", "retune", "controls"}
    /\ (job.kind = "none" => prog = <<>>) /\ (st = "idle" => job.kind \in {"none", "start"})
    /\ faults \in 0..MaxFaults /\ ops \in 0..MaxOps

(***************************************************************************)
(* Programs: sequences of records [reg, val, kind].  A "burst" writes      *)
(* several tuner registers in one record, "patch" is skipped when the      *)
(* shadow already has its value, "demod" is not a tuner record.            *)
(***************************************************************************)

Forget == [r \in TunerRegs |-> None]

W(r, v, k) == [reg |-> r, val |-> v, kind |-> k]

ModeWord(m) == IF m = "auto" THEN Automatic ELSE Manual

Agc == IF auto THEN Automatic ELSE Manual

\* The template writes 0c = 68, manual; the Nooelec's is patched.
TuneAgc == IF board # "nooelec" THEN Manual
           ELSE IF auto THEN Automatic ELSE IF mode = "manual" THEN Manual ELSE Boot

RtlTune(f, p) == <<W("agc", TuneAgc, "patch"), W("pll", At(f, p), "patch")>>

E4000Gain(m) == <<W("agc", ModeWord(m), "write")>>
E4000Tune(f, p) == <<W("demod", p, "demod"), W("pll", At(f, p), "write")>> \o E4000Gain(mode)

TuneRecords(f, p) == IF board = "e4000" THEN E4000Tune(f, p) ELSE RtlTune(f, p)

\* run_band_frontend: the Blog V4's sets its AGC as well.
Frontend(f) ==
    CASE board = "v4" -> <<W("route", Route(f), "demod"), W("agc", Agc, "write")>>
      [] board = "v4l" -> <<W("route", Route(f), "demod")>>
      [] OTHER -> <<>>

\* run_nooelec_gain_restore
GainRestore ==
    IF board = "nooelec" /\ (mode = "manual" \/ auto)
    THEN <<W("agc", ModeWord(mode), "write")>> ELSE <<>>

\* The slice of the start table that sets up the tuner, and the table.
Reinit == <<W("filter", Boot, "burst"), W("pll", Boot, "burst"), W("agc", Boot, "burst")>>
InitTable == <<W("mode", Native, "demod"), W("demod", Boot, "demod")>>
             \o IF board = "e4000" THEN E4000Gain("manual") ELSE Reinit

\* run_sample_rate touches the demodulator, run_profile_demod_if_restore repairs it.
SampleRate == <<W("demod", Boot, "demod")>>
IfRestore == IF Restores THEN <<W("demod", Boot, "demod")>> ELSE <<>>
ColdReinit(f) == IF board \in {"v3", "v4l", "nooelec"} /\ f \notin Direct THEN Reinit ELSE <<>>

\* kRtlCleanupTransfers, the tuner's part.
StandbyRecords == <<W("filter", Standby, "write"), W("agc", Standby, "write")>>

DirectTune(f) == <<W("demod", Nco(f), "demod")>>
EnterDirect(f) == StandbyRecords \o <<W("mode", DirectIn, "demod")>> \o DirectTune(f)
LeaveDirect == Reinit \o IfRestore \o <<W("mode", Native, "demod")>>

\* Mutant of Tune: direct sampling is not left before the tuner is programmed.
TuneStays(f, from, p) ==
    IF f \in Direct THEN IF from \in Direct THEN DirectTune(f) ELSE EnterDirect(f)
    ELSE GainRestore \o TuneRecords(f, p)

\* run_profile_tune
Tune(f, from, p) ==
    IF f \in Direct THEN IF from \in Direct THEN DirectTune(f) ELSE EnterDirect(f)
    ELSE (IF from \in Direct THEN LeaveDirect \o GainRestore ELSE <<>>) \o TuneRecords(f, p)

\* run_bandwidth_program
Program(f, from, w) ==
    (IF from \in Direct THEN LeaveDirect \o GainRestore ELSE <<>>)
    \o <<W("filter", Plan(w), "write")>> \o Tune(f, None, Plan(w))
    \o <<W("demod", Plan(w), "demod")>> \o Frontend(f)

Plain(f, from) == Tune(f, from, Boot) \o Frontend(f)

\* What start runs before the first URB.
StartRecords(f) ==
    InitTable \o SampleRate \o ColdReinit(f)
    \o (IF f \in Direct THEN <<>> ELSE IfRestore \o GainRestore)
    \o (IF ~Restores /\ Offered(f) # {} THEN Program(f, None, 0) ELSE Plain(f, None))

\* apply_gain_records, apply_tuner_agc_auto_records
GainRecords(g) ==
    IF board = "v4" THEN <<W("route", Route(freq), "demod"), W("agc", ModeWord(g), "write")>>
    ELSE E4000Gain(g)

(***************************************************************************)
(* Requests of the application.                                            *)
(***************************************************************************)

Ask == /\ st = "streaming" /\ ops < MaxOps /\ ops' = ops + 1
       /\ UNCHANGED <<board, hw, shadow, st, freq, applied, valid, certain, job, prog, faults>>

Retune(f) == Ask /\ retune' = f /\ UNCHANGED <<want, asked, mode, auto, gain>>

\* The frequency the setters judge by.
Ahead == IF retune # None THEN retune ELSE freq

SetBandwidth(w) ==
    /\ Ask /\ w \in Offered(Ahead)
    /\ want' = w /\ asked' = TRUE
    /\ UNCHANGED <<retune, mode, auto, gain>>

\* Setting AUTO again is no request.
SetAuto ==
    /\ Ask /\ Ahead \notin Direct /\ ~(auto /\ gain = "none")
    /\ mode' = "auto" /\ gain' = "auto"
    /\ UNCHANGED <<retune, want, asked, auto>>

SetGain ==
    /\ Ask /\ Ahead \notin Direct
    /\ mode' = "manual" /\ auto' = FALSE /\ gain' = "manual"
    /\ UNCHANGED <<retune, want, asked>>

(***************************************************************************)
(* Jobs: start, apply_pending_retune, apply_pending_sideband_ep0.          *)
(***************************************************************************)

Start(f) ==
    /\ st = "idle" /\ job = NoJob /\ ops < MaxOps /\ ops' = ops + 1
    /\ job' = [NoJob EXCEPT !.kind = "start", !.f = f,
                            !.phase = IF ~Restores /\ Offered(f) # {} THEN "next" ELSE "plain",
                            !.w = IF ~Restores /\ Offered(f) # {} THEN 0 ELSE None]
    /\ prog' = StartRecords(f)
    /\ UNCHANGED <<board, hw, shadow, st, freq, requests, applied, valid, mode, auto, certain, faults>>

\* run_cleanup_best_effort puts the V4's tuner into standby and minds no error.
Stop ==
    /\ st # "idle" /\ job = NoJob
    /\ st' = "idle" /\ retune' = None /\ want' = 0 /\ asked' = FALSE /\ gain' = "none" /\ valid' = FALSE
    /\ \/ board # "v4" /\ UNCHANGED <<hw, shadow>>
       \/ /\ board = "v4" /\ hw' = [hw EXCEPT !["filter"] = Standby, !["agc"] = Standby]
          /\ shadow' = [shadow EXCEPT !["filter"] = Standby, !["agc"] = Standby]
       \/ board = "v4" /\ hw' \in {hw, [hw EXCEPT !["filter"] = Standby]} /\ shadow' = Forget
    /\ UNCHANGED <<board, freq, applied, mode, auto, certain, job, prog, faults, ops>>

Measured(f) == Offered(f) # {} /\ (~Restores \/ valid \/ asked)

BeginRetune ==
    /\ st = "streaming" /\ job = NoJob /\ retune # None
    /\ LET w == IF want \in Offered(retune) THEN want ELSE 0 IN
         IF Measured(retune)
         THEN /\ job' = [NoJob EXCEPT !.kind = "retune", !.f = retune, !.w = w, !.old = want, !.phase = "next"]
              /\ prog' = Program(retune, freq, w)
         ELSE /\ job' = [NoJob EXCEPT !.kind = "retune", !.f = retune, !.old = want, !.phase = "plain"]
              /\ prog' = Plain(retune, freq)
    /\ UNCHANGED <<board, hw, shadow, st, freq, requests, applied, valid, mode, auto, certain, faults, ops>>

\* A width is looked up again when it is applied, at the frequency of now:
\* one accepted for a retune that then failed is an error by itself.
BeginControls ==
    /\ st = "streaming" /\ job = NoJob /\ retune = None /\ (gain # "none" \/ asked)
    /\ LET j == [NoJob EXCEPT !.kind = "controls", !.f = freq, !.gain = gain,
                              !.w = IF asked THEN want ELSE None] IN
         \/ gain # "none" /\ job' = [j EXCEPT !.phase = "gain", !.n = 1]
            /\ prog' = GainRecords(gain) /\ UNCHANGED certain
         \/ gain = "none" /\ want \in Offered(freq) /\ job' = [j EXCEPT !.phase = "next"]
            /\ prog' = Program(freq, freq, want) /\ UNCHANGED certain
         \/ gain = "none" /\ want \notin Offered(freq) /\ certain' = FALSE /\ UNCHANGED <<job, prog>>
    /\ gain' = "none" /\ asked' = FALSE
    /\ UNCHANGED <<board, hw, shadow, st, freq, retune, want, applied, valid, mode, auto, faults, ops>>

(***************************************************************************)
(* run_record: one record of the program.                                  *)
(***************************************************************************)

Next1 == Head(prog)
Skipped == Next1.kind = "patch" /\ shadow[Next1.reg] = Next1.val

\* Mutant of Learn: a burst is taken for one more register.
LearnBurst(w) ==
    IF w.kind = "demod" THEN shadow ELSE [shadow EXCEPT ![w.reg] = IF w.kind = "burst" THEN @ ELSE w.val]

\* Only a record that writes one tuner register is known afterwards.
Learn(w) == CASE w.kind = "demod" -> shadow
              [] w.kind = "burst" -> Forget
              [] OTHER -> [shadow EXCEPT ![w.reg] = w.val]

Record ==
    /\ prog # <<>>
    /\ prog' = Tail(prog)
    /\ IF Skipped THEN UNCHANGED <<hw, shadow>>
       ELSE hw' = [hw EXCEPT ![Next1.reg] = Next1.val] /\ shadow' = Learn(Next1)
    /\ UNCHANGED <<board, st, freq, requests, applied, valid, mode, auto, certain, job, faults, ops>>

Crossing == st = "streaming" /\ (job.f \in Direct) # (freq \in Direct)

\* After an error or a STALL nothing is known.
Unknown == Forget

Fails ==
    /\ prog # <<>> /\ ~Skipped /\ faults < MaxFaults /\ (Crossing => CrossFaults)
    /\ faults' = faults + 1
    /\ shadow' = Unknown
    /\ hw' \in {hw, [hw EXCEPT ![Next1.reg] = Next1.val]}

Done == job' = NoJob /\ prog' = <<>>
Fault == st' = "fault" /\ Done /\ UNCHANGED <<freq, requests, applied, valid, mode, auto, certain>>

\* A failed job ends; IQ resumes and its configuration is not certain.
Failed ==
    /\ Done /\ certain' = FALSE
    /\ IF job.kind = "retune"
       THEN /\ retune' = IF retune = job.f THEN None ELSE retune
            /\ asked' = (asked /\ ~(job.w # None /\ want = job.old))
       ELSE UNCHANGED <<retune, asked>>
    /\ UNCHANGED <<st, freq, want, gain, applied, valid, mode, auto>>

\* start gives up: stop_stream_internal.
FailStart ==
    /\ Fails /\ job.kind = "start" /\ Done /\ valid' = FALSE
    /\ UNCHANGED <<board, st, freq, requests, applied, mode, auto, certain, ops>>

\* Mutant of FailWidth: what the filter was before is not restored.
FailWidthKeeps ==
    /\ Fails /\ job.kind # "start" /\ job.phase \in {"next", "back"}
    /\ IF job.phase = "back" \/ ~valid THEN Fault
       ELSE /\ job' = [job EXCEPT !.phase = "back"]
            /\ prog' = Plain(applied.f, None)
            /\ UNCHANGED <<st, freq, requests, applied, valid, mode, auto, certain>>
    /\ UNCHANGED <<board, ops>>

\* apply_bandwidth_transaction, rtl_bandwidth_commit: the plan before is put
\* back; when there is none, or that fails too, the stream ends in FAULT.
FailWidth ==
    /\ Fails /\ job.kind # "start" /\ job.phase \in {"next", "back"}
    /\ IF job.phase = "back" \/ ~valid THEN Fault
       ELSE /\ job' = [job EXCEPT !.phase = "back"]
            /\ prog' = Program(applied.f, job.f, applied.w)
            /\ UNCHANGED <<st, freq, requests, applied, valid, mode, auto, certain>>
    /\ UNCHANGED <<board, ops>>

\* The E4000's TuneGuard ends in FAULT, the others resume.
FailPlain ==
    /\ Fails /\ job.kind = "retune" /\ job.phase = "plain"
    /\ IF board = "e4000" THEN Fault ELSE Failed
    /\ UNCHANGED <<board, ops>>

FailGain ==
    /\ Fails /\ job.phase = "gain"
    /\ IF board = "e4000" THEN Fault
       ELSE /\ IF job.n < Passes
               THEN prog' = GainRecords(job.gain) /\ job' = [job EXCEPT !.n = @ + 1]
               ELSE prog' = <<>> /\ job' = [job EXCEPT !.ok = FALSE]
            /\ UNCHANGED <<st, freq, requests, applied, valid, mode, auto, certain>>
    /\ UNCHANGED <<board, ops>>

(***************************************************************************)
(* The program has run.                                                    *)
(***************************************************************************)

Ran(p) == prog = <<>> /\ job.phase = p

\* The gain job sets what is reported, and the width of the same window follows.
GainRan ==
    /\ Ran("gain")
    /\ IF job.ok THEN mode' = job.gain /\ auto' = (job.gain = "auto") ELSE UNCHANGED <<mode, auto>>
    /\ IF job.w # None /\ job.w \in Offered(freq)
       THEN job' = [job EXCEPT !.phase = "width"] /\ UNCHANGED <<prog, certain>>
       ELSE Done /\ certain' = (certain /\ job.ok /\ job.w = None)
    /\ UNCHANGED <<board, hw, shadow, st, freq, requests, applied, valid, faults, ops>>

BeginWidth ==
    /\ Ran("width")
    /\ job' = [job EXCEPT !.phase = "next"] /\ prog' = Program(freq, freq, job.w)
    /\ UNCHANGED <<board, hw, shadow, st, freq, requests, applied, valid, mode, auto, certain, faults, ops>>

WidthRan ==
    /\ Ran("next") /\ job.kind = "controls"
    /\ Done /\ applied' = [f |-> job.f, w |-> job.w] /\ valid' = TRUE
    /\ certain' = (certain /\ job.ok)
    /\ UNCHANGED <<board, hw, shadow, st, freq, requests, mode, auto, faults, ops>>

\* run_e4000_tune sets the mode of before again.
AutoAfterTune == IF board = "e4000" THEN mode = "auto" ELSE auto

StartRan ==
    /\ job.kind = "start" /\ prog = <<>>
    /\ Done /\ st' = "streaming" /\ freq' = job.f /\ certain' = TRUE /\ retune' = None
    /\ shadow' = Forget
    /\ IF job.w # None THEN applied' = [f |-> job.f, w |-> job.w] /\ valid' = TRUE
       ELSE UNCHANGED <<applied, valid>>
    /\ auto' = AutoAfterTune
    /\ UNCHANGED <<board, hw, want, asked, gain, mode, faults, ops>>

\* Requests that came meanwhile stay, but for those a plain retune drops.
RetuneRan ==
    /\ job.kind = "retune" /\ (Ran("next") \/ Ran("plain"))
    /\ Done /\ freq' = job.f /\ certain' = TRUE
    /\ retune' = IF retune = job.f THEN None ELSE retune
    /\ IF job.phase = "next"
       THEN /\ applied' = [f |-> job.f, w |-> job.w] /\ valid' = TRUE
            /\ IF want = job.old THEN want' = job.w /\ asked' = FALSE ELSE UNCHANGED <<want, asked>>
       ELSE valid' = FALSE /\ want' = 0 /\ asked' = FALSE /\ UNCHANGED applied
    /\ gain' = IF job.f \in Direct THEN "none" ELSE gain
    /\ auto' = AutoAfterTune
    /\ UNCHANGED <<board, hw, shadow, st, mode, faults, ops>>

\* Put back: the request has failed.
BackRan == Ran("back") /\ Failed /\ UNCHANGED <<board, hw, shadow, faults, ops>>

\* run_acquisition_fifo_reset, the last record of a job that went well.
FifoFails ==
    /\ faults < MaxFaults /\ faults' = faults + 1
    /\ prog = <<>> /\ job.kind \in {"retune", "controls"} /\ job.ok
    /\ job.phase \in {"next", "plain"} \/ (job.phase = "gain" /\ job.w = None)
    /\ st' = "fault" /\ Done /\ shadow' = Forget
    /\ IF job.phase = "next" THEN applied' = [f |-> job.f, w |-> job.w] /\ valid' = TRUE
       ELSE UNCHANGED <<applied, valid>>
    /\ IF job.phase = "gain" THEN mode' = job.gain /\ auto' = (job.gain = "auto")
       ELSE UNCHANGED <<mode, auto>>
    /\ UNCHANGED <<board, hw, freq, requests, certain, ops>>

Next ==
    \/ \E f \in Freqs : Start(f) \/ Retune(f)
    \/ \E w \in Widths : SetBandwidth(w)
    \/ SetAuto \/ SetGain \/ Stop \/ BeginRetune \/ BeginControls
    \/ Record \/ FailStart \/ FailWidth \/ FailPlain \/ FailGain
    \/ GainRan \/ BeginWidth \/ WidthRan \/ StartRan \/ RetuneRan \/ BackRan \/ FifoFails

Spec == Init /\ [][Next]_vars

(***************************************************************************)
(* Properties.                                                             *)
(***************************************************************************)

Steady == st = "streaming" /\ job = NoJob

\* run_tune skips a write whose value "is already in the register": what the
\* shadow says of a register is what it holds, after any error at any record.
ShadowSound == \A r \in TunerRegs : shadow[r] # None => shadow[r] = hw[r]

\* esp_rtl_sdr.h 1273-1276: when IQ flows, the width reported as applied is the
\* one in filter, PLL and demodulator, after any failed request and rollback.
WidthHonest ==
    Steady /\ valid =>
        /\ hw["filter"] = Plan(applied.w) /\ hw["demod"] = Plan(applied.w)
        /\ hw["pll"] = At(applied.f, Plan(applied.w)) /\ hw["mode"] = Native

\* esp_rtl_sdr_acquisition.h 57: a block that names its frequency was received
\* there: the route is the frequency's, and PLL and demodulator use one IF.
LabelIsTrue ==
    Steady /\ certain =>
        IF freq \in Direct THEN hw["mode"] = DirectIn /\ hw["demod"] = Nco(freq)
        ELSE /\ hw["mode"] = Native /\ hw["pll"] = At(freq, hw["demod"])
             /\ hw["filter"] # Standby
             /\ board \in {"v4", "v4l"} => hw["route"] = Route(freq)

\* esp_rtl_sdr.h 1213-1214: AUTO is the AGC setting, and it stays when the
\* radio is retuned; so does a manual one.
ModeHolds ==
    Steady /\ certain /\ freq \notin Direct =>
        /\ auto /\ gain = "none" => hw["agc"] = Automatic
        /\ mode = "manual" /\ gain = "none" => hw["agc"] = Manual

\* E4000_GAIN_CONTROLS.md 33: on that board no IQ flows in an uncertain state.
E4000Certain == board = "e4000" /\ Steady => certain

\* API_REFERENCE.md 1267: a width that was accepted waits, is at work, or is
\* what is applied; a request is forgotten only with a failure.
WidthServed == Steady /\ certain /\ valid => asked \/ applied.w = want
=============================================================================
