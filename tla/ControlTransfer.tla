---------------------------- MODULE ControlTransfer ----------------------------
(***************************************************************************)
(* The control path of one handle (esp_rtl_sdr.cpp): a single transfer     *)
(* object and semaphore shared by every caller, answered by a callback     *)
(* that only the client task can run, and the closing of devices, which    *)
(* the host library does not allow while a transfer is in flight.          *)
(*                                                                         *)
(* A caller is a task with a pc: it locks, submits, waits and unlocks; a   *)
(* close waits, locks, waits again and closes or parks the device.  Every  *)
(* wait of the code is bounded, so a step that gives up is always enabled; *)
(* time itself is not modelled.                                            *)
(***************************************************************************)
EXTENDS Naturals, FiniteSets

CONSTANTS
    Devs,        \* device handles of the host library
    First,       \* the one the handle has at the start
    None,        \* model value
    Users,       \* tasks that call ctrl_submit: setters, the delivery task
    App,         \* the task of select_device
    Slots,       \* kMaxDeferredClose
    Tries,       \* attempts after a STALL
    AppAlone,    \* select_device meets no unplug, probe or call of another task
    MaxCalls     \* bound: calls of the users, probes and selections

Client == "client"
Probers == {Client, App}
Tasks == Users \cup Probers

ASSUME ControlTasks == /\ First \in Devs /\ None \notin Devs \cup Tasks
                       /\ Client \notin Users /\ App \notin Users \cup {Client}
                       /\ IsFiniteSet(Devs)
ASSUME ControlBounds == Slots \in Nat /\ Tries \in Nat \ {0} /\ AppAlone \in BOOLEAN /\ MaxCalls \in Nat

VARIABLES
    mutex,     \* who has ctrl_mutex
    inflight,  \* ctrl_inflight
    xfer,      \* ctrl_xfer at the host library: device, submitter, answer
    sem,       \* ctrl_sem
    status,    \* ctrl_status and ctrl_stall
    giving,    \* ctrl_cb has cleared ctrl_inflight and not given the semaphore
    dev, gone, \* dev and device_gone of the handle
    parked,    \* deferred_close
    opens,     \* devices the client has open
    here,      \* devices that are plugged in
    told,      \* DEV_GONE events not yet handled
    task,      \* each task: pc, device, attempt, result, what it does
    answer,    \* history: what the device answered to a task's last request
    leaked,    \* history: devices that found the list of parked ones full
    calls

vars == <<mutex, inflight, xfer, sem, status, giving, dev, gone, parked, opens, here, told,
          task, answer, leaked, calls>>
path == <<mutex, inflight, xfer, sem, status, giving, answer>>
bus == <<dev, gone, parked, opens, here, told, leaked>>

Answers == {"ok", "stall", "fail"}
NoXfer == [dev |-> None, by |-> None, st |-> "rest"]
Idle == [pc |-> "idle", dev |-> None, n |-> 0, ret |-> "none", job |-> "none"]

PCs == {"idle", "lock", "submit", "wait", "backoff", "unlock", "keep",
        "drain", "take", "close", "park", "forget"}
Held == {"submit", "wait", "backoff", "unlock", "close"}

TypeOK ==
    /\ mutex \in Tasks \cup {None}
    /\ {inflight, giving, gone} \subseteq BOOLEAN
    /\ xfer \in [dev: Devs, by: Tasks, st: {"wire"} \cup Answers] \cup {NoXfer}
    /\ sem \in 0..1 /\ status \in Answers
    /\ dev \in Devs \cup {None}
    /\ parked \subseteq opens /\ opens \subseteq Devs /\ Cardinality(parked) <= Slots
    /\ here \subseteq Devs /\ told \subseteq opens /\ leaked \subseteq Devs
    /\ task \in [Tasks -> [pc: PCs, dev: Devs \cup {None}, n: 0..Tries,
                           ret: {"none", "ok", "usb", "timeout"},
                           job: {"none", "control", "probe", "unplug", "select"}]]
    /\ \A t \in Tasks : task[t].pc \in Held <=> mutex = t
    /\ answer \in [Tasks -> Answers \cup {"none"}]
    /\ calls \in 0..MaxCalls

Init ==
    /\ mutex = None /\ inflight = FALSE /\ xfer = NoXfer /\ sem = 0 /\ status = "ok" /\ giving = FALSE
    /\ dev = First /\ gone = FALSE /\ parked = {} /\ opens = {First} /\ here = Devs /\ told = {}
    /\ task = [t \in Tasks |-> Idle]
    /\ answer = [t \in Tasks |-> "none"] /\ leaked = {} /\ calls = 0

At(t, l) == task[t].pc = l

\* With AppAlone nothing else begins while the application selects.
Calm == AppAlone => At(App, "idle")
Alone == AppAlone => told = {} /\ ~gone /\ \A t \in Tasks : At(t, "idle")

Put(t, r) == task' = [task EXCEPT ![t] = r]
Go(t, l) == Put(t, [task[t] EXCEPT !.pc = l])
Unlock(t, r) == Put(t, [task[t] EXCEPT !.pc = "unlock", !.ret = r])

(***************************************************************************)
(* A control request: ctrl_submit, ctrl_submit_device and                  *)
(* ctrl_transfer_locked.                                                   *)
(***************************************************************************)

Call(t) ==
    /\ t \in Users /\ At(t, "idle") /\ Calm /\ calls < MaxCalls
    /\ calls' = calls + 1
    /\ Put(t, [Idle EXCEPT !.pc = "lock", !.job = "control"])
    /\ UNCHANGED <<path, bus>>

\* A probe opens a device and asks it; the client probes when it has none.
Probe(t) ==
    /\ t \in Probers /\ At(t, "idle") /\ calls < MaxCalls
    /\ dev = None /\ IF t = App THEN Alone ELSE Calm /\ ~gone
    /\ \E d \in here \ opens :
         /\ opens' = opens \cup {d}
         /\ Put(t, [Idle EXCEPT !.pc = "lock", !.dev = d, !.job = "probe"])
    /\ calls' = calls + 1
    /\ UNCHANGED <<path, dev, gone, parked, here, told, leaked>>

\* Mutant of Target: the device is used although it is known to be gone.
TargetDead(t) == IF task[t].job = "probe" THEN task[t].dev ELSE dev

\* dev is read under the mutex; a gone device is none.
Target(t) == IF task[t].job = "probe" THEN task[t].dev ELSE IF gone THEN None ELSE dev

Lock(t) ==
    /\ At(t, "lock") /\ mutex = None
    /\ mutex' = t /\ answer' = [answer EXCEPT ![t] = "none"]
    /\ LET l == [task[t] EXCEPT !.dev = Target(t), !.n = 0] IN
         IF Target(t) = None THEN Put(t, [l EXCEPT !.pc = "unlock", !.ret = "usb"])
         ELSE IF inflight THEN Put(t, [l EXCEPT !.pc = "unlock", !.ret = "timeout"])
         ELSE Put(t, [l EXCEPT !.pc = "submit"])
    /\ UNCHANGED <<inflight, xfer, sem, status, giving, bus, calls>>

\* Mutant of Submit: the status of the request before is left in place.
SubmitStale(t) ==
    /\ At(t, "submit")
    /\ sem' = 0
    /\ \/ /\ inflight' = TRUE /\ xfer' = [dev |-> task[t].dev, by |-> t, st |-> "wire"]
          /\ Put(t, [task[t] EXCEPT !.pc = "wait", !.n = @ + 1])
       \/ inflight' = FALSE /\ Unlock(t, "usb") /\ UNCHANGED xfer
    /\ answer' = [answer EXCEPT ![t] = "none"]
    /\ UNCHANGED <<mutex, status, giving, bus, calls>>

\* The status is reset and the semaphore drained before every attempt; the
\* host library may refuse the transfer.
Submit(t) ==
    /\ At(t, "submit")
    /\ status' = "fail" /\ sem' = 0
    /\ \/ /\ inflight' = TRUE /\ xfer' = [dev |-> task[t].dev, by |-> t, st |-> "wire"]
          /\ Put(t, [task[t] EXCEPT !.pc = "wait", !.n = @ + 1])
       \/ inflight' = FALSE /\ Unlock(t, "usb") /\ UNCHANGED xfer
    /\ answer' = [answer EXCEPT ![t] = "none"]
    /\ UNCHANGED <<mutex, giving, bus, calls>>

\* A STALL is the expected answer of some requests, else it is tried again.
Wake(t) ==
    /\ At(t, "wait") /\ sem = 1
    /\ sem' = 0
    /\ CASE status = "ok" -> Unlock(t, "ok")
         [] status = "fail" -> Unlock(t, "usb")
         [] status = "stall" -> \/ Unlock(t, "ok")
                                \/ IF task[t].n < Tries THEN Go(t, "backoff") ELSE Unlock(t, "usb")
    /\ UNCHANGED <<mutex, inflight, xfer, status, giving, answer, bus, calls>>

Again(t) == At(t, "backoff") /\ Go(t, "submit") /\ UNCHANGED <<path, bus, calls>>

\* Mutant of GiveUp: the wait for the answer has no end.
GiveUpNever(t) == FALSE /\ UNCHANGED vars

\* The client looks at the semaphore before it runs callbacks, so it may give
\* up on one that was just given.
GiveUp(t) ==
    /\ At(t, "wait") /\ (sem = 0 \/ t = Client)
    /\ Unlock(t, "timeout")
    /\ UNCHANGED <<path, bus, calls>>

Release(t) ==
    /\ At(t, "unlock")
    /\ mutex' = None
    /\ IF task[t].job = "probe"
       THEN Go(t, IF task[t].ret = "ok" THEN "keep" ELSE "drain")
       ELSE Put(t, [Idle EXCEPT !.ret = task[t].ret])
    /\ UNCHANGED <<inflight, xfer, sem, status, giving, answer, bus, calls>>

\* The probed device becomes the handle's, unless it has one by now.
Keep(t) ==
    /\ At(t, "keep")
    /\ IF dev = None THEN dev' = task[t].dev /\ Put(t, Idle) ELSE Go(t, "drain") /\ UNCHANGED dev
    /\ UNCHANGED <<path, gone, parked, opens, here, told, leaked, calls>>

(***************************************************************************)
(* close_device_safely, defer_device_close, retry_deferred_closes.         *)
(***************************************************************************)

\* client_task_fn: the device of the handle is gone.
CloseGone ==
    /\ At(Client, "idle") /\ gone
    /\ IF dev = None THEN gone' = FALSE /\ UNCHANGED task
       ELSE Put(Client, [Idle EXCEPT !.pc = "drain", !.dev = dev, !.job = "unplug"]) /\ UNCHANGED gone
    /\ UNCHANGED <<path, dev, parked, opens, here, told, leaked, calls>>

SelectOther ==
    /\ At(App, "idle") /\ Alone /\ dev # None /\ calls < MaxCalls
    /\ calls' = calls + 1
    /\ Put(App, [Idle EXCEPT !.pc = "drain", !.dev = dev, !.job = "select"])
    /\ UNCHANGED <<path, bus>>

\* The first wait lets a caller finish; it may end with the transfer in flight.
DrainEnds(t) == At(t, "drain") /\ Go(t, "take") /\ UNCHANGED <<path, bus, calls>>

TakeForClose(t) ==
    /\ At(t, "take")
    /\ \/ mutex = None /\ mutex' = t /\ Go(t, "close")
       \/ mutex # None /\ Go(t, "park") /\ UNCHANGED mutex
    /\ UNCHANGED <<inflight, xfer, sem, status, giving, answer, bus, calls>>

\* usb_host_device_close may refuse too.
Close(t) ==
    /\ At(t, "close")
    /\ \/ ~inflight /\ opens' = opens \ {task[t].dev} /\ told' = told \ {task[t].dev} /\ Go(t, "forget")
       \/ Go(t, "park") /\ UNCHANGED <<opens, told>>
    /\ mutex' = None
    /\ UNCHANGED <<inflight, xfer, sem, status, giving, answer, dev, gone, parked, here, leaked, calls>>

\* Mutant of Park: the device is dropped without being parked.
ParkLoses(t) ==
    /\ At(t, "park") /\ Go(t, "forget")
    /\ UNCHANGED <<path, dev, gone, parked, opens, here, told, leaked, calls>>

Park(t) ==
    /\ At(t, "park") /\ Go(t, "forget")
    /\ LET d == task[t].dev IN
         IF d \in parked \/ Cardinality(parked) < Slots
         THEN parked' = parked \cup {d} /\ UNCHANGED leaked
         ELSE leaked' = leaked \cup {d} /\ UNCHANGED parked
    /\ UNCHANGED <<path, dev, gone, opens, here, told, calls>>

\* close_opened_device forgets the device after the mutex is released, and the
\* client then takes back device_gone.
Forget(t) ==
    /\ At(t, "forget") /\ Put(t, Idle)
    /\ dev' = IF task[t].job = "probe" THEN dev ELSE None
    /\ gone' = (gone /\ task[t].job # "unplug")
    /\ UNCHANGED <<path, parked, opens, here, told, leaked, calls>>

RetryParked ==
    /\ At(Client, "idle") /\ ~inflight /\ mutex = None
    /\ \E ds \in (SUBSET parked) \ {{}} :
         parked' = parked \ ds /\ opens' = opens \ ds /\ told' = told \ ds
    /\ UNCHANGED <<path, dev, gone, here, leaked, task, calls>>

(***************************************************************************)
(* The host library and the callbacks, which run when the client task      *)
(* handles events: in its loop, and while it waits for an answer or for    *)
(* the control path, but not while it waits for the mutex.                 *)
(***************************************************************************)

Pumping == task[Client].pc \in {"idle", "wait", "drain", "close"}

Finish ==
    /\ xfer.st = "wire"
    /\ \E r \in Answers : xfer' = [xfer EXCEPT !.st = r]
    /\ UNCHANGED <<mutex, inflight, sem, status, giving, answer, bus, task, calls>>

\* ctrl_cb in two steps: between them a caller may begin the next request.
Callback ==
    /\ Pumping /\ ~giving /\ xfer.st \in Answers
    /\ status' = xfer.st /\ inflight' = FALSE /\ giving' = TRUE
    /\ answer' = [answer EXCEPT ![xfer.by] = IF At(xfer.by, "wait") THEN xfer.st ELSE @]
    /\ xfer' = NoXfer
    /\ UNCHANGED <<mutex, sem, bus, task, calls>>

GiveSem == giving /\ giving' = FALSE /\ sem' = 1
           /\ UNCHANGED <<mutex, inflight, xfer, status, answer, bus, task, calls>>

Unplug(d) ==
    /\ d \in here /\ Calm /\ here' = here \ {d}
    /\ told' = IF d \in opens THEN told \cup {d} ELSE told
    /\ UNCHANGED <<path, dev, gone, parked, opens, leaked, task, calls>>

\* client_event_cb: DEV_GONE.
GoneEvent(d) ==
    /\ Pumping /\ ~giving /\ d \in told
    /\ told' = told \ {d}
    /\ gone' = (gone \/ d = dev)
    /\ UNCHANGED <<path, dev, parked, opens, here, leaked, task, calls>>

Request(t) == Lock(t) \/ Submit(t) \/ Wake(t) \/ Again(t) \/ GiveUp(t) \/ Release(t)
Closing(t) == Keep(t) \/ DrainEnds(t) \/ TakeForClose(t) \/ Close(t) \/ Park(t) \/ Forget(t)

\* The client task does nothing else inside a callback.
Free(t) == t = Client => ~giving

Next ==
    \/ \E t \in Tasks : Free(t) /\ Request(t)
    \/ \E t \in Users : Call(t)
    \/ \E t \in Probers : Free(t) /\ (Probe(t) \/ Closing(t))
    \/ Free(Client) /\ (CloseGone \/ RetryParked)
    \/ SelectOther
    \/ Finish \/ Callback \/ GiveSem
    \/ \E d \in Devs : Unplug(d) \/ GoneEvent(d)

\* Tasks run and their waits end, and the client task handles what the library
\* has.  The library itself need not ever answer a transfer.
Fairness ==
    /\ \A t \in Tasks : WF_vars(Free(t) /\ Request(t))
    /\ \A t \in Probers : WF_vars(Free(t) /\ Closing(t))
    /\ WF_vars(Free(Client) /\ CloseGone) /\ WF_vars(Free(Client) /\ RetryParked)
    /\ WF_vars(Callback) /\ WF_vars(GiveSem)
    /\ WF_vars(\E d \in Devs : GoneEvent(d))

Spec == Init /\ [][Next]_vars
FairSpec == Spec /\ Fairness

(***************************************************************************)
(* Properties.                                                             *)
(***************************************************************************)

\* esp_rtl_sdr.cpp 940: "ctrl_xfer cannot be reused" while a transfer that
\* timed out has not completed: who is about to fill it in finds it at rest.
XferAtRest == \A t \in Tasks : At(t, "submit") => xfer = NoXfer

\* 850-854: usb_host_device_close asserts when a transfer is in flight on the
\* device, so no device is ever closed under its own transfer.
ClosedAtRest == [][\A d \in opens \ opens' : xfer.dev # d]_vars

\* 1052-1055: no transfer is submitted to a device that was closed, and no
\* device is closed twice.
OpenWhenUsed == \A t \in Tasks : task[t].pc \in {"submit", "wait", "close"} => task[t].dev \in opens

\* A request that reports success was answered: an answer to an earlier one of
\* another task, or its late semaphore, is never taken for it.
OkIsAnswered ==
    \A t \in Tasks : At(t, "unlock") /\ task[t].ret = "ok" => answer[t] \in {"ok", "stall"}

\* 855: "rather than crash or lose it": an open device is the handle's, is
\* being worked on, or is parked; only a full list loses one.
NoneLost ==
    \A d \in opens : \/ d = dev \/ d \in parked \/ d \in leaked
                     \/ \E t \in Probers : ~At(t, "idle") /\ task[t].dev = d

\* Every caller returns, though the client task itself calls, closes under the
\* mutex, and is the only one to run callbacks, and though the library may
\* never answer.
CallsReturn == \A t \in Tasks : ~At(t, "idle") ~> At(t, "idle")

\* A parked device is closed in the end, unless a transfer stays in flight.
ParkedAreClosed == []<>(parked = {} \/ inflight)
=============================================================================
