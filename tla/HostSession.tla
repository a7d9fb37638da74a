---------------------------- MODULE HostSession ----------------------------
(***************************************************************************)
(* The USB host session that all handles share (esp_rtl_sdr.cpp,           *)
(* s_usb_session): install and uninstall with every step that may fail,    *)
(* the host library task, the client task of each handle as far as the     *)
(* session goes, the retry of a failed enumeration, and the fault guard    *)
(* over resets of the chip.                                                *)
(*                                                                         *)
(* Each handle has one owner task in at most one call.  An action is a     *)
(* critical section of the session mutex or a call into the host library;  *)
(* only session_release keeps the mutex over waits (lockBy).  The bus has  *)
(* one device.  Streams, probing and claims are other modules' subject.    *)
(***************************************************************************)
EXTENDS FaultGuard, FiniteSets

CONSTANTS
    Handles,        \* handles the application may create
    Slots,          \* logical slots, ESP_RTL_SDR_MAX_DEVICES of them
    NoSlot, Nobody, \* model values
    Externals,      \* does the application install the host library itself
    MaxFaults       \* bound: host and task calls that fail

ASSUME SlotsFinite == IsFiniteSet(Slots) /\ NoSlot \notin Slots
ASSUME HandlesFinite == IsFiniteSet(Handles) /\ Nobody \notin Handles
ASSUME SessionOptions == Externals \subseteq BOOLEAN /\ MaxFaults \in Nat

VARIABLES
    s,      \* s_usb_session
    slot,   \* logical_index of each handle
    pc,     \* where each handle's owner is; "none": no handle
    cl,     \* client task: "off", "run", or "due" for a power cycle, "cycle"
    asked,  \* ~tasks_run: the workers were told to exit
    lockBy, \* who holds the session mutex over a wait
    lib,    \* host library: [up, clients, freeing, powered, ext]
    bus,    \* the device: "empty", "plugged", "enum", "dev"
    dev,    \* the handle that has the device open
    faults  \* calls that failed so far

sessionVars == <<s, slot, pc, cl, asked, lockBy, lib, bus, dev, faults>>
vars == <<sessionVars, guardVars>>

Starting == {"acquire", "wait", "host", "task", "power", "register", "client", "fail"}
Ending == {"stop", "join", "close", "deregister", "release", "free", "freewait",
           "hostjoin", "libdown", "done"}
Rest == {"none", "up", "kept"}

NoSession == [refs |-> 0, used |-> {}, installed |-> FALSE, teardown |-> FALSE,
              freeReq |-> FALSE, external |-> FALSE, bringing |-> FALSE,
              run |-> FALSE, exited |-> TRUE, allFree |-> FALSE]

TypeOK ==
    /\ GuardTypeOK
    /\ s \in [refs: 0..Cardinality(Handles), used: SUBSET Slots, installed: BOOLEAN,
              teardown: BOOLEAN, freeReq: BOOLEAN, external: BOOLEAN, bringing: BOOLEAN,
              run: BOOLEAN, exited: BOOLEAN, allFree: BOOLEAN]
    /\ slot \in [Handles -> Slots \cup {NoSlot}]
    /\ pc \in [Handles -> Starting \cup Ending \cup Rest]
    /\ cl \in [Handles -> {"off", "run", "due", "cycle"}]
    /\ asked \in [Handles -> BOOLEAN]
    /\ lockBy \in Handles \cup {Nobody}
    /\ lib \in [up: BOOLEAN, clients: SUBSET Handles, freeing: BOOLEAN, powered: BOOLEAN,
                ext: BOOLEAN]
    /\ bus \in {"empty", "plugged", "enum", "dev"}
    /\ dev \in Handles \cup {Nobody}
    /\ faults \in 0..MaxFaults

\* The root port: what its power does to the device.
Powered(b) == IF b = "plugged" THEN "enum" ELSE b
Unpowered(b) == IF b = "empty" THEN b ELSE "plugged"

\* After a boot there is no handle and no task; an application that owns the
\* host library has installed it.
All(v) == [h \in Handles |-> v]
BootLib(ext) == [up |-> ext, clients |-> {}, freeing |-> FALSE, powered |-> ext, ext |-> ext]
BootBus(ext, b) == IF ext THEN Powered(b) ELSE b

Init ==
    /\ GuardInit
    /\ \E ext \in Externals, b \in {"empty", "plugged"} :
          lib = BootLib(ext) /\ bus = BootBus(ext, b)
    /\ s = NoSession /\ slot = All(NoSlot) /\ pc = All("none")
    /\ cl = All("off") /\ asked = All(FALSE)
    /\ lockBy = Nobody /\ dev = Nobody
    /\ faults = 0

Free == lockBy = Nobody
Enumerating == bus = "enum"
EventsRun == s.run \/ lib.ext      \* somebody pumps the host library
Goto(h, l) == pc' = [pc EXCEPT ![h] = l]
MayFail == faults < MaxFaults /\ faults' = faults + 1
NoFail == UNCHANGED faults

(***************************************************************************)
(* Slots and references.                                                   *)
(***************************************************************************)

GiveSlotBack(r, h) == [r EXCEPT !.used = @ \ {slot[h]}]
DropRef(r, h) == [GiveSlotBack(r, h) EXCEPT !.refs = @ - 1]

\* Mutant of Join: the states of a host that is going down are not looked at.
JoinAny(r, h, sl) ==
    LET first == r.refs = 0
        external == IF first THEN lib.ext ELSE r.external
        install == first /\ ~external
    IN  /\ s' = [r EXCEPT !.refs = @ + 1, !.external = external, !.bringing = @ \/ install]
        /\ slot' = [slot EXCEPT ![h] = sl]
        /\ Goto(h, IF install THEN "host" ELSE "register")

\* Join(r, h, sl): session_acquire once nobody is bringing the host up, with
\* slot sl taken in r. The first handle brings the host up itself, unless the
\* application has.
Join(r, h, sl) ==
    IF r.teardown \/ (r.installed /\ ~r.run)
    THEN /\ s' = [r EXCEPT !.used = @ \ {sl}]
         /\ slot' = [slot EXCEPT ![h] = NoSlot]
         /\ Goto(h, "fail")
    ELSE LET first == r.refs = 0
             external == IF first THEN lib.ext ELSE r.external
             install == first /\ ~external
         IN  /\ s' = [r EXCEPT !.refs = @ + 1, !.external = external,
                               !.bringing = @ \/ install]
             /\ slot' = [slot EXCEPT ![h] = sl]
             /\ Goto(h, IF install THEN "host" ELSE "register")

(***************************************************************************)
(* esp_rtl_sdr_install.                                                    *)
(***************************************************************************)

\* The guard is checked before anything touches the host library.
InstallCall(h) ==
    /\ pc[h] = "none"
    /\ rtc.panics < MaxStreak \/ ~rtc.risk
    /\ InstallChecks
    /\ IF Latched THEN UNCHANGED <<pc, asked>>
       ELSE Goto(h, "acquire") /\ asked' = [asked EXCEPT ![h] = FALSE]
    /\ UNCHANGED <<s, slot, cl, lockBy, lib, bus, dev, faults>>

SessionAcquire(h) ==
    /\ pc[h] = "acquire" /\ Free
    /\ IF s.used = Slots
       THEN Goto(h, "fail") /\ UNCHANGED <<s, slot>>
       ELSE LET sl == CHOOSE x \in Slots \ s.used : TRUE
                r == [s EXCEPT !.used = @ \cup {sl}]
            IN  IF s.bringing
                THEN /\ s' = r
                     /\ slot' = [slot EXCEPT ![h] = sl]
                     /\ Goto(h, "wait")
                ELSE Join(r, h, sl)
    /\ UNCHANGED <<cl, asked, lockBy, lib, bus, dev, faults, guardVars>>

\* The 2 s of waiting for another handle's bring-up; the slot is held.
WaitEnds(h) ==
    /\ pc[h] = "wait" /\ Free
    /\ \/ ~s.bringing /\ Join(s, h, slot[h])
       \/ /\ s' = GiveSlotBack(s, h)
          /\ slot' = [slot EXCEPT ![h] = NoSlot]
          /\ Goto(h, "fail")
    /\ UNCHANGED <<cl, asked, lockBy, lib, bus, dev, faults, guardVars>>

\* Mutant of HostInstall: the reference of a failed bring-up is kept.
HostInstallKeepsRef(h) ==
    /\ pc[h] = "host" /\ Free
    /\ \/ /\ ~lib.up /\ NoFail
          /\ lib' = [lib EXCEPT !.up = TRUE]
          /\ s' = [s EXCEPT !.installed = TRUE, !.run = TRUE, !.exited = FALSE,
                            !.allFree = FALSE]
          /\ Goto(h, "task") /\ UNCHANGED slot
       \/ /\ IF lib.up THEN NoFail ELSE MayFail
          /\ s' = [GiveSlotBack(s, h) EXCEPT !.bringing = FALSE]
          /\ slot' = [slot EXCEPT ![h] = NoSlot]
          /\ Goto(h, "fail") /\ UNCHANGED lib
    /\ UNCHANGED <<cl, asked, lockBy, bus, dev, guardVars>>

HostInstall(h) ==
    /\ pc[h] = "host" /\ Free
    /\ \/ /\ ~lib.up /\ NoFail
          /\ lib' = [lib EXCEPT !.up = TRUE]
          /\ s' = [s EXCEPT !.installed = TRUE, !.run = TRUE, !.exited = FALSE,
                            !.allFree = FALSE]
          /\ Goto(h, "task") /\ UNCHANGED slot
       \/ /\ IF lib.up THEN NoFail ELSE MayFail
          /\ s' = [DropRef(s, h) EXCEPT !.bringing = FALSE]
          /\ slot' = [slot EXCEPT ![h] = NoSlot]
          /\ Goto(h, "fail") /\ UNCHANGED lib
    /\ UNCHANGED <<cl, asked, lockBy, bus, dev, guardVars>>

\* No host task: the library is taken down again at once, or kept.
HostTask(h) ==
    /\ pc[h] = "task" /\ Free
    /\ \/ Goto(h, "power") /\ NoFail /\ UNCHANGED <<s, slot, lib>>
       \/ LET ended == [s EXCEPT !.run = FALSE, !.exited = TRUE, !.bringing = FALSE]
          IN  /\ MayFail /\ Goto(h, "fail")
              /\ \/ /\ lib' = [lib EXCEPT !.up = FALSE]
                    /\ s' = [DropRef(ended, h) EXCEPT !.installed = FALSE]
                    /\ slot' = [slot EXCEPT ![h] = NoSlot]
                 \/ /\ s' = [ended EXCEPT !.teardown = TRUE]
                    /\ UNCHANGED <<slot, lib>>
    /\ UNCHANGED <<cl, asked, lockBy, bus, dev, guardVars>>

RootPower(h) ==
    /\ pc[h] = "power" /\ Free
    /\ \/ /\ s' = [s EXCEPT !.teardown = FALSE, !.bringing = FALSE]
          /\ lib' = [lib EXCEPT !.powered = TRUE]
          /\ bus' = Powered(bus)
          /\ Goto(h, "register") /\ NoFail
       \/ /\ s' = [s EXCEPT !.teardown = TRUE, !.bringing = FALSE]
          /\ Goto(h, "fail") /\ MayFail /\ UNCHANGED <<lib, bus>>
    /\ UNCHANGED <<slot, cl, asked, lockBy, dev, guardVars>>

ClientRegister(h) ==
    /\ pc[h] = "register"
    /\ \/ /\ lib.up /\ NoFail
          /\ lib' = [lib EXCEPT !.clients = @ \cup {h}] /\ Goto(h, "client")
       \/ (IF lib.up THEN MayFail ELSE NoFail) /\ Goto(h, "fail") /\ UNCHANGED lib
    /\ UNCHANGED <<s, slot, cl, asked, lockBy, bus, dev, guardVars>>

ClientTask(h) ==
    /\ pc[h] = "client"
    /\ \/ cl' = [cl EXCEPT ![h] = "run"] /\ Goto(h, "up") /\ NoFail
       \/ MayFail /\ Goto(h, "fail") /\ UNCHANGED cl
    /\ UNCHANGED <<s, slot, asked, lockBy, lib, bus, dev, guardVars>>

\* A failed install disarms, then uninstalls what there is.
InstallFails(h) ==
    /\ pc[h] = "fail"
    /\ GuardDisarm /\ Goto(h, "stop")
    /\ UNCHANGED <<s, slot, cl, asked, lockBy, lib, bus, dev, faults>>

(***************************************************************************)
(* esp_rtl_sdr_uninstall.                                                  *)
(***************************************************************************)

UninstallCall(h) ==
    /\ pc[h] \in {"up", "kept"}
    /\ GuardDisarm /\ Goto(h, "stop")
    /\ UNCHANGED <<s, slot, cl, asked, lockBy, lib, bus, dev, faults>>

\* Any step that fails ends the call; the handle is kept for another one.
Retain(h) == Goto(h, "kept")

\* The stream is stopped only while the workers may still run.
StopStream(h) ==
    /\ pc[h] = "stop"
    /\ \/ asked' = [asked EXCEPT ![h] = TRUE] /\ Goto(h, "join") /\ NoFail
       \/ cl[h] # "off" /\ ~asked[h] /\ MayFail /\ Retain(h) /\ UNCHANGED asked
    /\ UNCHANGED <<s, slot, cl, lockBy, lib, bus, dev, guardVars>>

JoinWorkers(h) ==
    /\ pc[h] = "join"
    /\ \/ cl[h] = "off" /\ Goto(h, "close")
       \/ cl[h] # "off" /\ Retain(h)
    /\ UNCHANGED <<s, slot, cl, asked, lockBy, lib, bus, dev, faults, guardVars>>

\* No transfer may be left; the device is closed now, or its close deferred.
CloseDevice(h) ==
    /\ pc[h] = "close"
    /\ \/ /\ NoFail /\ Goto(h, "deregister")
          /\ dev' = IF dev = h THEN Nobody ELSE dev
       \/ dev = h /\ MayFail /\ Retain(h) /\ UNCHANGED dev
    /\ UNCHANGED <<s, slot, cl, asked, lockBy, lib, bus, guardVars>>

Deregister(h) ==
    /\ pc[h] = "deregister"
    /\ \/ /\ lib' = [lib EXCEPT !.clients = @ \ {h}]
          /\ Goto(h, "release") /\ NoFail
       \/ h \in lib.clients /\ MayFail /\ Retain(h) /\ UNCHANGED lib
    /\ UNCHANGED <<s, slot, cl, asked, lockBy, bus, dev, guardVars>>

SessionRelease(h) ==
    /\ pc[h] = "release"
    /\ IF slot[h] = NoSlot
       THEN Goto(h, "done") /\ UNCHANGED <<s, slot, lockBy>>
       ELSE /\ Free
            /\ IF s.refs = 1 /\ s.installed /\ ~s.external
               THEN /\ s' = [s EXCEPT !.teardown = TRUE]
                    /\ lockBy' = h /\ Goto(h, "free") /\ UNCHANGED slot
               ELSE /\ s' = DropRef(s, h)
                    /\ slot' = [slot EXCEPT ![h] = NoSlot]
                    /\ Goto(h, "done") /\ UNCHANGED lockBy
    /\ UNCHANGED <<cl, asked, lib, bus, dev, faults, guardVars>>

Unlock(h) == lockBy' = Nobody /\ Retain(h)

\* SessionShutdown::free_devices, up to its wait. With no device on the bus
\* the library answers ESP_OK, which is refused.
FreeDevices(h) ==
    /\ pc[h] = "free"
    /\ IF ~s.run \/ (s.freeReq /\ s.allFree)
       THEN /\ s' = [s EXCEPT !.run = FALSE]
            /\ Goto(h, "hostjoin") /\ UNCHANGED <<lockBy, lib>>
       ELSE /\ s' = [s EXCEPT !.allFree = FALSE, !.freeReq = TRUE]
            /\ IF bus = "dev"
               THEN /\ lib' = [lib EXCEPT !.freeing = TRUE]
                    /\ Goto(h, "freewait") /\ UNCHANGED lockBy
               ELSE Unlock(h) /\ UNCHANGED lib
    /\ UNCHANGED <<slot, cl, asked, bus, dev, faults, guardVars>>

FreeWait(h) ==
    /\ pc[h] = "freewait"
    /\ \/ /\ s.allFree /\ s' = [s EXCEPT !.run = FALSE]
          /\ Goto(h, "hostjoin") /\ UNCHANGED lockBy
       \/ ~s.allFree /\ Unlock(h) /\ UNCHANGED s
    /\ UNCHANGED <<slot, cl, asked, lib, bus, dev, faults, guardVars>>

HostJoin(h) ==
    /\ pc[h] = "hostjoin"
    /\ \/ s.exited /\ Goto(h, "libdown") /\ UNCHANGED lockBy
       \/ ~s.exited /\ Unlock(h)
    /\ UNCHANGED <<s, slot, cl, asked, lib, bus, dev, faults, guardVars>>

\* usb_host_uninstall fails while the library knows a client or a device.
HostUninstall(h) ==
    /\ pc[h] = "libdown"
    /\ LET refuses == lib.clients # {} \/ bus \in {"enum", "dev"}
       IN  \/ /\ ~refuses /\ NoFail
              /\ lib' = [lib EXCEPT !.up = FALSE, !.freeing = FALSE, !.powered = FALSE]
              /\ s' = [DropRef(s, h) EXCEPT !.installed = FALSE, !.teardown = FALSE,
                                            !.freeReq = FALSE]
              /\ slot' = [slot EXCEPT ![h] = NoSlot]
              /\ lockBy' = Nobody /\ Goto(h, "done")
           \/ /\ IF refuses THEN NoFail ELSE MayFail
              /\ Unlock(h) /\ UNCHANGED <<s, slot, lib>>
    /\ UNCHANGED <<cl, asked, bus, dev, guardVars>>

FreeHandle(h) ==
    /\ pc[h] = "done" /\ Goto(h, "none")
    /\ UNCHANGED <<s, slot, cl, asked, lockBy, lib, bus, dev, faults, guardVars>>

(***************************************************************************)
(* The host library's task, the client tasks, and the bus.                 *)
(***************************************************************************)

HostTaskExits ==
    /\ ~s.run /\ ~s.exited
    /\ s' = [s EXCEPT !.exited = TRUE]
    /\ UNCHANGED <<slot, pc, cl, asked, lockBy, lib, bus, dev, faults, guardVars>>

\* The devices are freed once closed, and ALL_FREE is reported.
LibFreed ==
    /\ lib.freeing /\ EventsRun /\ bus = "dev" /\ dev = Nobody
    /\ lib' = [lib EXCEPT !.freeing = FALSE]
    /\ bus' = "plugged" /\ s' = [s EXCEPT !.allFree = s.run]
    /\ UNCHANGED <<slot, pc, cl, asked, lockBy, dev, faults, guardVars>>

\* An enumeration ends, well or not; a device that is replaced is closed by
\* then. The clients get NEW_DEV (client_event_cb) and the first one disarms.
Enumerates ==
    /\ Enumerating /\ EventsRun /\ lib.up /\ dev = Nobody
    /\ \/ /\ bus' = "dev"
          /\ IF lib.clients # {} THEN GuardDisarm ELSE UNCHANGED guardVars
       \/ bus' = "plugged" /\ UNCHANGED guardVars
    /\ UNCHANGED <<s, slot, pc, cl, asked, lockBy, lib, dev, faults>>

Attach ==
    /\ bus = "empty"
    /\ bus' = IF lib.powered THEN "enum" ELSE "plugged"
    /\ UNCHANGED <<s, slot, pc, cl, asked, lockBy, lib, dev, faults, guardVars>>

\* The last device that goes is reported free if nobody has it open.
Unplug ==
    /\ bus # "empty" /\ bus' = "empty"
    /\ s' = [s EXCEPT !.allFree = @ \/ (s.run /\ bus = "dev" /\ dev = Nobody)]
    /\ lib' = [lib EXCEPT !.freeing = FALSE]
    /\ UNCHANGED <<slot, pc, cl, asked, lockBy, dev, faults, guardVars>>

\* The client opens the device, on the event or on the scan it begins with.
ClientOpen(h) ==
    /\ cl[h] = "run" /\ bus = "dev" /\ dev = Nobody
    /\ dev' = h
    /\ UNCHANGED <<s, slot, pc, cl, asked, lockBy, lib, bus, faults, guardVars>>

ClientGone(h) ==
    /\ cl[h] = "run" /\ dev = h /\ bus # "dev"
    /\ dev' = Nobody
    /\ UNCHANGED <<s, slot, pc, cl, asked, lockBy, lib, bus, faults, guardVars>>

\* recover_failed_enumeration: the test under the session mutex. When the wait
\* is over is EnumRetry's subject.
RecoverDue(h) ==
    /\ cl[h] = "run" /\ Free /\ dev # h /\ bus # "dev"
    /\ s.installed /\ ~s.external /\ ~s.bringing
    /\ cl' = [cl EXCEPT ![h] = "due"]
    /\ UNCHANGED <<s, slot, pc, asked, lockBy, lib, bus, dev, faults, guardVars>>

RecoverPowerOff(h) ==
    /\ cl[h] = "due"
    /\ GuardRearm
    /\ \/ /\ lib' = [lib EXCEPT !.powered = FALSE]
          /\ bus' = Unpowered(bus) /\ NoFail
          /\ cl' = [cl EXCEPT ![h] = "cycle"]
       \/ MayFail /\ cl' = [cl EXCEPT ![h] = "run"] /\ UNCHANGED <<lib, bus>>
    /\ UNCHANGED <<s, slot, pc, asked, lockBy, dev>>

RecoverPowerOn(h) ==
    /\ cl[h] = "cycle"
    /\ lib' = [lib EXCEPT !.powered = TRUE]
    /\ bus' = Powered(bus)
    /\ cl' = [cl EXCEPT ![h] = "run"]
    /\ UNCHANGED <<s, slot, pc, asked, lockBy, dev, faults, guardVars>>

ClientExits(h) ==
    /\ cl[h] = "run" /\ asked[h]
    /\ cl' = [cl EXCEPT ![h] = "off"]
    /\ UNCHANGED <<s, slot, pc, asked, lockBy, lib, bus, dev, faults, guardVars>>

\* The settle timer, and the application's own reset of the guard.
Settles == TimerFires /\ UNCHANGED sessionVars
ClearGuard == rtc.panics > 0 /\ GuardReset /\ UNCHANGED sessionVars

\* A reset of the chip: nothing but RTC memory and the bus is left.
ChipReset(why) ==
    /\ Reset(why, Enumerating /\ ~lib.ext)
    /\ lib' = BootLib(lib.ext) /\ bus' = BootBus(lib.ext, Unpowered(bus))
    /\ s' = NoSession /\ slot' = All(NoSlot) /\ pc' = All("none")
    /\ cl' = All("off") /\ asked' = All(FALSE)
    /\ lockBy' = Nobody /\ dev' = Nobody
    /\ UNCHANGED faults

Client(h) == \/ ClientOpen(h) \/ ClientGone(h) \/ ClientExits(h)
             \/ RecoverDue(h) \/ RecoverPowerOff(h) \/ RecoverPowerOn(h)

\* What the owner does inside a call, and the calls.
Install(h) == \/ SessionAcquire(h) \/ WaitEnds(h) \/ HostInstall(h) \/ HostTask(h)
              \/ RootPower(h) \/ ClientRegister(h) \/ ClientTask(h) \/ InstallFails(h)
Uninstall(h) == \/ StopStream(h) \/ JoinWorkers(h) \/ CloseDevice(h) \/ Deregister(h)
                \/ SessionRelease(h) \/ FreeDevices(h) \/ FreeWait(h) \/ HostJoin(h)
                \/ HostUninstall(h) \/ FreeHandle(h)

Next ==
    \/ \E h \in Handles : InstallCall(h) \/ UninstallCall(h) \/ Install(h) \/ Uninstall(h)
                          \/ Client(h)
    \/ HostTaskExits \/ LibFreed \/ Enumerates \/ Attach \/ Unplug
    \/ Settles \/ ClearGuard
    \/ \E why \in {"power", "panic", "other"} : ChipReset(why)

Spec == Init /\ [][Next]_vars

(***************************************************************************)
(* Properties.                                                             *)
(***************************************************************************)

Joined(h) == pc[h] \in {"register", "client", "up"}

\* session_acquire 3843: no handle joins a host that is stopped, half up or
\* being torn down; while a handle is in use, the library it works with is
\* installed and its task runs.
JoinedHostRuns ==
    \A h \in Handles : Joined(h) =>
        /\ lib.up /\ ~s.teardown /\ ~s.bringing
        /\ s.external \/ (s.installed /\ s.run)

\* The reference count is exact and slots are distinct, on every path through
\* a failing install and a retried uninstall.
RefsExact ==
    /\ s.used = {slot[h] : h \in Handles} \ {NoSlot}
    /\ \A g, h \in Handles : slot[g] = slot[h] => g = h \/ slot[g] = NoSlot
    /\ s.refs = Cardinality({h \in Handles : slot[h] # NoSlot /\ pc[h] # "wait"})

\* API.md 260-262: uninstall destroys the handle only when nothing of it is
\* left: no task, no client, no open device, no slot.
NothingLeft ==
    \A h \in Handles : pc[h] \in {"none", "done"} =>
        /\ cl[h] = "off" /\ slot[h] = NoSlot
        /\ h \notin lib.clients /\ dev # h /\ lockBy # h

\* The library is taken down only after its last client, and the host task
\* never outlives it.
LibDownLast ==
    /\ ~lib.up => lib.clients = {} /\ dev = Nobody /\ ~s.installed
    /\ s.installed => s.refs > 0
    /\ ~s.exited => lib.up
=============================================================================
