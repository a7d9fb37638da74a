--------------------------- MODULE HostSessionProofs ---------------------------
(***************************************************************************)
(* Proofs about HostSession, for any number of handles and slots and any   *)
(* budget of failures: a handle only works with a host that runs           *)
(* (JoinedHostRuns), an uninstalled handle leaves nothing behind           *)
(* (NothingLeft), the library goes down last (LibDownLast), and the        *)
(* reference count is exact (RefsExact).  The last part is about the fault *)
(* guard, for any threshold: what it counts it has earned (LatchEarned),   *)
(* once latched it stays (LatchSticks), and it ends every loop of panics   *)
(* (CrashLoopEnds).                                                        *)
(***************************************************************************)
EXTENDS HostSession, FiniteSetTheorems, TLAPS

SRec == [refs: Nat, used: SUBSET Slots, installed: BOOLEAN, teardown: BOOLEAN,
         freeReq: BOOLEAN, external: BOOLEAN, bringing: BOOLEAN,
         run: BOOLEAN, exited: BOOLEAN, allFree: BOOLEAN]
LibRec == [up: BOOLEAN, clients: SUBSET Handles, freeing: BOOLEAN, powered: BOOLEAN, ext: BOOLEAN]
Places == Starting \cup Ending \cup Rest

HostTypes ==
  /\ s \in SRec /\ lib \in LibRec
  /\ slot \in [Handles -> Slots \cup {NoSlot}]
  /\ pc \in [Handles -> Places]
  /\ cl \in [Handles -> {"off", "run", "due", "cycle"}]
  /\ asked \in [Handles -> BOOLEAN]
  /\ lockBy \in Handles \cup {Nobody} /\ dev \in Handles \cup {Nobody}

HasSlot == {"wait", "host", "task", "power", "register", "client", "up",
            "free", "freewait", "hostjoin", "libdown"}
Raising == {"host", "task", "power"}
Downing == {"free", "freewait", "hostjoin", "libdown"}

\* What a handle has at each place of its calls.
FitsAt(h) ==
  /\ pc[h] \in {"none", "acquire", "done"} => slot[h] = NoSlot
  /\ pc[h] \in HasSlot => slot[h] # NoSlot
  /\ pc[h] = "client" => h \in lib.clients
  /\ cl[h] # "off" => h \in lib.clients /\ pc[h] \in {"up", "kept", "stop", "join"}
  /\ dev = h => h \in lib.clients /\ pc[h] \in {"up", "kept", "stop", "join", "close"}
  /\ h \in lib.clients => /\ slot[h] # NoSlot
                          /\ pc[h] \in {"client", "up", "fail", "kept", "stop", "join",
                                        "close", "deregister"}
  /\ lockBy = h <=> pc[h] \in Downing
  /\ pc[h] = "libdown" => s.exited
Fits == \A h \in Handles : FitsAt(h)

\* The handles that are counted.
Refs == {h \in Handles : slot[h] # NoSlot /\ pc[h] # "wait"}
Alone(h) == \A g \in Handles : g \in Refs => g = h

Counted == s.refs = Cardinality(Refs)

SlotsExact ==
  /\ s.used = {slot[h] : h \in Handles} \ {NoSlot}
  /\ \A g, h \in Handles : slot[g] = slot[h] => g = h \/ slot[g] = NoSlot

\* The library is up while somebody has installed it; this driver's host is
\* installed exactly while it is counted and not being brought up.
Library ==
  /\ lib.up <=> (lib.ext \/ s.installed)
  /\ lib.ext => ~s.installed /\ ~s.bringing /\ ~s.teardown
  /\ \A h \in Refs : s.external = lib.ext
  /\ s.installed => Refs # {}
  /\ Refs # {} /\ ~lib.ext /\ ~s.bringing => s.installed
  /\ s.installed /\ ~s.teardown => s.run
  /\ s.teardown => s.installed /\ \A g \in Refs : Alone(g)
  /\ ~s.exited => s.installed

\* One handle brings the host up, and one takes it down, with no other counted.
Bringing ==
  /\ s.bringing => \E h \in Handles : pc[h] \in Raising
  /\ \A h \in Handles : pc[h] \in Raising =>
        /\ Alone(h) /\ s.bringing /\ ~s.teardown
        /\ (pc[h] = "host" => ~s.installed)
        /\ (pc[h] # "host" => s.installed)
  /\ \A h \in Handles : pc[h] \in Downing => Alone(h) /\ s.teardown
  /\ \A h \in Handles : Joined(h) => ~s.teardown /\ ~s.bringing

IHost == HostTypes /\ Fits /\ SlotsExact /\ Counted /\ Library /\ Bringing

LEMMA Names == /\ NoSlot \notin Slots /\ Nobody \notin Handles
               /\ IsFiniteSet(Handles) /\ IsFiniteSet(Refs) /\ Cardinality(Refs) \in Nat
<1>1. Refs \subseteq Handles
  BY DEF Refs
<1> QED
  BY <1>1, SlotsFinite, HandlesFinite, FS_Subset, FS_CardinalityType

\* A step that changes neither the count nor how far up the host is.
SameHost ==
  /\ s'.refs = s.refs /\ s'.used = s.used /\ s'.installed = s.installed
  /\ s'.teardown = s.teardown /\ s'.external = s.external /\ s'.bringing = s.bringing
  /\ (s.run => s'.run \/ s.teardown) /\ (s.exited => s'.exited)
  /\ lib'.up = lib.up /\ lib'.ext = lib.ext

OthersSame(h) ==
  \A g \in Handles \ {h} :
    /\ pc'[g] = pc[g] /\ cl'[g] = cl[g] /\ (g \in lib'.clients <=> g \in lib.clients)
    /\ (dev' = g <=> dev = g) /\ (lockBy' = g <=> lockBy = g)

LEMMA MoveKeeps ==
  ASSUME IHost, HostTypes', NEW h \in Handles, SameHost, slot' = slot, OthersSame(h), FitsAt(h)',
         pc[h] \notin Raising \cup {"wait"}, pc'[h] \notin Raising \cup {"wait"},
         pc'[h] \in Downing => pc[h] \in Downing, Joined(h)' => Joined(h)
  PROVE  IHost'
<1> USE Names DEF IHost
<1>1. Refs' = Refs
  BY DEF Refs, OthersSame
<1>2. \A g \in Handles : Alone(g)' <=> Alone(g)
  BY <1>1 DEF Alone
<1>3. Fits'
  BY DEF Fits, FitsAt, OthersSame, SameHost
<1>4. SlotsExact' /\ Counted'
  BY <1>1 DEF SlotsExact, Counted, SameHost
<1>5. Library'
  BY <1>1, <1>2 DEF Library, SameHost, Refs
<1>6. Bringing'
  <2>1. s'.bringing => \E g \in Handles : pc'[g] \in Raising
    BY DEF Bringing, SameHost, OthersSame
  <2>2. \A g \in Handles : pc'[g] \in Raising =>
          /\ Alone(g)' /\ s'.bringing /\ ~s'.teardown
          /\ (pc'[g] = "host" => ~s'.installed)
          /\ (pc'[g] # "host" => s'.installed)
    BY <1>2 DEF Bringing, SameHost, OthersSame
  <2>3. \A g \in Handles : pc'[g] \in Downing => Alone(g)' /\ s'.teardown
    BY <1>2 DEF Bringing, SameHost, OthersSame
  <2>4. \A g \in Handles : Joined(g)' => ~s'.teardown /\ ~s'.bringing
    BY DEF Bringing, SameHost, OthersSame, Joined
  <2> QED
    BY <2>1, <2>2, <2>3, <2>4 DEF Bringing
<1> QED
  BY <1>3, <1>4, <1>5, <1>6

\* A step of a task: no handle's owner moves.
LEMMA StayKeeps ==
  ASSUME IHost, HostTypes', SameHost, UNCHANGED <<slot, pc, lockBy>>, lib'.clients = lib.clients,
         \A h \in Handles : /\ cl'[h] # "off" => cl[h] # "off"
                            /\ dev' = h => dev = h \/ cl[h] # "off"
  PROVE  IHost'
<1> USE Names DEF IHost
<1>1. Refs' = Refs /\ \A g \in Handles : Alone(g)' <=> Alone(g)
  BY DEF Refs, Alone
<1>2. Fits'
  BY DEF Fits, FitsAt, SameHost
<1>3. SlotsExact' /\ Counted'
  BY <1>1 DEF SlotsExact, Counted, SameHost
<1>4. Library'
  BY <1>1 DEF Library, SameHost, Refs
<1>5. Bringing'
  BY <1>1 DEF Bringing, SameHost, Joined
<1> QED
  BY <1>2, <1>3, <1>4, <1>5

LEMMA ClientRegisterKeeps == ASSUME IHost, NEW h \in Handles, ClientRegister(h) PROVE IHost'
<1> USE Names DEF IHost
<1>1. HostTypes'
  BY DEF ClientRegister, HostTypes, Goto, Places, Starting, Ending, Rest, SRec, LibRec
<1>2. SameHost /\ slot' = slot /\ OthersSame(h)
  BY DEF ClientRegister, HostTypes, Goto, SameHost, OthersSame, SRec, LibRec
<1>3. FitsAt(h)' /\ pc[h] \notin Raising \cup {"wait"} /\ pc'[h] \notin Raising \cup {"wait"}
      /\ (pc'[h] \in Downing => pc[h] \in Downing) /\ (Joined(h)' => Joined(h))
  BY DEF ClientRegister, HostTypes, Goto, Fits, FitsAt, HasSlot, Raising, Downing, Joined, SRec, LibRec
<1> QED
  BY <1>1, <1>2, <1>3, MoveKeeps

LEMMA ClientTaskKeeps == ASSUME IHost, NEW h \in Handles, ClientTask(h) PROVE IHost'
<1> USE Names DEF IHost
<1>1. HostTypes'
  BY DEF ClientTask, HostTypes, Goto, Places, Starting, Ending, Rest, SRec, LibRec
<1>2. SameHost /\ slot' = slot /\ OthersSame(h)
  BY DEF ClientTask, HostTypes, Goto, SameHost, OthersSame, SRec, LibRec
<1>3. FitsAt(h)' /\ pc[h] \notin Raising \cup {"wait"} /\ pc'[h] \notin Raising \cup {"wait"}
      /\ (pc'[h] \in Downing => pc[h] \in Downing) /\ (Joined(h)' => Joined(h))
  BY DEF ClientTask, HostTypes, Goto, Fits, FitsAt, HasSlot, Raising, Downing, Joined, SRec, LibRec
<1> QED
  BY <1>1, <1>2, <1>3, MoveKeeps

LEMMA InstallFailsKeeps == ASSUME IHost, NEW h \in Handles, InstallFails(h) PROVE IHost'
<1> USE Names DEF IHost
<1>1. HostTypes'
  BY DEF InstallFails, HostTypes, Goto, Places, Starting, Ending, Rest, SRec, LibRec
<1>2. SameHost /\ slot' = slot /\ OthersSame(h)
  BY DEF InstallFails, HostTypes, Goto, SameHost, OthersSame, SRec, LibRec
<1>3. FitsAt(h)' /\ pc[h] \notin Raising \cup {"wait"} /\ pc'[h] \notin Raising \cup {"wait"}
      /\ (pc'[h] \in Downing => pc[h] \in Downing) /\ (Joined(h)' => Joined(h))
  BY DEF InstallFails, HostTypes, Goto, Fits, FitsAt, HasSlot, Raising, Downing, Joined, SRec, LibRec
<1> QED
  BY <1>1, <1>2, <1>3, MoveKeeps

LEMMA UninstallCallKeeps == ASSUME IHost, NEW h \in Handles, UninstallCall(h) PROVE IHost'
<1> USE Names DEF IHost
<1>1. HostTypes'
  BY DEF UninstallCall, HostTypes, Goto, Places, Starting, Ending, Rest, SRec, LibRec
<1>2. SameHost /\ slot' = slot /\ OthersSame(h)
  BY DEF UninstallCall, HostTypes, Goto, SameHost, OthersSame, SRec, LibRec
<1>3. FitsAt(h)' /\ pc[h] \notin Raising \cup {"wait"} /\ pc'[h] \notin Raising \cup {"wait"}
      /\ (pc'[h] \in Downing => pc[h] \in Downing) /\ (Joined(h)' => Joined(h))
  BY DEF UninstallCall, HostTypes, Goto, Fits, FitsAt, HasSlot, Raising, Downing, Joined, SRec, LibRec
<1> QED
  BY <1>1, <1>2, <1>3, MoveKeeps

LEMMA JoinWorkersKeeps == ASSUME IHost, NEW h \in Handles, JoinWorkers(h) PROVE IHost'
<1> USE Names DEF IHost
<1>1. HostTypes'
  BY DEF JoinWorkers, HostTypes, Goto, Places, Starting, Ending, Rest, SRec, LibRec, Retain
<1>2. SameHost /\ slot' = slot /\ OthersSame(h)
  BY DEF JoinWorkers, HostTypes, Goto, SameHost, OthersSame, SRec, LibRec, Retain
<1>3. FitsAt(h)' /\ pc[h] \notin Raising \cup {"wait"} /\ pc'[h] \notin Raising \cup {"wait"}
      /\ (pc'[h] \in Downing => pc[h] \in Downing) /\ (Joined(h)' => Joined(h))
  BY DEF JoinWorkers, HostTypes, Goto, Fits, FitsAt, HasSlot, Raising, Downing, Joined, SRec, LibRec, Retain
<1> QED
  BY <1>1, <1>2, <1>3, MoveKeeps

LEMMA CloseDeviceKeeps == ASSUME IHost, NEW h \in Handles, CloseDevice(h) PROVE IHost'
<1> USE Names DEF IHost
<1>1. HostTypes'
  BY DEF CloseDevice, HostTypes, Goto, Places, Starting, Ending, Rest, SRec, LibRec, Retain
<1>2. SameHost /\ slot' = slot /\ OthersSame(h)
  BY DEF CloseDevice, HostTypes, Goto, SameHost, OthersSame, SRec, LibRec, Retain
<1>3. FitsAt(h)' /\ pc[h] \notin Raising \cup {"wait"} /\ pc'[h] \notin Raising \cup {"wait"}
      /\ (pc'[h] \in Downing => pc[h] \in Downing) /\ (Joined(h)' => Joined(h))
  BY DEF CloseDevice, HostTypes, Goto, Fits, FitsAt, HasSlot, Raising, Downing, Joined, SRec, LibRec, Retain
<1> QED
  BY <1>1, <1>2, <1>3, MoveKeeps

LEMMA DeregisterKeeps == ASSUME IHost, NEW h \in Handles, Deregister(h) PROVE IHost'
<1> USE Names DEF IHost
<1>1. HostTypes'
  BY DEF Deregister, HostTypes, Goto, Places, Starting, Ending, Rest, SRec, LibRec, Retain
<1>2. SameHost /\ slot' = slot /\ OthersSame(h)
  BY DEF Deregister, HostTypes, Goto, SameHost, OthersSame, SRec, LibRec, Retain
<1>3. FitsAt(h)' /\ pc[h] \notin Raising \cup {"wait"} /\ pc'[h] \notin Raising \cup {"wait"}
      /\ (pc'[h] \in Downing => pc[h] \in Downing) /\ (Joined(h)' => Joined(h))
  BY DEF Deregister, HostTypes, Goto, Fits, FitsAt, HasSlot, Raising, Downing, Joined, SRec, LibRec, Retain
<1> QED
  BY <1>1, <1>2, <1>3, MoveKeeps

LEMMA FreeHandleKeeps == ASSUME IHost, NEW h \in Handles, FreeHandle(h) PROVE IHost'
<1> USE Names DEF IHost
<1>1. HostTypes'
  BY DEF FreeHandle, HostTypes, Goto, Places, Starting, Ending, Rest, SRec, LibRec
<1>2. SameHost /\ slot' = slot /\ OthersSame(h)
  BY DEF FreeHandle, HostTypes, Goto, SameHost, OthersSame, SRec, LibRec
<1>3. FitsAt(h)' /\ pc[h] \notin Raising \cup {"wait"} /\ pc'[h] \notin Raising \cup {"wait"}
      /\ (pc'[h] \in Downing => pc[h] \in Downing) /\ (Joined(h)' => Joined(h))
  BY DEF FreeHandle, HostTypes, Goto, Fits, FitsAt, HasSlot, Raising, Downing, Joined, SRec, LibRec
<1> QED
  BY <1>1, <1>2, <1>3, MoveKeeps

LEMMA StopStreamKeeps == ASSUME IHost, NEW h \in Handles, StopStream(h) PROVE IHost'
<1> USE Names DEF IHost
<1>1. HostTypes'
  <2>1. asked' \in [Handles -> BOOLEAN]
    BY DEF StopStream, HostTypes
  <2>2. pc' \in [Handles -> Places]
    BY DEF StopStream, HostTypes, Goto, Places, Starting, Ending, Rest, Retain
  <2> QED
    BY <2>1, <2>2 DEF StopStream, HostTypes
<1>2. SameHost /\ slot' = slot /\ OthersSame(h)
  BY DEF StopStream, HostTypes, Goto, SameHost, OthersSame, SRec, LibRec, Retain
<1>3. FitsAt(h)' /\ pc[h] \notin Raising \cup {"wait"} /\ pc'[h] \notin Raising \cup {"wait"}
      /\ (pc'[h] \in Downing => pc[h] \in Downing) /\ (Joined(h)' => Joined(h))
  BY DEF StopStream, HostTypes, Goto, Fits, FitsAt, HasSlot, Raising, Downing, Joined, Retain
<1> QED
  BY <1>1, <1>2, <1>3, MoveKeeps

\* What the three steps of the shutdown do, with the mutex held throughout.
LEMMA DownMoves ==
  ASSUME IHost, NEW h \in Handles, pc[h] \in Downing, pc'[h] \in Downing \cup {"kept"},
         pc' = [pc EXCEPT ![h] = pc'[h]],
         lockBy' = (IF pc'[h] = "kept" THEN Nobody ELSE lockBy),
         s' \in SRec, lib' \in LibRec,
         s'.refs = s.refs, s'.used = s.used, s'.installed = s.installed,
         s'.teardown = s.teardown, s'.external = s.external, s'.bringing = s.bringing,
         s'.exited = s.exited, pc'[h] = "libdown" => s.exited,
         lib'.up = lib.up, lib'.ext = lib.ext, lib'.clients = lib.clients,
         UNCHANGED <<slot, cl, asked, dev>>
  PROVE  IHost'
<1> USE Names DEF IHost
<1>1. lockBy = h /\ s.teardown
  BY DEF Fits, FitsAt, Bringing
<1>2. HostTypes'
  BY DEF HostTypes, Places, Downing, Ending, Rest
<1>3. SameHost
  BY <1>1 DEF SameHost
<1>4. OthersSame(h)
  BY <1>1 DEF OthersSame, HostTypes
<1>5. FitsAt(h)'
  BY <1>1 DEF Fits, FitsAt, HostTypes, Downing, HasSlot
<1>6. pc[h] \notin Raising \cup {"wait"} /\ pc'[h] \notin Raising \cup {"wait"}
      /\ (pc'[h] \in Downing => pc[h] \in Downing) /\ (Joined(h)' => Joined(h))
  BY DEF Raising, Downing, Joined
<1> QED
  BY <1>2, <1>3, <1>4, <1>5, <1>6, MoveKeeps

LEMMA FreeDevicesKeeps == ASSUME IHost, NEW h \in Handles, FreeDevices(h) PROVE IHost'
<1> USE Names DEF IHost
<1>1. s \in SRec /\ lib \in LibRec /\ pc \in [Handles -> Places] /\ pc[h] \in Downing
  BY DEF HostTypes, Downing, FreeDevices
<1>2. /\ pc'[h] \in Downing \cup {"kept"} /\ pc' = [pc EXCEPT ![h] = pc'[h]]
      /\ lockBy' = (IF pc'[h] = "kept" THEN Nobody ELSE lockBy)
  BY <1>1 DEF FreeDevices, Goto, Retain, Unlock, Downing
<1>3. \/ s' = s
      \/ s' = [s EXCEPT !.run = FALSE]
      \/ s' = [s EXCEPT !.allFree = FALSE, !.freeReq = TRUE]
  BY DEF FreeDevices
<1>4. lib' = lib \/ lib' = [lib EXCEPT !.freeing = TRUE]
  BY DEF FreeDevices
<1>5. s' \in SRec
  BY <1>1, <1>3 DEF SRec
<1>6. lib' \in LibRec
  BY <1>1, <1>4 DEF LibRec
<1>7. /\ s'.refs = s.refs /\ s'.used = s.used /\ s'.installed = s.installed
      /\ s'.teardown = s.teardown /\ s'.external = s.external /\ s'.bringing = s.bringing
      /\ s'.exited = s.exited
  BY <1>1, <1>3 DEF SRec
<1>8. lib'.up = lib.up /\ lib'.ext = lib.ext /\ lib'.clients = lib.clients
  BY <1>1, <1>4 DEF LibRec
<1>9. UNCHANGED <<slot, cl, asked, dev>> /\ (pc'[h] = "libdown" => s.exited)
  BY <1>1 DEF FreeDevices, Goto, Retain, Unlock
<1> QED
  BY <1>1, <1>2, <1>5, <1>6, <1>7, <1>8, <1>9, DownMoves

LEMMA FreeWaitKeeps == ASSUME IHost, NEW h \in Handles, FreeWait(h) PROVE IHost'
<1> USE Names DEF IHost
<1>1. s \in SRec /\ lib \in LibRec /\ pc \in [Handles -> Places] /\ pc[h] \in Downing
  BY DEF HostTypes, Downing, FreeWait
<1>2. /\ pc'[h] \in Downing \cup {"kept"} /\ pc' = [pc EXCEPT ![h] = pc'[h]]
      /\ lockBy' = (IF pc'[h] = "kept" THEN Nobody ELSE lockBy)
  BY <1>1 DEF FreeWait, Goto, Retain, Unlock, Downing
<1>3. \/ s' = s
      \/ s' = [s EXCEPT !.run = FALSE]
      \/ s' = [s EXCEPT !.allFree = FALSE, !.freeReq = TRUE]
  BY DEF FreeWait
<1>4. lib' = lib \/ lib' = [lib EXCEPT !.freeing = TRUE]
  BY DEF FreeWait
<1>5. s' \in SRec
  BY <1>1, <1>3 DEF SRec
<1>6. lib' \in LibRec
  BY <1>1, <1>4 DEF LibRec
<1>7. /\ s'.refs = s.refs /\ s'.used = s.used /\ s'.installed = s.installed
      /\ s'.teardown = s.teardown /\ s'.external = s.external /\ s'.bringing = s.bringing
      /\ s'.exited = s.exited
  BY <1>1, <1>3 DEF SRec
<1>8. lib'.up = lib.up /\ lib'.ext = lib.ext /\ lib'.clients = lib.clients
  BY <1>1, <1>4 DEF LibRec
<1>9. UNCHANGED <<slot, cl, asked, dev>> /\ (pc'[h] = "libdown" => s.exited)
  BY <1>1 DEF FreeWait, Goto, Retain, Unlock
<1> QED
  BY <1>1, <1>2, <1>5, <1>6, <1>7, <1>8, <1>9, DownMoves

LEMMA HostJoinKeeps == ASSUME IHost, NEW h \in Handles, HostJoin(h) PROVE IHost'
<1> USE Names DEF IHost
<1>1. s \in SRec /\ lib \in LibRec /\ pc \in [Handles -> Places] /\ pc[h] \in Downing
  BY DEF HostTypes, Downing, HostJoin
<1>2. /\ pc'[h] \in Downing \cup {"kept"} /\ pc' = [pc EXCEPT ![h] = pc'[h]]
      /\ lockBy' = (IF pc'[h] = "kept" THEN Nobody ELSE lockBy)
  BY <1>1 DEF HostJoin, Goto, Retain, Unlock, Downing
<1>3. \/ s' = s
      \/ s' = [s EXCEPT !.run = FALSE]
      \/ s' = [s EXCEPT !.allFree = FALSE, !.freeReq = TRUE]
  BY DEF HostJoin
<1>4. lib' = lib \/ lib' = [lib EXCEPT !.freeing = TRUE]
  BY DEF HostJoin
<1>5. s' \in SRec
  BY <1>1, <1>3 DEF SRec
<1>6. lib' \in LibRec
  BY <1>1, <1>4 DEF LibRec
<1>7. /\ s'.refs = s.refs /\ s'.used = s.used /\ s'.installed = s.installed
      /\ s'.teardown = s.teardown /\ s'.external = s.external /\ s'.bringing = s.bringing
      /\ s'.exited = s.exited
  BY <1>1, <1>3 DEF SRec
<1>8. lib'.up = lib.up /\ lib'.ext = lib.ext /\ lib'.clients = lib.clients
  BY <1>1, <1>4 DEF LibRec
<1>9. UNCHANGED <<slot, cl, asked, dev>> /\ (pc'[h] = "libdown" => s.exited)
  BY <1>1 DEF HostJoin, Goto, Retain, Unlock
<1> QED
  BY <1>1, <1>2, <1>5, <1>6, <1>7, <1>8, <1>9, DownMoves

LEMMA InstallCallKeeps == ASSUME IHost, NEW h \in Handles, InstallCall(h) PROVE IHost'
<1> USE Names DEF IHost
<1>1. asked' \in [Handles -> BOOLEAN] /\ pc' \in [Handles -> Places]
  <2>1. asked' \in [Handles -> BOOLEAN]
    BY DEF InstallCall, HostTypes
  <2> QED
    BY <2>1 DEF InstallCall, HostTypes, Goto, Places, Starting, Ending, Rest
<1>2. HostTypes'
  BY <1>1 DEF InstallCall, HostTypes
<1>3. SameHost /\ slot' = slot /\ OthersSame(h)
  BY DEF InstallCall, HostTypes, Goto, SameHost, OthersSame
<1>4. pc'[h] \in {"none", "acquire"}
  BY DEF InstallCall, HostTypes, Goto
<1>5. FitsAt(h)' /\ pc[h] \notin Raising \cup {"wait"} /\ pc'[h] \notin Raising \cup {"wait"}
      /\ (pc'[h] \in Downing => pc[h] \in Downing) /\ (Joined(h)' => Joined(h))
  BY <1>4 DEF InstallCall, Fits, FitsAt, HasSlot, Raising, Downing, Joined
<1> QED
  BY <1>2, <1>3, <1>5, MoveKeeps

\* A slot is taken, or given back.
LEMMA SlotTaken ==
  ASSUME IHost, NEW h \in Handles, NEW sl \in Slots, \A g \in Handles : g # h => slot[g] # sl,
         slot[h] \in {NoSlot, sl},
         slot' = [slot EXCEPT ![h] = sl], s'.used = s.used \cup {sl}
  PROVE  SlotsExact'
<1> USE Names DEF IHost
<1>1. slot'[h] = sl /\ \A g \in Handles \ {h} : slot'[g] = slot[g]
  BY DEF HostTypes
<1>2. sl # NoSlot
  OBVIOUS
<1>3. {slot'[g] : g \in Handles} \ {NoSlot} = ({slot[g] : g \in Handles} \ {NoSlot}) \cup {sl}
  BY <1>1, <1>2
<1>4. \A f, g \in Handles : slot'[f] = slot'[g] => f = g \/ slot'[f] = NoSlot
  BY <1>1 DEF SlotsExact
<1> QED
  BY <1>3, <1>4 DEF SlotsExact

LEMMA SlotGiven ==
  ASSUME IHost, NEW h \in Handles, slot[h] # NoSlot,
         slot' = [slot EXCEPT ![h] = NoSlot], s'.used = s.used \ {slot[h]}
  PROVE  SlotsExact'
<1> USE Names DEF IHost
<1>1. slot'[h] = NoSlot /\ \A g \in Handles \ {h} : slot'[g] = slot[g]
  BY DEF HostTypes
<1>2. \A g \in Handles \ {h} : slot[g] # slot[h]
  BY DEF SlotsExact
<1>3. {slot'[g] : g \in Handles} \ {NoSlot} = ({slot[g] : g \in Handles} \ {NoSlot}) \ {slot[h]}
  BY <1>1, <1>2
<1>4. \A f, g \in Handles : slot'[f] = slot'[g] => f = g \/ slot'[f] = NoSlot
  BY <1>1 DEF SlotsExact
<1> QED
  BY <1>3, <1>4 DEF SlotsExact

\* The count when a handle is added or dropped.
LEMMA CountUp ==
  ASSUME IHost, NEW h \in Handles, h \notin Refs, Refs' = Refs \cup {h}, s'.refs = s.refs + 1
  PROVE  Counted'
BY Names, FS_AddElement DEF IHost, Counted

LEMMA CountDown ==
  ASSUME IHost, NEW h \in Handles, h \in Refs, Refs' = Refs \ {h}, s'.refs = s.refs - 1
  PROVE  Counted'
<1>1. Cardinality(Refs \ {h}) = Cardinality(Refs) - 1
  BY Names, FS_RemoveElement
<1> QED
  BY <1>1 DEF IHost, Counted

LEMMA CountIs ==
  ASSUME IHost
  PROVE  /\ s.refs = 0 <=> Refs = {}
         /\ \A h \in Refs : s.refs = 1 <=> Alone(h)
         /\ s.refs \in Nat /\ \A h \in Refs : s.refs - 1 \in Nat
<1>1. s.refs \in Nat /\ (s.refs = 0 <=> Refs = {})
  BY Names, FS_EmptySet DEF IHost, Counted
<1>2. \A h \in Refs : s.refs - 1 \in Nat
  BY <1>1
<1>3. ASSUME NEW h \in Refs PROVE s.refs = 1 <=> Alone(h)
  <2>1. CASE Alone(h)
    <3>1. Refs = {h}
      BY <2>1 DEF Alone, Refs
    <3> QED
      BY <2>1, <3>1, FS_Singleton DEF IHost, Counted
  <2>2. CASE s.refs = 1
    <3>1. \E x : Refs = {x}
      BY <2>2, Names, FS_Singleton DEF IHost, Counted
    <3> QED
      BY <3>1, <2>2 DEF Alone
  <2> QED
    BY <2>1, <2>2
<1> QED
  BY <1>1, <1>2, <1>3

\* A handle that may not be counted yet: it waits for a slot or with one.
LEMMA Uncounted ==
  ASSUME IHost, NEW h \in Handles, pc[h] \in {"acquire", "wait"}
  PROVE  /\ h \notin Refs /\ h \notin lib.clients /\ cl[h] = "off" /\ dev # h /\ lockBy # h
         /\ pc[h] = "acquire" => slot[h] = NoSlot
         /\ pc[h] = "wait" => slot[h] # NoSlot
<1>1. FitsAt(h)
  BY DEF IHost, Fits
<1> QED
  BY <1>1 DEF FitsAt, Refs, HasSlot, Downing

LEMMA JoinCounts ==
  ASSUME IHost, NEW h \in Handles, pc[h] \in {"acquire", "wait"}, NEW sl \in Slots,
         \A g \in Handles : g # h => slot[g] # sl, slot[h] \in {NoSlot, sl},
         ~s.bringing, ~s.teardown, s' \in SRec,
         s'.used = s.used \cup {sl}, s'.refs = s.refs + 1,
         s'.external = (IF s.refs = 0 THEN lib.ext ELSE s.external),
         s'.bringing <=> s.refs = 0 /\ ~lib.ext,
         s'.installed = s.installed, s'.teardown = s.teardown, s'.run = s.run,
         s'.exited = s.exited,
         slot' = [slot EXCEPT ![h] = sl],
         pc' = [pc EXCEPT ![h] = IF s'.bringing THEN "host" ELSE "register"],
         UNCHANGED <<cl, asked, lockBy, lib, dev>>
  PROVE  IHost'
<1> USE Names DEF IHost
<1>1. /\ h \notin Refs /\ h \notin lib.clients /\ cl[h] = "off" /\ dev # h /\ lockBy # h
      /\ (s.refs = 0 <=> Refs = {})
  BY Uncounted, CountIs
<1>2. /\ slot'[h] = sl /\ pc'[h] \in {"host", "register"}
      /\ \A g \in Handles \ {h} : slot'[g] = slot[g] /\ pc'[g] = pc[g]
  BY DEF HostTypes
<1>3. Refs' = Refs \cup {h}
  BY <1>2 DEF Refs
<1>4. HostTypes'
  BY DEF HostTypes, Places, Starting
<1>5. Fits'
  BY <1>1, <1>2 DEF Fits, FitsAt, HasSlot, Downing
<1>6. SlotsExact' /\ Counted'
  BY <1>1, <1>3, SlotTaken, CountUp
<1>7. s'.external = lib.ext
  BY <1>1 DEF Library
<1>8. Library'
  BY <1>1, <1>3, <1>7 DEF Library, HostTypes, SRec, LibRec
<1>9. Bringing'
  <2>1. \A g \in Handles : pc[g] \notin Raising /\ pc[g] \notin Downing
    BY DEF Bringing
  <2>2. s'.bringing => pc'[h] = "host" /\ Refs' = {h} /\ ~s'.installed
    BY <1>1, <1>2, <1>3 DEF Library, HostTypes
  <2>3. pc'[h] = "host" => s'.bringing
    BY <1>2 DEF HostTypes
  <2>4. \A g \in Handles : g # h => pc'[g] \notin Raising /\ pc'[g] \notin Downing
    BY <2>1, <1>2
  <2>5. \A g \in Handles : Joined(g)' => ~s'.bringing
    <3>1. ASSUME NEW g \in Handles, Joined(g)', s'.bringing PROVE FALSE
      <4>1. g # h
        BY <2>2, <3>1 DEF Joined
      <4>2. g \in Refs
        BY <4>1, <1>2, <3>1 DEF Joined, Fits, FitsAt, HasSlot, Refs
      <4> QED
        BY <4>1, <4>2, <2>2, <3>1, <1>3
    <3> QED
      BY <3>1
  <2> QED
    BY <2>2, <2>3, <2>4, <2>5, <1>2 DEF Bringing, Raising, Downing, Alone
<1> QED
  BY <1>4, <1>5, <1>6, <1>8, <1>9

\* The slot of a handle that waited is given back.
LEMMA WaitGivesUp ==
  ASSUME IHost, NEW h \in Handles, pc[h] = "wait",
         s' = [s EXCEPT !.used = @ \ {slot[h]}], slot' = [slot EXCEPT ![h] = NoSlot],
         pc' = [pc EXCEPT ![h] = "fail"], UNCHANGED <<cl, asked, lockBy, lib, dev>>
  PROVE  IHost'
<1> USE Names DEF IHost
<1>1. /\ h \notin Refs /\ h \notin lib.clients /\ cl[h] = "off" /\ dev # h /\ lockBy # h
      /\ slot[h] # NoSlot
  BY Uncounted
<1>2. /\ slot'[h] = NoSlot /\ pc'[h] = "fail"
      /\ \A g \in Handles \ {h} : slot'[g] = slot[g] /\ pc'[g] = pc[g]
  BY DEF HostTypes
<1>3. Refs' = Refs
  BY <1>1, <1>2 DEF Refs
<1>4. /\ s' \in SRec
      /\ s'.refs = s.refs /\ s'.used = s.used \ {slot[h]} /\ s'.installed = s.installed
      /\ s'.teardown = s.teardown /\ s'.external = s.external /\ s'.bringing = s.bringing
      /\ s'.run = s.run /\ s'.exited = s.exited
  BY DEF HostTypes, SRec
<1>5. HostTypes'
  BY <1>4 DEF HostTypes, Places, Starting
<1>6. Fits'
  BY <1>1, <1>2, <1>4 DEF Fits, FitsAt, HasSlot, Downing
<1>7. SlotsExact'
  BY <1>1, <1>4, SlotGiven
<1>8. Counted' /\ Library'
  BY <1>3, <1>4 DEF Counted, Library, Alone
<1>9. Bringing'
  BY <1>2, <1>3, <1>4 DEF Bringing, Raising, Downing, Joined, Alone
<1> QED
  BY <1>5, <1>6, <1>7, <1>8, <1>9

\* Join counts the handle, or gives its slot back.
LEMMA JoinKeeps ==
  ASSUME IHost, NEW h \in Handles, pc[h] \in {"acquire", "wait"}, NEW sl \in Slots,
         \A g \in Handles : g # h => slot[g] # sl, slot[h] \in {NoSlot, sl},
         NEW r, r = [s EXCEPT !.used = @ \cup {sl}], ~s.bringing,
         ~(r.teardown \/ (r.installed /\ ~r.run)), Join(r, h, sl),
         UNCHANGED <<cl, asked, lockBy, lib, dev>>
  PROVE  IHost'
<1> USE Names DEF IHost
<1>1. /\ r \in SRec
      /\ r.refs = s.refs /\ r.used = s.used \cup {sl} /\ r.installed = s.installed
      /\ r.teardown = s.teardown /\ r.external = s.external /\ r.bringing = s.bringing
      /\ r.run = s.run /\ r.exited = s.exited
  BY DEF HostTypes, SRec
<1> DEFINE external == IF r.refs = 0 THEN lib.ext ELSE r.external
           install == r.refs = 0 /\ ~external
<1>2. /\ s' = [r EXCEPT !.refs = @ + 1, !.external = external, !.bringing = @ \/ install]
      /\ slot' = [slot EXCEPT ![h] = sl]
      /\ pc' = [pc EXCEPT ![h] = IF install THEN "host" ELSE "register"]
  BY DEF Join, Goto
<1>3. external \in BOOLEAN /\ install \in BOOLEAN /\ lib.ext \in BOOLEAN
  BY <1>1 DEF HostTypes, LibRec, SRec
<1>4. install <=> s.refs = 0 /\ ~lib.ext
  BY <1>1, <1>3
<1>5. ~r.bringing /\ r.bringing \in BOOLEAN /\ r.refs + 1 \in Nat
  BY <1>1 DEF SRec
<1> HIDE DEF external, install
<1>10. (r.bringing \/ install) \in BOOLEAN
  BY <1>3, <1>5
<1>11. s' \in SRec
  BY <1>1, <1>2, <1>3, <1>5, <1>10 DEF SRec
<1>6. /\ s'.refs = s.refs + 1 /\ s'.used = s.used \cup {sl} /\ s'.installed = s.installed
      /\ s'.teardown = s.teardown /\ s'.external = external
      /\ s'.run = s.run /\ s'.exited = s.exited
  BY <1>1, <1>2 DEF SRec
<1>7. s'.bringing = install
  BY <1>1, <1>2, <1>3, <1>5 DEF SRec
<1>8. external = IF s.refs = 0 THEN lib.ext ELSE s.external
  BY <1>1 DEF external
<1>9. pc' = [pc EXCEPT ![h] = IF s'.bringing THEN "host" ELSE "register"]
  BY <1>2, <1>7
<1>12. ~s.teardown /\ (s'.bringing <=> s.refs = 0 /\ ~lib.ext)
  BY <1>1, <1>4, <1>7
<1> QED
  BY <1>2, <1>6, <1>8, <1>9, <1>11, <1>12, JoinCounts

LEMMA WaitEndsKeeps == ASSUME IHost, NEW h \in Handles, WaitEnds(h) PROVE IHost'
<1> USE Names DEF IHost
<1>1. /\ pc[h] = "wait" /\ slot[h] # NoSlot /\ slot[h] \in Slots /\ slot[h] \in s.used
      /\ \A g \in Handles : g # h => slot[g] # slot[h]
  BY Uncounted DEF WaitEnds, HostTypes, SlotsExact
<1>2. UNCHANGED <<cl, asked, lockBy, lib, dev>>
  BY DEF WaitEnds
<1>3. s = [s EXCEPT !.used = @ \cup {slot[h]}]
  <2>1. s.used \cup {slot[h]} = s.used
    BY <1>1
  <2> QED
    BY <2>1 DEF HostTypes, SRec
<1>4. CASE ~s.bringing /\ Join(s, h, slot[h])
  <2>1. CASE s.teardown \/ (s.installed /\ ~s.run)
    BY <1>1, <1>2, <1>4, <2>1, WaitGivesUp DEF Join, Goto
  <2>2. CASE ~(s.teardown \/ (s.installed /\ ~s.run))
    BY <1>1, <1>2, <1>3, <1>4, <2>2, JoinKeeps
  <2> QED
    BY <2>1, <2>2
<1>5. CASE /\ s' = GiveSlotBack(s, h)
           /\ slot' = [slot EXCEPT ![h] = NoSlot]
           /\ Goto(h, "fail")
  BY <1>1, <1>2, <1>5, WaitGivesUp DEF GiveSlotBack, Goto
<1> QED
  BY <1>4, <1>5 DEF WaitEnds

\* The handle takes a slot and waits for the one that brings the host up.
LEMMA Waits ==
  ASSUME IHost, NEW h \in Handles, pc[h] = "acquire", NEW sl \in Slots, sl \notin s.used,
         s' = [s EXCEPT !.used = @ \cup {sl}], slot' = [slot EXCEPT ![h] = sl],
         pc' = [pc EXCEPT ![h] = "wait"], UNCHANGED <<cl, asked, lockBy, lib, dev>>
  PROVE  IHost'
<1> USE Names DEF IHost
<1>1. /\ h \notin Refs /\ h \notin lib.clients /\ cl[h] = "off" /\ dev # h /\ lockBy # h
      /\ slot[h] = NoSlot /\ sl \in Slots /\ \A g \in Handles : slot[g] # sl
  BY Uncounted DEF SlotsExact, HostTypes
<1>2. /\ slot'[h] = sl /\ pc'[h] = "wait"
      /\ \A g \in Handles \ {h} : slot'[g] = slot[g] /\ pc'[g] = pc[g]
  BY DEF HostTypes
<1>3. Refs' = Refs
  BY <1>1, <1>2 DEF Refs
<1>4. /\ s' \in SRec
      /\ s'.refs = s.refs /\ s'.used = s.used \cup {sl} /\ s'.installed = s.installed
      /\ s'.teardown = s.teardown /\ s'.external = s.external /\ s'.bringing = s.bringing
      /\ s'.run = s.run /\ s'.exited = s.exited
  BY DEF HostTypes, SRec
<1>5. HostTypes'
  BY <1>4 DEF HostTypes, Places, Starting
<1>6. Fits'
  BY <1>1, <1>2, <1>4 DEF Fits, FitsAt, HasSlot, Downing
<1>7. SlotsExact'
  <2>1. slot[h] \in {NoSlot, sl} /\ \A g \in Handles : g # h => slot[g] # sl
    BY <1>1
  <2>2. s'.used = s.used \cup {sl} /\ IHost
    BY <1>4
  <2> HIDE DEF IHost
  <2> QED
    BY <2>1, <2>2, SlotTaken
<1>8. Counted' /\ Library'
  BY <1>3, <1>4 DEF Counted, Library, Alone
<1>9. Bringing'
  BY <1>2, <1>3, <1>4 DEF Bringing, Raising, Downing, Joined, Alone
<1> QED
  BY <1>5, <1>6, <1>7, <1>8, <1>9

\* An install that finds no slot, or a host going down, has nothing to give back.
LEMMA Refused ==
  ASSUME IHost, NEW h \in Handles, pc[h] = "acquire", pc' = [pc EXCEPT ![h] = "fail"],
         s' \in SRec, SameHost, UNCHANGED <<slot, cl, asked, lockBy, lib, dev>>
  PROVE  IHost'
<1> USE Names DEF IHost
<1>1. HostTypes' /\ SameHost /\ slot' = slot /\ OthersSame(h)
  BY DEF HostTypes, Places, Starting, SameHost, OthersSame
<1>2. FitsAt(h)' /\ pc[h] \notin Raising \cup {"wait"} /\ pc'[h] \notin Raising \cup {"wait"}
      /\ (pc'[h] \in Downing => pc[h] \in Downing) /\ (Joined(h)' => Joined(h))
  BY DEF HostTypes, Fits, FitsAt, HasSlot, Raising, Downing, Joined
<1> QED
  BY <1>1, <1>2, MoveKeeps

LEMMA SessionAcquireKeeps == ASSUME IHost, NEW h \in Handles, SessionAcquire(h) PROVE IHost'
<1> USE Names DEF IHost
<1>1. pc[h] = "acquire" /\ slot[h] = NoSlot /\ UNCHANGED <<cl, asked, lockBy, lib, dev>>
  BY Uncounted DEF SessionAcquire
<1>2. CASE s.used = Slots
  BY <1>1, <1>2, Refused DEF SessionAcquire, Goto, SameHost, HostTypes
<1>3. CASE s.used # Slots
  <2> DEFINE sl == CHOOSE x \in Slots \ s.used : TRUE
             r == [s EXCEPT !.used = @ \cup {sl}]
  <2>1. Slots \ s.used # {}
    BY <1>3 DEF HostTypes, SRec
  <2>2. sl \in Slots \ s.used
    BY <2>1
  <2>3. /\ s.bringing => s' = r /\ slot' = [slot EXCEPT ![h] = sl] /\ Goto(h, "wait")
        /\ ~s.bringing => Join(r, h, sl)
    BY <1>3 DEF SessionAcquire
  <2> HIDE DEF sl
  <2>4. \A g \in Handles : slot[g] # sl
    BY <2>2 DEF SlotsExact
  <2>5. CASE s.bringing
    BY <1>1, <2>2, <2>3, <2>5, Waits DEF Goto
  <2>6. CASE ~s.bringing /\ ~(r.teardown \/ (r.installed /\ ~r.run))
    BY <1>1, <2>2, <2>3, <2>4, <2>6, JoinKeeps
  <2>7. CASE ~s.bringing /\ (r.teardown \/ (r.installed /\ ~r.run))
    <3>1. s' = [r EXCEPT !.used = @ \ {sl}] /\ slot' = [slot EXCEPT ![h] = NoSlot]
          /\ Goto(h, "fail")
      BY <2>3, <2>7 DEF Join
    <3>2. (s.used \cup {sl}) \ {sl} = s.used
      BY <2>2
    <3>3. s' \in SRec /\ SameHost
      BY <1>1, <3>1, <3>2 DEF HostTypes, SRec, SameHost
    <3>4. slot' = slot
      BY <1>1, <3>1 DEF HostTypes
    <3> QED
      BY <1>1, <3>1, <3>3, <3>4, Refused DEF Goto
  <2> QED
    BY <2>5, <2>6, <2>7
<1> QED
  BY <1>2, <1>3

\* The one that brings the host up is the only counted handle.
LEMMA Raiser ==
  ASSUME IHost, NEW h \in Handles, pc[h] \in Raising
  PROVE  /\ Refs = {h} /\ slot[h] # NoSlot /\ s.bringing /\ ~s.teardown
         /\ ~lib.ext /\ s.external = lib.ext
         /\ h \notin lib.clients /\ cl[h] = "off" /\ dev # h /\ lockBy # h
         /\ \A g \in Handles \ {h} : /\ pc[g] \notin Raising /\ ~Joined(g)
                                     /\ pc[g] \notin Downing
         /\ (pc[h] = "host" => ~s.installed) /\ (pc[h] # "host" => s.installed)
<1> USE DEF IHost
<1>1. FitsAt(h) /\ slot[h] # NoSlot /\ h \in Refs
  BY DEF Fits, FitsAt, Raising, HasSlot, Refs
<1>2. /\ s.bringing /\ ~s.teardown /\ Alone(h)
      /\ (pc[h] = "host" => ~s.installed) /\ (pc[h] # "host" => s.installed)
  BY DEF Bringing
<1>3. Refs = {h}
  BY <1>1, <1>2 DEF Alone, Refs
<1>4. ~lib.ext /\ s.external = lib.ext
  BY <1>2, <1>3 DEF Library
<1>5. h \notin lib.clients /\ cl[h] = "off" /\ dev # h /\ lockBy # h
  BY <1>1 DEF FitsAt, Raising, Downing
<1>6. ASSUME NEW g \in Handles \ {h} PROVE pc[g] \notin Raising /\ ~Joined(g) /\ pc[g] \notin Downing
  <2>1. g \notin Refs
    BY <1>3
  <2>2. pc[g] \notin Raising /\ pc[g] \notin Downing
    BY <1>2, <2>1 DEF Bringing, Fits, FitsAt, Raising, HasSlot, Refs
  <2> QED
    BY <1>2, <2>2 DEF Bringing
<1> QED
  BY <1>1, <1>2, <1>3, <1>4, <1>5, <1>6

LEMMA Raised ==
  ASSUME IHost, NEW h \in Handles, pc[h] \in Raising,
         pc'[h] \in {"task", "power", "register", "fail"}, pc' = [pc EXCEPT ![h] = pc'[h]],
         s' \in SRec, s'.refs = s.refs, s'.used = s.used, s'.external = s.external,
         s'.installed, s'.bringing <=> pc'[h] \in Raising,
         s'.teardown => pc'[h] = "fail", ~s'.teardown => s'.run,
         lib' \in LibRec, lib'.up, lib'.ext = lib.ext, lib'.clients = lib.clients,
         UNCHANGED <<slot, cl, asked, lockBy, dev>>
  PROVE  IHost'
<1> USE Names DEF IHost
<1>1. /\ Refs = {h} /\ slot[h] # NoSlot /\ ~lib.ext /\ s.external = lib.ext
      /\ h \notin lib.clients /\ cl[h] = "off" /\ dev # h /\ lockBy # h
      /\ \A g \in Handles \ {h} : pc[g] \notin Raising /\ ~Joined(g) /\ pc[g] \notin Downing
  BY Raiser
<1>2. \A g \in Handles \ {h} : pc'[g] = pc[g]
  BY DEF HostTypes
<1>3. Refs' = Refs
  BY <1>2 DEF Refs, Raising
<1>4. HostTypes'
  BY DEF HostTypes, Places, Starting
<1>5. Fits'
  BY <1>1, <1>2 DEF Fits, FitsAt, HasSlot, Downing
<1>6. SlotsExact' /\ Counted'
  BY <1>3 DEF SlotsExact, Counted
<1>7. Library'
  BY <1>1, <1>3 DEF Library, Alone
<1>8. Bringing'
  <2>1. \A g \in Handles \ {h} : pc'[g] \notin Raising /\ ~Joined(g)' /\ pc'[g] \notin Downing
    BY <1>1, <1>2 DEF Joined
  <2>2. pc'[h] # "host" /\ pc'[h] \notin Downing /\ Alone(h)'
    BY <1>1, <1>3 DEF Downing, Alone
  <2>3. Joined(h)' => ~s'.bringing /\ ~s'.teardown
    BY DEF Joined, Raising
  <2>4. pc'[h] \in Raising => ~s'.teardown
    BY DEF Raising
  <2> QED
    BY <2>1, <2>2, <2>3, <2>4 DEF Bringing
<1> QED
  BY <1>4, <1>5, <1>6, <1>7, <1>8

\* The bring-up fails and nothing of it is left.
LEMMA RaiseFails ==
  ASSUME IHost, NEW h \in Handles, pc[h] \in Raising,
         pc' = [pc EXCEPT ![h] = "fail"], slot' = [slot EXCEPT ![h] = NoSlot],
         s' \in SRec, s'.refs = s.refs - 1, s'.used = s.used \ {slot[h]},
         ~s'.installed, ~s'.bringing, ~s'.teardown, s'.exited,
         lib' \in LibRec, ~lib'.up, lib'.ext = lib.ext, lib'.clients = lib.clients,
         UNCHANGED <<cl, asked, lockBy, dev>>
  PROVE  IHost'
<1> USE Names DEF IHost
<1>1. /\ Refs = {h} /\ slot[h] # NoSlot /\ ~lib.ext
      /\ h \notin lib.clients /\ cl[h] = "off" /\ dev # h /\ lockBy # h
      /\ \A g \in Handles \ {h} : pc[g] \notin Raising /\ ~Joined(g) /\ pc[g] \notin Downing
  BY Raiser
<1>2. /\ pc'[h] = "fail" /\ slot'[h] = NoSlot
      /\ \A g \in Handles \ {h} : pc'[g] = pc[g] /\ slot'[g] = slot[g]
  BY DEF HostTypes
<1>3. Refs' = {}
  BY <1>1, <1>2 DEF Refs
<1>4. HostTypes'
  BY DEF HostTypes, Places, Starting
<1>5. Fits'
  BY <1>1, <1>2 DEF Fits, FitsAt, HasSlot, Downing
<1>6. SlotsExact'
  BY <1>1, SlotGiven
<1>7. Counted'
  <2>1. h \in Refs /\ Refs' = Refs \ {h}
    BY <1>1, <1>3
  <2> QED
    BY <2>1, CountDown
<1>8. Library'
  BY <1>1, <1>3 DEF Library
<1>9. Bringing'
  BY <1>1, <1>2 DEF Bringing, Joined, Raising, Downing
<1> QED
  BY <1>4, <1>5, <1>6, <1>7, <1>8, <1>9

\* Fields of a session in which a slot is given back and a reference dropped.
LEMMA Dropped ==
  ASSUME NEW r \in SRec, NEW h \in Handles, r.refs - 1 \in Nat
  PROVE  /\ DropRef(r, h) \in SRec
         /\ DropRef(r, h).refs = r.refs - 1 /\ DropRef(r, h).used = r.used \ {slot[h]}
         /\ DropRef(r, h).installed = r.installed /\ DropRef(r, h).teardown = r.teardown
         /\ DropRef(r, h).external = r.external /\ DropRef(r, h).bringing = r.bringing
         /\ DropRef(r, h).run = r.run /\ DropRef(r, h).exited = r.exited
BY DEF DropRef, GiveSlotBack, SRec

LEMMA HostInstallKeeps == ASSUME IHost, NEW h \in Handles, HostInstall(h) PROVE IHost'
<1> USE Names DEF IHost
<1>1. /\ pc[h] \in Raising /\ pc[h] = "host" /\ s \in SRec /\ lib \in LibRec
      /\ UNCHANGED <<cl, asked, lockBy, dev>>
  BY DEF HostInstall, Raising, HostTypes
<1>2. /\ Refs = {h} /\ s.bringing /\ ~s.teardown /\ ~s.installed /\ ~lib.ext
  BY <1>1, Raiser
<1>3. /\ ~lib.up /\ s.exited
  BY <1>2 DEF Library
<1>4. CASE /\ lib' = [lib EXCEPT !.up = TRUE]
           /\ s' = [s EXCEPT !.installed = TRUE, !.run = TRUE, !.exited = FALSE,
                             !.allFree = FALSE]
           /\ Goto(h, "task") /\ UNCHANGED slot
  <2>1. lib' \in LibRec /\ lib'.up /\ lib'.ext = lib.ext /\ lib'.clients = lib.clients
    BY <1>1, <1>4 DEF LibRec
  <2>2. s' \in SRec
    BY <1>1, <1>4 DEF SRec
  <2>3. /\ s'.refs = s.refs /\ s'.used = s.used /\ s'.external = s.external
        /\ s'.installed /\ s'.bringing = s.bringing /\ s'.teardown = s.teardown /\ s'.run
    BY <1>1, <1>4 DEF SRec
  <2>4. pc'[h] = "task" /\ pc' = [pc EXCEPT ![h] = pc'[h]]
    BY <1>4 DEF Goto, HostTypes
  <2>5. s'.bringing /\ ~s'.teardown /\ pc'[h] \in Raising
    BY <1>2, <2>3, <2>4 DEF Raising
  <2> HIDE DEF IHost
  <2> QED
    BY <1>1, <1>4, <2>1, <2>2, <2>3, <2>4, <2>5, Raised
<1>5. CASE /\ s' = [DropRef(s, h) EXCEPT !.bringing = FALSE]
           /\ slot' = [slot EXCEPT ![h] = NoSlot]
           /\ Goto(h, "fail") /\ UNCHANGED lib
  <2>1. s.refs - 1 \in Nat
    BY <1>2, CountIs
  <2>2. /\ DropRef(s, h) \in SRec
        /\ DropRef(s, h).refs = s.refs - 1 /\ DropRef(s, h).used = s.used \ {slot[h]}
        /\ DropRef(s, h).installed = s.installed /\ DropRef(s, h).teardown = s.teardown
        /\ DropRef(s, h).exited = s.exited
    BY <1>1, <2>1, Dropped
  <2>3. s' \in SRec /\ s'.refs = s.refs - 1 /\ s'.used = s.used \ {slot[h]}
        /\ ~s'.installed /\ ~s'.bringing /\ ~s'.teardown /\ s'.exited
    BY <1>2, <1>3, <1>5, <2>2 DEF SRec
  <2>4. lib' \in LibRec /\ ~lib'.up /\ lib'.ext = lib.ext /\ lib'.clients = lib.clients
    BY <1>1, <1>3, <1>5
  <2> HIDE DEF IHost
  <2> QED
    BY <1>1, <1>5, <2>3, <2>4, RaiseFails DEF Goto
<1> QED
  BY <1>4, <1>5 DEF HostInstall

LEMMA HostTaskKeeps == ASSUME IHost, NEW h \in Handles, HostTask(h) PROVE IHost'
<1> USE Names DEF IHost
<1>1. /\ pc[h] \in Raising /\ pc[h] = "task" /\ s \in SRec /\ lib \in LibRec
      /\ UNCHANGED <<cl, asked, lockBy, dev>>
  BY DEF HostTask, Raising, HostTypes
<1>2. Refs = {h} /\ s.bringing /\ ~s.teardown /\ s.installed /\ ~lib.ext
  BY <1>1, Raiser
<1>3. lib.up /\ s.run /\ s.refs - 1 \in Nat
  BY <1>2, CountIs DEF Library
<1> DEFINE ended == [s EXCEPT !.run = FALSE, !.exited = TRUE, !.bringing = FALSE]
<1>4. ended \in SRec
  BY <1>1 DEF SRec
<1>5. /\ ended.refs = s.refs /\ ended.used = s.used /\ ended.external = s.external
      /\ ended.installed = s.installed /\ ended.teardown = s.teardown
      /\ ~ended.bringing /\ ~ended.run /\ ended.exited
  BY <1>1 DEF SRec
<1>6. \/ Goto(h, "power") /\ UNCHANGED <<s, slot, lib>>
      \/ /\ Goto(h, "fail") /\ lib' = [lib EXCEPT !.up = FALSE]
         /\ s' = [DropRef(ended, h) EXCEPT !.installed = FALSE]
         /\ slot' = [slot EXCEPT ![h] = NoSlot]
      \/ /\ Goto(h, "fail") /\ s' = [ended EXCEPT !.teardown = TRUE]
         /\ UNCHANGED <<slot, lib>>
  BY DEF HostTask
<1> HIDE DEF ended
<1>7. CASE Goto(h, "power") /\ UNCHANGED <<s, slot, lib>>
  <2>1. pc'[h] = "power" /\ pc' = [pc EXCEPT ![h] = pc'[h]] /\ pc'[h] \in Raising
    BY <1>7 DEF Goto, HostTypes, Raising
  <2>2. s' = s /\ lib' = lib /\ slot' = slot
    BY <1>7
  <2> HIDE DEF IHost
  <2> QED
    BY <1>1, <1>2, <1>3, <2>1, <2>2, Raised
<1>8. CASE /\ Goto(h, "fail") /\ lib' = [lib EXCEPT !.up = FALSE]
           /\ s' = [DropRef(ended, h) EXCEPT !.installed = FALSE]
           /\ slot' = [slot EXCEPT ![h] = NoSlot]
  <2>1. lib' \in LibRec /\ ~lib'.up /\ lib'.ext = lib.ext /\ lib'.clients = lib.clients
    BY <1>1, <1>8 DEF LibRec
  <2>2. /\ DropRef(ended, h) \in SRec
        /\ DropRef(ended, h).refs = s.refs - 1 /\ DropRef(ended, h).used = s.used \ {slot[h]}
        /\ DropRef(ended, h).teardown = s.teardown /\ ~DropRef(ended, h).bringing
        /\ DropRef(ended, h).exited
    BY <1>3, <1>4, <1>5, Dropped
  <2>3. s' \in SRec /\ s'.refs = s.refs - 1 /\ s'.used = s.used \ {slot[h]}
        /\ ~s'.installed /\ ~s'.bringing /\ ~s'.teardown /\ s'.exited
    BY <1>2, <1>8, <2>2 DEF SRec
  <2> HIDE DEF IHost
  <2> QED
    BY <1>1, <1>8, <2>1, <2>3, RaiseFails DEF Goto
<1>9. CASE /\ Goto(h, "fail") /\ s' = [ended EXCEPT !.teardown = TRUE]
           /\ UNCHANGED <<slot, lib>>
  <2>1. pc'[h] = "fail" /\ pc' = [pc EXCEPT ![h] = pc'[h]] /\ pc'[h] \notin Raising
    BY <1>9 DEF Goto, HostTypes, Raising
  <2>2. s' \in SRec
    BY <1>4, <1>9 DEF SRec
  <2>3. /\ s'.refs = s.refs /\ s'.used = s.used /\ s'.external = s.external
        /\ s'.installed /\ ~s'.bringing /\ s'.teardown
    BY <1>2, <1>4, <1>5, <1>9 DEF SRec
  <2>4. lib' = lib /\ slot' = slot
    BY <1>9
  <2> HIDE DEF IHost
  <2> QED
    BY <1>1, <1>3, <2>1, <2>2, <2>3, <2>4, Raised
<1> QED
  BY <1>6, <1>7, <1>8, <1>9

LEMMA RootPowerKeeps == ASSUME IHost, NEW h \in Handles, RootPower(h) PROVE IHost'
<1> USE Names DEF IHost
<1>1. /\ pc[h] \in Raising /\ pc[h] = "power" /\ s \in SRec /\ lib \in LibRec
      /\ UNCHANGED <<slot, cl, asked, lockBy, dev>>
  BY DEF RootPower, Raising, HostTypes
<1>2. s.installed /\ ~s.teardown
  BY <1>1, Raiser
<1>3. lib.up /\ s.run
  BY <1>2 DEF Library
<1>4. \/ /\ s' = [s EXCEPT !.teardown = FALSE, !.bringing = FALSE]
         /\ lib' = [lib EXCEPT !.powered = TRUE] /\ Goto(h, "register")
      \/ /\ s' = [s EXCEPT !.teardown = TRUE, !.bringing = FALSE]
         /\ lib' = lib /\ Goto(h, "fail")
  BY DEF RootPower
<1>5. lib' \in LibRec /\ lib'.up = lib.up /\ lib'.ext = lib.ext /\ lib'.clients = lib.clients
  BY <1>1, <1>4 DEF LibRec
<1>6. s' \in SRec
  BY <1>1, <1>4 DEF SRec
<1>7. /\ s'.refs = s.refs /\ s'.used = s.used /\ s'.external = s.external /\ s'.run = s.run
      /\ s'.installed = s.installed /\ ~s'.bringing
  BY <1>1, <1>4 DEF SRec
<1>8. /\ pc'[h] \in {"register", "fail"} /\ pc' = [pc EXCEPT ![h] = pc'[h]]
      /\ pc'[h] \notin Raising
  BY <1>4 DEF Goto, HostTypes, Raising
<1>9. s'.teardown => pc'[h] = "fail"
  BY <1>1, <1>4 DEF SRec, Goto, HostTypes
<1> HIDE DEF IHost
<1> QED
  BY <1>1, <1>2, <1>3, <1>5, <1>6, <1>7, <1>8, <1>9, Raised

\* A counted handle that is going is not one that brings the host up.
LEMMA Leaver ==
  ASSUME IHost, NEW h \in Handles, h \in Refs, pc[h] \notin Raising
  PROVE  /\ ~s.bringing /\ \A g \in Handles : pc[g] \notin Raising
         /\ \A g \in Handles : pc[g] \in Downing => g = h
         /\ s.external = lib.ext
<1>1. \A g \in Handles : pc[g] \notin Raising
  BY DEF IHost, Bringing, Alone
<1>2. ~s.bringing
  BY <1>1 DEF IHost, Bringing
<1>3. \A g \in Handles : pc[g] \in Downing => g = h
  BY DEF IHost, Bringing, Alone
<1>4. s.external = lib.ext
  BY DEF IHost, Library
<1> QED
  BY <1>1, <1>2, <1>3, <1>4

LEMMA SessionReleaseKeeps == ASSUME IHost, NEW h \in Handles, SessionRelease(h) PROVE IHost'
<1> USE Names DEF IHost
<1>1. /\ pc[h] = "release" /\ s \in SRec /\ UNCHANGED <<cl, asked, lib, dev>>
      /\ pc[h] \notin Raising /\ h \notin lib.clients /\ cl[h] = "off" /\ dev # h /\ lockBy # h
  BY DEF SessionRelease, Raising, HostTypes, Fits, FitsAt, Downing
<1>2. CASE slot[h] = NoSlot
  <2>1. Goto(h, "done") /\ UNCHANGED <<s, slot, lockBy>>
    BY <1>2 DEF SessionRelease
  <2>2. HostTypes' /\ SameHost /\ OthersSame(h)
    BY <1>1, <2>1 DEF Goto, HostTypes, Places, Ending, SameHost, OthersSame
  <2>3. FitsAt(h)' /\ pc[h] \notin Raising \cup {"wait"} /\ pc'[h] \notin Raising \cup {"wait"}
        /\ (pc'[h] \in Downing => pc[h] \in Downing) /\ (Joined(h)' => Joined(h))
    BY <1>1, <1>2, <2>1 DEF Goto, HostTypes, Fits, FitsAt, HasSlot, Raising, Downing, Joined
  <2> QED
    BY <2>1, <2>2, <2>3, MoveKeeps
<1>3. CASE slot[h] # NoSlot
  <2>1. h \in Refs
    BY <1>1, <1>3 DEF Refs
  <2>2. /\ ~s.bringing /\ (\A g \in Handles : pc[g] \notin Raising)
        /\ (\A g \in Handles : pc[g] \in Downing => g = h) /\ s.external = lib.ext
    BY <1>1, <2>1, Leaver
  <2>3. \A g \in Handles : pc[g] \notin Downing
    BY <1>1, <2>2 DEF Downing
  <2>4. (s.refs = 1 <=> Alone(h)) /\ s.refs - 1 \in Nat
    BY <2>1, CountIs
  <2>5. lockBy = Nobody
    BY <1>3 DEF SessionRelease, Free
  <2>6. CASE s.refs = 1 /\ s.installed /\ ~s.external
    <3>1. /\ s' = [s EXCEPT !.teardown = TRUE] /\ lockBy' = h /\ Goto(h, "free")
          /\ slot' = slot
      BY <1>3, <2>6 DEF SessionRelease
    <3>2. s' \in SRec
      BY <1>1, <3>1 DEF SRec
    <3>3. /\ s'.refs = s.refs /\ s'.used = s.used /\ s'.installed = s.installed /\ s'.teardown
          /\ s'.external = s.external /\ s'.bringing = s.bringing /\ s'.exited = s.exited
      BY <1>1, <3>1 DEF SRec
    <3>4. pc'[h] = "free" /\ \A g \in Handles \ {h} : pc'[g] = pc[g]
      BY <3>1 DEF Goto, HostTypes
    <3>5. Refs' = Refs /\ Alone(h)'
      BY <1>1, <2>4, <2>6, <3>1, <3>4 DEF Refs, Alone
    <3>6. HostTypes'
      BY <1>1, <3>1, <3>2 DEF Goto, HostTypes, Places, Ending
    <3>7. Fits'
      BY <1>1, <1>3, <2>3, <2>5, <3>1, <3>3, <3>4 DEF Fits, FitsAt, HasSlot, Downing
    <3>8. SlotsExact' /\ Counted'
      BY <3>1, <3>3, <3>5 DEF SlotsExact, Counted
    <3>9. Library'
      <4>1. Refs' = {h} /\ ~lib.ext
        BY <2>1, <2>2, <2>4, <2>6, <3>5 DEF Alone, Refs, Library
      <4>2. \A g \in Refs' : Alone(g)'
        BY <3>5, <4>1
      <4> QED
        BY <1>1, <2>2, <2>6, <3>3, <4>1, <4>2 DEF Library
    <3>10. Bringing'
      <4>1. \A g \in Handles \ {h} : ~Joined(g)
        BY <2>4, <2>6 DEF Joined, Alone, Refs, Fits, FitsAt, HasSlot
      <4>2. \A g \in Handles : ~Joined(g)' /\ pc'[g] \notin Raising
                               /\ (pc'[g] \in Downing => g = h)
        BY <2>2, <2>3, <3>4, <4>1 DEF Joined, Raising
      <4> QED
        BY <2>2, <3>3, <3>5, <4>2 DEF Bringing
    <3> QED
      BY <3>6, <3>7, <3>8, <3>9, <3>10
  <2>7. CASE ~(s.refs = 1 /\ s.installed /\ ~s.external)
    <3>1. /\ s' = DropRef(s, h) /\ slot' = [slot EXCEPT ![h] = NoSlot]
          /\ Goto(h, "done") /\ lockBy' = lockBy
      BY <1>3, <2>7 DEF SessionRelease
    <3>2. /\ s' \in SRec /\ s'.refs = s.refs - 1 /\ s'.used = s.used \ {slot[h]}
          /\ s'.installed = s.installed /\ s'.teardown = s.teardown
          /\ s'.external = s.external /\ s'.bringing = s.bringing
          /\ s'.run = s.run /\ s'.exited = s.exited
      BY <1>1, <2>4, <3>1, Dropped
    <3>3. /\ pc'[h] = "done" /\ slot'[h] = NoSlot
          /\ \A g \in Handles \ {h} : pc'[g] = pc[g] /\ slot'[g] = slot[g]
      BY <3>1 DEF Goto, HostTypes
    <3>4. Refs' = Refs \ {h}
      BY <3>3 DEF Refs
    <3>5. s.installed => Refs' # {} /\ ~s.teardown
      <4>1. ASSUME s.installed PROVE ~Alone(h) /\ ~s.external
        BY <2>2, <2>4, <2>7, <4>1 DEF Library
      <4> QED
        BY <2>1, <3>4, <4>1 DEF Alone, Library, Refs
    <3>6. HostTypes'
      BY <1>1, <3>1, <3>2 DEF Goto, HostTypes, Places, Ending
    <3>7. Fits'
      BY <1>1, <2>3, <2>5, <3>1, <3>2, <3>3 DEF Fits, FitsAt, HasSlot, Downing
    <3>8. SlotsExact'
      BY <1>3, <3>1, <3>2, SlotGiven
    <3>9. Counted'
      BY <2>1, <3>2, <3>4, CountDown
    <3>10. Library'
      BY <1>1, <2>1, <2>2, <3>2, <3>4, <3>5 DEF Library
    <3>11. Bringing'
      BY <2>2, <2>3, <3>2, <3>3 DEF Bringing, Joined, Raising, Downing
    <3> QED
      BY <3>6, <3>7, <3>8, <3>9, <3>10, <3>11
  <2> QED
    BY <2>6, <2>7
<1> QED
  BY <1>2, <1>3

LEMMA HostUninstallKeeps == ASSUME IHost, NEW h \in Handles, HostUninstall(h) PROVE IHost'
<1> USE Names DEF IHost
<1>1. /\ pc[h] = "libdown" /\ pc[h] \in Downing /\ s \in SRec /\ lib \in LibRec
      /\ UNCHANGED <<cl, asked, dev>>
  BY DEF HostUninstall, Downing, HostTypes
<1>2. /\ lockBy = h /\ s.exited /\ slot[h] # NoSlot /\ s.teardown /\ Alone(h)
      /\ h \notin lib.clients /\ cl[h] = "off" /\ dev # h
  BY <1>1 DEF Fits, FitsAt, Bringing, HasSlot
<1>3. h \in Refs /\ Refs = {h} /\ pc[h] \notin Raising
  BY <1>1, <1>2 DEF Refs, Alone, Raising
<1>4. CASE UNCHANGED <<s, slot, lib>> /\ Unlock(h)
  <2>1. /\ pc'[h] = "kept" /\ pc' = [pc EXCEPT ![h] = pc'[h]] /\ lockBy' = Nobody
    BY <1>4 DEF Unlock, Retain, Goto, HostTypes
  <2>2. s' = s /\ lib' = lib /\ slot' = slot
    BY <1>4
  <2> HIDE DEF IHost
  <2> QED
    BY <1>1, <2>1, <2>2, DownMoves
<1>5. CASE /\ lib.clients = {}
           /\ lib' = [lib EXCEPT !.up = FALSE, !.freeing = FALSE, !.powered = FALSE]
           /\ s' = [DropRef(s, h) EXCEPT !.installed = FALSE, !.teardown = FALSE,
                                         !.freeReq = FALSE]
           /\ slot' = [slot EXCEPT ![h] = NoSlot]
           /\ lockBy' = Nobody /\ Goto(h, "done")
  <2>1. lib' \in LibRec /\ ~lib'.up /\ lib'.ext = lib.ext /\ lib'.clients = lib.clients
    BY <1>1, <1>5 DEF LibRec
  <2>2. s.refs - 1 \in Nat
    BY <1>3, CountIs
  <2>3. /\ DropRef(s, h) \in SRec
        /\ DropRef(s, h).refs = s.refs - 1 /\ DropRef(s, h).used = s.used \ {slot[h]}
        /\ DropRef(s, h).bringing = s.bringing /\ DropRef(s, h).exited = s.exited
    BY <1>1, <2>2, Dropped
  <2>4. s' \in SRec
    BY <1>5, <2>3 DEF SRec
  <2>5. /\ s'.refs = s.refs - 1 /\ s'.used = s.used \ {slot[h]} /\ s'.bringing = s.bringing
        /\ s'.exited = s.exited /\ ~s'.installed /\ ~s'.teardown
    BY <1>5, <2>3 DEF SRec
  <2>6. /\ pc'[h] = "done" /\ slot'[h] = NoSlot
        /\ \A g \in Handles \ {h} : pc'[g] = pc[g] /\ slot'[g] = slot[g]
    BY <1>5 DEF Goto, HostTypes
  <2>7. /\ ~s.bringing /\ (\A g \in Handles : pc[g] \notin Raising)
        /\ (\A g \in Handles : pc[g] \in Downing => g = h)
    BY <1>3, Leaver
  <2>8. Refs' = {} /\ ~lib.ext
    BY <1>2, <1>3, <2>6 DEF Refs, Library
  <2>9. HostTypes'
    BY <1>1, <1>5, <2>1, <2>4 DEF Goto, HostTypes, Places, Ending
  <2>10. Fits'
    BY <1>1, <1>2, <1>5, <2>1, <2>5, <2>6, <2>7 DEF Fits, FitsAt, HasSlot, Downing
  <2>11. SlotsExact'
    BY <1>2, <1>5, <2>5, SlotGiven
  <2>12. Counted'
    <3>1. Refs' = Refs \ {h}
      BY <1>3, <2>8
    <3> QED
      BY <1>3, <2>5, <3>1, CountDown
  <2>13. Library'
    BY <1>2, <2>1, <2>5, <2>8 DEF Library
  <2>14. Bringing'
    <3>1. \A g \in Handles : ~Joined(g)'
      BY <1>2, <2>6 DEF Joined, Bringing
    <3> QED
      BY <2>5, <2>6, <2>7, <3>1 DEF Bringing, Raising, Downing
  <2> QED
    BY <2>9, <2>10, <2>11, <2>12, <2>13, <2>14
<1> QED
  BY <1>4, <1>5 DEF HostUninstall

\* The steps of the tasks and of the bus.
LEMMA SessionStays ==
  ASSUME IHost, s' = [s EXCEPT !.allFree = s'.allFree] \/ s' = s, s'.allFree \in BOOLEAN,
         lib' \in LibRec, lib'.up = lib.up, lib'.ext = lib.ext, lib'.clients = lib.clients,
         cl' \in [Handles -> {"off", "run", "due", "cycle"}], dev' \in Handles \cup {Nobody},
         UNCHANGED <<slot, pc, asked, lockBy>>,
         \A h \in Handles : /\ cl'[h] # "off" => cl[h] # "off"
                            /\ dev' = h => dev = h \/ cl[h] # "off"
  PROVE  IHost'
<1>1. s \in SRec
  BY DEF IHost, HostTypes
<1>2. s' \in SRec
  BY <1>1 DEF SRec
<1>3. /\ s'.refs = s.refs /\ s'.used = s.used /\ s'.installed = s.installed
      /\ s'.teardown = s.teardown /\ s'.external = s.external /\ s'.bringing = s.bringing
      /\ s'.run = s.run /\ s'.exited = s.exited
  BY <1>1 DEF SRec
<1>4. HostTypes'
  BY <1>2 DEF IHost, HostTypes
<1>5. SameHost
  BY <1>3 DEF SameHost
<1> QED
  BY <1>4, <1>5, StayKeeps

LEMMA TasksKeep ==
  ASSUME IHost, HostTaskExits \/ LibFreed \/ Enumerates \/ Attach \/ Unplug PROVE IHost'
<1> USE DEF IHost
<1>1. s \in SRec /\ lib \in LibRec /\ s.run \in BOOLEAN /\ s.allFree \in BOOLEAN
  BY DEF HostTypes, SRec
<1>2. CASE HostTaskExits
  <2>1. s' \in SRec
    BY <1>1, <1>2 DEF HostTaskExits, SRec
  <2>2. HostTypes' /\ UNCHANGED <<slot, pc, cl, lockBy, lib, dev>>
    BY <1>2, <2>1 DEF HostTaskExits, HostTypes
  <2>3. SameHost
    BY <1>1, <1>2 DEF HostTaskExits, SRec, SameHost
  <2> QED
    BY <2>2, <2>3, StayKeeps
<1>3. CASE LibFreed
  <2>1. lib' \in LibRec /\ lib'.up = lib.up /\ lib'.ext = lib.ext /\ lib'.clients = lib.clients
    BY <1>1, <1>3 DEF LibFreed, LibRec
  <2>2. s' = [s EXCEPT !.allFree = s'.allFree] /\ s'.allFree \in BOOLEAN
    BY <1>1, <1>3 DEF LibFreed, SRec
  <2>3. cl' \in [Handles -> {"off", "run", "due", "cycle"}] /\ dev' \in Handles \cup {Nobody}
        /\ UNCHANGED <<slot, pc, cl, asked, lockBy, dev>>
    BY <1>3 DEF LibFreed, HostTypes
  <2> HIDE DEF IHost
  <2> QED
    BY <2>1, <2>2, <2>3, SessionStays
<1>4. CASE Unplug
  <2>1. lib' \in LibRec /\ lib'.up = lib.up /\ lib'.ext = lib.ext /\ lib'.clients = lib.clients
    BY <1>1, <1>4 DEF Unplug, LibRec
  <2>2. (s.allFree \/ (s.run /\ bus = "dev" /\ dev = Nobody)) \in BOOLEAN
    BY <1>1
  <2>3. s' = [s EXCEPT !.allFree = s'.allFree] /\ s'.allFree \in BOOLEAN
    BY <1>1, <1>4, <2>2 DEF Unplug, SRec
  <2>4. cl' \in [Handles -> {"off", "run", "due", "cycle"}] /\ dev' \in Handles \cup {Nobody}
        /\ UNCHANGED <<slot, pc, cl, asked, lockBy, dev>>
    BY <1>4 DEF Unplug, HostTypes
  <2> HIDE DEF IHost
  <2> QED
    BY <2>1, <2>3, <2>4, SessionStays
<1>5. CASE Enumerates \/ Attach
  <2>1. UNCHANGED <<s, slot, pc, cl, asked, lockBy, lib, dev>>
    BY <1>5 DEF Enumerates, Attach
  <2>2. HostTypes' /\ SameHost
    BY <2>1 DEF HostTypes, SameHost
  <2> QED
    BY <2>1, <2>2, StayKeeps
<1> QED
  BY <1>2, <1>3, <1>4, <1>5

LEMMA ClientKeeps == ASSUME IHost, NEW h \in Handles, Client(h) PROVE IHost'
<1> USE DEF IHost
<1>1. s \in SRec /\ lib \in LibRec /\ s.allFree \in BOOLEAN
  BY DEF HostTypes, SRec
<1>2. UNCHANGED <<s, slot, pc, asked, lockBy>>
  BY DEF Client, ClientOpen, ClientGone, ClientExits, RecoverDue, RecoverPowerOff, RecoverPowerOn
<1>3. \/ lib' = lib
      \/ lib' = [lib EXCEPT !.powered = FALSE]
      \/ lib' = [lib EXCEPT !.powered = TRUE]
  BY DEF Client, ClientOpen, ClientGone, ClientExits, RecoverDue, RecoverPowerOff, RecoverPowerOn
<1>4. lib' \in LibRec /\ lib'.up = lib.up /\ lib'.ext = lib.ext /\ lib'.clients = lib.clients
  BY <1>1, <1>3 DEF LibRec
<1>5. cl[h] # "off" /\ (cl' = cl \/ \E c \in {"off", "run", "due", "cycle"} : cl' = [cl EXCEPT ![h] = c])
  BY DEF Client, ClientOpen, ClientGone, ClientExits, RecoverDue, RecoverPowerOff, RecoverPowerOn
<1>6. cl' \in [Handles -> {"off", "run", "due", "cycle"}]
      /\ \A g \in Handles : cl'[g] # "off" => cl[g] # "off"
  BY <1>5 DEF HostTypes
<1>7. dev' \in {dev, h, Nobody}
  BY DEF Client, ClientOpen, ClientGone, ClientExits, RecoverDue, RecoverPowerOff, RecoverPowerOn
<1>8. dev' \in Handles \cup {Nobody} /\ \A g \in Handles : dev' = g => dev = g \/ cl[g] # "off"
  BY <1>5, <1>7, Names DEF HostTypes
<1>9. s' = s /\ s'.allFree \in BOOLEAN
  BY <1>1, <1>2
<1> HIDE DEF IHost
<1> QED
  BY <1>2, <1>4, <1>6, <1>8, <1>9, SessionStays

\* After a boot: no handle, no task, and the library only if it is external.
LEMMA Booted ==
  ASSUME NEW e \in BOOLEAN, lib = BootLib(e), s = NoSession, slot = All(NoSlot), pc = All("none"),
         cl = All("off"), asked = All(FALSE), lockBy = Nobody, dev = Nobody
  PROVE  IHost
<1> USE Names
<1>1. \A h \in Handles : slot[h] = NoSlot /\ pc[h] = "none" /\ cl[h] = "off"
  BY DEF All
<1>2. Refs = {}
  BY <1>1 DEF Refs
<1>3. /\ s.refs = 0 /\ s.used = {} /\ ~s.installed /\ ~s.teardown /\ ~s.bringing /\ s.exited
      /\ s \in SRec
  BY DEF NoSession, SRec
<1>4. lib \in LibRec /\ lib.up = lib.ext /\ lib.clients = {}
  BY DEF BootLib, LibRec
<1>5. HostTypes
  BY <1>3, <1>4 DEF HostTypes, All, Places, Rest
<1>6. Fits
  BY <1>1, <1>4 DEF Fits, FitsAt, HasSlot, Downing
<1>7. SlotsExact
  BY <1>1, <1>3 DEF SlotsExact
<1>8. Counted
  BY <1>2, <1>3, FS_EmptySet DEF Counted
<1>9. Library
  BY <1>2, <1>3, <1>4 DEF Library
<1>10. Bringing
  BY <1>1, <1>3 DEF Bringing, Raising, Downing, Joined
<1> QED
  BY <1>5, <1>6, <1>7, <1>8, <1>9, <1>10 DEF IHost

LEMMA BootKeeps ==
  ASSUME NEW e \in BOOLEAN, lib' = BootLib(e), s' = NoSession, slot' = All(NoSlot),
         pc' = All("none"), cl' = All("off"), asked' = All(FALSE), lockBy' = Nobody, dev' = Nobody
  PROVE  IHost'
<1> USE Names
<1>1. \A h \in Handles : slot'[h] = NoSlot /\ pc'[h] = "none" /\ cl'[h] = "off"
  BY DEF All
<1>2. Refs' = {}
  BY <1>1 DEF Refs
<1>3. /\ s'.refs = 0 /\ s'.used = {} /\ ~s'.installed /\ ~s'.teardown /\ ~s'.bringing
      /\ s'.exited /\ s' \in SRec
  BY DEF NoSession, SRec
<1>4. lib' \in LibRec /\ lib'.up = lib'.ext /\ lib'.clients = {}
  BY DEF BootLib, LibRec
<1>5. HostTypes'
  BY <1>3, <1>4 DEF HostTypes, All, Places, Rest
<1>6. Fits'
  BY <1>1, <1>4 DEF Fits, FitsAt, HasSlot, Downing
<1>7. SlotsExact'
  BY <1>1, <1>3 DEF SlotsExact
<1>8. Counted'
  BY <1>2, <1>3, FS_EmptySet DEF Counted
<1>9. Library'
  BY <1>2, <1>3, <1>4 DEF Library
<1>10. Bringing'
  BY <1>1, <1>3 DEF Bringing, Raising, Downing, Joined
<1> QED
  BY <1>5, <1>6, <1>7, <1>8, <1>9, <1>10 DEF IHost

LEMMA InstallKeeps == ASSUME IHost, NEW h \in Handles, Install(h) PROVE IHost'
BY SessionAcquireKeeps, WaitEndsKeeps, HostInstallKeeps, HostTaskKeeps, RootPowerKeeps,
   ClientRegisterKeeps, ClientTaskKeeps, InstallFailsKeeps DEF Install

LEMMA UninstallKeeps == ASSUME IHost, NEW h \in Handles, Uninstall(h) PROVE IHost'
BY StopStreamKeeps, JoinWorkersKeeps, CloseDeviceKeeps, DeregisterKeeps, SessionReleaseKeeps,
   FreeDevicesKeeps, FreeWaitKeeps, HostJoinKeeps, HostUninstallKeeps, FreeHandleKeeps
   DEF Uninstall

\* The invariant holds through every interleaving of installs, uninstalls,
\* failures, tasks, unplugs and resets.
THEOREM HostHolds == Spec => []IHost
<1>1. Init => IHost
  <2> SUFFICES ASSUME Init PROVE IHost
    OBVIOUS
  <2>1. PICK e \in Externals : lib = BootLib(e)
    BY DEF Init
  <2>2. e \in BOOLEAN
    BY SessionOptions
  <2> QED
    BY <2>1, <2>2, Booted DEF Init
<1>2. IHost /\ [Next]_vars => IHost'
  <2> SUFFICES ASSUME IHost, [Next]_vars PROVE IHost'
    OBVIOUS
  <2>1. ASSUME NEW h \in Handles, InstallCall(h) \/ UninstallCall(h) PROVE IHost'
    BY <2>1, InstallCallKeeps, UninstallCallKeeps
  <2>2. ASSUME NEW h \in Handles, Install(h) \/ Uninstall(h) PROVE IHost'
    BY <2>2, InstallKeeps, UninstallKeeps
  <2>3. ASSUME NEW h \in Handles, Client(h) PROVE IHost'
    BY <2>3, ClientKeeps
  <2>4. CASE HostTaskExits \/ LibFreed \/ Enumerates \/ Attach \/ Unplug
    BY <2>4, TasksKeep
  <2>5. CASE Settles \/ ClearGuard \/ UNCHANGED vars
    <3>1. UNCHANGED sessionVars
      BY <2>5 DEF Settles, ClearGuard, vars
    <3>2. s' = s /\ slot' = slot /\ pc' = pc /\ cl' = cl /\ asked' = asked /\ lockBy' = lockBy
          /\ lib' = lib /\ dev' = dev
      BY <3>1 DEF sessionVars
    <3> QED
      BY <3>2 DEF IHost, HostTypes, Fits, FitsAt, SlotsExact, Counted, Library, Bringing,
                  Refs, Alone, Joined
  <2>6. ASSUME NEW why, ChipReset(why) PROVE IHost'
    <3>1. lib.ext \in BOOLEAN
      BY DEF IHost, HostTypes, LibRec
    <3>2. /\ lib' = BootLib(lib.ext) /\ s' = NoSession /\ slot' = All(NoSlot)
          /\ pc' = All("none") /\ cl' = All("off") /\ asked' = All(FALSE)
          /\ lockBy' = Nobody /\ dev' = Nobody
      BY <2>6 DEF ChipReset
    <3> QED
      BY <3>1, <3>2, BootKeeps
  <2> QED
    BY <2>1, <2>2, <2>3, <2>4, <2>5, <2>6 DEF Next
<1> QED
  BY <1>1, <1>2, PTL DEF Spec

\* A handle in use works with a host that is installed, runs and is not being
\* torn down.
THEOREM HostOfAJoinedRuns == Spec => []JoinedHostRuns
<1>1. IHost => JoinedHostRuns
  <2> SUFFICES ASSUME IHost, NEW h \in Handles, Joined(h)
               PROVE  /\ lib.up /\ ~s.teardown /\ ~s.bringing
                      /\ s.external \/ (s.installed /\ s.run)
    BY DEF JoinedHostRuns
  <2>1. h \in Refs
    BY DEF IHost, Fits, FitsAt, HasSlot, Joined, Refs
  <2>2. ~s.teardown /\ ~s.bringing
    BY DEF IHost, Bringing
  <2> QED
    BY <2>1, <2>2 DEF IHost, Library
<1> QED
  BY <1>1, HostHolds, PTL

\* The reference count and the slots are exact.
THEOREM ReferencesExact == Spec => []RefsExact
<1>1. IHost => RefsExact
  BY DEF IHost, RefsExact, SlotsExact, Counted, Refs
<1> QED
  BY <1>1, HostHolds, PTL

\* Nothing is left of a handle that is not there or about to be freed.
THEOREM UninstallLeavesNothing == Spec => []NothingLeft
<1>1. IHost => NothingLeft
  BY DEF IHost, NothingLeft, Fits, FitsAt, Downing
<1> QED
  BY <1>1, HostHolds, PTL

\* The host library is down only with no client, no open device and no host task.
THEOREM LibraryGoesLast == Spec => []LibDownLast
<1>1. ASSUME IHost PROVE LibDownLast
  <2> USE <1>1 DEF IHost
  <2>1. \A h \in Handles : h \in lib.clients => h \in Refs /\ pc[h] \notin Raising
    BY DEF Fits, FitsAt, Refs, Raising
  <2>2. lib.clients \subseteq Handles /\ dev \in Handles \cup {Nobody}
    BY DEF HostTypes, LibRec
  <2>3. lib.clients # {} => lib.up
    <3>1. ASSUME NEW h \in lib.clients PROVE lib.up
      <4>1. h \in Refs /\ pc[h] \notin Raising
        BY <2>1, <2>2
      <4>2. ~s.bringing
        BY <2>2, <4>1, Leaver
      <4> QED
        BY <4>1, <4>2 DEF Library
    <3> QED
      BY <3>1
  <2>4. dev # Nobody => lib.clients # {}
    BY <2>2 DEF Fits, FitsAt
  <2>5. s.installed => s.refs > 0
    BY CountIs DEF Library
  <2> QED
    BY <2>3, <2>4, <2>5 DEF Library, LibDownLast
<1> QED
  BY <1>1, HostHolds, PTL
-----------------------------------------------------------------------------
\* The fault guard.

RtcRec == [valid: BOOLEAN, panics: Nat, risk: BOOLEAN]
PastRec == [streak: Nat, loop: Nat, blurred: BOOLEAN, dropped: BOOLEAN]

GuardTypes ==
  /\ rtc \in RtcRec /\ past \in PastRec /\ fresh \in BOOLEAN
  /\ ~rtc.valid => rtc.panics = 0 /\ ~rtc.risk /\ past.loop = 0 /\ fresh

\* No handle in this boot, and no port this driver powered.
Idle == \A h \in Handles : pc[h] = "none" /\ cl[h] = "off"
Quiet == ~lib.ext => ~lib.powered /\ bus # "enum"

\* What the next check will count, as far as it goes by real panics.
Earned ==
  ~past.blurred =>
    /\ fresh /\ rtc.risk /\ reason = "panic" => rtc.panics + 1 <= past.streak
    /\ fresh /\ ~rtc.risk /\ rtc.panics >= Threshold => rtc.panics <= past.streak
    /\ ~fresh => rtc.panics <= past.streak

\* A latched guard has no risk pending, and no handle that could rearm it.
Stuck == ~past.blurred /\ rtc.panics >= Threshold => ~rtc.risk /\ Idle

\* A boot in which nothing disarms the guard adds to the loop only what the
\* next check adds to the count.
Ends ==
  /\ past.loop <= Threshold
  /\ past.loop > 0 => reason = "panic"
  /\ ~past.dropped =>
       /\ fresh /\ rtc.risk => past.loop <= rtc.panics + 1
       /\ fresh /\ ~rtc.risk /\ past.loop > 0 => rtc.panics >= Threshold
       /\ ~fresh => past.loop <= rtc.panics
       /\ ~fresh /\ ~rtc.risk => rtc.panics >= Threshold
  /\ (Idle /\ Quiet) \/ past.dropped \/ past.loop < Threshold

IGuard == GuardTypes /\ (fresh => Idle /\ Quiet) /\ Earned /\ Stuck /\ Ends

LEMMA Positive == Threshold \in Nat /\ Threshold > 0
BY ThresholdPositive

\* Every step of the host as the guard sees it.
LEMMA GuardMoves ==
  ASSUME [Next]_vars
  PROVE  \/ \E h \in Handles : InstallCall(h)
         \/ GuardDisarm
         \/ GuardRearm /\ ~Idle
         \/ GuardReset
         \/ \E why \in {"power", "panic", "other"} : ChipReset(why)
         \/ UNCHANGED guardVars
<1>1. ASSUME NEW h \in Handles, UninstallCall(h) PROVE GuardDisarm
  BY <1>1 DEF UninstallCall
<1>2. ASSUME NEW h \in Handles, Install(h) PROVE GuardDisarm \/ UNCHANGED guardVars
  BY <1>2 DEF Install, SessionAcquire, WaitEnds, HostInstall, HostTask, RootPower,
              ClientRegister, ClientTask, InstallFails
<1>3. ASSUME NEW h \in Handles, Uninstall(h) PROVE UNCHANGED guardVars
  BY <1>3 DEF Uninstall, StopStream, JoinWorkers, CloseDevice, Deregister, SessionRelease,
              FreeDevices, FreeWait, HostJoin, HostUninstall, FreeHandle
<1>4. ASSUME NEW h \in Handles, Client(h) PROVE (GuardRearm /\ ~Idle) \/ UNCHANGED guardVars
  BY <1>4 DEF Client, ClientOpen, ClientGone, ClientExits, RecoverDue, RecoverPowerOff,
              RecoverPowerOn, Idle
<1>5. CASE HostTaskExits \/ LibFreed \/ Enumerates \/ Attach \/ Unplug
  BY <1>5 DEF HostTaskExits, LibFreed, Enumerates, Attach, Unplug
<1>6. CASE Settles \/ ClearGuard \/ UNCHANGED vars
  BY <1>6 DEF Settles, ClearGuard, TimerFires, vars
<1> QED
  BY <1>1, <1>2, <1>3, <1>4, <1>5, <1>6 DEF Next

\* An idle handle has no step but an install.
LEMMA IdleRests ==
  ASSUME Idle, NEW h \in Handles
  PROVE  ~UninstallCall(h) /\ ~Install(h) /\ ~Uninstall(h) /\ ~Client(h)
<1>1. pc[h] = "none" /\ cl[h] = "off"
  BY DEF Idle
<1>2. ~UninstallCall(h) /\ ~Install(h)
  BY <1>1 DEF UninstallCall, Install, SessionAcquire, WaitEnds, HostInstall, HostTask,
              RootPower, ClientRegister, ClientTask, InstallFails
<1>3. ~Uninstall(h)
  BY <1>1 DEF Uninstall, StopStream, JoinWorkers, CloseDevice, Deregister, SessionRelease,
              FreeDevices, FreeWait, HostJoin, HostUninstall, FreeHandle
<1>4. ~Client(h)
  BY <1>1 DEF Client, ClientOpen, ClientGone, ClientExits, RecoverDue, RecoverPowerOff,
              RecoverPowerOn
<1> QED
  BY <1>2, <1>3, <1>4

\* Only an install ends the rest.
LEMMA RestStays ==
  ASSUME IHost, [Next]_vars, Idle, Quiet
  PROVE  (\E h \in Handles : InstallCall(h)) \/ (Idle' /\ Quiet')
<1>1. ASSUME NEW h \in Handles PROVE ~UninstallCall(h) /\ ~Install(h) /\ ~Uninstall(h) /\ ~Client(h)
  BY IdleRests
<1>2. lib \in LibRec
  BY DEF IHost, HostTypes
<1>3. CASE HostTaskExits \/ LibFreed \/ Enumerates \/ Attach \/ Unplug
  <2>1. Idle'
    BY <1>3 DEF HostTaskExits, LibFreed, Enumerates, Attach, Unplug, Idle
  <2>2. lib'.ext = lib.ext /\ lib'.powered = lib.powered
    BY <1>2, <1>3 DEF HostTaskExits, LibFreed, Enumerates, Attach, Unplug, LibRec
  <2>3. ~lib.ext => bus' # "enum"
    BY <1>3 DEF HostTaskExits, LibFreed, Enumerates, Attach, Unplug, Quiet
  <2> QED
    BY <2>1, <2>2, <2>3 DEF Quiet
<1>4. CASE Settles \/ ClearGuard \/ UNCHANGED vars
  BY <1>4 DEF Settles, ClearGuard, vars, sessionVars, Idle, Quiet
<1>5. ASSUME NEW why, ChipReset(why) PROVE Idle' /\ Quiet'
  <2>1. pc' = All("none") /\ cl' = All("off") /\ lib' = BootLib(lib.ext)
        /\ bus' = BootBus(lib.ext, Unpowered(bus))
    BY <1>5 DEF ChipReset
  <2>2. lib'.ext = lib.ext /\ lib'.powered = lib.ext
    BY <2>1 DEF BootLib
  <2>3. ~lib.ext => bus' # "enum"
    BY <2>1 DEF BootBus, Unpowered
  <2> QED
    BY <2>1, <2>2, <2>3 DEF Idle, Quiet, All
<1> QED
  BY <1>1, <1>3, <1>4, <1>5 DEF Next

LEMMA RestIdle ==
  ASSUME [Next]_vars, Idle, ~\E h \in Handles : InstallCall(h)
  PROVE  Idle'
<1>1. ASSUME NEW h \in Handles PROVE ~UninstallCall(h) /\ ~Install(h) /\ ~Uninstall(h) /\ ~Client(h)
  BY IdleRests
<1>2. CASE HostTaskExits \/ LibFreed \/ Enumerates \/ Attach \/ Unplug
  BY <1>2 DEF HostTaskExits, LibFreed, Enumerates, Attach, Unplug, Idle
<1>3. CASE Settles \/ ClearGuard \/ UNCHANGED vars
  BY <1>3 DEF Settles, ClearGuard, vars, sessionVars, Idle
<1>4. ASSUME NEW why, ChipReset(why) PROVE Idle'
  BY <1>4 DEF ChipReset, All, Idle
<1> QED
  BY <1>1, <1>2, <1>3, <1>4 DEF Next

\* The check of an install: what it stores.
LEMMA CheckedIs ==
  ASSUME GuardTypes
  PROVE  /\ Checked \in RtcRec /\ Checked.valid /\ ~Checked.risk
         /\ ~rtc.valid => Checked.panics = 0
         /\ rtc.valid /\ rtc.risk /\ reason = "panic" => Checked.panics = rtc.panics + 1
         /\ rtc.valid /\ rtc.risk /\ reason # "panic" => Checked.panics = 0
         /\ rtc.valid /\ ~rtc.risk /\ rtc.panics < Threshold => Checked.panics = 0
         /\ rtc.valid /\ ~rtc.risk /\ rtc.panics >= Threshold => Checked.panics = rtc.panics
BY Positive DEF GuardTypes, Checked, RtcRec

LEMMA InstallGuards == ASSUME IGuard, NEW h \in Handles, InstallCall(h) PROVE IGuard'
<1> USE Positive DEF IGuard
<1>1. /\ Checked \in RtcRec /\ Checked.valid /\ ~Checked.risk
      /\ ~rtc.valid => Checked.panics = 0
      /\ rtc.valid /\ rtc.risk /\ reason = "panic" => Checked.panics = rtc.panics + 1
      /\ rtc.valid /\ rtc.risk /\ reason # "panic" => Checked.panics = 0
      /\ rtc.valid /\ ~rtc.risk /\ rtc.panics < Threshold => Checked.panics = 0
      /\ rtc.valid /\ ~rtc.risk /\ rtc.panics >= Threshold => Checked.panics = rtc.panics
  BY CheckedIs
<1>2. rtc.panics \in Nat /\ rtc.risk \in BOOLEAN /\ past \in PastRec /\ rtc.valid \in BOOLEAN
      /\ past.streak \in Nat /\ past.loop \in Nat
  BY DEF GuardTypes, RtcRec, PastRec
<1>3. /\ fresh' = FALSE /\ reason' = reason
      /\ rtc' = IF Checked.panics >= Threshold THEN Checked ELSE Armed(Checked)
      /\ past' = [past EXCEPT !.blurred = @ \/ (rtc.risk /\ ~fresh)]
  BY DEF InstallCall, InstallChecks, Latched
<1>4. /\ rtc' \in RtcRec /\ rtc'.valid /\ rtc'.panics = Checked.panics
      /\ rtc'.risk <=> Checked.panics < Threshold
  <2>1. CASE Checked.panics >= Threshold
    BY <1>1, <1>3, <2>1 DEF RtcRec
  <2>2. CASE ~(Checked.panics >= Threshold)
    <3>1. rtc' = [Checked EXCEPT !.risk = TRUE]
      BY <1>3, <2>2 DEF Armed
    <3>2. rtc' \in RtcRec /\ rtc'.valid = Checked.valid /\ rtc'.panics = Checked.panics
      BY <1>1, <3>1 DEF RtcRec
    <3>3. rtc'.risk = TRUE
      BY <1>1, <3>1 DEF RtcRec
    <3>4. Checked.panics < Threshold
      BY <1>1, <2>2 DEF RtcRec
    <3> QED
      BY <1>1, <3>2, <3>3, <3>4
  <2> QED
    BY <2>1, <2>2
<1>5. (past.blurred \/ (rtc.risk /\ ~fresh)) \in BOOLEAN
  BY <1>2 DEF PastRec
<1>6. past' \in PastRec
  BY <1>2, <1>3, <1>5 DEF PastRec
<1>7. /\ past'.streak = past.streak /\ past'.loop = past.loop /\ past'.dropped = past.dropped
      /\ past'.blurred = (past.blurred \/ (rtc.risk /\ ~fresh))
  BY <1>2, <1>3 DEF PastRec
<1>8. Checked.panics >= Threshold => pc' = pc /\ cl' = cl
  BY DEF InstallCall, Latched
<1>9. GuardTypes' /\ (fresh' => Idle' /\ Quiet')
  BY <1>3, <1>4, <1>6 DEF GuardTypes
<1>10. Earned'
  BY <1>1, <1>2, <1>3, <1>4, <1>7 DEF Earned, GuardTypes
<1>11. Stuck'
  <2>1. ASSUME ~past'.blurred, rtc'.panics >= Threshold PROVE ~rtc'.risk /\ Idle
    BY <1>1, <1>2, <1>4, <1>7, <2>1 DEF Stuck, GuardTypes
  <2> QED
    BY <1>4, <1>8, <2>1 DEF Stuck, Idle
<1>12. Ends'
  <2>1. past'.loop <= Threshold /\ (past'.loop > 0 => reason' = "panic")
    BY <1>3, <1>7 DEF Ends
  <2>2. ~past.dropped => past.loop <= Checked.panics
    BY <1>1, <1>2 DEF Ends, GuardTypes
  <2>3. ~rtc'.risk => rtc'.panics >= Threshold
    BY <1>1, <1>4 DEF RtcRec
  <2>4. Checked.panics < Threshold => past.dropped \/ past.loop < Threshold
    BY <1>1, <1>2, <2>2 DEF RtcRec
  <2>5. Checked.panics >= Threshold => ((Idle /\ Quiet) => (Idle' /\ Quiet'))
    BY <1>8 DEF Idle, Quiet, InstallCall
  <2>6. (Idle' /\ Quiet') \/ past'.dropped \/ past'.loop < Threshold
    BY <1>1, <1>7, <2>4, <2>5 DEF Ends, RtcRec
  <2> QED
    BY <1>3, <1>4, <1>7, <2>1, <2>2, <2>3, <2>6 DEF Ends
<1> QED
  BY <1>9, <1>10, <1>11, <1>12

\* A step at which only the risk changes, or nothing.
LEMMA OthersGuard ==
  ASSUME IHost, IGuard, [Next]_vars, ~\E h \in Handles : InstallCall(h),
         \/ GuardDisarm
         \/ GuardRearm /\ ~Idle
         \/ GuardReset
         \/ UNCHANGED guardVars
  PROVE  IGuard'
<1> USE Positive DEF IGuard
<1>1. Idle /\ Quiet => Idle' /\ Quiet'
  BY RestStays
<1>2. /\ rtc \in RtcRec /\ past \in PastRec /\ rtc.panics \in Nat
      /\ past.streak \in Nat /\ past.loop \in Nat
  BY DEF GuardTypes, RtcRec, PastRec
<1>3. CASE GuardDisarm
  <2>1. rtc' \in RtcRec /\ ~rtc'.risk /\ rtc'.panics = rtc.panics /\ rtc'.valid = rtc.valid
    BY <1>2, <1>3 DEF GuardDisarm, Disarmed, RtcRec
  <2>2. /\ past' \in PastRec /\ past'.dropped /\ past'.blurred = past.blurred
        /\ past'.streak = past.streak /\ past'.loop = past.loop
    BY <1>2, <1>3 DEF GuardDisarm, PastRec
  <2>3. fresh' = fresh /\ reason' = reason
    BY <1>3 DEF GuardDisarm
  <2>4. GuardTypes'
    BY <2>1, <2>2, <2>3 DEF GuardTypes
  <2>5. Earned'
    BY <1>2, <2>1, <2>2, <2>3 DEF Earned, Stuck, GuardTypes
  <2>6. Stuck'
    <3>1. Idle /\ ~past.blurred /\ rtc.panics >= Threshold => Idle'
      <4>1. CASE Quiet
        BY <1>1, <4>1
      <4>2. CASE ~Quiet
        BY <4>2, RestIdle
      <4> QED
        BY <4>1, <4>2
    <3> QED
      BY <2>1, <2>2, <3>1 DEF Stuck
  <2>7. Ends'
    BY <2>1, <2>2, <2>3 DEF Ends
  <2> QED
    BY <1>1, <2>3, <2>4, <2>5, <2>6, <2>7
<1>4. CASE GuardRearm /\ ~Idle
  <2>1. rtc' \in RtcRec /\ rtc'.risk /\ rtc'.panics = rtc.panics /\ rtc'.valid = rtc.valid
    BY <1>2, <1>4 DEF GuardRearm, Armed, RtcRec
  <2>2. past' = past /\ fresh' = fresh /\ reason' = reason
    BY <1>4 DEF GuardRearm
  <2>3. ~fresh /\ (past.blurred \/ rtc.panics < Threshold)
    BY <1>2, <1>4 DEF Stuck
  <2>4. GuardTypes' /\ Earned' /\ Stuck'
    BY <1>2, <2>1, <2>2, <2>3 DEF GuardTypes, Earned, Stuck
  <2>5. Ends'
    BY <1>2, <1>4, <2>1, <2>2, <2>3 DEF Ends
  <2> QED
    BY <2>2, <2>3, <2>4, <2>5
<1>5. CASE GuardReset
  <2>1. rtc' \in RtcRec /\ ~rtc'.risk /\ rtc'.panics = 0 /\ rtc'.valid
    BY <1>5 DEF GuardReset, RtcRec
  <2>2. /\ past' \in PastRec /\ past'.dropped /\ ~past'.blurred
        /\ past'.streak = 0 /\ past'.loop = 0
    BY <1>2, <1>5 DEF GuardReset, PastRec
  <2>3. fresh' = fresh
    BY <1>5 DEF GuardReset
  <2>4. GuardTypes' /\ Earned' /\ Stuck' /\ Ends'
    BY <2>1, <2>2, <2>3 DEF GuardTypes, Earned, Stuck, Ends
  <2> QED
    BY <1>1, <2>3, <2>4
<1>6. CASE UNCHANGED guardVars
  <2>1. rtc' = rtc /\ past' = past /\ fresh' = fresh /\ reason' = reason
    BY <1>6 DEF guardVars
  <2>2. GuardTypes' /\ Earned'
    BY <2>1 DEF GuardTypes, Earned
  <2>3. Stuck'
    BY <2>1, RestIdle DEF Stuck
  <2>4. Ends'
    BY <1>1, <2>1 DEF Ends
  <2> QED
    BY <1>1, <2>1, <2>2, <2>3, <2>4
<1> QED
  BY <1>3, <1>4, <1>5, <1>6

LEMMA ResetGuards ==
  ASSUME IHost, IGuard, NEW why \in {"power", "panic", "other"}, ChipReset(why) PROVE IGuard'
<1> USE Positive DEF IGuard
<1>1. /\ rtc \in RtcRec /\ past \in PastRec /\ rtc.panics \in Nat
      /\ past.streak \in Nat /\ past.loop \in Nat
      /\ past.blurred \in BOOLEAN /\ rtc.risk \in BOOLEAN /\ fresh \in BOOLEAN
  BY DEF GuardTypes, RtcRec, PastRec
<1> DEFINE enumerating == Enumerating /\ ~lib.ext
           streak == IF why = "panic" THEN past.streak + 1
                     ELSE IF why = "other" /\ past.streak >= Threshold THEN past.streak ELSE 0
           loop == IF why = "panic" /\ enumerating /\ ~past.dropped THEN past.loop + 1 ELSE 0
           blurred == (past.blurred \/ (fresh /\ rtc.risk)) /\ why # "power"
<1>2. /\ rtc' = IF why = "power" THEN [valid |-> FALSE, panics |-> 0, risk |-> FALSE] ELSE rtc
      /\ reason' = why /\ fresh' = TRUE
      /\ past' = [NoPast EXCEPT !.streak = streak, !.loop = loop, !.blurred = blurred]
  BY DEF ChipReset, Reset
<1>3. streak \in Nat /\ loop \in Nat /\ blurred \in BOOLEAN
  BY <1>1
<1>4. loop > 0 => why = "panic" /\ loop = past.loop + 1 /\ ~past.dropped /\ ~Quiet
  BY DEF Enumerating, Quiet
<1>5. why = "panic" => streak = past.streak + 1
  OBVIOUS
<1>6. /\ why = "other" /\ past.streak >= Threshold => streak = past.streak
      /\ why # "power" /\ ~blurred => ~past.blurred /\ ~(fresh /\ rtc.risk)
  OBVIOUS
<1> HIDE DEF streak, loop, blurred
<1>7. /\ past' \in PastRec /\ past'.streak = streak /\ past'.loop = loop
      /\ past'.blurred = blurred /\ ~past'.dropped
  BY <1>2, <1>3 DEF PastRec, NoPast
<1>8. /\ rtc' \in RtcRec
      /\ why = "power" => ~rtc'.valid /\ rtc'.panics = 0 /\ ~rtc'.risk
      /\ why # "power" => rtc' = rtc
  BY <1>1, <1>2 DEF RtcRec
<1>9. Idle' /\ Quiet'
  <2>1. pc' = All("none") /\ cl' = All("off") /\ lib' = BootLib(lib.ext)
        /\ bus' = BootBus(lib.ext, Unpowered(bus))
    BY DEF ChipReset
  <2>2. lib'.ext = lib.ext /\ lib'.powered = lib.ext
    BY <2>1 DEF BootLib
  <2>3. ~lib.ext => bus' # "enum"
    BY <2>1 DEF BootBus, Unpowered
  <2> QED
    BY <2>1, <2>2, <2>3 DEF Idle, Quiet, All
<1>10. loop > 0 => ~fresh /\ past.loop < Threshold
  BY <1>1, <1>4 DEF Ends
<1>11. GuardTypes'
  <2>1. ~rtc'.valid => rtc'.panics = 0 /\ ~rtc'.risk /\ past'.loop = 0 /\ fresh'
    <3>1. ~rtc.valid => loop = 0
      BY <1>3, <1>10 DEF GuardTypes
    <3>2. why = "power" => loop = 0
      BY <1>3, <1>4
    <3> QED
      BY <1>2, <1>7, <1>8, <3>1, <3>2 DEF GuardTypes
  <2> QED
    BY <1>2, <1>7, <1>8, <2>1 DEF GuardTypes
<1>12. Earned'
  <2>1. CASE why = "power"
    BY <1>2, <1>7, <1>8, <2>1 DEF Earned
  <2>2. CASE why # "power" /\ ~blurred
    <3>1. ~past.blurred /\ ~(fresh /\ rtc.risk) /\ rtc' = rtc
      BY <1>6, <1>8, <2>2
    <3>2. rtc.risk /\ why = "panic" => rtc.panics + 1 <= streak
      BY <1>1, <1>5, <3>1 DEF Earned
    <3>3. ~rtc.risk /\ rtc.panics >= Threshold => rtc.panics <= streak
      <4>1. ASSUME ~rtc.risk, rtc.panics >= Threshold PROVE rtc.panics <= past.streak
        BY <1>1, <3>1, <4>1 DEF Earned
      <4>2. ASSUME ~rtc.risk, rtc.panics >= Threshold PROVE past.streak >= Threshold
        BY <1>1, <4>1, <4>2
      <4> QED
        BY <1>1, <1>5, <1>6, <2>2, <4>1, <4>2
    <3> QED
      BY <1>2, <1>7, <3>1, <3>2, <3>3 DEF Earned
  <2>3. CASE blurred
    BY <1>7, <2>3 DEF Earned
  <2> QED
    BY <1>3, <2>1, <2>2, <2>3
<1>13. Stuck'
  <2>1. CASE why = "power"
    BY <1>8, <2>1 DEF Stuck
  <2>2. CASE why # "power"
    BY <1>6, <1>7, <1>8, <1>9, <2>2 DEF Stuck
  <2> QED
    BY <2>1, <2>2
<1>14. Ends'
  <2>1. past'.loop <= Threshold /\ (past'.loop > 0 => reason' = "panic")
    BY <1>1, <1>2, <1>3, <1>4, <1>7, <1>10
  <2>2. ASSUME loop > 0 PROVE /\ rtc' = rtc /\ (rtc.risk => loop <= rtc.panics + 1)
                             /\ (~rtc.risk => rtc.panics >= Threshold)
    BY <1>1, <1>4, <1>8, <1>10, <2>2 DEF Ends
  <2>3. rtc'.panics \in Nat
    BY <1>8 DEF RtcRec
  <2> QED
    BY <1>2, <1>3, <1>7, <1>9, <2>1, <2>2, <2>3 DEF Ends
<1> QED
  BY <1>9, <1>11, <1>12, <1>13, <1>14

\* The invariant of the guard, over every reset, install and timer.
THEOREM GuardHolds == Spec => []IGuard
<1>1. Init => IGuard
  <2> SUFFICES ASSUME Init PROVE IGuard
    OBVIOUS
  <2>1. PICK e \in Externals, b \in {"empty", "plugged"} : lib = BootLib(e) /\ bus = BootBus(e, b)
    BY DEF Init
  <2>2. rtc = [valid |-> FALSE, panics |-> 0, risk |-> FALSE] /\ fresh = TRUE /\ past = NoPast
        /\ pc = All("none") /\ cl = All("off")
    BY DEF Init, GuardInit
  <2>3. GuardTypes
    BY <2>2 DEF GuardTypes, RtcRec, PastRec, NoPast
  <2>4. Idle
    BY <2>2 DEF Idle, All
  <2>5. Quiet
    BY <2>1 DEF Quiet, BootLib, BootBus
  <2>6. Earned /\ Stuck /\ Ends
    BY <2>2, <2>4, <2>5, Positive DEF Earned, Stuck, Ends, NoPast
  <2> QED
    BY <2>3, <2>4, <2>5, <2>6 DEF IGuard
<1>2. IHost /\ IGuard /\ [Next]_vars => IGuard'
  BY GuardMoves, InstallGuards, OthersGuard, ResetGuards
<1> QED
  BY <1>1, <1>2, HostHolds, PTL DEF Spec

\* The guard never counts more panics than there were in a row.
THEOREM CountIsEarned == Spec => []LatchEarned
<1>1. IGuard => LatchEarned
  BY DEF IGuard, Earned, LatchEarned
<1> QED
  BY <1>1, GuardHolds, PTL

\* No loop of panics in enumeration outlasts the threshold.
THEOREM LoopEnds == Spec => []CrashLoopEnds
<1>1. IGuard => CrashLoopEnds
  BY DEF IGuard, Ends, CrashLoopEnds
<1> QED
  BY <1>1, GuardHolds, PTL

\* A latched guard stays latched until it is cleared or power is lost.
THEOREM LatchStays == Spec => LatchSticks
<1>1. ASSUME IGuard, [Next]_vars, rtc.panics >= Threshold, ~past.blurred
      PROVE  rtc'.panics >= Threshold \/ GuardReset \/ reason' = "power"
  <2> USE <1>1, Positive
  <2>1. rtc \in RtcRec /\ rtc.panics \in Nat /\ rtc.valid /\ ~rtc.risk
    BY DEF IGuard, GuardTypes, Stuck, RtcRec
  <2>2. ASSUME NEW h \in Handles, InstallCall(h) PROVE rtc'.panics = rtc.panics
    <3>1. Checked \in RtcRec /\ Checked.panics = rtc.panics
      BY <2>1, CheckedIs DEF IGuard
    <3>2. rtc' = Checked
      BY <2>1, <2>2, <3>1 DEF InstallCall, InstallChecks, Latched
    <3> QED
      BY <3>1, <3>2
  <2>3. GuardDisarm \/ GuardRearm => rtc'.panics = rtc.panics
    BY <2>1 DEF GuardDisarm, GuardRearm, Disarmed, Armed, RtcRec
  <2>4. ASSUME NEW why \in {"power", "panic", "other"}, ChipReset(why)
        PROVE  rtc' = rtc \/ reason' = "power"
    BY <2>4 DEF ChipReset, Reset
  <2>5. UNCHANGED guardVars => rtc' = rtc
    BY DEF guardVars
  <2> QED
    BY <2>1, <2>2, <2>3, <2>4, <2>5, GuardMoves
<1>2. IGuard /\ [Next]_vars
      => [rtc.panics >= Threshold /\ ~past.blurred /\ ~past.blurred' =>
            rtc'.panics >= Threshold \/ GuardReset \/ reason' = "power"]_guardVars
  BY <1>1
<1> QED
  BY <1>2, GuardHolds, PTL DEF Spec, LatchSticks
=============================================================================
