--------------------------- MODULE EbpfThreadProofs ---------------------------
(***************************************************************************)
(* Proofs about EbpfMode for every number of threads, every configuration  *)
(* and every capacity: while no thread id is used twice, no running thread *)
(* is forgotten; and the daemon follows the names of the threads.          *)
(***************************************************************************)
EXTENDS EbpfModeProofs

\* What an event says of its thread: it has begun, or has even ended.
EventSound(e, st) ==
  st[e.tid] # "free" /\ (e.type = "EXIT" => st[e.tid] \in {"exiting", "gone"})
QueueSound(q, st) == \A i \in DOMAIN q : EventSound(q[i], st)

\* No id is used before its thread begins or again after it has ended, so that events, cache,
\* walk and the list of the dead speak of the thread that bears the id now.
EndInv ==
  /\ TypeOK
  /\ QueueSound(ring, status) /\ QueueSound(chan, status)
  /\ \A t \in Cached : status[t] # "free"
  /\ pc = "mark" => status[work.tid] # "free"
  /\ pc = "tids" \/ (pc = "mark" /\ work.ret = "tids") => \A t \in todo : status[t] # "free"
  /\ \A t \in dead : status[t] \in {"exiting", "gone"}

\* A thread that has begun does not become free, and one that has ended stays so.
Onward(st, st2) ==
  \A t \in Tids : /\ st[t] # "free" => st2[t] # "free"
                  /\ st[t] \in {"exiting", "gone"} => st2[t] \in {"exiting", "gone"}

\* What is in a queue stays true of its threads while they go on.
LEMMA QueueOnward ==
  ASSUME NEW q \in Seq(ProcEvent), NEW st, NEW st2, Onward(st, st2), QueueSound(q, st)
  PROVE  QueueSound(q, st2)
<1> SUFFICES ASSUME NEW i \in DOMAIN q PROVE EventSound(q[i], st2)
  BY DEF QueueSound
<1>1. q[i] \in ProcEvent
  OBVIOUS
<1>2. q[i].tid \in Tids /\ EventSound(q[i], st)
  BY <1>1 DEF ProcEvent, QueueSound
<1>3. QED  BY <1>2 DEF EventSound, Onward

\* A true event, submitted or dropped, leaves the queue true.
LEMMA SubmitSound ==
  ASSUME NEW r \in Seq(ProcEvent), NEW e \in ProcEvent, NEW st, QueueSound(r, st), EventSound(e, st)
  PROVE  QueueSound(Submit(e, r), st)
<1>1. CASE Submit(e, r) = r
  BY <1>1
<1>2. CASE Submit(e, r) = Append(r, e)
  <2>1. \A i \in DOMAIN Append(r, e) : Append(r, e)[i] = e \/ (i \in DOMAIN r /\ Append(r, e)[i] = r[i])
    OBVIOUS
  <2>2. QED  BY <1>2, <2>1 DEF QueueSound
<1>3. QED  BY <1>1, <1>2 DEF Submit

\* Every step of a thread takes it onward, and its program reports what is so.
LEMMA KernelSound ==
  ASSUME KernelTypeOK, ~ReuseTids, KernelNext, QueueSound(ring, status)
  PROVE  Onward(status, status') /\ QueueSound(ring', status')
<1> USE DEF KernelTypeOK
<1>1. ASSUME UNCHANGED status PROVE Onward(status, status')
  BY <1>1 DEF Onward
<1>3. ASSUME Onward(status, status') PROVE QueueSound(ring, status')
  BY <1>3, QueueOnward
<1>4. ASSUME NEW ty \in EventType \ {"EXIT"}, NEW t \in Tids, NEW p \in Tids, NEW c \in Names,
             status'[t] # "free"
      PROVE  Event(ty, t, p, c) \in ProcEvent /\ EventSound(Event(ty, t, p, c), status')
  BY <1>4, EventType0 DEF Event, EventSound
<1>5. ASSUME NEW t \in Tids, Spawn(t) PROVE Onward(status, status') /\ QueueSound(ring', status')
  <2>1. Onward(status, status') /\ ring' = ring
    BY <1>5 DEF Spawn, Born, Onward
  <2>2. QED  BY <1>3, <2>1
<1>6. ASSUME NEW t \in Tids, Exit(t) PROVE Onward(status, status') /\ QueueSound(ring', status')
  <2>1. status' = [status EXCEPT ![t] = "exiting"] /\ status[t] = "alive"
    BY <1>6 DEF Exit, Alive
  <2>2. Onward(status, status') /\ status'[t] = "exiting"
    BY <2>1 DEF Onward
  <2> DEFINE e == Event("EXIT", t, leader[t], NoComm)
  <2>3. e \in ProcEvent /\ EventSound(e, status')
    BY <2>2, EventType0 DEF EventType, Names, Event, EventSound
  <2>4. ring' = ring \/ ring' = Submit(e, ring)
    BY <1>6 DEF Exit, ExitProgram
  <2> HIDE DEF e
  <2>5. QED  BY <1>3, <2>2, <2>3, <2>4, SubmitSound
<1>7. ASSUME NEW t \in Tids, Reap(t) PROVE Onward(status, status') /\ QueueSound(ring', status')
  <2>1. status' = [status EXCEPT ![t] = "gone"] /\ status[t] = "exiting" /\ ring' = ring
    BY <1>7 DEF Reap
  <2>2. Onward(status, status')
    BY <2>1 DEF Onward
  <2>3. QED  BY <1>3, <2>1, <2>2
<1>8. ASSUME NEW t \in Tids, Drift(t) PROVE Onward(status, status') /\ QueueSound(ring', status')
  <2>1. UNCHANGED <<status, ring>>
    BY <1>8 DEF Drift
  <2>2. QED  BY <1>1, <1>3, <2>1
<1>9. ASSUME NEW t \in Tids, Input(t) PROVE Onward(status, status') /\ QueueSound(ring', status')
  <2>1. UNCHANGED status /\ status[t] # "free" /\ ring' = Submit(Event("INPUT", t, leader[t], NoComm), ring)
    BY <1>9 DEF Input, Alive
  <2>2. Event("INPUT", t, leader[t], NoComm) \in ProcEvent /\ EventSound(Event("INPUT", t, leader[t], NoComm), status')
    BY <1>4, <2>1 DEF EventType, Names
  <2>3. QED  BY <1>1, <1>3, <2>1, <2>2, SubmitSound
<1>10. ASSUME NEW p \in Tids, NEW c \in Tids, Clone(p, c)
       PROVE  Onward(status, status') /\ QueueSound(ring', status')
  <2>1. Onward(status, status') /\ status'[c] # "free"
    BY <1>10 DEF Clone, Born, Onward
  <2> DEFINE e == Event("FORK", c, leader[p], NoComm)
  <2>2. e \in ProcEvent /\ EventSound(e, status')
    BY <1>4, <2>1 DEF EventType, Names
  <2>3. ring' = ring \/ ring' = Submit(e, ring)
    BY <1>10 DEF Clone, ForkProgram
  <2> HIDE DEF e
  <2>4. QED  BY <1>3, <2>1, <2>2, <2>3, SubmitSound
<1>11. ASSUME NEW w \in Tids, NEW t \in Tids, NEW c \in Comms, Alive(w), UNCHANGED status,
              RenameProgram(w, t, c)
       PROVE  Onward(status, status') /\ QueueSound(ring', status')
  <2> DEFINE e == Event("RENAME", w, leader[w], c)
  <2>1. e \in ProcEvent /\ EventSound(e, status')
    BY <1>4, <1>11 DEF EventType, Names, Alive
  <2>2. ring' = ring \/ ring' = Submit(e, ring)
    BY <1>11 DEF RenameProgram
  <2> HIDE DEF e
  <2>3. QED  BY <1>1, <1>3, <1>11, <2>1, <2>2, SubmitSound
<1>12. ASSUME NEW w \in Tids, NEW t \in Tids, NEW c \in Comms, Rename(w, t, c)
       PROVE  Onward(status, status') /\ QueueSound(ring', status')
  BY <1>11, <1>12 DEF Rename
<1>13. ASSUME NEW p \in Tids, NEW n \in ProcessNames, NameProcess(p, n[1], n[2])
       PROVE  Onward(status, status') /\ QueueSound(ring', status')
  BY <1>11, <1>13, ProcessNamesType DEF NameProcess
<1>14. ASSUME NEW p \in Tids, NEW n \in ProcessNames, Exec(p, n[1], n[2])
       PROVE  Onward(status, status') /\ QueueSound(ring', status')
  <2> DEFINE named == Event("RENAME", p, p, n[2])
             execed == Event("EXEC", p, p, n[2])
  <2>1. UNCHANGED status /\ status'[p] # "free"
    BY <1>14 DEF Exec, Alive
  <2>2. named \in ProcEvent /\ EventSound(named, status')
    BY <1>4, <2>1, ProcessNamesType DEF EventType, Names
  <2>3. execed \in ProcEvent /\ EventSound(execed, status')
    BY <1>4, <2>1, ProcessNamesType DEF EventType, Names
  <2>4. ring' = ring \/ ring' = Submit(execed, Submit(named, ring))
    BY <1>14 DEF Exec
  <2> HIDE DEF named, execed
  <2>5. Submit(named, ring) \in Seq(ProcEvent) /\ QueueSound(Submit(named, ring), status')
    BY <1>1, <1>3, <2>1, <2>2, SubmitType, SubmitSound
  <2>6. QED  BY <1>1, <1>3, <2>1, <2>3, <2>4, <2>5, SubmitSound
<1>15. QED
  BY <1>5, <1>6, <1>7, <1>8, <1>9, <1>10, <1>12, <1>13, <1>14 DEF KernelNext

\* task_apply takes an entry away only for a purge or of a thread that is not there.
LEMMA TaskApplyForgets ==
  ASSUME TypeOK, NEW t \in Tids, NEW p, NEW g, NEW n, NEW ret \in {"recv", "tids"},
         NEW purge \in BOOLEAN, TaskApply(t, p, g, n, ret, purge)
  PROVE  /\ \A u \in Cached : cache'[u] = NoEntry => u = t /\ (purge \/ ~Alive(t))
         /\ pc' = "mark" => work'.tid = t /\ work'.ret = ret
<1> DEFINE result == ThreadAffinity(g, RuleName(g, n, cfg), cfg)
           protected == Protected(t, result)
           refused == result = {} \/ (~protected /\ ~Exists(t))
<1>1. CASE cache' = cache /\ pc' = ret
  BY <1>1 DEF Cached
<1>2. CASE /\ refused
           /\ cache' = IF purge \/ result # {} THEN [cache EXCEPT ![t] = NoEntry] ELSE cache
           /\ pc' = ret
  <2>1. purge \/ result # {} => purge \/ ~Alive(t)
    BY <1>2 DEF Exists, Alive
  <2>2. cache \in [Tids -> TaskEntry \cup {NoEntry}]
    BY DEF TypeOK
  <2> HIDE DEF result, refused, protected
  <2>3. QED  BY <1>2, <2>1, <2>2 DEF Cached
<1>3. ASSUME NEW r \in result, cache' = cache, pc' = "mark",
             work' = [tid |-> t, entry |-> Entry(p, g, r), ret |-> ret]
      PROVE  /\ \A u \in Cached : cache'[u] = NoEntry => u = t /\ (purge \/ ~Alive(t))
             /\ pc' = "mark" => work'.tid = t /\ work'.ret = ret
  BY <1>3 DEF Cached
<1> HIDE DEF result, refused, protected
<1>4. QED  BY <1>1, <1>2, <1>3 DEF TaskApply, result, refused, protected

\* In the first state nothing is queued, cached or dead.
LEMMA EndInit == Init => EndInv
<1> SUFFICES ASSUME Init PROVE EndInv
  OBVIOUS
<1>1. Cached = {}
  BY DEF Init, Cached, EmptyCache
<1>2. QED  BY <1>1, InitType DEF EndInv, Init, KernelInit, QueueSound

\* A step keeps the invariant and forgets no running thread, but for a new scan or an exec.
Remembers ==
  \A t \in Cached : cache'[t] = NoEntry /\ Alive(t) =>
    pc = "scan" \/ (pc = "recv" /\ Head(chan).type = "EXEC")

\* EndInv is inductive, and each step from it remembers the running threads.
LEMMA EndStep == ASSUME ~ReuseTids, EndInv, [Next]_vars PROVE EndInv' /\ Remembers
<1> USE DEF threadVars, kernelVars, loaderVars, walkVars, mainVars, historyVars
<1>0. TypeOK /\ TypeOK'
  BY StepType DEF EndInv
<1>c. cache \in [Tids -> TaskEntry \cup {NoEntry}] /\ chan \in Seq(ProcEvent) /\ ring \in Seq(ProcEvent)
  BY <1>0 DEF TypeOK, KernelTypeOK
<1>r. ASSUME cache' = cache PROVE Remembers
  BY <1>r DEF Remembers, Cached
<1>1. CASE \/ SwapFlag \/ ReadConfig \/ WhitelistClear \/ WhitelistFill
           \/ ClearDone \/ WalkDone \/ TidsDone \/ Drained \/ CheckSkip \/ PurgeDone
           \/ (\E c \in Configs : Publish(c)) \/ Announce \/ UNCHANGED vars
           \/ (\E t \in Tids : ClearOne(t) \/ PurgeOne(t))
  <2>1. /\ UNCHANGED <<status, ring, chan, cache, work, dead>> /\ todo' \subseteq todo
        /\ pc' = pc \/ pc' \notin {"mark", "tids"}
    BY <1>1 DEF SwapFlag, ReadConfig, WhitelistClear, WhitelistFill, ClearDone, WalkDone, TidsDone,
                Drained, CheckSkip, PurgeDone, Publish, Announce, ClearOne, PurgeOne, vars
  <2>2. QED  BY <1>0, <1>r, <2>1 DEF EndInv, QueueSound, EventSound, Cached
<1>2. CASE ScanStart
  <2>1. Cached' = {} /\ UNCHANGED <<status, ring, chan, dead>> /\ pc' = "clear" /\ pc = "scan"
    BY <1>2 DEF ScanStart, Cached, EmptyCache
  <2>2. QED  BY <1>0, <2>1 DEF EndInv, QueueSound, EventSound, Remembers
<1>3. ASSUME NEW t \in Tids, WalkProc(t) PROVE EndInv' /\ Remembers
  <2>1. /\ UNCHANGED <<status, ring, chan, cache, work, dead>> /\ pc = "walk"
        /\ pc' = "walk" \/ (pc' = "tids" /\ todo' = Threads(t))
    BY <1>3 DEF WalkProc
  <2>2. \A u \in Threads(t) : status[u] # "free"
    BY DEF Threads, Exists
  <2>3. QED  BY <1>0, <1>r, <2>1, <2>2 DEF EndInv, QueueSound, EventSound, Cached
<1>4. ASSUME NEW t \in Tids, ScanTid(t) PROVE EndInv' /\ Remembers
  <2>1. PICK n : TaskApply(t, cur.pid, cur.pkg, n, "tids", FALSE)
    BY <1>4 DEF ScanTid
  <2>2. pc = "tids" /\ UNCHANGED <<status, ring, chan, dead>> /\ todo' \subseteq todo /\ t \in todo
    BY <1>4 DEF ScanTid
  <2>3. Cached' \subseteq Cached /\ pc' \in {"tids", "mark"}
    BY <1>0, <2>1, TaskApplyKeeps
  <2>4. /\ \A u \in Cached : cache'[u] = NoEntry => u = t /\ ~Alive(t)
        /\ pc' = "mark" => work'.tid = t
    BY <1>0, <2>1, TaskApplyForgets
  <2>5. QED  BY <1>0, <2>2, <2>3, <2>4 DEF EndInv, QueueSound, EventSound, Remembers
<1>5. CASE Mark
  <2>1. /\ pc = "mark" /\ UNCHANGED <<status, ring, chan, dead, todo>> /\ pc' = work.ret
        /\ cache' = [cache EXCEPT ![work.tid] = work.entry]
    BY <1>5 DEF Mark
  <2>2. work.entry # NoEntry /\ work.ret \in {"recv", "tids"}
    BY <1>0, <2>1, ModeAssumption DEF TypeOK
  <2>3. Cached' \subseteq Cached \cup {work.tid} /\ Cached \subseteq Cached'
    BY <1>c, <2>1, <2>2 DEF Cached
  <2>4. QED  BY <1>0, <2>1, <2>2, <2>3 DEF EndInv, QueueSound, EventSound, Remembers, Cached
<1>6. ASSUME chan # <<>>, chan' = Tail(chan), UNCHANGED <<status, ring, dead>>, Cached' \subseteq Cached,
             pc' = "recv" \/ (pc' = "mark" /\ work'.tid = Head(chan).tid /\ work'.ret = "recv")
      PROVE  EndInv' /\ EventSound(Head(chan), status)
  <2>1. EventSound(Head(chan), status)
    BY <1>c, <1>6 DEF EndInv, QueueSound
  <2>2. \A i \in DOMAIN Tail(chan) : Tail(chan)[i] = chan[i + 1] /\ i + 1 \in DOMAIN chan
    BY <1>c, <1>6
  <2>3. QueueSound(chan', status')
    BY <1>6, <2>2 DEF EndInv, QueueSound
  <2>4. QED  BY <1>0, <1>6, <2>1, <2>3 DEF EndInv, EventSound
<1>7. CASE DispatchExit
  <2> DEFINE e == Head(chan)
  <2>1. /\ chan # <<>> /\ chan' = Tail(chan) /\ UNCHANGED <<status, ring, dead>> /\ pc' = "recv"
        /\ cache' = [cache EXCEPT ![e.tid] = NoEntry] /\ e.type = "EXIT"
    BY <1>7 DEF DispatchExit, Receive
  <2>2. Cached' \subseteq Cached
    BY <1>c, <2>1 DEF Cached
  <2>3. EndInv' /\ EventSound(e, status)
    BY <1>6, <2>1, <2>2
  <2> HIDE DEF e
  <2>4. \A t \in Cached : cache'[t] = NoEntry => t = e.tid
    BY <1>c, <2>1 DEF Cached
  <2>5. QED  BY <2>1, <2>3, <2>4 DEF EventSound, Remembers, Alive
<1>8. CASE DispatchOther
  <2>1. /\ chan # <<>> /\ chan' = Tail(chan) /\ UNCHANGED <<status, ring, dead, cache>> /\ pc' = "recv"
    BY <1>8 DEF DispatchOther, Receive
  <2>2. QED  BY <1>6, <1>r, <2>1 DEF Cached
<1>9. CASE DispatchNaming
  <2> DEFINE e == Head(chan)
             pkgs == PkgLookupComm(e.pid, e.comm)
             purge == e.type = "EXEC"
  <2>1. /\ chan # <<>> /\ chan' = Tail(chan) /\ UNCHANGED <<status, ring, dead>> /\ pc = "recv"
    BY <1>9 DEF DispatchNaming, Receive
  <2>2. e.tid \in Tids
    BY <1>0, <2>1, HeadType DEF ProcEvent
  <2>3. \/ \E g \in pkgs : TaskApply(e.tid, e.pid, g, e.comm, "recv", purge)
        \/ /\ cache' = IF purge THEN [cache EXCEPT ![e.tid] = NoEntry] ELSE cache
           /\ pc' = pc
    BY <1>9 DEF DispatchNaming
  <2>0. purge \in BOOLEAN
    OBVIOUS
  <2> HIDE DEF e, pkgs, purge
  <2>4. /\ Cached' \subseteq Cached
        /\ pc' = "recv" \/ (pc' = "mark" /\ work'.tid = e.tid /\ work'.ret = "recv")
        /\ \A u \in Cached : cache'[u] = NoEntry => purge \/ ~Alive(u)
    <3>1. ASSUME NEW g \in pkgs, TaskApply(e.tid, e.pid, g, e.comm, "recv", purge) PROVE <2>4!:
      BY <1>0, <2>0, <2>2, <3>1, TaskApplyKeeps, TaskApplyForgets
    <3>2. CASE cache' = (IF purge THEN [cache EXCEPT ![e.tid] = NoEntry] ELSE cache) /\ pc' = pc
      BY <1>c, <2>1, <2>2, <3>2 DEF Cached
    <3>3. QED  BY <2>3, <3>1, <3>2
  <2>5. QED  BY <1>6, <2>1, <2>4 DEF Remembers, e, purge
<1>10. CASE CheckStart
  <2>1. UNCHANGED <<status, ring, chan, cache, work>> /\ dead' = {} /\ pc' = "check"
    BY <1>10 DEF CheckStart
  <2>2. QED  BY <1>0, <1>r, <2>1 DEF EndInv, QueueSound, EventSound, Cached
<1>11. ASSUME NEW t \in Tids, CheckOne(t) PROVE EndInv' /\ Remembers
  <2>1. /\ UNCHANGED <<status, ring, chan, cache, work, pc>> /\ pc = "check" /\ t \in Cached
        /\ dead' = dead \/ (dead' = dead \cup {t} /\ ~Exists(t))
    BY <1>0, <1>11 DEF CheckOne, TypeOK
  <2>2. status[t] # "free" /\ (~Exists(t) => status[t] = "gone")
    BY <1>0, <2>1 DEF EndInv, Exists, TypeOK, KernelTypeOK
  <2>3. QED  BY <1>0, <1>r, <2>1, <2>2 DEF EndInv, QueueSound, EventSound, Cached
<1>12. CASE CheckDone
  <2>1. /\ UNCHANGED <<status, ring, chan, work>> /\ dead' = {} /\ pc' = "purge"
        /\ cache' = [t \in Tids |-> IF t \in dead THEN NoEntry ELSE cache[t]]
    BY <1>12 DEF CheckDone
  <2>2. Cached' \subseteq Cached /\ \A t \in Cached : cache'[t] = NoEntry => t \in dead
    BY <1>c, <2>1 DEF Cached
  <2>3. QED  BY <1>0, <2>1, <2>2 DEF EndInv, QueueSound, EventSound, Remembers, Alive
<1>13. CASE Kernel
  <2>1. KernelNext /\ UNCHANGED <<chan, cache, pc, work, todo, dead>>
    BY <1>13 DEF Kernel
  <2>2. Onward(status, status') /\ QueueSound(ring', status')
    BY <1>0, <2>1, KernelSound DEF EndInv, TypeOK
  <2>3. QueueSound(chan', status')
    BY <1>c, <2>1, <2>2, QueueOnward DEF EndInv
  <2>4. pc = "mark" => work.tid \in Tids
    BY <1>0 DEF TypeOK
  <2>5. todo \subseteq Tids /\ dead \subseteq Tids
    BY <1>0 DEF TypeOK
  <2>6. QED  BY <1>0, <1>r, <2>1, <2>2, <2>3, <2>4, <2>5 DEF EndInv, Onward, Cached
<1>14. CASE Read
  <2>1. /\ UNCHANGED <<status, cache, pc, work, todo, dead>> /\ ring # <<>>
        /\ ring' = Tail(ring) /\ chan' = Append(chan, Head(ring))
    BY <1>14 DEF Read
  <2>2. \A i \in DOMAIN ring' : ring'[i] = ring[i + 1] /\ i + 1 \in DOMAIN ring
    BY <1>c, <2>1
  <2>3. \A i \in DOMAIN chan' : chan'[i] = ring[1] \/ (i \in DOMAIN chan /\ chan'[i] = chan[i])
    BY <1>c, <2>1
  <2>4. 1 \in DOMAIN ring
    BY <1>c, <2>1
  <2>5. QueueSound(ring', status') /\ QueueSound(chan', status')
    BY <2>1, <2>2, <2>3, <2>4 DEF EndInv, QueueSound
  <2>6. QED  BY <1>0, <1>r, <2>1, <2>5 DEF EndInv, Cached
<1>15. QED
  BY <1>1, <1>2, <1>3, <1>4, <1>5, <1>7, <1>8, <1>9, <1>10, <1>11, <1>12, <1>13, <1>14
  DEF Next, MainNext

\* While no thread id is used twice, the daemon never forgets a running thread: an entry leaves
\* the cache in a new scan, by an exec, or when its thread has ended.
THEOREM RunningRemembered == ~ReuseTids /\ Spec => RunningNotForgotten
<1> SUFFICES ASSUME ~ReuseTids PROVE Spec => RunningNotForgotten
  OBVIOUS
<1>1. EndInv /\ [Next]_vars => EndInv' /\ [Remembers]_vars
  BY EndStep
<1>2. QED  BY <1>1, EndInit, PTL DEF Spec, RunningNotForgotten, Remembers

-----------------------------------------------------------------------------
(* Names are followed: NamesFollowed *)

\* An event at the end of a queue is the last to name its thread, and changes nothing for others.
LEMMA AppendNames ==
  ASSUME NEW q \in Seq(ProcEvent), NEW e \in ProcEvent, NEW t
  PROVE  /\ Naming(e, t) => LastIn(Append(q, e), t, e.comm)
         /\ ~Naming(e, t) => /\ NoneIn(q, t) => NoneIn(Append(q, e), t)
                             /\ \A n : LastIn(q, t, n) => LastIn(Append(q, e), t, n)
<1>1. /\ Len(q) + 1 \in DOMAIN Append(q, e) /\ Append(q, e)[Len(q) + 1] = e
      /\ \A j \in DOMAIN Append(q, e) : ~(j > Len(q) + 1)
      /\ \A i \in DOMAIN Append(q, e) : Append(q, e)[i] = e \/ (i \in DOMAIN q /\ Append(q, e)[i] = q[i])
      /\ \A i \in DOMAIN q : i \in DOMAIN Append(q, e) /\ Append(q, e)[i] = q[i]
  OBVIOUS
<1> HIDE DEF Naming
<1>2. Naming(e, t) => LastIn(Append(q, e), t, e.comm)
  BY <1>1 DEF LastIn
<1>3. ~Naming(e, t) /\ NoneIn(q, t) => NoneIn(Append(q, e), t)
  BY <1>1 DEF NoneIn
<1>4. ASSUME NEW n, ~Naming(e, t), LastIn(q, t, n) PROVE LastIn(Append(q, e), t, n)
  BY <1>1, <1>4 DEF LastIn
<1>5. QED  BY <1>2, <1>3, <1>4

\* submit_event, of an event that names another thread, leaves what is said of this one.
LEMMA SubmitOther ==
  ASSUME NEW r \in Seq(ProcEvent), NEW e \in ProcEvent, NEW t, ~Naming(e, t)
  PROVE  /\ \A n : LastIn(r, t, n) => LastIn(Submit(e, r), t, n)
         /\ NoneIn(r, t) => NoneIn(Submit(e, r), t)
BY AppendNames DEF Submit

\* One that names it is the last to do so, if it finds room or says nothing new.
LEMMA SubmitNamed ==
  ASSUME NEW r \in Seq(ProcEvent), NEW e \in ProcEvent, NEW t, Naming(e, t),
         Fits(r) \/ LastIn(r, t, e.comm)
  PROVE  LastIn(Submit(e, r), t, e.comm)
BY AppendNames DEF Submit

\* What the kernel side does about the name of a thread: nothing, or its last event tells
\* it, or it is missed.
NameTold(t) ==
  t \in missed' \/ ~Alive(t)' \/ LastIn(ring', t, comm'[t])
    \/ /\ t \notin missed /\ Alive(t) /\ comm'[t] = comm[t]
       /\ \A n : LastIn(ring, t, n) => LastIn(ring', t, n)
       /\ NoneIn(ring, t) => NoneIn(ring', t)

\* The program at task_rename, run by the thread w, when the thread t takes the name c.
LEMMA RenameTold ==
  ASSUME KernelTypeOK, NEW w \in Tids, NEW t \in Tids, NEW c \in Comms,
         RenameProgram(w, t, c), comm' = [comm EXCEPT ![t] = c], UNCHANGED status
  PROVE  \A u \in Tids : NameTold(u)
<1> SUFFICES ASSUME NEW u \in Tids, u \notin missed', Alive(u)' PROVE NameTold(u)
  BY DEF NameTold
<1> DEFINE e == Event("RENAME", w, leader[w], c)
           told == Reported(w, c) /\ Fits(ring)
<1>1. e \in ProcEvent /\ e.tid = w /\ e.type = "RENAME" /\ e.comm = c
  BY EventType0 DEF KernelTypeOK, EventType, Names, Event
<1>2. ring' = (IF Reported(w, c) THEN Submit(e, ring) ELSE ring)
  BY DEF RenameProgram
<1>3. missed' = IF told /\ w = t THEN missed \ {t}
                ELSE missed \cup {t} \cup (IF told THEN {w} ELSE {})
  BY DEF RenameProgram
<1>4. Alive(u) /\ ring \in Seq(ProcEvent) /\ comm \in [Tids -> Comms]
  BY DEF Alive, KernelTypeOK
<1> HIDE DEF e
<1>5. CASE u = t
  <2>1. told /\ w = t
    BY <1>3, <1>5 DEF KernelTypeOK
  <2>2. LastIn(Submit(e, ring), t, c)
    BY <1>1, <1>4, <2>1, SubmitNamed DEF Naming
  <2>3. QED  BY <1>2, <1>4, <1>5, <2>1, <2>2 DEF NameTold
<1>6. CASE u # t
  <2>1. u \notin missed /\ comm'[u] = comm[u]
    BY <1>3, <1>4, <1>6
  <2>2. CASE told
    <3>1. u # w
      BY <1>3, <1>6, <2>2
    <3>2. ~Naming(e, u)
      BY <1>1, <3>1 DEF Naming
    <3>3. ring' = Submit(e, ring)
      BY <1>2, <2>2
    <3>4. QED  BY <1>1, <1>4, <2>1, <3>2, <3>3, SubmitOther DEF NameTold
  <2>3. CASE ~told
    <3>1. ring' = ring
      BY <1>2, <2>3 DEF Submit
    <3>2. QED  BY <1>4, <2>1, <3>1 DEF NameTold
  <2>4. QED  BY <2>2, <2>3
<1>7. QED  BY <1>5, <1>6

\* Every step of the system does one of these for every thread.
LEMMA KernelNamesTold ==
  ASSUME KernelTypeOK, KernelNext
  PROVE  \A u \in Tids : NameTold(u)
<1>k. ring \in Seq(ProcEvent) /\ comm \in [Tids -> Comms] /\ leader \in [Tids -> Tids]
      /\ status \in [Tids -> {"free", "alive", "exiting", "gone"}]
  BY DEF KernelTypeOK
<1>a. ASSUME NEW e \in ProcEvent, e.type \notin {"RENAME", "EXEC"},
             ring' = ring \/ ring' = Submit(e, ring),
             NEW t \in Tids,
             \A u \in Tids \ {t} : comm'[u] = comm[u] /\ (Alive(u)' => Alive(u)),
             missed \subseteq missed',
             t \in missed' \/ ~Alive(t)' \/ (Alive(t) /\ comm'[t] = comm[t])
      PROVE  \A u \in Tids : NameTold(u)
  <2>1. \A u : ~Naming(e, u)
    BY <1>a DEF Naming
  <2>2. \A u : /\ \A n : LastIn(ring, u, n) => LastIn(ring', u, n)
               /\ NoneIn(ring, u) => NoneIn(ring', u)
    BY <1>k, <1>a, <2>1, SubmitOther
  <2>3. QED  BY <1>a, <2>2 DEF NameTold
<1>b. ASSUME NEW ty \in EventType, NEW t \in Tids, NEW p \in Tids
      PROVE  Event(ty, t, p, NoComm) \in ProcEvent /\ Event(ty, t, p, NoComm).type = ty
  BY EventType0 DEF Event, Names
<1>1. ASSUME NEW t \in Tids, Spawn(t) \/ Reap(t) \/ Drift(t) PROVE \A u \in Tids : NameTold(u)
  <2>1. /\ ring' = ring /\ missed \subseteq missed'
        /\ \A u \in Tids \ {t} : comm'[u] = comm[u] /\ (Alive(u)' => Alive(u))
        /\ t \in missed' \/ ~Alive(t)' \/ (Alive(t) /\ comm'[t] = comm[t])
    BY <1>1, <1>k DEF Spawn, Born, Reap, Drift, Alive
  <2>2. QED  BY <1>a, <1>b, <2>1 DEF EventType
<1>2. ASSUME NEW t \in Tids, Exit(t) PROVE \A u \in Tids : NameTold(u)
  <2> DEFINE e == Event("EXIT", t, leader[t], NoComm)
  <2>1. /\ ring' = ring \/ ring' = Submit(e, ring)
        /\ comm' = comm /\ missed' = missed /\ status' = [status EXCEPT ![t] = "exiting"]
    BY <1>2 DEF Exit, ExitProgram
  <2>2. e \in ProcEvent /\ e.type \notin {"RENAME", "EXEC"}
    BY <1>b, <1>k DEF EventType
  <2> HIDE DEF e
  <2>3. /\ \A u \in Tids \ {t} : comm'[u] = comm[u] /\ (Alive(u)' => Alive(u))
        /\ ~Alive(t)'
    BY <1>k, <2>1 DEF Alive
  <2>4. QED  BY <1>a, <2>1, <2>2, <2>3
<1>3. ASSUME NEW t \in Tids, Input(t) PROVE \A u \in Tids : NameTold(u)
  <2> DEFINE e == Event("INPUT", t, leader[t], NoComm)
  <2>1. ring' = Submit(e, ring) /\ comm' = comm /\ missed' = missed /\ status' = status /\ Alive(t)
    BY <1>3 DEF Input
  <2>2. e \in ProcEvent /\ e.type \notin {"RENAME", "EXEC"}
    BY <1>b, <1>k DEF EventType
  <2> HIDE DEF e
  <2>3. \A u \in Tids : comm'[u] = comm[u] /\ (Alive(u)' => Alive(u))
    BY <2>1 DEF Alive
  <2>4. QED  BY <1>a, <2>1, <2>2, <2>3
<1>4. ASSUME NEW p \in Tids, NEW c \in Tids, Clone(p, c) PROVE \A u \in Tids : NameTold(u)
  <2> DEFINE e == Event("FORK", c, leader[p], NoComm)
  <2>1. ring' = ring \/ ring' = Submit(e, ring)
    BY <1>4 DEF Clone, ForkProgram
  <2>2. e \in ProcEvent /\ e.type \notin {"RENAME", "EXEC"}
    BY <1>b, <1>k DEF EventType
  <2> HIDE DEF e
  <2>3. /\ \A u \in Tids \ {c} : comm'[u] = comm[u] /\ (Alive(u)' => Alive(u))
        /\ missed \subseteq missed' /\ c \in missed'
    BY <1>4, <1>k DEF Clone, Born, Alive
  <2>4. QED  BY <1>a, <2>1, <2>2, <2>3
<1>5. ASSUME NEW w \in Tids, NEW t \in Tids, NEW c \in Comms, Rename(w, t, c)
      PROVE  \A u \in Tids : NameTold(u)
  BY <1>5, RenameTold DEF Rename
<1>6. ASSUME NEW p \in Tids, NEW n \in ProcessNames, NameProcess(p, n[1], n[2])
      PROVE  \A u \in Tids : NameTold(u)
  BY <1>6, RenameTold, ProcessNamesType DEF NameProcess
<1>7. ASSUME NEW p \in Tids, NEW n \in ProcessNames, Exec(p, n[1], n[2])
      PROVE  \A u \in Tids : NameTold(u)
  <2> DEFINE c == n[2]
             named == Event("RENAME", p, p, c)
             execed == Event("EXEC", p, p, c)
             once == Submit(named, ring)
             told == Reported(p, c) /\ Fits(ring)
  <2>1. /\ named \in ProcEvent /\ named.tid = p /\ named.type = "RENAME" /\ named.comm = c
        /\ execed \in ProcEvent /\ execed.tid = p /\ execed.type = "EXEC" /\ execed.comm = c
    BY EventType0, ProcessNamesType DEF EventType, Names, Event
  <2>2. /\ comm' = [comm EXCEPT ![p] = c] /\ status' = status
        /\ ring' = IF Reported(p, c) THEN Submit(execed, once) ELSE ring
        /\ missed' = IF told THEN missed \ {p} ELSE missed \cup {p}
    BY <1>7 DEF Exec
  <2>3. once \in Seq(ProcEvent)
    BY <1>k, <2>1, SubmitType
  <2> HIDE DEF c, named, execed
  <2>4. ASSUME p \notin missed' PROVE LastIn(ring', p, comm'[p])
    <3>1. told
      BY <2>2, <2>4
    <3>2. LastIn(once, p, c)
      BY <1>k, <2>1, <3>1, SubmitNamed DEF Naming
    <3> HIDE DEF once
    <3>3. LastIn(Submit(execed, once), p, c)
      BY <2>1, <2>3, <3>2, SubmitNamed DEF Naming
    <3>4. QED  BY <1>k, <2>2, <3>1, <3>3
  <2>5. ASSUME NEW u \in Tids \ {p}
        PROVE  /\ \A m : LastIn(ring, u, m) => LastIn(ring', u, m)
               /\ NoneIn(ring, u) => NoneIn(ring', u)
    <3>1. ~Naming(named, u) /\ ~Naming(execed, u)
      BY <2>1, <2>5 DEF Naming
    <3>2. /\ \A m : LastIn(ring, u, m) => LastIn(once, u, m)
          /\ NoneIn(ring, u) => NoneIn(once, u)
      BY <1>k, <2>1, <3>1, SubmitOther
    <3> HIDE DEF once
    <3>3. /\ \A m : LastIn(once, u, m) => LastIn(Submit(execed, once), u, m)
          /\ NoneIn(once, u) => NoneIn(Submit(execed, once), u)
      BY <2>1, <2>3, <3>1, SubmitOther
    <3>4. QED  BY <2>2, <3>2, <3>3
  <2>6. \A u \in Tids \ {p} : comm'[u] = comm[u] /\ (Alive(u)' => Alive(u)) /\ (u \in missed => u \in missed')
    BY <1>k, <2>2 DEF Alive
  <2>7. QED  BY <2>4, <2>5, <2>6 DEF NameTold
<1>8. QED  BY <1>1, <1>2, <1>3, <1>4, <1>5, <1>6, <1>7 DEF KernelNext

\* What the rules give at all, they give to a package of the configuration.
LEMMA RuledKnown ==
  ASSUME NEW g, NEW n
  PROVE  Ruled(g, n) # {} <=> g \in CfgPkgs(cfg)
<1> DEFINE name == RuleName(g, n, cfg)
           matched == {r \in cfg : r.pkg = g /\ r.isThread /\ name \in r.comms}
           pkgRules == {r \in cfg : r.pkg = g /\ ~r.isThread}
           used == IF matched # {} THEN matched ELSE pkgRules
<1> HIDE DEF name
<1>1. CASE used # {}
  <2>1. Ruled(g, n) # {}
    BY <1>1 DEF Ruled, ThreadAffinity, name
  <2>2. g \in CfgPkgs(cfg)
    BY <1>1 DEF CfgPkgs
  <2>3. QED  BY <2>1, <2>2
<1>2. CASE used = {}
  <2>1. Ruled(g, n) = {[cpus |-> Cpus, isThread |-> FALSE] : p \in {g} \cap HasThreadRules(cfg)}
    BY <1>2 DEF Ruled, ThreadAffinity, name
  <2>2. Ruled(g, n) # {} <=> g \in HasThreadRules(cfg)
    BY <2>1
  <2>3. g \in HasThreadRules(cfg) <=> g \in CfgPkgs(cfg)
    BY <1>2 DEF HasThreadRules, CfgPkgs
  <2>4. QED  BY <2>2, <2>3
<1>3. QED  BY <1>1, <1>2

\* task_apply, of a living thread of a package with rules, by its present name: either its
\* entry stays because a thread rule protects it, or the new one is in hand.
LEMMA TaskApplyFollows ==
  ASSUME TypeOK, NEW t \in Tids, NEW p \in Tids, NEW g \in CfgPkgs(cfg), NEW n \in Names,
         NEW ret \in {"recv", "tids"}, NEW purge \in BOOLEAN, TaskApply(t, p, g, n, ret, purge), Alive(t)
  PROVE  \/ pc' = ret /\ cache' = cache /\ Follows(cache[t], n, kept'[t])
         \/ pc' = "mark" /\ work'.tid = t /\ cache' = cache /\ Follows(work'.entry, n, kept'[t])
<1> DEFINE protected == Protected(t, Ruled(g, n))
           refused == Ruled(g, n) = {} \/ (~protected /\ ~Exists(t))
<1>1. ~refused
  BY RuledKnown DEF Alive, Exists
<1>2. CASE protected /\ pc' = ret /\ cache' = cache /\ kept' = [kept EXCEPT ![t] = g]
  <2>1. kept'[t] = g
    BY <1>2 DEF TypeOK
  <2>2. QED  BY <1>2, <2>1 DEF Follows, Protected
<1>3. ASSUME NEW r \in Ruled(g, n), cache' = cache, pc' = "mark",
             work' = [tid |-> t, entry |-> Entry(p, g, r), ret |-> ret]
      PROVE  pc' = "mark" /\ work'.tid = t /\ cache' = cache /\ Follows(work'.entry, n, kept'[t])
  <2>1. work'.tid = t /\ work'.entry = Entry(p, g, r)
    BY <1>3
  <2>2. Follows(Entry(p, g, r), n, kept'[t])
    BY <1>3 DEF Entry, Follows
  <2>3. QED  BY <1>3, <2>1, <2>2
<1> HIDE DEF protected
<1>4. QED  BY <1>1, <1>2, <1>3 DEF TaskApply, Ruled, protected

\* task_apply touches the entry of no other thread.
LEMMA TaskApplyOthers ==
  ASSUME TypeOK, NEW t \in Tids, NEW p, NEW g, NEW n, NEW ret \in {"recv", "tids"}, NEW purge,
         TaskApply(t, p, g, n, ret, purge), NEW u \in Tids \ {t}
  PROVE  /\ cache'[u] = cache[u] /\ kept'[u] = kept[u]
         /\ pc' = "mark" => work'.tid # u /\ work'.ret = ret
<1> DEFINE result == ThreadAffinity(g, RuleName(g, n, cfg), cfg)
<1>1. CASE cache' = cache /\ pc' = ret /\ kept' = [kept EXCEPT ![t] = g]
  BY <1>1 DEF TypeOK
<1>2. CASE /\ cache' = IF purge \/ result # {} THEN [cache EXCEPT ![t] = NoEntry] ELSE cache
           /\ pc' = ret /\ kept' = [kept EXCEPT ![t] = NoPkg]
  <2> HIDE DEF result
  <2>1. QED  BY <1>2 DEF TypeOK
<1>3. ASSUME NEW r \in result, cache' = cache, pc' = "mark", kept' = [kept EXCEPT ![t] = NoPkg],
             work' = [tid |-> t, entry |-> Entry(p, g, r), ret |-> ret]
      PROVE  /\ cache'[u] = cache[u] /\ kept'[u] = kept[u]
             /\ pc' = "mark" => work'.tid # u /\ work'.ret = ret
  BY <1>3 DEF TypeOK
<1> HIDE DEF result
<1>4. QED  BY <1>1, <1>2, <1>3 DEF TaskApply, result

\* The last event of a thread stays the last as the channel is emptied, or is taken itself.
LEMMA TailNames ==
  ASSUME NEW q \in Seq(ProcEvent), q # <<>>, NEW t
  PROVE  /\ NoneIn(q, t) => NoneIn(Tail(q), t) /\ ~Naming(Head(q), t)
         /\ \A n : LastIn(q, t, n) => \/ LastIn(Tail(q), t, n)
                                      \/ NoneIn(Tail(q), t) /\ Naming(Head(q), t) /\ Head(q).comm = n
<1>1. /\ \A i \in DOMAIN Tail(q) : Tail(q)[i] = q[i + 1] /\ i + 1 \in DOMAIN q /\ i \in Nat
      /\ \A i \in DOMAIN q : i # 1 => i - 1 \in DOMAIN Tail(q) /\ Tail(q)[i - 1] = q[i]
      /\ 1 \in DOMAIN q /\ Head(q) = q[1] /\ DOMAIN q \subseteq Nat
      /\ \A i \in DOMAIN q : i >= 1
  OBVIOUS
<1> HIDE DEF Naming
<1>2. NoneIn(q, t) => NoneIn(Tail(q), t) /\ ~Naming(Head(q), t)
  BY <1>1 DEF NoneIn
<1>3. ASSUME NEW n, LastIn(q, t, n)
      PROVE  \/ LastIn(Tail(q), t, n)
             \/ NoneIn(Tail(q), t) /\ Naming(Head(q), t) /\ Head(q).comm = n
  <2>1. PICK i \in DOMAIN q : /\ Naming(q[i], t) /\ q[i].comm = n
                              /\ \A j \in DOMAIN q : j > i => ~Naming(q[j], t)
    BY <1>3 DEF LastIn
  <2>2. CASE i = 1
    <3>1. NoneIn(Tail(q), t)
      BY <1>1, <2>1, <2>2 DEF NoneIn
    <3>2. QED  BY <1>1, <2>1, <2>2, <3>1
  <2>3. CASE i # 1
    <3>1. /\ i - 1 \in DOMAIN Tail(q) /\ Tail(q)[i - 1] = q[i]
          /\ \A j \in DOMAIN Tail(q) : j > i - 1 => ~Naming(Tail(q)[j], t)
      BY <1>1, <2>1, <2>3
    <3>2. QED  BY <2>1, <3>1 DEF LastIn
  <2>4. QED  BY <2>2, <2>3
<1>4. QED  BY <1>2, <1>3

\* At the start every name is missed.
LEMMA NameInit == Init => NameInv
BY FreshInit DEF Init, KernelInit, NameInv

\* The process that is walked bears a package of the configuration.
WalkKnown == pc = "tids" \/ (pc = "mark" /\ work.ret = "tids") => cur.pkg \in CfgPkgs(cfg)

\* A step that leaves threads, queues and the work in hand alone, and of the cache at most
\* takes entries away.
LEMMA NameFrame ==
  ASSUME UNCHANGED <<status, comm, missed, ring, chan>>,
         RescanDue => RescanDue' \/ (Cached' = {} /\ pc' # "mark"),
         ~RescanDue => cfg' = cfg /\ kept' = kept,
         \A t \in Cached' : t \in Cached /\ cache'[t] = cache[t],
         (pc # "mark" /\ pc' # "mark") \/ UNCHANGED <<pc, work>>,
         NEW t \in Tids, NameKnown(t)
  PROVE  NameKnown(t)'
<1>1. ASSUME RescanDue \/ EntryFollows(t) PROVE (RescanDue \/ EntryFollows(t))'
  <2>1. CASE RescanDue
    BY <2>1 DEF EntryFollows, Marking
  <2>2. CASE ~RescanDue
    BY <1>1, <2>2 DEF EntryFollows, Marking, Follows, Ruled
  <2>3. QED  BY <2>1, <2>2
<1>2. /\ \A n : LastIn(ring', t, n) <=> LastIn(ring, t, n)
      /\ \A n : LastIn(chan', t, n) <=> LastIn(chan, t, n)
      /\ NoneIn(ring', t) <=> NoneIn(ring, t)
      /\ NoneIn(chan', t) <=> NoneIn(chan, t)
  OBVIOUS
<1>3. QED  BY <1>1, <1>2 DEF NameKnown

\* The steps of the main thread that apply no rule, and those of the publishing threads.
LEMMA QuietStep ==
  ASSUME NameInv,
         \/ SwapFlag \/ ReadConfig \/ WhitelistClear \/ WhitelistFill
         \/ ScanStart \/ ClearDone \/ WalkDone \/ TidsDone \/ Drained
         \/ CheckSkip \/ CheckStart \/ CheckDone \/ PurgeDone \/ Announce \/ UNCHANGED vars
         \/ (\E t \in Tids : ClearOne(t) \/ WalkProc(t) \/ CheckOne(t) \/ PurgeOne(t))
         \/ (\E c \in Configs : Publish(c))
  PROVE  /\ WalkKnown'
         /\ \A t \in Tids \ missed' : Alive(t)' => NameKnown(t)'
<1> USE DEF threadVars, kernelVars, loaderVars, walkVars, mainVars, historyVars
<1>0. TypeOK /\ FreshInv /\ WalkKnown
  BY DEF NameInv, FreshInv, WalkKnown
<1>1. /\ UNCHANGED <<status, comm, missed, ring, chan>>
      /\ \A t \in Cached' : t \in Cached /\ cache'[t] = cache[t]
      /\ (pc # "mark" /\ pc' # "mark") \/ UNCHANGED <<pc, work>>
  <2>1. CASE CheckDone
    BY <1>0, <2>1 DEF CheckDone, Cached, TypeOK
  <2>2. CASE ScanStart
    BY <2>2 DEF ScanStart, Cached, EmptyCache
  <2>3. CASE UNCHANGED cache
    BY <2>3 DEF Cached, SwapFlag, ReadConfig, WhitelistClear, WhitelistFill, ScanStart, ClearDone,
                WalkDone, TidsDone, Drained, CheckSkip, CheckStart, CheckDone, PurgeDone, Announce,
                ClearOne, WalkProc, CheckOne, PurgeOne, Publish, vars
  <2>4. QED
    BY <2>1, <2>2, <2>3 DEF SwapFlag, ReadConfig, WhitelistClear, WhitelistFill, ClearDone,
                WalkDone, TidsDone, Drained, CheckSkip, CheckStart, PurgeDone, Announce,
                ClearOne, WalkProc, CheckOne, PurgeOne, Publish, vars
<1>2. /\ RescanDue => RescanDue' \/ (Cached' = {} /\ pc' # "mark")
      /\ ~RescanDue => cfg' = cfg /\ kept' = kept
      /\ WalkKnown'
  <2>1. CASE SwapFlag
    BY <2>1 DEF SwapFlag, RescanDue, WalkKnown
  <2>2. CASE ReadConfig
    BY <1>0, <2>2 DEF ReadConfig, RescanDue, WalkKnown, FreshInv, TypeOK
  <2>3. CASE WhitelistClear \/ WhitelistFill
    BY <2>3 DEF WhitelistClear, WhitelistFill, RescanDue, WalkKnown
  <2>4. CASE ScanStart
    BY <2>4 DEF ScanStart, WalkKnown, Cached, EmptyCache, RescanDue
  <2>5. ASSUME NEW c \in Configs, Publish(c)
        PROVE  <1>2!:
    <3>1. unannounced' > 0 /\ UNCHANGED <<updated, pc, changed, cfg, work, cur, kept>>
      BY <1>0, <2>5 DEF Publish, TypeOK
    <3>2. QED  BY <1>0, <3>1 DEF RescanDue, WalkKnown
  <2>6. CASE Announce
    BY <1>0, <2>6 DEF Announce, RescanDue, WalkKnown
  <2>7. ASSUME UNCHANGED <<updated, unannounced, cfg, changed, cur, kept>>,
               pc \notin {"read", "wlclear", "wlfill", "scan"},
               pc' \notin {"read", "wlclear", "wlfill", "scan", "tids", "mark"}
        PROVE  <1>2!:
    BY <2>7 DEF RescanDue, WalkKnown
  <2>8. CASE ClearDone \/ TidsDone \/ Drained \/ CheckSkip \/ CheckStart \/ CheckDone \/ PurgeDone
    BY <2>7, <2>8 DEF ClearDone, TidsDone, Drained, CheckSkip, CheckStart, CheckDone, PurgeDone
  <2>9. CASE WalkDone
    BY <2>9 DEF WalkDone, RescanDue, WalkKnown
  <2>10. ASSUME NEW t \in Tids, ClearOne(t) \/ CheckOne(t) \/ PurgeOne(t)
         PROVE  <1>2!:
    BY <2>7, <2>10 DEF ClearOne, CheckOne, PurgeOne
  <2>11. ASSUME NEW t \in Tids, WalkProc(t)
         PROVE  <1>2!:
    <3>1. /\ UNCHANGED <<updated, unannounced, cfg, changed, kept>> /\ pc = "walk" /\ pc' \in {"walk", "tids"}
          /\ pc' = "tids" => cur'.pkg \in CfgPkgs(cfg)
      BY <2>11 DEF WalkProc
    <3>2. QED  BY <3>1 DEF RescanDue, WalkKnown
  <2>12. CASE UNCHANGED vars
    BY <1>0, <2>12 DEF vars, RescanDue, WalkKnown
  <2>13. QED
    BY <2>1, <2>2, <2>3, <2>4, <2>5, <2>6, <2>8, <2>9, <2>10, <2>11, <2>12
<1>3. \A t \in Tids \ missed' : Alive(t)' => Alive(t) /\ t \notin missed
  BY <1>1 DEF Alive
<1>4. QED  BY <1>1, <1>2, <1>3, NameFrame DEF NameInv

\* What a step that goes on with one thread leaves of the others.
LEMMA OthersKept ==
  ASSUME UNCHANGED <<comm, cfg, ring, updated, unannounced, changed>>,
         pc \in {"recv", "tids"}, pc' \in {"recv", "tids", "mark"},
         NEW t \in Tids, NameKnown(t),
         NoneIn(chan, t) => NoneIn(chan', t),
         \A n : LastIn(chan, t, n) => LastIn(chan', t, n),
         t \in Cached' => t \in Cached /\ cache'[t] = cache[t],
         kept'[t] = kept[t], ~Marking(t)'
  PROVE  NameKnown(t)'
<1>1. (RescanDue' <=> RescanDue) /\ ~Marking(t)
  BY DEF RescanDue, Marking
<1>2. EntryFollows(t) => EntryFollows(t)'
  BY <1>1 DEF EntryFollows, Follows, Ruled
<1>3. QED  BY <1>1, <1>2 DEF NameKnown

\* A scan, a dispatch and a mark keep what is known of the threads' names.
LEMMA ApplyStep ==
  ASSUME NameInv, TypeOK',
         Mark \/ DispatchExit \/ DispatchOther \/ DispatchNaming \/ \E t \in Tids : ScanTid(t)
  PROVE  /\ WalkKnown'
         /\ \A t \in Tids \ missed' : Alive(t)' => NameKnown(t)'
<1> USE DEF threadVars, kernelVars, loaderVars, walkVars, mainVars, historyVars
<1>0. TypeOK /\ WalkKnown
  BY DEF NameInv, FreshInv, WalkKnown
<1>c. /\ cache \in [Tids -> TaskEntry \cup {NoEntry}] /\ chan \in Seq(ProcEvent)
      /\ cache' \in [Tids -> TaskEntry \cup {NoEntry}]
      /\ cfg \in AppConfig /\ comm \in [Tids -> Comms]
  BY <1>0, ModeAssumption DEF TypeOK, KernelTypeOK
<1>a. \A t \in Tids \ missed : Alive(t) => NameKnown(t)
  BY DEF NameInv
<1>1. CASE Mark
  <2>1. /\ pc = "mark" /\ pc' = work.ret
        /\ cache' = [cache EXCEPT ![work.tid] = work.entry]
        /\ UNCHANGED <<status, comm, missed, ring, chan, cfg, cur, updated, unannounced, changed, kept>>
    BY <1>1 DEF Mark
  <2>2. work.ret \in {"recv", "tids"} /\ work.tid \in Tids
    BY <1>0, <2>1 DEF TypeOK
  <2>3. WalkKnown'
    BY <1>0, <2>1, <2>2 DEF WalkKnown
  <2>4. ASSUME NEW t \in Tids, NameKnown(t) PROVE NameKnown(t)'
    <3>1. RescanDue' <=> RescanDue
      BY <2>1, <2>2 DEF RescanDue
    <3>2. EntryFollows(t) => EntryFollows(t)'
      <4>1. CASE work.tid = t
        <5>1. cache'[t] = work.entry
          BY <1>c, <2>1, <4>1
        <5>2. QED  BY <2>1, <2>2, <4>1, <5>1 DEF EntryFollows, Marking, Follows, Ruled
      <4>2. CASE work.tid # t
        <5>1. cache'[t] = cache[t]
          BY <1>c, <2>1, <4>2
        <5>2. QED  BY <2>1, <2>2, <4>2, <5>1 DEF EntryFollows, Marking, Follows, Ruled, Cached
      <4>3. QED  BY <4>1, <4>2
    <3>3. QED  BY <2>1, <2>4, <3>1, <3>2 DEF NameKnown
  <2>5. QED  BY <1>a, <2>1, <2>3, <2>4 DEF Alive
<1>2. CASE DispatchExit \/ DispatchOther
  <2> DEFINE e == Head(chan)
  <2>1. /\ pc = "recv" /\ pc' = "recv" /\ chan # <<>> /\ chan' = Tail(chan)
        /\ e.type \notin {"RENAME", "EXEC"}
        /\ UNCHANGED <<status, comm, missed, ring, cfg, cur, updated, unannounced, changed, kept>>
        /\ cache' = cache \/ cache' = [cache EXCEPT ![e.tid] = NoEntry]
    BY <1>2 DEF DispatchExit, DispatchOther, Receive
  <2> HIDE DEF e
  <2>2. \A t \in Cached' : t \in Cached /\ cache'[t] = cache[t]
    BY <1>c, <2>1 DEF Cached
  <2>3. \A t : /\ NoneIn(chan, t) => NoneIn(chan', t)
               /\ \A n : LastIn(chan, t, n) => LastIn(chan', t, n)
    BY <1>c, <2>1, TailNames DEF Naming, e
  <2>4. \A t \in Tids : NameKnown(t) => NameKnown(t)'
    BY <2>1, <2>2, <2>3, OthersKept DEF Marking
  <2>5. QED  BY <1>a, <2>1, <2>4 DEF Alive, WalkKnown
<1>3. CASE DispatchNaming
  <2> DEFINE e == Head(chan)
             pkgs == PkgLookupComm(e.pid, e.comm)
             known == {g \in pkgs : Ruled(g, e.comm) # {}}
             purge == e.type = "EXEC"
  <2>1. /\ pc = "recv" /\ chan # <<>> /\ chan' = Tail(chan) /\ e.type \in {"RENAME", "EXEC"}
        /\ UNCHANGED <<status, comm, ring, cfg, cur, updated, unannounced, changed>>
        /\ missed' = IF known = {} THEN missed \cup {e.tid} ELSE missed
    BY <1>3 DEF DispatchNaming, Receive, Ruled
  <2>2. \/ \E g \in pkgs : TaskApply(e.tid, e.pid, g, e.comm, "recv", purge)
        \/ /\ pkgs = {} /\ pc' = pc /\ kept' = kept
           /\ cache' = IF purge THEN [cache EXCEPT ![e.tid] = NoEntry] ELSE cache
    BY <1>3 DEF DispatchNaming
  <2>3. e.tid \in Tids /\ e.pid \in Tids /\ e.comm \in Names /\ purge \in BOOLEAN
    BY <1>0, <2>1, HeadType DEF ProcEvent
  <2>4. known # {} => pkgs \subseteq CfgPkgs(cfg)
    <3>1. CASE CommToPkg(e.comm, cfg) # {}
      BY <3>1 DEF PkgLookupComm, CommToPkg
    <3>2. CASE CommToPkg(e.comm, cfg) = {}
      <4>1. \A g, h \in pkgs : g = h
        BY <3>2 DEF PkgLookupComm
      <4>2. QED  BY <4>1, RuledKnown
    <3>3. QED  BY <3>1, <3>2
  <2>n. /\ ~NoneIn(chan, e.tid)
        /\ \A n : LastIn(chan, e.tid, n) => LastIn(chan', e.tid, n) \/ (NoneIn(chan', e.tid) /\ e.comm = n)
    BY <1>c, <2>1, TailNames DEF Naming
  <2>m. ASSUME NEW t \in Tids \ {e.tid}
        PROVE  /\ NoneIn(chan, t) => NoneIn(chan', t)
               /\ \A n : LastIn(chan, t, n) => LastIn(chan', t, n)
    <3>1. ~Naming(e, t)
      BY <2>m DEF Naming
    <3>2. QED  BY <1>c, <2>1, <3>1, TailNames
  <2> HIDE DEF e, pkgs, known, purge
  <2>5. /\ \A t \in Tids \ {e.tid} : /\ cache'[t] = cache[t] /\ kept'[t] = kept[t]
                                     /\ pc' = "mark" => work'.tid # t
        /\ pc' = "recv" \/ (pc' = "mark" /\ work'.ret = "recv")
    <3>1. ASSUME NEW g \in pkgs, TaskApply(e.tid, e.pid, g, e.comm, "recv", purge) PROVE <2>5!:
      <4>1. pc' \in {"recv", "mark"}
        BY <1>0, <2>3, <3>1, TaskApplyKeeps
      <4>2. pc' = "mark" => work'.ret = "recv"
        BY <3>1 DEF TaskApply
      <4>3. \A t \in Tids \ {e.tid} : /\ cache'[t] = cache[t] /\ kept'[t] = kept[t]
                                      /\ pc' = "mark" => work'.tid # t
        BY <1>0, <2>3, <3>1, TaskApplyOthers
      <4>4. QED  BY <4>1, <4>2, <4>3
    <3>2. CASE pc' = pc /\ kept' = kept /\ cache' = IF purge THEN [cache EXCEPT ![e.tid] = NoEntry] ELSE cache
      BY <1>c, <2>1, <2>3, <3>2
    <3>3. QED  BY <2>2, <3>1, <3>2
  <2>6. ASSUME NEW t \in Tids \ {e.tid}, NameKnown(t) PROVE NameKnown(t)'
    <3>1. /\ cache'[t] = cache[t] /\ kept'[t] = kept[t] /\ ~Marking(t)'
          /\ pc' \in {"recv", "tids", "mark"}
      BY <2>5, <2>6 DEF Marking
    <3>2. t \in Cached' => t \in Cached /\ cache'[t] = cache[t]
      BY <3>1 DEF Cached
    <3>3. QED  BY <2>1, <2>6, <2>m, <3>1, <3>2, OthersKept
  <2>7. ASSUME NEW t \in {e.tid}, t \notin missed', Alive(t) PROVE NameKnown(t)'
    <3>1. known # {} /\ t \notin missed
      BY <2>1, <2>7
    <3>2. pkgs # {} /\ pkgs \subseteq CfgPkgs(cfg)
      BY <2>4, <3>1 DEF known
    <3>3. PICK g \in CfgPkgs(cfg) : TaskApply(t, e.pid, g, e.comm, "recv", purge)
      BY <2>2, <2>7, <3>2
    <3>4. \/ pc' = "recv" /\ cache' = cache /\ Follows(cache[t], e.comm, kept'[t])
          \/ pc' = "mark" /\ work'.tid = t /\ cache' = cache /\ Follows(work'.entry, e.comm, kept'[t])
      BY <1>0, <2>3, <2>7, <3>3, TaskApplyFollows
    <3>5. \/ LastIn(ring, t, comm[t])
          \/ NoneIn(ring, t) /\ LastIn(chan', t, comm[t])
          \/ NoneIn(ring, t) /\ NoneIn(chan', t) /\ e.comm = comm[t]
      BY <1>a, <2>3, <2>7, <2>n, <3>1 DEF NameKnown
    <3>6. e.comm = comm[t] => EntryFollows(t)'
      <4>1. ASSUME e.comm = comm[t] PROVE EntryFollows(t)'
        BY <2>1, <3>4, <4>1 DEF EntryFollows, Marking, Follows, Ruled
      <4>2. QED  BY <4>1
    <3>7. QED  BY <2>1, <3>5, <3>6 DEF NameKnown
  <2>8. QED  BY <1>a, <2>1, <2>5, <2>6, <2>7 DEF Alive, WalkKnown
<1>4. ASSUME NEW t \in Tids, ScanTid(t)
      PROVE  WalkKnown' /\ \A u \in Tids \ missed' : Alive(u)' => NameKnown(u)'
  <2> DEFINE name == IF Exists(t) THEN comm[t] ELSE NoComm
  <2>1. /\ pc = "tids" /\ TaskApply(t, cur.pid, cur.pkg, name, "tids", FALSE)
        /\ missed' = IF NamePending(t) THEN missed ELSE missed \ {t}
        /\ UNCHANGED <<status, comm, ring, chan, cfg, cur, updated, unannounced, changed>>
    BY <1>4 DEF ScanTid
  <2>2. cur.pkg \in CfgPkgs(cfg) /\ cur.pid \in Tids /\ name \in Names
    BY <1>0, <1>c, <2>1 DEF WalkKnown, TypeOK, Process, Names
  <2>3. pc' \in {"tids", "mark"}
    BY <1>0, <2>1, TaskApplyKeeps
  <2>4. WalkKnown'
    BY <2>1, <2>2, <2>3 DEF WalkKnown
  <2>5. ASSUME NEW u \in Tids \ {t}, NameKnown(u) PROVE NameKnown(u)'
    <3>1. cache'[u] = cache[u] /\ kept'[u] = kept[u] /\ (pc' = "mark" => work'.tid # u)
      BY <1>0, <2>1, <2>5, TaskApplyOthers
    <3>2. QED  BY <2>1, <2>3, <2>5, <3>1, OthersKept DEF Marking, Cached
  <2>6. ASSUME t \notin missed', Alive(t) PROVE NameKnown(t)'
    <3>1. name = comm[t]
      BY <2>6 DEF Alive, Exists
    <3>2. \/ pc' = "tids" /\ cache' = cache /\ Follows(cache[t], comm[t], kept'[t])
          \/ pc' = "mark" /\ work'.tid = t /\ cache' = cache /\ Follows(work'.entry, comm[t], kept'[t])
      BY <1>0, <2>1, <2>2, <2>6, <3>1, TaskApplyFollows
    <3>3. EntryFollows(t)'
      BY <2>1, <3>2 DEF EntryFollows, Marking, Follows, Ruled
    <3>4. CASE NamePending(t)
      <4>1. NameKnown(t) /\ ~(NoneIn(ring, t) /\ NoneIn(chan, t))
        BY <1>a, <2>1, <2>6, <3>4 DEF NamePending, InFlight, NoneIn
      <4>2. QED  BY <2>1, <4>1 DEF NameKnown
    <3>5. CASE ~NamePending(t)
      <4>1. NoneIn(ring, t) /\ NoneIn(chan, t)
        BY <3>5 DEF NamePending, InFlight, NoneIn
      <4>2. QED  BY <2>1, <3>3, <4>1 DEF NameKnown
    <3>6. QED  BY <3>4, <3>5
  <2> HIDE DEF name
  <2>7. \A u \in Tids \ {t} : u \notin missed' => u \notin missed
    BY <2>1
  <2>8. QED  BY <1>a, <2>1, <2>4, <2>5, <2>6, <2>7 DEF Alive
<1>5. QED  BY <1>1, <1>2, <1>3, <1>4

\* Every step preserves it.
LEMMA NameStep == NameInv /\ [Next]_vars => NameInv'
<1> SUFFICES ASSUME NameInv, [Next]_vars PROVE NameInv'
  OBVIOUS
<1>0. FreshInv' /\ TypeOK' /\ TypeOK
  BY FreshStep DEF NameInv, FreshInv
<1>1. SUFFICES WalkKnown' /\ \A t \in Tids \ missed' : Alive(t)' => NameKnown(t)'
  BY <1>0 DEF NameInv, WalkKnown
<1>2. CASE \/ SwapFlag \/ ReadConfig \/ WhitelistClear \/ WhitelistFill
           \/ ScanStart \/ ClearDone \/ WalkDone \/ TidsDone \/ Drained
           \/ CheckSkip \/ CheckStart \/ CheckDone \/ PurgeDone \/ Announce \/ UNCHANGED vars
           \/ (\E t \in Tids : ClearOne(t) \/ WalkProc(t) \/ CheckOne(t) \/ PurgeOne(t))
           \/ (\E c \in Configs : Publish(c))
  BY <1>2, QuietStep
<1>3. CASE Mark \/ DispatchExit \/ DispatchOther \/ DispatchNaming \/ \E t \in Tids : ScanTid(t)
  BY <1>0, <1>3, ApplyStep
<1>4. CASE Kernel
  <2>1. KernelNext /\ UNCHANGED <<chan, updated, unannounced, changed, cfg, cache, pc, work, cur, kept>>
    BY <1>4 DEF Kernel, loaderVars, mainVars
  <2>2. WalkKnown'
    BY <2>1 DEF NameInv, WalkKnown
  <2>3. ASSUME NEW t \in Tids, t \notin missed', Alive(t)' PROVE NameKnown(t)'
    <3>1. NameTold(t)
      BY <1>0, <2>1, KernelNamesTold DEF TypeOK
    <3>2. CASE LastIn(ring', t, comm'[t])
      BY <3>2 DEF NameKnown
    <3>3. CASE /\ t \notin missed /\ Alive(t) /\ comm'[t] = comm[t]
               /\ \A n : LastIn(ring, t, n) => LastIn(ring', t, n)
               /\ NoneIn(ring, t) => NoneIn(ring', t)
      <4>1. NameKnown(t)
        BY <3>3 DEF NameInv
      <4>2. (RescanDue \/ EntryFollows(t)) => (RescanDue \/ EntryFollows(t))'
        BY <2>1, <3>3 DEF RescanDue, EntryFollows, Marking, Follows, Ruled, Cached
      <4>3. QED  BY <2>1, <3>3, <4>1, <4>2 DEF NameKnown
    <3>4. QED  BY <2>3, <3>1, <3>2, <3>3 DEF NameTold
  <2>4. QED  BY <2>2, <2>3
<1>5. CASE Read
  <2>1. /\ UNCHANGED <<status, comm, missed, updated, unannounced, changed, cfg, cache, pc, work, cur, kept>>
        /\ ring # <<>> /\ ring' = Tail(ring) /\ chan' = Append(chan, Head(ring))
    BY <1>5 DEF Read, threadVars, loaderVars, mainVars
  <2>2. ring \in Seq(ProcEvent) /\ chan \in Seq(ProcEvent) /\ Head(ring) \in ProcEvent
    BY <1>0, <2>1 DEF TypeOK, KernelTypeOK
  <2>3. WalkKnown'
    BY <2>1 DEF NameInv, WalkKnown
  <2>4. ASSUME NEW t \in Tids, NameKnown(t) PROVE NameKnown(t)'
    <3>1. (RescanDue \/ EntryFollows(t)) => (RescanDue \/ EntryFollows(t))'
      BY <2>1 DEF RescanDue, EntryFollows, Marking, Follows, Ruled, Cached
    <3>2. CASE LastIn(ring, t, comm[t])
      BY <2>1, <2>2, <3>2, TailNames, AppendNames DEF NameKnown
    <3>3. CASE NoneIn(ring, t)
      BY <2>1, <2>2, <2>4, <3>1, <3>3, TailNames, AppendNames DEF NameKnown
    <3>4. QED  BY <2>4, <3>2, <3>3 DEF NameKnown
  <2>5. QED  BY <2>1, <2>3, <2>4 DEF NameInv, Alive
<1>6. QED
  BY <1>2, <1>3, <1>4, <1>5 DEF Next, MainNext

\* For any threads, rules and capacities: once every event is handled, a remembered thread
\* follows the rules for its present name, unless the kernel side could not tell it.
THEOREM RulesFollowed == Spec => []NamesFollowed
<1>1. NameInv => NamesFollowed
  <2> SUFFICES ASSUME NameInv, Quiet, NEW t \in Cached \ missed, Alive(t)
               PROVE  Follows(cache[t], comm[t], kept[t])
    BY DEF NamesFollowed
  <2>1. NameKnown(t) /\ ~RescanDue
    BY DEF NameInv, Quiet, RescanDue, Cached
  <2>2. \A n : ~LastIn(ring, t, n) /\ ~LastIn(chan, t, n)
    BY DEF Quiet, LastIn
  <2>3. QED  BY <2>1, <2>2 DEF NameKnown, EntryFollows, Marking, Quiet
<1>2. QED  BY <1>1, NameInit, NameStep, PTL DEF Spec
=============================================================================
