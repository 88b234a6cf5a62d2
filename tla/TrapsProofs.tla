----------------------------- MODULE TrapsProofs -----------------------------
(***************************************************************************)
(* Proofs about the way into the kernel and back.  Traps.tla, for any      *)
(* number of threads, any capacity and any depth of nesting: where a       *)
(* return goes and in which mode, although there is one set of registers   *)
(* for all traps of all threads, and that the input stays in order.        *)
(* SystemCalls.tla, for any threads, functions, arguments and number of    *)
(* calls: what reaches the trap, however the stores and loads of the       *)
(* threads interleave.                                                     *)
(***************************************************************************)
EXTENDS Traps, SystemCalls, SequenceTheorems, FiniteSetTheorems, TLAPS

Kinds == SavesSepc \cup {"start", "tick", "console"}
\* The statements of the input buffer come between "run" and the return.
Statements == {"waitItem", "waitHead", "fetch", "signalHead", "signalSpace",
               "waitSpace", "waitTail", "store", "signalTail", "signalItem"}
Phases == {"run", "restore", "status", "sret"} \cup Statements
Modes == {"user", "supervisor"}

Frame == [kind : Kinds, phase : Phases, sepc : Threads \X Int, SPP : Modes,
          SPIE : BOOLEAN, input : Seq(Nat), disturbed : BOOLEAN]

\* A semaphore below 0 has as many waiting threads, so signal finds one.
SemaphoresAreTyped ==
    /\ semaphoreValue \in [BufferSemaphores -> Int]
    /\ blockedThreads \in [BufferSemaphores -> Seq(Threads)]
    /\ \A s \in BufferSemaphores :
          Len(blockedThreads[s]) = IF semaphoreValue[s] < 0 THEN -semaphoreValue[s] ELSE 0

\* What TypeOK leaves open.
Types ==
    /\ frames \in [Threads -> Seq(Frame)]
    /\ sepc \in Threads \X Int
    /\ {typed, uart} \subseteq Seq(Nat)
    /\ SemaphoresAreTyped

\* Traps in which no other thread has run: interrupts have been off all the
\* time, so sepc is still what it was at the entry.
NoneRan(f) ==
    \/ f.kind \in {"tick", "to user", "to supervisor"}
    \/ f.kind = "console" /\ ~f.disturbed

\* sepc is written; what comes until sret can be disturbed.
Returning(f) == f.phase \in {"status", "sret"}

\* What each frame holds, wherever it is.
FrameIsRight(f, t, i, st) ==
    /\ f.sepc = Place(t, i - 1)
    /\ i # 1 => f.SPP = "supervisor"
    /\ i = 1 /\ st = "body" => f.SPP = BodyMode(t)
    /\ f.kind = "start" => i = 1 /\ st \in {"new", "wrapper"}
    /\ f.kind = "to user" => i = 1 /\ st = "wrapper"
    /\ f.kind = "to supervisor" => i = 1 /\ st = "entry"
    /\ f.disturbed => f.kind = "console" \/ Returning(f)

FramesAreRight ==
    \A t \in Threads : \A i \in 1 .. Len(frames[t]) :
        FrameIsRight(frames[t][i], t, i, stage[t])

\* A trap that is suspended, or interrupted, can bear that.
SuspendedAreSafe ==
    \A t \in Threads : \A i \in 1 .. Len(frames[t]) :
        t # runningThread \/ i < Len(frames[t]) =>
            /\ ~NoneRan(frames[t][i])
            /\ Returning(frames[t][i]) => frames[t][i].disturbed /\ i < Len(frames[t])

\* The registers belong to the trap that runs.
RegistersAreTops ==
    Depth > 0 =>
        /\ NoneRan(Top) => ~SIE /\ ~Top.disturbed /\ sepc = Place(runningThread, Depth - 1)
        /\ Top.kind = "to user" /\ Top.phase # "run" => SPP = "user"
        /\ Top.kind = "to supervisor" /\ Top.phase # "run" => SPP = "supervisor"
        /\ Returning(Top) /\ Top.kind # "console" =>
              sepc = Place(runningThread, IF Top.disturbed THEN Depth ELSE Depth - 1)
        /\ Top.kind \in SavesStatus /\ Top.phase = "sret" /\ ~Top.disturbed =>
              SPP = Top.SPP

\* If sepc has survived for an interrupt that does not save it, so has SPP.
StatusSurvivesWithSepc ==
    \A t \in Threads :
        /\ Len(frames[t]) > 0
        /\ frames[t][Len(frames[t])].kind \in {"console", "tick"}
        /\ sepc = Place(t, Len(frames[t]) - 1)
        => SPP = frames[t][Len(frames[t])].SPP

\* Only the output thread gives up the processor outside a trap.
OthersAreInTraps ==
    \A t \in Threads : Len(frames[t]) = 0 => t \in {runningThread, Output}

StagesAreRight ==
    /\ stage[Main] = "body"
    /\ \A t \in Threads : stage[t] = "entry" => t = Output

\* The inductive invariant.
TrapInv ==
    /\ TypeOK /\ Types
    /\ OnlyDisturbedReturnsGoAstray /\ ModeIsRight
    /\ ~astray => /\ FramesAreRight /\ SuspendedAreSafe /\ RegistersAreTops
                  /\ StatusSurvivesWithSepc /\ OthersAreInTraps /\ StagesAreRight

-----------------------------------------------------------------------------
(* Frames and places                                                       *)

\* Frames are right after a step if each of them is, whatever it was before.
LEMMA FramesBecomeRight ==
    ASSUME \A t \in Threads : \A i \in 1 .. Len(frames'[t]) :
              FrameIsRight(frames'[t][i], t, i, stage'[t])
    PROVE  FramesAreRight'
BY ZenonT(60) DEF FramesAreRight, FrameIsRight, BodyMode, Place, Returning

LEMMA FramesStayRight ==
    ASSUME FramesAreRight, UNCHANGED << frames, stage >>
    PROVE  FramesAreRight'
<1>1. \A t \in Threads : \A i \in 1 .. Len(frames'[t]) :
         FrameIsRight(frames'[t][i], t, i, stage'[t])
  BY DEF FramesAreRight
<1> QED
  BY <1>1, FramesBecomeRight

LEMMA Places ==
    ASSUME NEW t, NEW u, NEW m, NEW n
    PROVE  Place(t, m) = Place(u, n) <=> t = u /\ m = n
BY DEF Place

LEMMA DepthIsNat ==
    ASSUME TypeOK, Types
    PROVE  /\ \A t \in Threads : Len(frames[t]) \in Nat
           /\ Depth \in Nat
           /\ Depth > 0 => Top \in Frame
           /\ \A t \in Threads : \A i \in 1 .. Len(frames[t]) : frames[t][i] \in Frame
BY DEF TypeOK, Types, Depth, Top

\* A step that changes the trap of the running thread.
LEMMA TopChanges ==
    ASSUME TypeOK, Types, Depth > 0, NEW g \in Frame,
           frames' = [frames EXCEPT ![runningThread] = [@ EXCEPT ![Depth] = g]]
    PROVE  /\ frames' \in [Threads -> Seq(Frame)]
           /\ \A t \in Threads : Len(frames'[t]) = Len(frames[t])
           /\ \A t \in Threads : \A i \in 1 .. Len(frames[t]) :
                 frames'[t][i] = IF t = runningThread /\ i = Depth THEN g ELSE frames[t][i]
<1>1. /\ frames \in [Threads -> Seq(Frame)] /\ runningThread \in Threads
      /\ Depth \in 1 .. Len(frames[runningThread])
  BY DepthIsNat DEF TypeOK, Types, Depth
<1>2. /\ [frames[runningThread] EXCEPT ![Depth] = g] \in Seq(Frame)
      /\ Len([frames[runningThread] EXCEPT ![Depth] = g]) = Len(frames[runningThread])
      /\ \A i \in 1 .. Len(frames[runningThread]) :
            [frames[runningThread] EXCEPT ![Depth] = g][i]
            = IF i = Depth THEN g ELSE frames[runningThread][i]
  BY <1>1
<1> QED
  BY <1>1, <1>2

\* A trap that is entered.
LEMMA TopIsPushed ==
    ASSUME TypeOK, Types, NEW s \in Seq(Frame), NEW g \in Frame,
           Len(s) = Depth,
           frames' = [frames EXCEPT ![runningThread] = Append(s, g)]
    PROVE  /\ frames' \in [Threads -> Seq(Frame)]
           /\ \A t \in Threads : t # runningThread => frames'[t] = frames[t]
           /\ Len(frames'[runningThread]) = Depth + 1
           /\ \A i \in 1 .. Depth + 1 :
                 frames'[runningThread][i] = IF i = Depth + 1 THEN g ELSE s[i]
<1>1. frames \in [Threads -> Seq(Frame)] /\ runningThread \in Threads /\ Depth \in Nat
  BY DepthIsNat DEF TypeOK, Types
<1> QED
  BY <1>1

\* A trap that is left.
LEMMA TopIsPopped ==
    ASSUME TypeOK, Types, Depth > 0,
           frames' = [frames EXCEPT ![runningThread] = SubSeq(@, 1, Depth - 1)]
    PROVE  /\ frames' \in [Threads -> Seq(Frame)]
           /\ \A t \in Threads : t # runningThread => frames'[t] = frames[t]
           /\ Len(frames'[runningThread]) = Depth - 1
           /\ \A i \in 1 .. Depth - 1 : frames'[runningThread][i] = frames[runningThread][i]
<1>1. frames \in [Threads -> Seq(Frame)] /\ runningThread \in Threads
  BY DEF TypeOK, Types
<1>2. Depth \in Nat \ {0} /\ Depth = Len(frames[runningThread])
  BY DepthIsNat DEF Depth
<1>3. /\ SubSeq(frames[runningThread], 1, Depth - 1) \in Seq(Frame)
      /\ Len(SubSeq(frames[runningThread], 1, Depth - 1)) = Depth - 1
      /\ \A i \in 1 .. Depth - 1 :
            SubSeq(frames[runningThread], 1, Depth - 1)[i] = frames[runningThread][i]
  BY <1>1, <1>2
<1> QED
  BY <1>1, <1>3

-----------------------------------------------------------------------------
(* Steps that change the frame of the running trap and may switch threads  *)

Stages == {"new", "wrapper", "entry", "body"}

StagesGoOn ==
    /\ stage' \in [Threads -> Stages]
    /\ \A t \in Threads : stage'[t] = stage[t] \/ (stage[t] = "new" /\ stage'[t] = "wrapper")

\* The frame becomes g; whoever is suspended has been disturbed, or will
\* write sepc and sstatus itself.
TopBecomes(g) ==
    /\ ~astray /\ ~astray' /\ Depth > 0
    /\ g \in Frame
    /\ g.kind = Top.kind /\ g.sepc = Top.sepc /\ g.SPP = Top.SPP
    /\ g.disturbed => g.kind = "console" \/ Returning(g)
    /\ frames' = [frames EXCEPT ![runningThread] = [@ EXCEPT ![Depth] = g]]
    /\ StagesGoOn
    /\ runningThread' \in Threads
    /\ runningThread' # runningThread => ~NoneRan(g) /\ ~Returning(g)

\* What is true of the frames afterwards.
LEMMA FramesAfterTopBecomes ==
    ASSUME TrapInv, NEW g, TopBecomes(g)
    PROVE  (FramesAreRight /\ SuspendedAreSafe /\ OthersAreInTraps /\ StagesAreRight)'
<1> DEFINE r == runningThread
<1>1. /\ TypeOK /\ Types /\ FramesAreRight /\ SuspendedAreSafe
      /\ OthersAreInTraps /\ StagesAreRight
  BY DEF TrapInv, TopBecomes
<1>2. /\ r \in Threads /\ Depth = Len(frames[r])
      /\ \A t \in Threads : Len(frames[t]) \in Nat
  BY <1>1, DepthIsNat DEF TypeOK, Depth
<1>3. /\ \A t \in Threads : Len(frames'[t]) = Len(frames[t])
      /\ \A t \in Threads : \A i \in 1 .. Len(frames[t]) :
            frames'[t][i] = IF t = r /\ i = Depth THEN g ELSE frames[t][i]
  BY <1>1, TopChanges DEF TopBecomes
<1>4. \A t \in Threads : stage'[t] = stage[t] \/ (stage[t] = "new" /\ stage'[t] = "wrapper")
  BY DEF TopBecomes, StagesGoOn
<1>5. FramesAreRight'
  <2> SUFFICES ASSUME NEW t \in Threads, NEW i \in 1 .. Len(frames[t])
               PROVE  FrameIsRight(frames'[t][i], t, i, stage'[t])
    <3>1. \A t \in Threads : Len(frames'[t]) = Len(frames[t])
      BY <1>3
    <3> QED
      BY <3>1, FramesBecomeRight
  <2>1. /\ frames'[t][i].sepc = frames[t][i].sepc
        /\ frames'[t][i].SPP = frames[t][i].SPP
        /\ frames'[t][i].kind = frames[t][i].kind
    BY <1>3 DEF TopBecomes, Top
  <2>2. frames'[t][i].disturbed =>
           frames'[t][i].kind = "console" \/ Returning(frames'[t][i])
    <3>1. CASE t = r /\ i = Depth
      BY <1>3, <3>1 DEF TopBecomes
    <3>2. CASE ~(t = r /\ i = Depth)
      <4>1. frames'[t][i] = frames[t][i]
        BY <1>3, <3>2
      <4>2. frames[t][i].disturbed => frames[t][i].kind = "console" \/ Returning(frames[t][i])
        BY <1>1 DEF FramesAreRight, FrameIsRight
      <4> QED
        BY <4>1, <4>2 DEF Returning
    <3> QED
      BY <3>1, <3>2
  <2>3. /\ frames[t][i].sepc = Place(t, i - 1)
        /\ i # 1 => frames[t][i].SPP = "supervisor"
        /\ i = 1 /\ stage[t] = "body" => frames[t][i].SPP = BodyMode(t)
        /\ frames[t][i].kind = "start" => i = 1 /\ stage[t] \in {"new", "wrapper"}
        /\ frames[t][i].kind = "to user" => i = 1 /\ stage[t] = "wrapper"
        /\ frames[t][i].kind = "to supervisor" => i = 1 /\ stage[t] = "entry"
    BY <1>1 DEF FramesAreRight, FrameIsRight
  <2>4. /\ stage[t] = "wrapper" => stage'[t] = "wrapper"
        /\ stage[t] \in {"new", "wrapper"} => stage'[t] \in {"new", "wrapper"}
        /\ stage[t] = "entry" => stage'[t] = "entry"
        /\ stage'[t] = "body" => stage[t] = "body"
    BY <1>4
  <2> QED
    BY <2>1, <2>2, <2>3, <2>4 DEF FrameIsRight
<1>6. SuspendedAreSafe'
  <2> SUFFICES ASSUME NEW t \in Threads, NEW i \in 1 .. Len(frames[t]),
                      t # runningThread' \/ i < Len(frames[t])
               PROVE  /\ ~NoneRan(frames'[t][i])
                      /\ Returning(frames'[t][i]) =>
                            frames'[t][i].disturbed /\ i < Len(frames[t])
    BY <1>3 DEF SuspendedAreSafe, NoneRan, Returning
  <2>1. CASE t = r /\ i = Depth
    BY <1>2, <1>3, <2>1 DEF TopBecomes
  <2>2. CASE ~(t = r /\ i = Depth)
    <3>1. frames'[t][i] = frames[t][i] /\ (t # r \/ i < Len(frames[t]))
      BY <1>2, <1>3, <2>2
    <3> QED
      BY <1>1, <3>1 DEF SuspendedAreSafe
  <2> QED
    BY <2>1, <2>2
<1>7. OthersAreInTraps'
  BY <1>1, <1>2, <1>3 DEF OthersAreInTraps, TopBecomes
<1>8. StagesAreRight'
  <2>1. Main \in Threads
    BY TrapsAssumption
  <2> QED
    BY <1>1, <1>4, <2>1 DEF StagesAreRight
<1> QED
  BY <1>5, <1>6, <1>7, <1>8

\* The registers stay as they are; a trap that goes on does not return yet,
\* unless it has left them alone all the time.
LeavesRegisters(g) ==
    /\ UNCHANGED << mode, SIE, sepc, SPP >>
    /\ runningThread' = runningThread =>
          /\ g.disturbed <=> Top.disturbed
          /\ g.kind \notin {"to user", "to supervisor"}
          /\ Returning(g) => g.kind \in {"tick", "console"}

LEMMA RegistersAfterTopBecomes ==
    ASSUME TrapInv, NEW g, TopBecomes(g), LeavesRegisters(g)
    PROVE  (RegistersAreTops /\ StatusSurvivesWithSepc /\ ModeIsRight)'
<1> DEFINE r == runningThread
<1>1. /\ TypeOK /\ Types /\ SuspendedAreSafe /\ RegistersAreTops
      /\ StatusSurvivesWithSepc /\ OthersAreInTraps /\ ModeIsRight
  BY DEF TrapInv, TopBecomes
<1>2. /\ r \in Threads /\ Depth = Len(frames[r]) /\ Depth \in Nat /\ Depth > 0
      /\ \A t \in Threads : Len(frames[t]) \in Nat
      /\ Top = frames[r][Depth] /\ runningThread' \in Threads
      /\ UNCHANGED << mode, SIE, sepc, SPP >>
  BY <1>1, DepthIsNat DEF TypeOK, Depth, Top, TopBecomes, LeavesRegisters
<1>3. /\ \A t \in Threads : Len(frames'[t]) = Len(frames[t])
      /\ \A t \in Threads : \A i \in 1 .. Len(frames[t]) :
            frames'[t][i] = IF t = r /\ i = Depth THEN g ELSE frames[t][i]
  BY <1>1, TopChanges DEF TopBecomes
<1>4. Depth' = Len(frames[runningThread'])
  BY <1>2, <1>3 DEF Depth
<1>5. RegistersAreTops'
  <2>1. CASE runningThread' = r
    <3>1. Depth' = Depth /\ Top' = g
      BY <1>2, <1>3, <1>4, <2>1 DEF Top
    <3>2. /\ NoneRan(g) <=> NoneRan(Top)
          /\ Returning(g) /\ g.kind # "console" => NoneRan(g)
          /\ g.kind \in SavesStatus => ~Returning(g)
      BY <2>1 DEF TopBecomes, LeavesRegisters, NoneRan, SavesStatus
    <3>3. g.kind = Top.kind /\ (g.disturbed <=> Top.disturbed)
          /\ g.kind \notin {"to user", "to supervisor"}
          /\ (g.phase = "sret" => Returning(g))
      BY <2>1 DEF TopBecomes, LeavesRegisters, Returning
    <3>4. NoneRan(g) => ~SIE /\ ~g.disturbed /\ sepc = Place(r, Depth - 1)
      BY <1>1, <1>2, <3>2, <3>3 DEF RegistersAreTops
    <3>5. Returning(g) /\ g.kind # "console" =>
             sepc = Place(r, IF g.disturbed THEN Depth ELSE Depth - 1)
      BY <3>2, <3>4
    <3>6. ~(g.kind \in SavesStatus /\ g.phase = "sret")
      BY <3>2, <3>3
    <3>7. Place(runningThread', IF g.disturbed THEN Depth' ELSE Depth' - 1)
          = Place(r, IF g.disturbed THEN Depth ELSE Depth - 1)
      BY <2>1, <3>1
    <3>8. /\ NoneRan(Top') => ~SIE' /\ ~Top'.disturbed /\ sepc' = Place(r, Depth' - 1)
          /\ Top'.kind \notin {"to user", "to supervisor"}
          /\ Returning(Top') /\ Top'.kind # "console" =>
                sepc' = Place(r, IF Top'.disturbed THEN Depth' ELSE Depth' - 1)
          /\ ~(Top'.kind \in SavesStatus /\ Top'.phase = "sret")
      BY <1>2, <3>1, <3>3, <3>4, <3>5, <3>6
    <3> QED
      BY <2>1, <3>8 DEF RegistersAreTops, NoneRan, Returning, Place
  <2>2. CASE runningThread' # r /\ Depth' > 0
    <3>1. Top' = frames[runningThread'][Depth'] /\ Depth' \in 1 .. Len(frames[runningThread'])
      BY <1>2, <1>3, <1>4, <2>2 DEF Top
    <3>2. ~NoneRan(Top') /\ ~Returning(Top')
      BY <1>1, <1>2, <1>4, <2>2, <3>1 DEF SuspendedAreSafe
    <3> QED
      BY <3>2 DEF RegistersAreTops, NoneRan, Returning
  <2>3. CASE ~(Depth' > 0)
    BY <2>3 DEF RegistersAreTops
  <2> QED
    BY <2>1, <2>2, <2>3
<1>6. StatusSurvivesWithSepc'
  <2>1. \A t \in Threads : \A i \in 1 .. Len(frames[t]) :
           /\ frames'[t][i].kind = frames[t][i].kind
           /\ frames'[t][i].SPP = frames[t][i].SPP
    <3> SUFFICES ASSUME NEW t \in Threads, NEW i \in 1 .. Len(frames[t])
                 PROVE  /\ frames'[t][i].kind = frames[t][i].kind
                        /\ frames'[t][i].SPP = frames[t][i].SPP
      OBVIOUS
    <3>1. frames'[t][i] = IF t = r /\ i = Depth THEN g ELSE frames[t][i]
      BY <1>3
    <3>2. g.kind = frames[r][Depth].kind /\ g.SPP = frames[r][Depth].SPP
      BY <1>2 DEF TopBecomes
    <3> QED
      BY <3>1, <3>2
  <2> QED
    BY <1>1, <1>2, <1>3, <2>1 DEF StatusSurvivesWithSepc, Place
<1>7. ModeIsRight'
  <2>1. mode' = "supervisor"
    BY <1>1, <1>2 DEF ModeIsRight, TopBecomes
  <2>2. ASSUME ~(Depth' > 0)
        PROVE  runningThread' = Output
    <3>1. Len(frames[runningThread']) = 0 /\ Len(frames[r]) > 0
      BY <1>2, <1>4, <2>2
    <3> QED
      BY <1>1, <1>2, <3>1 DEF OthersAreInTraps
  <2> QED
    BY <2>1, <2>2 DEF ModeIsRight, BodyMode
<1> QED
  BY <1>5, <1>6, <1>7

-----------------------------------------------------------------------------
(* Types                                                                   *)

LEMMA EnqueueTypes ==
    ASSUME NEW q \in Seq(Threads), NEW t \in Threads
    PROVE  Enqueue(q, t) \in Seq(Threads)
BY DEF Enqueue

LEMMA SwitchTypes ==
    ASSUME NEW q \in Seq(Threads), SwitchTo(q)
    PROVE  runningThread' \in Threads /\ ready' \in Seq(Threads)
<1>1. Idle \in Threads
  BY TrapsAssumption
<1> QED
  BY <1>1 DEF SwitchTo, First, Rest

LEMMA WaitTypes ==
    ASSUME SemaphoresAreTyped, NEW s \in BufferSemaphores, NEW t \in Threads,
           WaitPasses(s) \/ WaitBlocks(s, t)
    PROVE  SemaphoresAreTyped'
<1>1. CASE WaitPasses(s)
  BY <1>1 DEF WaitPasses, Decrement, SemaphoresAreTyped
<1>2. CASE WaitBlocks(s, t)
  <2> DEFINE b == Append(blockedThreads[s], t)
  <2>1. b \in Seq(Threads) /\ Len(b) = Len(blockedThreads[s]) + 1
    BY DEF SemaphoresAreTyped
  <2> HIDE DEF b
  <2>2. blockedThreads' = [blockedThreads EXCEPT ![s] = b]
    BY <1>2 DEF WaitBlocks, b
  <2> QED
    BY <1>2, <2>1, <2>2 DEF WaitBlocks, Decrement, SemaphoresAreTyped
<1> QED
  BY <1>1, <1>2

LEMMA SignalTypes ==
    ASSUME SemaphoresAreTyped, ready \in Seq(Threads), NEW s \in BufferSemaphores, Signal(s)
    PROVE  SemaphoresAreTyped' /\ ready' \in Seq(Threads)
<1>1. CASE semaphoreValue[s] + 1 <= 0
  <2> DEFINE b == blockedThreads[s]
  <2>1. b \in Seq(Threads) /\ semaphoreValue[s] \in Int /\ Len(b) = -semaphoreValue[s]
    BY <1>1 DEF SemaphoresAreTyped
  <2>2. Head(b) \in Threads /\ Tail(b) \in Seq(Threads) /\ Len(Tail(b)) = Len(b) - 1
    BY <1>1, <2>1
  <2>3. ready' = Enqueue(ready, Head(b)) /\ blockedThreads' = [blockedThreads EXCEPT ![s] = Tail(b)]
    BY <1>1, <2>1 DEF Signal
  <2> DEFINE c == Tail(b)
             h == Head(b)
  <2>4. c \in Seq(Threads) /\ Len(c) = -semaphoreValue[s] - 1 /\ h \in Threads
    BY <2>1, <2>2
  <2>5. blockedThreads' = [blockedThreads EXCEPT ![s] = c] /\ ready' = Enqueue(ready, h)
    BY <2>3
  <2> HIDE DEF b, c, h
  <2>6. ready' \in Seq(Threads)
    BY <2>4, <2>5, EnqueueTypes
  <2> QED
    BY <1>1, <2>4, <2>5, <2>6 DEF Signal, SemaphoresAreTyped
<1>2. CASE ~(semaphoreValue[s] + 1 <= 0)
  BY <1>2 DEF Signal, SemaphoresAreTyped
<1> QED
  BY <1>1, <1>2

LEMMA CursorTypes ==
    ASSUME NEW i \in 0 .. Capacity - 1
    PROVE  (i + 1) % Capacity \in 0 .. Capacity - 1
BY KernelBufferAssumption

\* What a step of the handler may do to the rest of the state.
RestIsTyped ==
    /\ SPIE' \in BOOLEAN
    /\ ready' \in Seq(Threads)
    /\ outputWaits' \in BOOLEAN /\ preempted' \in BOOLEAN
    /\ head' \in 0 .. Capacity - 1 /\ tail' \in 0 .. Capacity - 1
    /\ {typed', uart'} \subseteq Seq(Nat)
    /\ SemaphoresAreTyped'

LEMMA TypesAfterTopBecomes ==
    ASSUME TrapInv, NEW g, TopBecomes(g), RestIsTyped,
           mode' \in Modes, SPP' \in Modes, SIE' \in BOOLEAN, sepc' \in Threads \X Int
    PROVE  (TypeOK /\ Types)'
<1>1. TypeOK /\ Types
  BY DEF TrapInv
<1>2. /\ frames' \in [Threads -> Seq(Frame)]
      /\ \A t \in Threads : Len(frames'[t]) = Len(frames[t])
  BY <1>1, TopChanges DEF TopBecomes
<1>3. \A t \in Threads : Len(frames'[t]) <= MaxNesting
  BY <1>1, <1>2 DEF TypeOK
<1>4. TypeOK'
  BY <1>3 DEF TypeOK, TopBecomes, StagesGoOn, RestIsTyped, Modes, Stages
<1>5. Types'
  BY <1>2 DEF Types, RestIsTyped
<1> QED
  BY <1>4, <1>5

\* A handler step that leaves the registers alone keeps the invariant.
LEMMA QuietStepKeepsInv ==
    ASSUME TrapInv, NEW g, TopBecomes(g), LeavesRegisters(g), RestIsTyped
    PROVE  TrapInv'
<1>1. (TypeOK /\ Types)'
  <2>1. mode' \in Modes /\ SPP' \in Modes /\ SIE' \in BOOLEAN /\ sepc' \in Threads \X Int
    BY DEF TrapInv, TypeOK, Types, LeavesRegisters, Modes
  <2> QED
    BY <2>1, TypesAfterTopBecomes
<1>2. (FramesAreRight /\ SuspendedAreSafe /\ OthersAreInTraps /\ StagesAreRight)'
  BY FramesAfterTopBecomes
<1>3. (RegistersAreTops /\ StatusSurvivesWithSepc /\ ModeIsRight)'
  BY RegistersAfterTopBecomes
<1>4. OnlyDisturbedReturnsGoAstray'
  BY DEF TopBecomes, OnlyDisturbedReturnsGoAstray
<1> QED
  BY <1>1, <1>2, <1>3, <1>4 DEF TrapInv

-----------------------------------------------------------------------------
(* The handler                                                             *)

\* A trap that has saved sepc and sstatus goes on, perhaps in another thread.
LEMMA SavingTrapGoesOn ==
    ASSUME TrapInv, NEW kinds \in SUBSET SavesStatus, At(kinds, "run"), GoTo("restore"),
           StagesGoOn, runningThread' \in Threads, RestIsTyped,
           UNCHANGED << mode, SIE, sepc, SPP, astray >>
    PROVE  TrapInv'
<1> DEFINE g == [Top EXCEPT !.phase = "restore"]
<1>1. TypeOK /\ Types /\ FramesAreRight /\ ~astray /\ Depth > 0
  BY DEF TrapInv, At
<1>2. /\ Top \in Frame /\ Top.kind \in SavesStatus /\ Top.phase = "run"
      /\ Depth \in 1 .. Len(frames[runningThread]) /\ runningThread \in Threads
      /\ Top = frames[runningThread][Depth]
  BY <1>1, DepthIsNat DEF At, Depth, TypeOK, Top
<1>3. ~Top.disturbed
  BY <1>1, <1>2 DEF FramesAreRight, FrameIsRight, Returning, SavesStatus
<1>4. /\ g \in Frame /\ g.kind = Top.kind /\ g.sepc = Top.sepc /\ g.SPP = Top.SPP
      /\ g.phase = "restore" /\ g.disturbed = Top.disturbed
  BY <1>2 DEF Frame, Phases
<1>5. frames' = [frames EXCEPT ![runningThread] = [@ EXCEPT ![Depth] = g]]
  BY <1>2 DEF GoTo
<1> HIDE DEF g
<1>6. ~NoneRan(g) /\ ~Returning(g) /\ ~g.disturbed
  BY <1>2, <1>3, <1>4 DEF NoneRan, Returning, SavesStatus
<1>7. TopBecomes(g)
  BY <1>1, <1>4, <1>5, <1>6 DEF TopBecomes
<1>8. LeavesRegisters(g)
  BY <1>2, <1>4, <1>6 DEF LeavesRegisters, SavesStatus
<1> QED
  BY <1>7, <1>8, QuietStepKeepsInv

\* What the state of one action says to the next lemmas.
LEMMA NowTyped ==
    ASSUME TrapInv
    PROVE  /\ TypeOK /\ Types /\ SemaphoresAreTyped
           /\ ready \in Seq(Threads) /\ runningThread \in Threads
           /\ stage \in [Threads -> Stages]
           /\ SPIE \in BOOLEAN /\ outputWaits \in BOOLEAN /\ preempted \in BOOLEAN
           /\ head \in 0 .. Capacity - 1 /\ tail \in 0 .. Capacity - 1
           /\ typed \in Seq(Nat) /\ uart \in Seq(Nat)
BY DEF TrapInv, TypeOK, Types, Stages

LEMMA SemaphoresStayTyped ==
    ASSUME SemaphoresAreTyped, UNCHANGED semVars
    PROVE  SemaphoresAreTyped'
BY DEF SemaphoresAreTyped, semVars

LEMMA DispatchStep ==
    ASSUME TrapInv, HandleDispatch
    PROVE  TrapInv'
<1> USE NowTyped
<1>1. /\ At({"dispatch"}, "run") /\ GoTo("restore")
      /\ UNCHANGED << cpuVars, stage, outputVars, inputVars, astray, preempted >>
      /\ SwitchTo(Enqueue(ready, runningThread))
  BY DEF HandleDispatch
<1>2. runningThread' \in Threads /\ ready' \in Seq(Threads)
  BY <1>1, EnqueueTypes, SwitchTypes
<1>3. RestIsTyped /\ StagesGoOn
  BY <1>1, <1>2, SemaphoresStayTyped
     DEF RestIsTyped, StagesGoOn, cpuVars, csrVars, outputVars, inputVars, ringVars
<1>9. {"dispatch"} \in SUBSET SavesStatus /\ UNCHANGED << mode, SIE, sepc, SPP, astray >>
  BY <1>1 DEF SavesStatus, cpuVars, csrVars
<1> QED
  BY <1>1, <1>2, <1>3, <1>9, SavingTrapGoesOn

LEMMA SleepStep ==
    ASSUME TrapInv, HandleSleep
    PROVE  TrapInv'
<1> USE NowTyped
<1>1. /\ At({"sleep"}, "run") /\ GoTo("restore")
      /\ UNCHANGED << cpuVars, stage, outputVars, inputVars, astray, preempted >>
      /\ SwitchTo(ready)
  BY DEF HandleSleep, SuspendCurrentThread
<1>2. runningThread' \in Threads /\ ready' \in Seq(Threads)
  BY <1>1, SwitchTypes
<1>3. RestIsTyped /\ StagesGoOn
  BY <1>1, <1>2, SemaphoresStayTyped
     DEF RestIsTyped, StagesGoOn, cpuVars, csrVars, outputVars, inputVars, ringVars
<1>9. {"sleep"} \in SUBSET SavesStatus /\ UNCHANGED << mode, SIE, sepc, SPP, astray >>
  BY <1>1 DEF SavesStatus, cpuVars, csrVars
<1> QED
  BY <1>1, <1>2, <1>3, <1>9, SavingTrapGoesOn

LEMMA CreateStep ==
    ASSUME TrapInv, HandleCreate
    PROVE  TrapInv'
<1> USE NowTyped
<1>1. /\ At({"create"}, "run") /\ GoTo("restore")
      /\ UNCHANGED << runningThread, cpuVars, outputVars, inputVars, astray, preempted >>
  BY DEF HandleCreate
<1>2. PICK t \in Threads : /\ stage[t] = "new"
                           /\ stage' = [stage EXCEPT ![t] = "wrapper"]
                           /\ ready' = Enqueue(ready, t)
  BY DEF HandleCreate
<1>3. ready' \in Seq(Threads)
  BY <1>2, EnqueueTypes
<1>4. RestIsTyped
  BY <1>1, <1>3, SemaphoresStayTyped
     DEF RestIsTyped, cpuVars, csrVars, outputVars, inputVars, ringVars
<1>5. StagesGoOn
  BY <1>2 DEF StagesGoOn, Stages
<1>9. {"create"} \in SUBSET SavesStatus /\ UNCHANGED << mode, SIE, sepc, SPP, astray >>
  BY <1>1 DEF SavesStatus, cpuVars, csrVars
<1> QED
  BY <1>1, <1>4, <1>5, <1>9, SavingTrapGoesOn

LEMMA PutcStep ==
    ASSUME TrapInv, HandlePutc
    PROVE  TrapInv'
<1> USE NowTyped
<1>1. /\ At({"putc"}, "run") /\ GoTo("restore")
      /\ UNCHANGED << runningThread, cpuVars, stage, inputVars, astray, preempted >>
      /\ outputWaits' = FALSE
      /\ ready' = IF outputWaits THEN Enqueue(ready, Output) ELSE ready
  BY DEF HandlePutc
<1>2. ready' \in Seq(Threads)
  BY <1>1, TrapsAssumption, EnqueueTypes
<1>3. RestIsTyped /\ StagesGoOn
  BY <1>1, <1>2, SemaphoresStayTyped
     DEF RestIsTyped, StagesGoOn, cpuVars, csrVars, inputVars, ringVars
<1>9. {"putc"} \in SUBSET SavesStatus /\ UNCHANGED << mode, SIE, sepc, SPP, astray >>
  BY <1>1 DEF SavesStatus, cpuVars, csrVars
<1> QED
  BY <1>1, <1>3, <1>9, SavingTrapGoesOn

LEMMA WokenTypes ==
    ASSUME TrapInv, NEW q \in {ready} \cup {Enqueue(ready, t) : t \in Asleep}
    PROVE  q \in Seq(Threads)
<1>1. \A t \in Asleep : t \in Threads
  BY DEF Asleep
<1> QED
  BY <1>1, NowTyped, EnqueueTypes

\* An interrupt that saves nothing goes on: the timer's returns at once, the
\* console's may be suspended and is then marked.
LEMMA InterruptGoesOn ==
    ASSUME TrapInv, ~astray, Depth > 0, Top.kind \in {"tick", "console"},
           NEW g \in Frame, g.kind = Top.kind, g.sepc = Top.sepc, g.SPP = Top.SPP,
           frames' = [frames EXCEPT ![runningThread] = [@ EXCEPT ![Depth] = g]],
           Top.kind = "tick" => Returning(g),
           runningThread' \in Threads,
           runningThread' = runningThread => (g.disturbed <=> Top.disturbed),
           runningThread' # runningThread =>
               g.kind = "console" /\ g.disturbed /\ ~Returning(g),
           RestIsTyped, UNCHANGED << mode, SIE, sepc, SPP, stage, astray >>
    PROVE  TrapInv'
<1>1. StagesGoOn
  BY NowTyped DEF StagesGoOn
<1>2. g.disturbed => g.kind = "console" \/ Returning(g)
  OBVIOUS
<1>3. runningThread' # runningThread => ~NoneRan(g) /\ ~Returning(g)
  BY DEF NoneRan
<1>4. TopBecomes(g)
  BY <1>1, <1>2, <1>3 DEF TopBecomes
<1>5. LeavesRegisters(g)
  BY DEF LeavesRegisters
<1> QED
  BY <1>4, <1>5, QuietStepKeepsInv

LEMMA TimerStep ==
    ASSUME TrapInv, HandleTimer
    PROVE  TrapInv'
<1> USE NowTyped
<1>1. /\ At({"tick", "slice"}, "run")
      /\ UNCHANGED << cpuVars, stage, outputVars, inputVars, astray, preempted >>
  BY DEF HandleTimer
<1>2. PICK q \in {ready} \cup {Enqueue(ready, t) : t \in Asleep} :
          \/ Top.kind = "tick" /\ GoTo("sret") /\ ready' = q /\ UNCHANGED runningThread
          \/ Top.kind = "slice" /\ GoTo("restore") /\ SwitchTo(Enqueue(q, runningThread))
  BY DEF HandleTimer
<1>3. q \in Seq(Threads)
  BY WokenTypes
<1>4. runningThread' \in Threads /\ ready' \in Seq(Threads)
  BY <1>2, <1>3, EnqueueTypes, SwitchTypes
<1>5. RestIsTyped /\ StagesGoOn
  BY <1>1, <1>4, SemaphoresStayTyped
     DEF RestIsTyped, StagesGoOn, cpuVars, csrVars, outputVars, inputVars, ringVars
<1>6. UNCHANGED << mode, SIE, sepc, SPP, stage, astray >>
  BY <1>1 DEF cpuVars, csrVars
<1>7. CASE Top.kind = "tick" /\ GoTo("sret") /\ UNCHANGED runningThread
  <2> DEFINE g == [Top EXCEPT !.phase = "sret"]
  <2>1. ~astray /\ Depth > 0 /\ Top \in Frame
    BY <1>1, DepthIsNat DEF At
  <2>2. /\ g \in Frame /\ g.kind = Top.kind /\ g.sepc = Top.sepc /\ g.SPP = Top.SPP
        /\ (g.disturbed <=> Top.disturbed) /\ Returning(g)
    BY <2>1 DEF Frame, Phases, Returning
  <2>3. frames' = [frames EXCEPT ![runningThread] = [@ EXCEPT ![Depth] = g]]
    BY <1>7 DEF GoTo, Top
  <2> HIDE DEF g
  <2> QED
    BY <1>4, <1>5, <1>6, <1>7, <2>1, <2>2, <2>3, InterruptGoesOn
<1>8. CASE Top.kind = "slice" /\ GoTo("restore")
  <2>1. {"slice"} \in SUBSET SavesStatus /\ At({"slice"}, "run")
    BY <1>1, <1>8 DEF SavesStatus, At
  <2> QED
    BY <1>4, <1>5, <1>6, <1>8, <2>1, SavingTrapGoesOn
<1> QED
  BY <1>2, <1>7, <1>8

\* What the statements of the buffer lead to and which semaphore they use.
LEMMA WaitStatements ==
    /\ DOMAIN WaitsFor = {"waitItem", "waitHead", "waitSpace", "waitTail"}
    /\ \A p \in DOMAIN WaitsFor :
          /\ p \in Statements /\ After[p] \in Statements
          /\ WaitsFor[p] \in BufferSemaphores
BY DEF WaitsFor, After, Statements, BufferSemaphores

LEMMA SignalStatements ==
    /\ DOMAIN Signals = {"signalHead", "signalSpace", "signalTail", "signalItem"}
    /\ \A p \in DOMAIN Signals :
          /\ p \in Statements /\ After[p] \in Statements \cup {"run", "restore"}
          /\ Signals[p] \in BufferSemaphores
BY DEF Signals, After, Statements, BufferSemaphores

\* A trap that uses the input buffer goes on, perhaps in another thread; a
\* console interrupt that is suspended is marked.
LEMMA BufferTrapGoesOn ==
    ASSUME TrapInv, NEW S \in SUBSET Statements, AtStatement(S),
           NEW g \in Frame, g.kind = Top.kind, g.sepc = Top.sepc, g.SPP = Top.SPP,
           ~Returning(g),
           frames' = [frames EXCEPT ![runningThread] = [@ EXCEPT ![Depth] = g]],
           runningThread' \in Threads,
           g.disturbed <=> \/ Top.disturbed
                           \/ Top.kind = "console" /\ runningThread' # runningThread,
           RestIsTyped, UNCHANGED << mode, SIE, sepc, SPP, stage, astray >>
    PROVE  TrapInv'
<1>1. /\ TypeOK /\ Types /\ FramesAreRight /\ ~astray /\ Depth > 0
      /\ Top.kind \in {"getc", "console"} /\ Top.phase \in Statements
  BY DEF TrapInv, AtStatement
<1>2. /\ Depth \in 1 .. Len(frames[runningThread]) /\ runningThread \in Threads
      /\ Top = frames[runningThread][Depth]
  BY <1>1, DepthIsNat DEF Depth, TypeOK, Top
<1>3. Top.disturbed => Top.kind = "console"
  BY <1>1, <1>2 DEF FramesAreRight, FrameIsRight, Returning, Statements
<1>4. StagesGoOn
  BY NowTyped DEF StagesGoOn
<1>5. runningThread' # runningThread => ~NoneRan(g)
  BY <1>1 DEF NoneRan
<1>6. TopBecomes(g)
  BY <1>1, <1>3, <1>4, <1>5 DEF TopBecomes
<1>7. LeavesRegisters(g)
  BY <1>1 DEF LeavesRegisters
<1> QED
  BY <1>6, <1>7, QuietStepKeepsInv

LEMMA WaitStep ==
    ASSUME TrapInv, WaitSemaphore
    PROVE  TrapInv'
<1> USE NowTyped
<1> DEFINE p == Top.phase
           moved == Top.kind = "console" /\ runningThread' # runningThread
           next == After[p]
           g == [Top EXCEPT !.phase = next, !.disturbed = @ \/ moved]
<1>1. /\ AtStatement(DOMAIN WaitsFor)
      /\ UNCHANGED << cpuVars, stage, outputVars, ringVars, uart, typed, astray, preempted >>
      /\ \/ WaitPasses(WaitsFor[p]) /\ UNCHANGED << ready, runningThread >>
         \/ WaitBlocks(WaitsFor[p], runningThread) /\ SwitchTo(ready)
  BY DEF WaitSemaphore, InputRest, SuspendCurrentThread
<1>2. frames' = [frames EXCEPT ![runningThread] = [@ EXCEPT ![Depth] = g]]
  BY DEF WaitSemaphore, Top
<1>3. p \in DOMAIN WaitsFor /\ WaitsFor[p] \in BufferSemaphores /\ next \in Statements
  BY <1>1, WaitStatements DEF AtStatement
<1>4. runningThread' \in Threads /\ ready' \in Seq(Threads)
  BY <1>1, SwitchTypes
<1>5. SemaphoresAreTyped'
  BY <1>1, <1>3, WaitTypes
<1>6. RestIsTyped
  BY <1>1, <1>4, <1>5
     DEF RestIsTyped, cpuVars, csrVars, outputVars, ringVars
<1>7. UNCHANGED << mode, SIE, sepc, SPP, stage, astray >>
  BY <1>1 DEF cpuVars, csrVars
<1>8. Top \in Frame
  BY <1>1, DepthIsNat DEF AtStatement
<1>9. moved \in BOOLEAN
  OBVIOUS
<1> HIDE DEF moved, next
<1>10. /\ g \in Frame /\ g.kind = Top.kind /\ g.sepc = Top.sepc /\ g.SPP = Top.SPP
       /\ (g.disturbed <=> Top.disturbed \/ moved) /\ ~Returning(g)
  BY <1>3, <1>8, <1>9 DEF Frame, Phases, Returning, Statements
<1> HIDE DEF g
<1>11. g.disturbed <=> \/ Top.disturbed
                       \/ Top.kind = "console" /\ runningThread' # runningThread
  BY <1>10 DEF moved
<1>12. DOMAIN WaitsFor \in SUBSET Statements
  BY WaitStatements
<1> QED
  BY <1>1, <1>2, <1>4, <1>6, <1>7, <1>10, <1>11, <1>12, BufferTrapGoesOn

\* The statements that leave the thread running.
LEMMA BufferStatementStep ==
    ASSUME TrapInv, NEW S \in SUBSET Statements, AtStatement(S),
           NEW next, next \in Statements \cup {"run", "restore"}, NEW input \in Seq(Nat),
           frames' = [frames EXCEPT ![runningThread][Depth] =
                         [Top EXCEPT !.phase = next, !.input = input]],
           RestIsTyped, UNCHANGED << runningThread, mode, SIE, sepc, SPP, stage, astray >>
    PROVE  TrapInv'
<1> USE NowTyped
<1> DEFINE g == [Top EXCEPT !.phase = next, !.input = input]
<1>1. frames' = [frames EXCEPT ![runningThread] = [@ EXCEPT ![Depth] = g]]
  BY DEF Top
<1>2. Top \in Frame
  BY DepthIsNat DEF AtStatement
<1>3. /\ g \in Frame /\ g.kind = Top.kind /\ g.sepc = Top.sepc /\ g.SPP = Top.SPP
      /\ (g.disturbed <=> Top.disturbed) /\ ~Returning(g)
  BY <1>2 DEF Frame, Phases, Returning, Statements
<1> HIDE DEF g
<1> QED
  BY <1>1, <1>3, BufferTrapGoesOn

\* GoTo leaves the character a console interrupt holds.
LEMMA GoToKeepsInput ==
    ASSUME TrapInv, Depth > 0, NEW next, GoTo(next)
    PROVE  /\ Top.input \in Seq(Nat)
           /\ frames' = [frames EXCEPT ![runningThread][Depth] =
                             [Top EXCEPT !.phase = next, !.input = Top.input]]
<1>1. Top \in Frame
  BY NowTyped, DepthIsNat
<1>2. [Top EXCEPT !.phase = next] = [Top EXCEPT !.phase = next, !.input = Top.input]
  BY <1>1 DEF Frame
<1> QED
  BY <1>1, <1>2 DEF GoTo, Top, Frame

LEMMA SignalStep ==
    ASSUME TrapInv, SignalSemaphore
    PROVE  TrapInv'
<1> USE NowTyped
<1> DEFINE next == After[Top.phase]
<1>1. /\ AtStatement(DOMAIN Signals) /\ Signal(Signals[Top.phase]) /\ GoTo(next)
      /\ UNCHANGED << runningThread, cpuVars, stage, outputVars, ringVars, uart, typed,
                      astray, preempted >>
  BY DEF SignalSemaphore, InputRest
<1>2. /\ Signals[Top.phase] \in BufferSemaphores /\ DOMAIN Signals \in SUBSET Statements
      /\ next \in Statements \cup {"run", "restore"} /\ Depth > 0
  BY <1>1, SignalStatements DEF AtStatement
<1>3. SemaphoresAreTyped' /\ ready' \in Seq(Threads)
  BY <1>1, <1>2, SignalTypes
<1>4. RestIsTyped
  BY <1>1, <1>3 DEF RestIsTyped, cpuVars, csrVars, outputVars, ringVars
<1>5. UNCHANGED << runningThread, mode, SIE, sepc, SPP, stage, astray >>
  BY <1>1 DEF cpuVars, csrVars
<1> HIDE DEF next
<1> QED
  BY <1>1, <1>2, <1>4, <1>5, GoToKeepsInput, BufferStatementStep

LEMMA FetchStep ==
    ASSUME TrapInv, FetchCharacter
    PROVE  TrapInv'
<1> USE NowTyped
<1>1. /\ AtStatement({"fetch"}) /\ Fetch /\ GoTo("signalHead")
      /\ UNCHANGED << ready, runningThread, cpuVars, stage, outputVars, semVars, uart, typed,
                      astray, preempted >>
  BY DEF FetchCharacter, InputRest, After
<1>2. {"fetch"} \in SUBSET Statements /\ "signalHead" \in Statements /\ Depth > 0
  BY <1>1 DEF Statements, AtStatement
<1>3. head' \in 0 .. Capacity - 1 /\ tail' = tail
  BY <1>1, CursorTypes DEF Fetch
<1>4. RestIsTyped
  BY <1>1, <1>3, SemaphoresStayTyped DEF RestIsTyped, cpuVars, csrVars, outputVars
<1>5. UNCHANGED << runningThread, mode, SIE, sepc, SPP, stage, astray >>
  BY <1>1 DEF cpuVars, csrVars
<1> QED
  BY <1>1, <1>2, <1>4, <1>5, GoToKeepsInput, BufferStatementStep

LEMMA StoreStep ==
    ASSUME TrapInv, StoreCharacter
    PROVE  TrapInv'
<1> USE NowTyped
<1>1. /\ AtStatement({"store"}) /\ Put(Top.input[1])
      /\ frames' = [frames EXCEPT ![runningThread][Depth] =
                       [Top EXCEPT !.phase = "signalTail", !.input = << >>]]
      /\ UNCHANGED << ready, runningThread, cpuVars, stage, outputVars, semVars, uart, typed,
                      astray, preempted >>
  BY DEF StoreCharacter, InputRest, After
<1>2. {"store"} \in SUBSET Statements /\ "signalTail" \in Statements
  BY DEF Statements
<1>3. tail' \in 0 .. Capacity - 1 /\ head' = head
  BY <1>1, CursorTypes DEF Put
<1>4. RestIsTyped
  BY <1>1, <1>3, SemaphoresStayTyped DEF RestIsTyped, cpuVars, csrVars, outputVars
<1>5. UNCHANGED << runningThread, mode, SIE, sepc, SPP, stage, astray >>
  BY <1>1 DEF cpuVars, csrVars
<1>6. << >> \in Seq(Nat)
  OBVIOUS
<1> QED
  BY <1>1, <1>2, <1>4, <1>5, <1>6, BufferStatementStep

LEMMA ConsoleReadsStep ==
    ASSUME TrapInv, ConsoleReads
    PROVE  TrapInv'
<1> USE NowTyped
<1> DEFINE g == [Top EXCEPT !.phase = "waitSpace", !.input = << Head(uart) >>]
<1>1. /\ At({"console"}, "run") /\ uart # << >> /\ uart' = Tail(uart)
      /\ UNCHANGED << ready, runningThread, cpuVars, stage, outputVars, semVars, ringVars,
                      typed, astray, preempted >>
  BY DEF ConsoleReads, InputRest
<1>2. frames' = [frames EXCEPT ![runningThread] = [@ EXCEPT ![Depth] = g]]
  BY DEF ConsoleReads, Top
<1>3. RestIsTyped
  BY <1>1, SemaphoresStayTyped DEF RestIsTyped, cpuVars, csrVars, outputVars, ringVars
<1>4. UNCHANGED << mode, SIE, sepc, SPP, stage, astray >> /\ UNCHANGED runningThread
  BY <1>1 DEF cpuVars, csrVars
<1>5. ~astray /\ Depth > 0 /\ Top \in Frame /\ Top.kind = "console"
  BY <1>1, DepthIsNat DEF At
<1>6. << Head(uart) >> \in Seq(Nat)
  BY <1>1
<1>7. /\ g \in Frame /\ g.kind = Top.kind /\ g.sepc = Top.sepc /\ g.SPP = Top.SPP
      /\ (g.disturbed <=> Top.disturbed)
  BY <1>5, <1>6 DEF Frame, Phases, Statements
<1> HIDE DEF g
<1> QED
  BY <1>2, <1>3, <1>4, <1>5, <1>7, InterruptGoesOn

LEMMA ConsoleCompletesStep ==
    ASSUME TrapInv, ConsoleCompletes
    PROVE  TrapInv'
<1> USE NowTyped
<1> DEFINE g == [Top EXCEPT !.phase = "sret"]
<1>1. /\ At({"console"}, "run") /\ GoTo("sret")
      /\ UNCHANGED << ready, runningThread, inputVars, cpuVars, stage, outputVars, astray, preempted >>
  BY DEF ConsoleCompletes, InputRest
<1>2. frames' = [frames EXCEPT ![runningThread] = [@ EXCEPT ![Depth] = g]]
  BY <1>1 DEF GoTo, Top
<1>3. RestIsTyped
  BY <1>1, SemaphoresStayTyped DEF RestIsTyped, cpuVars, csrVars, outputVars, inputVars, ringVars
<1>4. UNCHANGED << mode, SIE, sepc, SPP, stage, astray >> /\ UNCHANGED runningThread
  BY <1>1 DEF cpuVars, csrVars
<1>5. ~astray /\ Depth > 0 /\ Top \in Frame /\ Top.kind = "console"
  BY <1>1, DepthIsNat DEF At
<1>6. /\ g \in Frame /\ g.kind = Top.kind /\ g.sepc = Top.sepc /\ g.SPP = Top.SPP
      /\ (g.disturbed <=> Top.disturbed)
  BY <1>5 DEF Frame, Phases
<1> HIDE DEF g
<1> QED
  BY <1>2, <1>3, <1>4, <1>5, <1>6, InterruptGoesOn

-----------------------------------------------------------------------------
(* Steps that write sepc or sstatus                                        *)

\* The step goes on in the same trap, whose frame becomes g.
LEMMA RegisterStepKeepsInv ==
    ASSUME TrapInv, NEW g, TopBecomes(g), RestIsTyped, UNCHANGED << runningThread, mode >>,
           SPP' \in Modes, SIE' \in BOOLEAN, sepc' \in Threads \X Int,
           RegistersAreTops', StatusSurvivesWithSepc'
    PROVE  TrapInv'
<1>1. (TypeOK /\ Types)'
  <2>1. mode' \in Modes
    BY DEF TrapInv, TypeOK, Modes
  <2> QED
    BY <2>1, TypesAfterTopBecomes
<1>2. (FramesAreRight /\ SuspendedAreSafe /\ OthersAreInTraps /\ StagesAreRight)'
  BY FramesAfterTopBecomes
<1>3. ModeIsRight'
  <2>1. TypeOK /\ Types /\ runningThread \in Threads /\ Depth = Len(frames[runningThread])
    BY DEF TrapInv, TypeOK, Depth
  <2>2. Len(frames'[runningThread]) = Len(frames[runningThread])
    BY <2>1, TopChanges DEF TopBecomes
  <2>3. Depth' = Depth
    BY <2>1, <2>2 DEF Depth
  <2> QED
    BY <2>3 DEF TrapInv, TopBecomes, ModeIsRight
<1>4. OnlyDisturbedReturnsGoAstray'
  BY DEF TopBecomes, OnlyDisturbedReturnsGoAstray
<1> QED
  BY <1>1, <1>2, <1>3, <1>4 DEF TrapInv

\* How the frames look when the top of the running thread has become g.
LEMMA TopsAfterTopBecomes ==
    ASSUME TrapInv, NEW g, TopBecomes(g), UNCHANGED runningThread
    PROVE  /\ Depth' = Depth /\ Top' = g
           /\ \A t \in Threads : Len(frames'[t]) = Len(frames[t])
           /\ \A t \in Threads : t # runningThread => frames'[t] = frames[t]
           /\ frames'[runningThread][Depth] = g /\ Len(frames[runningThread]) = Depth
<1>1. /\ TypeOK /\ Types /\ runningThread \in Threads /\ Depth > 0
      /\ Depth = Len(frames[runningThread]) /\ frames \in [Threads -> Seq(Frame)]
  BY DEF TrapInv, TypeOK, Types, Depth, TopBecomes
<1>2. Depth \in Nat
  BY <1>1, DepthIsNat
<1>3. /\ \A t \in Threads : Len(frames'[t]) = Len(frames[t])
      /\ \A i \in 1 .. Len(frames[runningThread]) :
            frames'[runningThread][i] = IF i = Depth THEN g ELSE frames[runningThread][i]
  BY <1>1, TopChanges DEF TopBecomes
<1>4. frames'[runningThread][Depth] = g
  BY <1>1, <1>2, <1>3
<1>5. \A t \in Threads : t # runningThread => frames'[t] = frames[t]
  BY <1>1 DEF TopBecomes
<1>6. Depth' = Depth
  BY <1>1, <1>3 DEF Depth
<1> QED
  BY <1>1, <1>3, <1>4, <1>5, <1>6 DEF Top

\* A trap that saves sepc: whatever it does to sstatus, no other trap has its
\* place in sepc.
LEMMA StatusOfOthers ==
    ASSUME TrapInv, NEW g, TopBecomes(g), UNCHANGED runningThread,
           g.kind \notin {"console", "tick"}, NEW n, sepc' = Place(runningThread, n)
    PROVE  StatusSurvivesWithSepc'
<1> SUFFICES ASSUME NEW t \in Threads,
                    Len(frames'[t]) > 0,
                    frames'[t][Len(frames'[t])].kind \in {"console", "tick"},
                    sepc' = Place(t, Len(frames'[t]) - 1)
             PROVE  FALSE
  BY DEF StatusSurvivesWithSepc, Place
<1>1. t = runningThread
  BY DEF Place
<1>2. frames'[t][Len(frames'[t])] = g
  BY <1>1, TopsAfterTopBecomes
<1> QED
  BY <1>2

LEMMA SwitchModeStep ==
    ASSUME TrapInv, HandleSwitchMode
    PROVE  TrapInv'
<1> USE NowTyped
<1> DEFINE g == [Top EXCEPT !.phase = "restore"]
<1>1. /\ At({"to user", "to supervisor"}, "run") /\ GoTo("restore")
      /\ SPP' = IF Top.kind = "to user" THEN "user" ELSE "supervisor"
      /\ UNCHANGED << ready, runningThread, mode, SIE, sepc, SPIE, stage,
                      outputVars, inputVars, astray, preempted >>
  BY DEF HandleSwitchMode
<1>2. frames' = [frames EXCEPT ![runningThread] = [@ EXCEPT ![Depth] = g]]
  BY <1>1 DEF GoTo, Top
<1>3. /\ RestIsTyped /\ StagesGoOn /\ SPP' \in Modes /\ SIE' \in BOOLEAN
      /\ sepc' \in Threads \X Int
  BY <1>1, SemaphoresStayTyped
     DEF RestIsTyped, StagesGoOn, outputVars, inputVars, ringVars, Modes, TypeOK, Types
<1>4. /\ ~astray /\ Depth > 0 /\ Top \in Frame
      /\ Top.kind \in {"to user", "to supervisor"} /\ RegistersAreTops
  BY <1>1, DepthIsNat DEF At, TrapInv
<1>5. ~SIE /\ ~Top.disturbed /\ sepc = Place(runningThread, Depth - 1)
  BY <1>4 DEF RegistersAreTops, NoneRan
<1>6. /\ g \in Frame /\ g.kind = Top.kind /\ g.sepc = Top.sepc /\ g.SPP = Top.SPP
      /\ g.disturbed = Top.disturbed /\ g.phase = "restore" /\ ~Returning(g)
  BY <1>4 DEF Frame, Phases, Returning
<1> HIDE DEF g
<1>7. TopBecomes(g)
  BY <1>1, <1>2, <1>3, <1>4, <1>5, <1>6 DEF TopBecomes
<1>8. Depth' = Depth /\ Top' = g
  BY <1>1, <1>7, TopsAfterTopBecomes
<1>9. RegistersAreTops'
  <2>1. sepc' = Place(runningThread', Depth' - 1) /\ ~SIE' /\ ~Top'.disturbed
    BY <1>1, <1>5, <1>6, <1>8 DEF Place
  <2>2. ~Returning(Top') /\ Top'.phase # "sret"
    BY <1>6, <1>8
  <2>3. /\ Top'.kind = "to user" => SPP' = "user"
        /\ Top'.kind = "to supervisor" => SPP' = "supervisor"
    BY <1>1, <1>6, <1>8
  <2> QED
    BY <2>1, <2>2, <2>3 DEF RegistersAreTops, NoneRan, Returning, Place
<1>10. StatusSurvivesWithSepc'
  BY <1>1, <1>4, <1>5, <1>6, <1>7, StatusOfOthers
<1> QED
  BY <1>1, <1>3, <1>7, <1>9, <1>10, RegisterStepKeepsInv

LEMMA RestoreSepcStep ==
    ASSUME TrapInv, RestoreSepc
    PROVE  TrapInv'
<1> USE NowTyped
<1> DEFINE next == IF Top.kind \in SavesStatus THEN "status" ELSE "sret"
           g == [Top EXCEPT !.phase = next]
<1>1. /\ At(SavesSepc \cup {"start"}, "restore") /\ GoTo(next)
      /\ sepc' = Top.sepc
      /\ UNCHANGED << ready, runningThread, mode, SIE, SPP, SPIE, stage,
                      outputVars, inputVars, astray, preempted >>
  BY DEF RestoreSepc
<1>2. frames' = [frames EXCEPT ![runningThread] = [@ EXCEPT ![Depth] = g]]
  BY <1>1 DEF GoTo, Top
<1>3. /\ ~astray /\ Depth > 0 /\ Top \in Frame /\ Top.phase = "restore"
      /\ Top.kind \in SavesSepc \cup {"start"} /\ RegistersAreTops /\ FramesAreRight
      /\ Top = frames[runningThread][Depth] /\ Depth \in 1 .. Len(frames[runningThread])
  BY <1>1, DepthIsNat DEF At, TrapInv, Top, Depth
<1>4. ~Top.disturbed /\ Top.sepc = Place(runningThread, Depth - 1)
  BY <1>3 DEF FramesAreRight, FrameIsRight, Returning, SavesSepc, SavesStatus
<1>5. /\ NoneRan(Top) => ~SIE
      /\ Top.kind = "to user" => SPP = "user"
      /\ Top.kind = "to supervisor" => SPP = "supervisor"
  BY <1>3 DEF RegistersAreTops
<1>6. /\ RestIsTyped /\ StagesGoOn /\ SPP' \in Modes /\ SIE' \in BOOLEAN
      /\ sepc' \in Threads \X Int
  BY <1>1, <1>3, SemaphoresStayTyped
     DEF RestIsTyped, StagesGoOn, outputVars, inputVars, ringVars, Modes, TypeOK, Frame
<1>7. next \in Phases /\ (Top.kind \in SavesStatus => next = "status")
  BY DEF Phases
<1> HIDE DEF next
<1>8. /\ g \in Frame /\ g.kind = Top.kind /\ g.sepc = Top.sepc /\ g.SPP = Top.SPP
      /\ g.disturbed = Top.disturbed /\ g.phase = next
  BY <1>3, <1>7 DEF Frame
<1> HIDE DEF g
<1>9. TopBecomes(g)
  BY <1>1, <1>2, <1>3, <1>4, <1>6, <1>8 DEF TopBecomes
<1>10. Depth' = Depth /\ Top' = g
  BY <1>1, <1>9, TopsAfterTopBecomes
<1>11. RegistersAreTops'
  <2>1. sepc' = Place(runningThread', Depth' - 1) /\ ~Top'.disturbed /\ SIE' = SIE
    BY <1>1, <1>4, <1>8, <1>10 DEF Place
  <2>2. NoneRan(Top') => ~SIE'
    <3>1. NoneRan(Top') => NoneRan(Top)
      BY <1>8, <1>10 DEF NoneRan
    <3> QED
      BY <1>5, <2>1, <3>1
  <2>3. /\ Top'.kind = "to user" => SPP' = "user"
        /\ Top'.kind = "to supervisor" => SPP' = "supervisor"
    BY <1>1, <1>5, <1>8, <1>10
  <2>4. ~(Top'.kind \in SavesStatus /\ Top'.phase = "sret")
    BY <1>7, <1>8, <1>10
  <2> QED
    BY <2>1, <2>2, <2>3, <2>4 DEF RegistersAreTops, NoneRan, Returning, Place
<1>12. StatusSurvivesWithSepc'
  BY <1>1, <1>3, <1>4, <1>8, <1>9, StatusOfOthers DEF SavesSepc, SavesStatus
<1> QED
  BY <1>1, <1>6, <1>9, <1>11, <1>12, RegisterStepKeepsInv

LEMMA RestoreStatusStep ==
    ASSUME TrapInv, RestoreStatus
    PROVE  TrapInv'
<1> USE NowTyped
<1> DEFINE g == [Top EXCEPT !.phase = "sret"]
           n == IF Top.disturbed THEN Depth ELSE Depth - 1
<1>1. /\ At(SavesStatus, "status") /\ GoTo("sret")
      /\ SPP' = Top.SPP /\ SPIE' = Top.SPIE /\ SIE' = FALSE
      /\ UNCHANGED << ready, runningThread, mode, sepc, stage, outputVars, inputVars,
                      astray, preempted >>
  BY DEF RestoreStatus
<1>2. frames' = [frames EXCEPT ![runningThread] = [@ EXCEPT ![Depth] = g]]
  BY <1>1 DEF GoTo, Top
<1>3. /\ ~astray /\ Depth > 0 /\ Top \in Frame /\ Top.phase = "status"
      /\ Top.kind \in SavesStatus /\ RegistersAreTops
  BY <1>1, DepthIsNat DEF At, TrapInv
<1>4. sepc = Place(runningThread, n)
  BY <1>3 DEF RegistersAreTops, Returning, SavesStatus
<1>5. /\ RestIsTyped /\ StagesGoOn /\ SPP' \in Modes /\ SIE' \in BOOLEAN
      /\ sepc' \in Threads \X Int
  BY <1>1, <1>3, SemaphoresStayTyped
     DEF RestIsTyped, StagesGoOn, outputVars, inputVars, ringVars, Modes, Types, Frame
<1>6. /\ g \in Frame /\ g.kind = Top.kind /\ g.sepc = Top.sepc /\ g.SPP = Top.SPP
      /\ g.disturbed = Top.disturbed /\ Returning(g)
  BY <1>3 DEF Frame, Phases, Returning
<1>7. n = IF g.disturbed THEN Depth ELSE Depth - 1
  BY <1>6
<1> HIDE DEF g, n
<1>8. TopBecomes(g)
  BY <1>1, <1>2, <1>3, <1>5, <1>6 DEF TopBecomes
<1>9. Depth' = Depth /\ Top' = g
  BY <1>1, <1>8, TopsAfterTopBecomes
<1>10. RegistersAreTops'
  <2>1. sepc' = Place(runningThread', IF Top'.disturbed THEN Depth' ELSE Depth' - 1)
    BY <1>1, <1>4, <1>7, <1>9 DEF Place
  <2>2. SPP' = Top'.SPP
    BY <1>1, <1>6, <1>9
  <2>3. Top'.kind \in SavesStatus /\ ~NoneRan(Top')
    BY <1>3, <1>6, <1>9 DEF NoneRan, SavesStatus
  <2>4. Top'.kind \notin {"to user", "to supervisor"}
    BY <2>3 DEF SavesStatus
  <2> QED
    BY <2>1, <2>2, <2>3, <2>4 DEF RegistersAreTops, NoneRan, Returning, Place
<1>11. StatusSurvivesWithSepc'
  <2>1. sepc' = Place(runningThread, n) /\ g.kind \notin {"console", "tick"}
    BY <1>1, <1>3, <1>4, <1>6 DEF SavesStatus
  <2> QED
    BY <1>1, <1>8, <2>1, StatusOfOthers
<1> QED
  BY <1>1, <1>5, <1>8, <1>10, <1>11, RegisterStepKeepsInv

-----------------------------------------------------------------------------
(* Entry                                                                   *)

\* When a trap is entered: interrupts in own code or with SIE set, calls in
\* own code only.
MayTrap(kind) ==
    \/ kind \in {"tick", "slice", "console"} /\ (Depth = 0 \/ SIE)
    \/ Depth = 0 /\ kind \in {"dispatch", "sleep", "getc", "putc", "create"}
    \/ Depth = 0 /\ kind = "to user" /\ stage[runningThread] = "wrapper"
    \/ Depth = 0 /\ kind = "to supervisor" /\ stage[runningThread] = "entry"

\* What is on the stack of the running thread below the new frame.
LEMMA Interrupted ==
    ASSUME TrapInv, NEW kind, Trap(kind), MayTrap(kind)
    PROVE  \E s \in Seq(Frame) :
              /\ Len(s) = Depth
              /\ frames' = [frames EXCEPT ![runningThread] = Append(s,
                     NewFrame(kind))]
              /\ \A i \in 1 .. Depth :
                    /\ s[i].kind = frames[runningThread][i].kind
                    /\ s[i].phase = frames[runningThread][i].phase
                    /\ s[i].sepc = frames[runningThread][i].sepc
                    /\ s[i].SPP = frames[runningThread][i].SPP
                    /\ s[i].input = frames[runningThread][i].input
                    /\ s[i].disturbed <=> \/ frames[runningThread][i].disturbed
                                          \/ i = Depth /\ Returning(Top)
<1> DEFINE f == frames[runningThread]
           interrupted == IF Depth > 0 /\ Top.phase \in {"status", "sret"}
                          THEN [f EXCEPT ![Depth].disturbed = TRUE]
                          ELSE f
<1>1. /\ f \in Seq(Frame) /\ Depth = Len(f) /\ Depth \in Nat
      /\ Depth > 0 => Top = f[Depth] /\ Top \in Frame
      /\ \A i \in 1 .. Depth : f[i] \in Frame
  BY NowTyped, DepthIsNat DEF Types, Depth, Top
<1>2. frames' = [frames EXCEPT ![runningThread] = Append(interrupted,
                     NewFrame(kind))]
  BY DEF Trap
<1>3. CASE Depth > 0 /\ Returning(Top)
  <2> DEFINE h == [Top EXCEPT !.disturbed = TRUE]
             s == [f EXCEPT ![Depth] = h]
  <2>1. /\ h \in Frame /\ h.kind = Top.kind /\ h.phase = Top.phase /\ h.sepc = Top.sepc
        /\ h.SPP = Top.SPP /\ h.input = Top.input /\ h.disturbed
    BY <1>1, <1>3 DEF Frame
  <2>2. interrupted = s
    BY <1>1, <1>3 DEF Returning
  <2> HIDE DEF h, interrupted
  <2>3. /\ s \in Seq(Frame) /\ Len(s) = Depth
        /\ \A i \in 1 .. Depth : s[i] = IF i = Depth THEN h ELSE f[i]
    BY <1>1, <1>3, <2>1
  <2> HIDE DEF s
  <2>4. \A i \in 1 .. Depth :
           /\ s[i].kind = f[i].kind /\ s[i].phase = f[i].phase
           /\ s[i].sepc = f[i].sepc /\ s[i].SPP = f[i].SPP
           /\ s[i].input = f[i].input
           /\ s[i].disturbed <=> (f[i].disturbed \/ (i = Depth /\ Returning(Top)))
    BY <1>1, <1>3, <2>1, <2>3
  <2> QED
    BY <1>2, <2>2, <2>3, <2>4
<1>4. CASE ~(Depth > 0 /\ Returning(Top))
  <2>1. interrupted = f
    BY <1>4 DEF Returning
  <2>2. \A i \in 1 .. Depth : ~(i = Depth /\ Returning(Top))
    BY <1>1, <1>4
  <2> HIDE DEF interrupted
  <2> QED
    BY <1>1, <1>2, <2>1, <2>2
<1> QED
  BY <1>3, <1>4

LEMMA TrapStep ==
    ASSUME TrapInv, NEW kind, Trap(kind), MayTrap(kind)
    PROVE  TrapInv'
<1>20. \E s \in Seq(Frame) :
         /\ Len(s) = Depth
         /\ frames' = [frames EXCEPT ![runningThread] = Append(s,
                NewFrame(kind))]
         /\ \A i \in 1 .. Depth :
               /\ s[i].kind = frames[runningThread][i].kind
               /\ s[i].phase = frames[runningThread][i].phase
               /\ s[i].sepc = frames[runningThread][i].sepc
               /\ s[i].SPP = frames[runningThread][i].SPP
               /\ s[i].input = frames[runningThread][i].input
               /\ s[i].disturbed <=> \/ frames[runningThread][i].disturbed
                                     \/ i = Depth /\ Returning(Top)
  BY Zenon, Interrupted
<1> USE NowTyped
<1> DEFINE r == runningThread
           new == NewFrame(kind)
<1>1. /\ ~astray /\ Depth < MaxNesting
      /\ sepc' = Here /\ SPP' = mode /\ SPIE' = SIE
      /\ mode' = "supervisor" /\ SIE' = FALSE
      /\ UNCHANGED << ready, runningThread, stage, outputVars, inputVars, astray, preempted >>
  BY DEF Trap
<1>2. /\ FramesAreRight /\ SuspendedAreSafe /\ RegistersAreTops /\ StatusSurvivesWithSepc
      /\ OthersAreInTraps /\ StagesAreRight /\ ModeIsRight
  BY <1>1 DEF TrapInv
<1>3. /\ r \in Threads /\ Depth = Len(frames[r]) /\ Depth \in Nat
      /\ \A t \in Threads : Len(frames[t]) \in Nat
      /\ Depth > 0 => Top = frames[r][Depth]
  BY DepthIsNat DEF TypeOK, Depth, Top
<1>4. PICK s \in Seq(Frame) :
          /\ Len(s) = Depth
          /\ frames' = [frames EXCEPT ![r] = Append(s, new)]
          /\ \A i \in 1 .. Depth :
                /\ s[i].kind = frames[r][i].kind
                /\ s[i].phase = frames[r][i].phase
                /\ s[i].sepc = frames[r][i].sepc
                /\ s[i].SPP = frames[r][i].SPP
                /\ s[i].disturbed <=> \/ frames[r][i].disturbed
                                      \/ i = Depth /\ Returning(Top)
  BY <1>20
<1>5. kind \in Kinds \ {"start"}
  BY DEF MayTrap, Kinds, SavesSepc, SavesStatus
<1>18. /\ kind = "to user" => Depth = 0 /\ stage[r] = "wrapper"
       /\ kind = "to supervisor" => Depth = 0 /\ stage[r] = "entry"
  BY DEF MayTrap
<1>19. Depth # 0 => SIE
  BY Zenon DEF MayTrap
<1>6. /\ mode \in Modes /\ SIE \in BOOLEAN /\ Here \in Threads \X Int /\ Here = Place(r, Depth)
  BY <1>3 DEF TypeOK, Modes, Here, Place
<1>7. /\ new \in Frame /\ new.kind = kind /\ (kind # "getc" => new.phase = "run")
      /\ new.sepc = Place(r, Depth)
      /\ new.SPP = mode /\ ~new.disturbed /\ ~Returning(new)
  BY <1>5, <1>6 DEF Frame, Phases, Returning, Statements, NewFrame
<1> HIDE DEF new
<1>8. /\ frames' \in [Threads -> Seq(Frame)]
      /\ \A t \in Threads : t # r => frames'[t] = frames[t]
      /\ Len(frames'[r]) = Depth + 1
      /\ \A i \in 1 .. Depth + 1 : frames'[r][i] = IF i = Depth + 1 THEN new ELSE s[i]
  BY <1>4, <1>7, TopIsPushed
<1>9. Depth' = Depth + 1 /\ Top' = new
  <2>1. Depth' = Depth + 1
    BY <1>1, <1>8 DEF Depth
  <2>2. Top' = frames'[r][Depth + 1]
    BY <1>1, <2>1 DEF Top
  <2>3. Depth + 1 \in 1 .. Depth + 1
    BY <1>3
  <2>4. frames'[r][Depth + 1] = new
    BY <1>8, <2>3
  <2> QED
    BY <2>1, <2>2, <2>4
<1>10. TypeOK'
  <2>1. ASSUME NEW t \in Threads
        PROVE  Len(frames'[t]) <= MaxNesting
    <3>1. CASE t = r
      BY <1>1, <1>3, <1>8, <3>1, TrapsAssumption
    <3>2. CASE t # r
      BY <1>8, <3>2 DEF TypeOK
    <3> QED
      BY <3>1, <3>2
  <2> QED
    BY <1>1, <1>6, <2>1 DEF TypeOK, Modes, outputVars, inputVars, ringVars
<1>11. Types'
  BY <1>1, <1>6, <1>8, SemaphoresStayTyped DEF Types, inputVars
<1>12. FramesAreRight'
  <2> SUFFICES ASSUME NEW t \in Threads, NEW i \in 1 .. Len(frames'[t])
               PROVE  FrameIsRight(frames'[t][i], t, i, stage[t])
    <3>1. stage' = stage
      BY <1>1
    <3> QED
      BY <3>1, FramesBecomeRight
  <2>1. CASE t # r
    <3>1. frames'[t] = frames[t] /\ i \in 1 .. Len(frames[t])
      BY <1>8, <2>1
    <3>2. /\ frames[t][i].sepc = Place(t, i - 1)
          /\ i # 1 => frames[t][i].SPP = "supervisor"
          /\ i = 1 /\ stage[t] = "body" => frames[t][i].SPP = BodyMode(t)
          /\ frames[t][i].kind = "start" => i = 1 /\ stage[t] \in {"new", "wrapper"}
          /\ frames[t][i].kind = "to user" => i = 1 /\ stage[t] = "wrapper"
          /\ frames[t][i].kind = "to supervisor" => i = 1 /\ stage[t] = "entry"
          /\ frames[t][i].disturbed =>
                frames[t][i].kind = "console" \/ Returning(frames[t][i])
      BY <1>2, <3>1 DEF FramesAreRight, FrameIsRight
    <3> QED
      BY Zenon, <3>1, <3>2 DEF FrameIsRight
  <2>2. CASE t = r /\ i = Depth + 1
    <3>1. frames'[t][i] = new /\ i - 1 = Depth
      BY <1>3, <1>8, <2>2
    <3>2. i # 1 => mode = "supervisor"
      BY <1>1, <1>2, <1>3, <2>2 DEF ModeIsRight
    <3>3. i = 1 /\ stage[t] = "body" => mode = BodyMode(t)
      BY <1>1, <1>2, <1>3, <2>2 DEF ModeIsRight
    <3>4. Depth = 0 => i = 1
      BY <1>3, <2>2
    <3>5. /\ kind = "to user" => i = 1 /\ stage[t] = "wrapper"
          /\ kind = "to supervisor" => i = 1 /\ stage[t] = "entry"
      BY Zenon, <1>18, <2>2, <3>4
    <3> QED
      BY <1>5, <1>7, <2>2, <3>1, <3>2, <3>3, <3>5 DEF FrameIsRight
  <2>3. CASE t = r /\ i # Depth + 1
    <3>1. i \in 1 .. Depth /\ frames'[t][i] = s[i]
      BY <1>3, <1>8, <2>3
    <3>2. /\ frames'[t][i].sepc = frames[t][i].sepc /\ frames'[t][i].SPP = frames[t][i].SPP
          /\ frames'[t][i].kind = frames[t][i].kind
          /\ frames'[t][i].phase = frames[t][i].phase
      BY <1>4, <2>3, <3>1
    <3>3. /\ frames[t][i].sepc = Place(t, i - 1)
          /\ i # 1 => frames[t][i].SPP = "supervisor"
          /\ i = 1 /\ stage[t] = "body" => frames[t][i].SPP = BodyMode(t)
          /\ frames[t][i].kind = "start" => i = 1 /\ stage[t] \in {"new", "wrapper"}
          /\ frames[t][i].kind = "to user" => i = 1 /\ stage[t] = "wrapper"
          /\ frames[t][i].kind = "to supervisor" => i = 1 /\ stage[t] = "entry"
          /\ frames[t][i].disturbed =>
                frames[t][i].kind = "console" \/ frames[t][i].phase \in {"status", "sret"}
      BY <1>2, <1>3, <2>3, <3>1 DEF FramesAreRight, FrameIsRight, Returning
    <3>4. frames'[t][i].disturbed => \/ frames[t][i].disturbed
                                     \/ frames[t][i].phase \in {"status", "sret"}
      BY <1>3, <1>4, <2>3, <3>1 DEF Returning
    <3> QED
      BY <3>2, <3>3, <3>4 DEF FrameIsRight, Returning
  <2> QED
    BY <2>1, <2>2, <2>3
<1>13. SuspendedAreSafe'
  <2> SUFFICES ASSUME NEW t \in Threads, NEW i \in 1 .. Len(frames'[t]),
                      t # r \/ i < Len(frames'[t])
               PROVE  /\ ~NoneRan(frames'[t][i])
                      /\ Returning(frames'[t][i]) =>
                            frames'[t][i].disturbed /\ i < Len(frames'[t])
    BY <1>1 DEF SuspendedAreSafe, NoneRan, Returning
  <2>1. CASE t # r
    BY <1>2, <1>8, <2>1 DEF SuspendedAreSafe
  <2>2. CASE t = r
    <3>1. i \in 1 .. Depth /\ frames'[t][i] = s[i] /\ i < Len(frames'[t])
      <4>1. Len(frames'[t]) = Depth + 1 /\ i \in 1 .. Depth + 1
        BY <1>8, <2>2
      <4>2. i < Depth + 1
        BY <2>2, <4>1
      <4>3. i \in 1 .. Depth /\ i # Depth + 1
        BY <1>3, <4>1, <4>2
      <4>4. frames'[r][i] = s[i]
        BY <1>8, <4>1, <4>3
      <4> QED
        BY <2>2, <4>1, <4>2, <4>3, <4>4
    <3>2. /\ s[i].kind = frames[r][i].kind /\ s[i].phase = frames[r][i].phase
          /\ frames[r][i].disturbed => s[i].disturbed
          /\ i = Depth /\ Returning(frames[r][i]) => s[i].disturbed
      BY <1>3, <1>4, <3>1
    <3>3. ~NoneRan(frames[r][i])
      <4>1. CASE i = Depth
        <5>1. Depth > 0
          BY <1>3, <3>1, <4>1
        <5>2. Depth # 0
          BY <1>3, <5>1
        <5>3. SIE
          BY Zenon, <1>19, <5>2
        <5> QED
          BY <1>2, <1>3, <4>1, <5>1, <5>3 DEF RegistersAreTops
      <4>2. CASE i # Depth
        BY <1>2, <1>3, <3>1, <4>2 DEF SuspendedAreSafe
      <4> QED
        BY <4>1, <4>2
    <3>4. Returning(frames[r][i]) => s[i].disturbed
      <4>1. CASE i = Depth
        BY <3>2, <4>1
      <4>2. CASE i # Depth
        <5>1. i \in 1 .. Len(frames[r]) /\ i < Len(frames[r])
          BY <1>3, <3>1, <4>2
        <5>2. Returning(frames[r][i]) => frames[r][i].disturbed
          BY <1>2, <1>3, <5>1 DEF SuspendedAreSafe
        <5> QED
          BY <3>2, <5>2
      <4> QED
        BY <4>1, <4>2
    <3> QED
      BY <3>1, <3>2, <3>3, <3>4 DEF NoneRan, Returning
  <2> QED
    BY <2>1, <2>2
<1>14. RegistersAreTops'
  <2>1. sepc' = Place(runningThread', Depth' - 1)
    BY <1>1, <1>3, <1>6, <1>9 DEF Place
  <2>2. /\ ~Top'.disturbed /\ ~Returning(Top') /\ Top'.phase # "sret"
        /\ Top'.kind \in {"to user", "to supervisor"} => Top'.phase = "run"
    BY <1>7, <1>9 DEF Returning
  <2> QED
    BY <1>1, <2>1, <2>2 DEF RegistersAreTops, NoneRan, Returning, Place
<1>15. StatusSurvivesWithSepc'
  <2> SUFFICES ASSUME NEW t \in Threads, Len(frames'[t]) > 0,
                      sepc' = Place(t, Len(frames'[t]) - 1)
               PROVE  SPP' = frames'[t][Len(frames'[t])].SPP
    BY DEF StatusSurvivesWithSepc, Place
  <2>1. t = r
    BY <1>1, <1>6 DEF Place
  <2>2. frames'[t][Len(frames'[t])] = new
    <3>1. Len(frames'[t]) = Depth + 1 /\ Depth + 1 \in 1 .. Depth + 1
      BY <1>3, <1>8, <2>1
    <3>2. frames'[r][Depth + 1] = new
      BY <1>8, <3>1
    <3> QED
      BY <2>1, <3>1, <3>2
  <2> QED
    BY <1>1, <1>7, <2>2
<1>16. OthersAreInTraps' /\ StagesAreRight'
  <2>1. OthersAreInTraps'
    BY <1>1, <1>2, <1>8 DEF OthersAreInTraps
  <2> QED
    BY <1>1, <1>2, <2>1 DEF StagesAreRight
<1>17. ModeIsRight' /\ OnlyDisturbedReturnsGoAstray'
  BY <1>1, <1>3, <1>9 DEF ModeIsRight, OnlyDisturbedReturnsGoAstray
<1> QED
  BY <1>10, <1>11, <1>12, <1>13, <1>14, <1>15, <1>16, <1>17 DEF TrapInv

LEMMA EcallStep ==
    ASSUME TrapInv, Ecall
    PROVE  TrapInv'
<1>1. \E kind : Trap(kind) /\ MayTrap(kind)
  BY DEF Ecall, InOwnCode, MayTrap
<1> QED
  BY <1>1, TrapStep

LEMMA InterruptStep ==
    ASSUME TrapInv, Interrupt
    PROVE  TrapInv'
<1>1. PICK kind \in {"tick", "slice", "console"} : Trap(kind)
  BY DEF Interrupt
<1>2. Depth = 0 \/ SIE
  <2>1. Depth \in Nat /\ ~astray
    BY <1>1, NowTyped, DepthIsNat DEF Trap
  <2> QED
    BY <2>1 DEF Interrupt, TrapInv, ModeIsRight
<1> QED
  BY <1>1, <1>2, TrapStep DEF MayTrap

-----------------------------------------------------------------------------
(* Steps outside the handler                                               *)

\* The output thread gives up the processor in its own code.
LEMMA OutputStep ==
    ASSUME TrapInv, OutputRemoves
    PROVE  TrapInv'
<1> USE NowTyped
<1>1. /\ ~astray /\ runningThread = Output /\ Depth = 0 /\ stage[runningThread] = "body"
      /\ UNCHANGED << cpuVars, frames, stage, inputVars, astray, preempted >>
      /\ \/ UNCHANGED << outputWaits, ready, runningThread >>
         \/ outputWaits' = TRUE /\ SwitchTo(ready)
  BY DEF OutputRemoves, InOwnCode, SuspendCurrentThread
<1>2. /\ FramesAreRight /\ SuspendedAreSafe /\ RegistersAreTops /\ StatusSurvivesWithSepc
      /\ OthersAreInTraps /\ StagesAreRight /\ ModeIsRight
  BY <1>1 DEF TrapInv
<1>3. /\ UNCHANGED << mode, SIE, sepc, SPP, SPIE >>
      /\ UNCHANGED << head, tail, typed, uart, semVars, ringVars >>
  BY <1>1 DEF cpuVars, csrVars, inputVars, ringVars
<1>4. runningThread' \in Threads /\ ready' \in Seq(Threads) /\ outputWaits' \in BOOLEAN
  BY <1>1, SwitchTypes
<1>5. /\ Depth = Len(frames[runningThread])
      /\ \A t \in Threads : Len(frames[t]) \in Nat
      /\ Depth' = Len(frames[runningThread'])
  BY <1>1, DepthIsNat DEF Depth
<1>6. TypeOK' /\ Types'
  <2>1. SemaphoresAreTyped'
    BY <1>3, SemaphoresStayTyped
  <2> QED
    BY <1>1, <1>3, <1>4, <2>1 DEF TypeOK, Types
<1>7. FramesAreRight'
  <2>1. UNCHANGED << frames, stage >>
    BY <1>1
  <2> QED
    BY <1>2, <2>1, FramesStayRight
<1>8. SuspendedAreSafe'
  <2> SUFFICES ASSUME NEW t \in Threads, NEW i \in 1 .. Len(frames[t]),
                      t # runningThread' \/ i < Len(frames[t])
               PROVE  /\ ~NoneRan(frames[t][i])
                      /\ Returning(frames[t][i]) =>
                            frames[t][i].disturbed /\ i < Len(frames[t])
    BY <1>1 DEF SuspendedAreSafe, NoneRan, Returning
  <2>1. t # runningThread
    BY <1>1, <1>5
  <2> QED
    BY <1>2, <2>1 DEF SuspendedAreSafe
<1>9. RegistersAreTops'
  <2>1. CASE Depth' > 0
    <3>1. runningThread' # runningThread /\ Depth' \in 1 .. Len(frames[runningThread'])
      BY <1>1, <1>4, <1>5, <2>1
    <3>2. Top' = frames[runningThread'][Depth']
      BY <1>1 DEF Top
    <3>3. LET f == frames[runningThread'][Depth']
          IN  ~NoneRan(f) /\ (Returning(f) => Depth' < Len(frames[runningThread']))
      BY <1>2, <1>4, <3>1 DEF SuspendedAreSafe
    <3>4. ~NoneRan(Top') /\ ~Returning(Top')
      BY <1>4, <1>5, <3>2, <3>3
    <3> QED
      BY <3>4 DEF RegistersAreTops, NoneRan, Returning
  <2>2. CASE ~(Depth' > 0)
    BY <2>2 DEF RegistersAreTops
  <2> QED
    BY <2>1, <2>2
<1>10. StatusSurvivesWithSepc'
  BY <1>1, <1>2, <1>3 DEF StatusSurvivesWithSepc, Place
<1>11. OthersAreInTraps'
  BY <1>1, <1>2 DEF OthersAreInTraps
<1>12. StagesAreRight'
  BY <1>1, <1>2 DEF StagesAreRight
<1>13. ModeIsRight'
  <2>1. mode' = "supervisor"
    BY <1>1, <1>2, <1>3 DEF ModeIsRight, BodyMode
  <2>2. ASSUME ~(Depth' > 0)
        PROVE  runningThread' = Output
    <3>1. Len(frames[runningThread']) = 0
      BY <1>4, <1>5, <2>2
    <3> QED
      BY <1>1, <1>2, <1>4, <3>1 DEF OthersAreInTraps
  <2> QED
    BY <2>1, <2>2 DEF ModeIsRight, BodyMode
<1>14. OnlyDisturbedReturnsGoAstray'
  BY <1>1 DEF OnlyDisturbedReturnsGoAstray
<1> QED
  BY <1>6, <1>7, <1>8, <1>9, <1>10, <1>11, <1>12, <1>13, <1>14 DEF TrapInv

\* The properties do not depend on what is typed.
LEMMA OtherVarsUnchanged ==
    ASSUME TrapInv,
           UNCHANGED << ready, runningThread, cpuVars, frames, stage, outputVars,
                        semVars, ringVars, astray >>,
           preempted' \in BOOLEAN, typed' \in Seq(Nat), uart' \in Seq(Nat)
    PROVE  TrapInv'
<1>1. /\ UNCHANGED << ready, runningThread, mode, SIE, sepc, SPP, SPIE, frames, stage >>
      /\ UNCHANGED << outputWaits, semVars, head, tail, astray >>
  BY DEF cpuVars, csrVars, outputVars, ringVars
<1>2. Depth' = Depth /\ Top' = Top
  BY <1>1 DEF Depth, Top
<1>3. SemaphoresAreTyped'
  BY <1>1, NowTyped, SemaphoresStayTyped
<1>4. TypeOK' /\ Types'
  BY <1>1, <1>3, NowTyped DEF TypeOK, Types
<1>5. OnlyDisturbedReturnsGoAstray' /\ ModeIsRight'
  <2>1. OnlyDisturbedReturnsGoAstray'
    BY <1>1, <1>2 DEF TrapInv, OnlyDisturbedReturnsGoAstray
  <2>2. ModeIsRight'
    BY <1>1, <1>2 DEF TrapInv, ModeIsRight, BodyMode
  <2> QED
    BY <2>1, <2>2
<1>6. ASSUME FramesAreRight
      PROVE  FramesAreRight'
  <2>1. UNCHANGED << frames, stage >>
    BY <1>1
  <2> QED
    BY <1>6, <2>1, FramesStayRight
<1>7. SuspendedAreSafe => SuspendedAreSafe'
  BY <1>1 DEF SuspendedAreSafe, NoneRan, Returning
<1>8. RegistersAreTops => RegistersAreTops'
  BY <1>1, <1>2 DEF RegistersAreTops, NoneRan, Returning, Place
<1>9. StatusSurvivesWithSepc => StatusSurvivesWithSepc'
  BY <1>1 DEF StatusSurvivesWithSepc, Place
<1>10. OthersAreInTraps => OthersAreInTraps'
  BY <1>1 DEF OthersAreInTraps
<1>11. StagesAreRight => StagesAreRight'
  BY <1>1 DEF StagesAreRight
<1> QED
  BY <1>1, <1>4, <1>5, <1>6, <1>7, <1>8, <1>9, <1>10, <1>11 DEF TrapInv

LEMMA TypeStep ==
    ASSUME TrapInv, Type
    PROVE  TrapInv'
<1>1. typed \in Seq(Nat) /\ uart \in Seq(Nat)
  BY NowTyped
<1>2. Len(typed) + 1 \in Nat
  BY <1>1
<1>3. typed' \in Seq(Nat) /\ uart' \in Seq(Nat)
  BY <1>1, <1>2 DEF Type
<1> QED
  BY <1>3, NowTyped, OtherVarsUnchanged DEF Type

\* The model ends where an interrupt hits a semaphore operation.
LEMMA InterruptInsideStep ==
    ASSUME TrapInv, InterruptInside
    PROVE  TrapInv'
BY NowTyped, OtherVarsUnchanged DEF InterruptInside, inputVars

LEMMA StutterStep ==
    ASSUME TrapInv, UNCHANGED vars
    PROVE  TrapInv'
BY NowTyped, OtherVarsUnchanged DEF vars, inputVars

-----------------------------------------------------------------------------
(* Return                                                                  *)

\* sret to a wrong place: only a disturbed trap does that.
LEMMA ReturnAstray ==
    ASSUME TrapInv, Sret, astray'
    PROVE  TrapInv'
<1> USE NowTyped
<1>1. /\ ~astray /\ Depth > 0 /\ Top.phase = "sret"
      /\ mode' = SPP /\ SIE' = SPIE /\ SPP' = "user" /\ SPIE' = TRUE
      /\ UNCHANGED << ready, runningThread, sepc, outputVars, inputVars, preempted >>
  BY DEF Sret
<1>2. UNCHANGED << frames, stage >> /\ sepc # Place(runningThread, Depth - 1)
  BY <1>1 DEF Sret
<1>3. Top.disturbed
  <2>1. RegistersAreTops /\ Returning(Top)
    BY <1>1 DEF TrapInv, Returning
  <2>2. CASE Top.kind = "console"
    BY <1>1, <1>2, <2>1, <2>2 DEF RegistersAreTops, NoneRan
  <2>3. CASE Top.kind # "console"
    BY <1>1, <1>2, <2>1, <2>3 DEF RegistersAreTops
  <2> QED
    BY <2>2, <2>3
<1>4. Top' = Top
  BY <1>1, <1>2 DEF Top, Depth
<1>5. SemaphoresAreTyped'
  BY <1>1, SemaphoresStayTyped DEF inputVars
<1>6. TypeOK' /\ Types'
  BY <1>1, <1>2, <1>5 DEF TypeOK, Types, outputVars, inputVars, ringVars
<1> QED
  BY <1>3, <1>4, <1>6 DEF TrapInv, OnlyDisturbedReturnsGoAstray, ModeIsRight

\* sret to the right place goes there in the right mode.
LEMMA ReturnMode ==
    ASSUME TrapInv, ~astray, Depth > 0, Top.phase = "sret",
           sepc = Place(runningThread, Depth - 1)
    PROVE  /\ Depth > 1 => SPP = "supervisor"
           /\ StageAfter(runningThread, Top.kind) = "body" /\ Depth = 1 =>
                 SPP = BodyMode(runningThread)
<1> DEFINE r == runningThread
<1>1. /\ FramesAreRight /\ RegistersAreTops /\ StatusSurvivesWithSepc /\ StagesAreRight
      /\ r \in Threads /\ Depth = Len(frames[r]) /\ Depth \in 1 .. Len(frames[r])
      /\ Top = frames[r][Depth] /\ Top \in Frame
  BY NowTyped, DepthIsNat DEF TrapInv, Depth, Top
<1>2. /\ Depth # 1 => Top.SPP = "supervisor"
      /\ Depth = 1 /\ stage[r] = "body" => Top.SPP = BodyMode(r)
      /\ Top.kind = "start" => Depth = 1 /\ stage[r] \in {"new", "wrapper"}
      /\ Top.kind = "to user" => Depth = 1 /\ stage[r] = "wrapper"
      /\ Top.kind = "to supervisor" => Depth = 1 /\ stage[r] = "entry"
  BY <1>1 DEF FramesAreRight, FrameIsRight
<1>9. /\ Depth > 1 => Depth # 1
      /\ Top.kind \notin {"to user", "to supervisor"} =>
            StageAfter(r, Top.kind) = stage[r]
      /\ Top.kind = "to user" /\ r # Output => StageAfter(r, Top.kind) = "body"
      /\ Top.kind = "to user" /\ r = Output => StageAfter(r, Top.kind) = "entry"
  <2>1. Depth > 1 => Depth # 1
    OBVIOUS
  <2> QED
    BY <2>1 DEF StageAfter
<1>3. CASE Top.kind \in {"console", "tick"}
  <2>1. SPP = Top.SPP
    BY <1>1, <1>3 DEF StatusSurvivesWithSepc
  <2> QED
    BY <1>2, <1>3, <1>9, <2>1
<1>4. CASE Top.kind \in SavesStatus
  <2>1. ~Top.disturbed
    <3>1. Top.disturbed => sepc = Place(r, Depth)
      BY <1>1, <1>4 DEF RegistersAreTops, Returning, SavesStatus
    <3>2. Depth # Depth - 1
      BY <1>1
    <3> QED
      BY <3>1, <3>2, Places
  <2>2. SPP = Top.SPP
    BY <1>1, <1>4, <2>1 DEF RegistersAreTops
  <2> QED
    BY <1>2, <1>4, <1>9, <2>2 DEF SavesStatus
<1>5. CASE Top.kind = "start"
  BY <1>2, <1>5, <1>9
<1>6. CASE Top.kind = "to user"
  <2>1. SPP = "user"
    BY <1>1, <1>6 DEF RegistersAreTops
  <2>2. r # Main
    BY <1>1, <1>2, <1>6 DEF StagesAreRight
  <2> QED
    BY <1>2, <1>6, <1>9, <2>1, <2>2 DEF BodyMode
<1>7. CASE Top.kind = "to supervisor"
  <2>1. SPP = "supervisor"
    BY <1>1, <1>7 DEF RegistersAreTops
  <2>2. r = Output
    BY <1>1, <1>2, <1>7 DEF StagesAreRight
  <2> QED
    BY <1>2, <1>7, <1>9, <2>1, <2>2 DEF BodyMode
<1>8. Top.kind \in SavesStatus \cup {"to user", "to supervisor", "start", "tick", "console"}
  BY <1>1 DEF Frame, Kinds, SavesSepc
<1> QED
  BY <1>3, <1>4, <1>5, <1>6, <1>7, <1>8

LEMMA ReturnStep ==
    ASSUME TrapInv, Sret, ~astray'
    PROVE  TrapInv'
<1> USE NowTyped
<1> DEFINE r == runningThread
<1>1. /\ ~astray /\ Depth > 0 /\ Top.phase = "sret"
      /\ mode' = SPP /\ SIE' = SPIE /\ SPP' = "user" /\ SPIE' = TRUE
      /\ UNCHANGED << ready, runningThread, sepc, outputVars, inputVars, preempted >>
  BY DEF Sret
<1>2. /\ sepc = Place(r, Depth - 1)
      /\ frames' = [frames EXCEPT ![r] = SubSeq(@, 1, Depth - 1)]
      /\ stage' = [stage EXCEPT ![r] = StageAfter(r, Top.kind)]
  BY <1>1 DEF Sret
<1>3. /\ FramesAreRight /\ SuspendedAreSafe /\ OthersAreInTraps /\ StagesAreRight
      /\ r \in Threads /\ Depth = Len(frames[r]) /\ Depth \in Nat \ {0}
      /\ Top = frames[r][Depth] /\ Top \in Frame
      /\ \A t \in Threads : Len(frames[t]) \in Nat
  BY <1>1, DepthIsNat DEF TrapInv, Depth, Top
<1>4. /\ frames' \in [Threads -> Seq(Frame)]
      /\ \A t \in Threads : t # r => frames'[t] = frames[t]
      /\ Len(frames'[r]) = Depth - 1
      /\ \A i \in 1 .. Depth - 1 : frames'[r][i] = frames[r][i]
  BY <1>1, <1>2, TopIsPopped
<1>5. /\ Depth' = Depth - 1
      /\ Depth > 1 => Top' = frames[r][Depth - 1]
  <2>1. Depth' = Depth - 1
    BY <1>1, <1>4 DEF Depth
  <2>2. Depth > 1 => Depth - 1 \in 1 .. Depth - 1
    BY <1>3
  <2>3. Top' = frames'[r][Depth - 1]
    BY <1>1, <2>1 DEF Top
  <2> QED
    BY <1>4, <2>1, <2>2, <2>3
<1>6. /\ stage' \in [Threads -> Stages]
      /\ \A t \in Threads : t # r => stage'[t] = stage[t]
      /\ stage'[r] = StageAfter(r, Top.kind)
  BY <1>2, <1>3 DEF StageAfter, Stages
<1>7. /\ Top.kind = "to user" => Depth = 1 /\ stage[r] = "wrapper"
      /\ Top.kind = "to supervisor" => Depth = 1 /\ stage[r] = "entry"
  <2>1. Depth \in 1 .. Len(frames[r])
    BY <1>1, <1>3
  <2> QED
    BY <1>3, <2>1 DEF FramesAreRight, FrameIsRight
<1>8. Depth > 1 => stage'[r] = stage[r]
  <2>1. Depth > 1 => Depth # 1
    BY <1>3
  <2>2. Top.kind \notin {"to user", "to supervisor"} => stage'[r] = stage[r]
    BY <1>6 DEF StageAfter
  <2> QED
    BY <1>7, <2>1, <2>2
<1>9. TypeOK' /\ Types'
  <2>1. SemaphoresAreTyped'
    BY <1>1, SemaphoresStayTyped DEF inputVars
  <2>2. ASSUME NEW t \in Threads
        PROVE  Len(frames'[t]) <= MaxNesting
    <3>1. Len(frames'[t]) <= Len(frames[t]) /\ Len(frames'[t]) \in Int
      <4>1. CASE t = r
        BY <1>3, <1>4, <4>1
      <4>2. CASE t # r
        BY <1>3, <1>4, <4>2
      <4> QED
        BY <4>1, <4>2
    <3>2. Len(frames[t]) <= MaxNesting /\ Len(frames[t]) \in Int /\ MaxNesting \in Int
      BY <1>3, TrapsAssumption DEF TypeOK
    <3> QED
      BY <3>1, <3>2
  <2>3. mode' \in Modes /\ SPP' \in Modes /\ SIE' \in BOOLEAN /\ SPIE' \in BOOLEAN
    BY <1>1 DEF TypeOK, Modes
  <2>4. TypeOK'
    BY <1>1, <1>6, <2>2, <2>3 DEF TypeOK, Modes, Stages, outputVars, inputVars, ringVars
  <2> QED
    BY <1>1, <1>4, <2>1, <2>4 DEF Types, inputVars
<1>10. FramesAreRight'
  <2> SUFFICES ASSUME NEW t \in Threads, NEW i \in 1 .. Len(frames'[t])
               PROVE  FrameIsRight(frames'[t][i], t, i, stage'[t])
    BY FramesBecomeRight
  <2>1. /\ i \in 1 .. Len(frames[t]) /\ frames'[t][i] = frames[t][i]
        /\ stage'[t] = stage[t]
    <3>1. CASE t = r
      <4>1. i \in 1 .. Depth - 1 /\ Depth > 1
        BY <1>3, <1>4, <3>1
      <4> QED
        BY <1>3, <1>4, <1>8, <3>1, <4>1
    <3>2. CASE t # r
      BY <1>4, <1>6, <3>2
    <3> QED
      BY <3>1, <3>2
  <2>2. /\ frames[t][i].sepc = Place(t, i - 1)
        /\ i # 1 => frames[t][i].SPP = "supervisor"
        /\ i = 1 /\ stage[t] = "body" => frames[t][i].SPP = BodyMode(t)
        /\ frames[t][i].kind = "start" => i = 1 /\ stage[t] \in {"new", "wrapper"}
        /\ frames[t][i].kind = "to user" => i = 1 /\ stage[t] = "wrapper"
        /\ frames[t][i].kind = "to supervisor" => i = 1 /\ stage[t] = "entry"
        /\ frames[t][i].disturbed =>
              frames[t][i].kind = "console" \/ Returning(frames[t][i])
    BY <1>3, <2>1 DEF FramesAreRight, FrameIsRight
  <2> QED
    BY Zenon, <2>1, <2>2 DEF FrameIsRight
<1>11. SuspendedAreSafe'
  <2> SUFFICES ASSUME NEW t \in Threads, NEW i \in 1 .. Len(frames'[t]),
                      t # r \/ i < Len(frames'[t])
               PROVE  /\ ~NoneRan(frames'[t][i])
                      /\ Returning(frames'[t][i]) =>
                            frames'[t][i].disturbed /\ i < Len(frames'[t])
    BY <1>1 DEF SuspendedAreSafe, NoneRan, Returning
  <2>1. /\ i \in 1 .. Len(frames[t]) /\ frames'[t][i] = frames[t][i]
        /\ t # r \/ i < Len(frames[t])
        /\ i < Len(frames[t]) => i < Len(frames'[t])
    <3>1. CASE t = r
      <4>1. i \in 1 .. Depth - 1 /\ i < Depth - 1
        BY <1>3, <1>4, <3>1
      <4> QED
        BY <1>3, <1>4, <3>1, <4>1
    <3>2. CASE t # r
      BY <1>4, <3>2
    <3> QED
      BY <3>1, <3>2
  <2>2. /\ ~NoneRan(frames[t][i])
        /\ Returning(frames[t][i]) => frames[t][i].disturbed /\ i < Len(frames[t])
    BY <1>3, <2>1 DEF SuspendedAreSafe
  <2> QED
    BY Zenon, <2>1, <2>2
<1>12. RegistersAreTops'
  <2>1. CASE Depth > 1
    <3>1. Depth - 1 \in 1 .. Len(frames[r]) /\ Depth - 1 < Len(frames[r])
      BY <1>3, <2>1
    <3>2. /\ ~NoneRan(frames[r][Depth - 1])
          /\ Returning(frames[r][Depth - 1]) => frames[r][Depth - 1].disturbed
      BY <1>3, <3>1 DEF SuspendedAreSafe
    <3>3. ~NoneRan(Top') /\ (Returning(Top') => Top'.disturbed)
      BY <1>5, <2>1, <3>2
    <3>4. sepc' = Place(runningThread', Depth')
      BY <1>1, <1>2, <1>5
    <3> QED
      BY <3>3, <3>4 DEF RegistersAreTops, NoneRan, Returning, Place
  <2>2. CASE ~(Depth > 1)
    <3>1. ~(Depth' > 0)
      BY <1>3, <1>5, <2>2
    <3> QED
      BY <3>1 DEF RegistersAreTops
  <2> QED
    BY <2>1, <2>2
<1>13. StatusSurvivesWithSepc'
  <2> SUFFICES ASSUME NEW t \in Threads, sepc' = Place(t, Len(frames'[t]) - 1)
               PROVE  FALSE
    BY DEF StatusSurvivesWithSepc, Place
  <2>1. Place(t, Len(frames'[t]) - 1) = Place(r, Depth - 1)
    BY <1>1, <1>2
  <2>2. t = r /\ Len(frames'[t]) - 1 = Depth - 1
    BY ONLY <2>1 DEF Place
  <2> QED
    BY <1>3, <1>4, <2>2
<1>14. OthersAreInTraps'
  BY <1>1, <1>3, <1>4 DEF OthersAreInTraps
<1>15. StagesAreRight'
  <2>1. Main \in Threads
    BY TrapsAssumption
  <2>2. stage'[r] = "entry" => r = Output
    BY <1>3, <1>6 DEF StageAfter, StagesAreRight
  <2>3. stage[r] = "body" => stage'[r] = "body"
    BY <1>6, <1>7 DEF StageAfter
  <2> QED
    BY <1>3, <1>6, <2>1, <2>2, <2>3 DEF StagesAreRight
<1>16. ModeIsRight'
  <2>1. CASE Depth > 1
    BY <1>1, <1>2, <1>3, <1>5, <2>1, ReturnMode DEF ModeIsRight
  <2>2. CASE ~(Depth > 1)
    <3>1. Depth = 1
      <4>1. Depth \in Nat /\ Depth > 0
        BY <1>1, <1>3
      <4> QED
        BY ONLY <2>2, <4>1
    <3>2. ~(Depth' > 0)
      BY <1>5, <3>1
    <3>3. stage'[r] = "body" => SPP = BodyMode(r)
      BY <1>1, <1>2, <1>6, <3>1, ReturnMode
    <3> QED
      BY <1>1, <3>2, <3>3 DEF ModeIsRight, BodyMode
  <2> QED
    BY <2>1, <2>2
<1> QED
  BY <1>9, <1>10, <1>11, <1>12, <1>13, <1>14, <1>15, <1>16
     DEF TrapInv, OnlyDisturbedReturnsGoAstray

-----------------------------------------------------------------------------
(* The theorems                                                            *)

\* In the first state every thread but main() is about to return from a trap
\* it never entered.
LEMMA InitHasTrapInv == Init => TrapInv
<1> SUFFICES ASSUME Init
             PROVE  TrapInv
  OBVIOUS
<1>1. {Main, UserMain, Output, Idle} \subseteq Threads /\ MaxNesting \in Nat \ {0}
  BY TrapsAssumption
<1>2. /\ ready = << UserMain, Output >> /\ runningThread = Main
      /\ mode = "supervisor" /\ SIE = TRUE
      /\ sepc = Place(Main, 0) /\ SPP = "supervisor" /\ SPIE = FALSE
      /\ outputWaits = FALSE /\ preempted = FALSE /\ uart = << >> /\ astray = FALSE /\ typed = << >>
  BY DEF Init
<1>3. \A t \in Threads : /\ StartFrame(t) \in Frame
                          /\ StartFrame(t).kind = "start" /\ StartFrame(t).phase = "restore"
                          /\ StartFrame(t).sepc = Place(t, 0) /\ StartFrame(t).SPP = "user"
                          /\ StartFrame(t).disturbed = FALSE
  <2>1. << >> \in Seq(Nat)
    OBVIOUS
  <2> QED
    BY <2>1 DEF StartFrame, Frame, Kinds, Phases, Modes, Place
<1>4. /\ frames \in [Threads -> Seq(Frame)]
      /\ frames[Main] = << >>
      /\ \A t \in Threads : t # Main => frames[t] = << StartFrame(t) >>
  BY <1>1, <1>3 DEF Init
<1>5. /\ Len(frames[Main]) = 0
      /\ \A t \in Threads : t # Main => Len(frames[t]) = 1 /\ frames[t][1] = StartFrame(t)
  <2>1. Len(frames[Main]) = 0
    BY <1>4
  <2>2. ASSUME NEW t \in Threads, t # Main
        PROVE  Len(frames[t]) = 1 /\ frames[t][1] = StartFrame(t)
    <3>1. frames[t] = << StartFrame(t) >>
      BY <1>4, <2>2
    <3> QED
      BY ONLY <3>1
  <2> QED
    BY <2>1, <2>2
<1>19. \A t \in Threads : \A i \in 1 .. Len(frames[t]) :
          /\ t # Main /\ i = 1 /\ Len(frames[t]) = 1
          /\ frames[t][i] = StartFrame(t)
  <2> SUFFICES ASSUME NEW t \in Threads, NEW i \in 1 .. Len(frames[t])
               PROVE  /\ t # Main /\ i = 1 /\ Len(frames[t]) = 1
                      /\ frames[t][i] = StartFrame(t)
    OBVIOUS
  <2>1. t # Main
    BY <1>5
  <2>2. Len(frames[t]) = 1 /\ frames[t][1] = StartFrame(t)
    BY <1>5, <2>1
  <2> QED
    BY <2>1, <2>2
<1>6. /\ stage \in [Threads -> Stages] /\ stage[Main] = "body"
      /\ \A t \in Threads : t # Main => stage[t] \in {"new", "wrapper"}
  BY <1>1 DEF Init, Stages
<1>7. Depth = 0
  BY <1>2, <1>4 DEF Depth
<1>8. SemaphoresAreTyped
  <2>1. /\ semaphoreValue = [s \in BufferSemaphores |->
                                CASE s = "spaceAvailable" -> Capacity
                                  [] s = "itemAvailable"  -> 0
                                  [] OTHER                -> 1]
        /\ blockedThreads = [s \in BufferSemaphores |-> << >>]
    BY DEF Init, Construct
  <2>2. \A s \in BufferSemaphores : semaphoreValue[s] \in Nat
    BY <2>1, KernelBufferAssumption
  <2>3. \A s \in BufferSemaphores : blockedThreads[s] \in Seq(Threads) /\ Len(blockedThreads[s]) = 0
    BY <2>1
  <2> QED
    BY <2>1, <2>2, <2>3 DEF SemaphoresAreTyped
<1>9. head \in 0 .. Capacity - 1 /\ tail \in 0 .. Capacity - 1
  BY KernelBufferAssumption DEF Init, Construct
<1>10. TypeOK
  <2>1. ASSUME NEW t \in Threads
        PROVE  Len(frames[t]) <= MaxNesting
    <3> DEFINE n == Len(frames[t])
    <3>1. n = 0 \/ n = 1
      BY <1>5
    <3>2. MaxNesting \in Nat /\ MaxNesting > 0
      BY TrapsAssumption
    <3> HIDE DEF n
    <3>3. n <= MaxNesting
      BY ONLY <3>1, <3>2
    <3> QED
      BY <3>3 DEF n
  <2>2. ready \in Seq(Threads) /\ runningThread \in Threads
    BY <1>1, <1>2
  <2> QED
    BY <1>2, <1>6, <1>9, <2>1, <2>2 DEF TypeOK, Stages
<1>11. Types
  <2>1. sepc \in Threads \X Int /\ typed \in Seq(Nat) /\ uart \in Seq(Nat)
    BY <1>1, <1>2 DEF Place
  <2> QED
    BY <1>4, <1>8, <2>1 DEF Types
<1>12. FramesAreRight
  <2> SUFFICES ASSUME NEW t \in Threads, NEW i \in 1 .. Len(frames[t])
               PROVE  /\ frames[t][i].sepc = Place(t, i - 1)
                      /\ i = 1 /\ stage[t] # "body" /\ stage[t] \in {"new", "wrapper"}
                      /\ frames[t][i].kind = "start" /\ ~frames[t][i].disturbed
    BY DEF FramesAreRight, FrameIsRight
  <2>1. t # Main /\ i = 1 /\ frames[t][i] = StartFrame(t) /\ i - 1 = 0
    BY <1>19
  <2> QED
    BY <1>3, <1>6, <2>1
<1>13. SuspendedAreSafe
  <2> SUFFICES ASSUME NEW t \in Threads, NEW i \in 1 .. Len(frames[t])
               PROVE  ~NoneRan(frames[t][i]) /\ ~Returning(frames[t][i])
    BY DEF SuspendedAreSafe
  <2>1. frames[t][i].kind = "start" /\ frames[t][i].phase = "restore"
    BY <1>3, <1>19
  <2> QED
    BY <2>1 DEF NoneRan, Returning
<1>14. RegistersAreTops
  <2>1. ~(Depth > 0)
    BY <1>7
  <2> QED
    BY <2>1 DEF RegistersAreTops
<1>15. StatusSurvivesWithSepc
  <2> SUFFICES ASSUME NEW t \in Threads, Len(frames[t]) > 0,
                      frames[t][Len(frames[t])].kind \in {"console", "tick"}
               PROVE  FALSE
    BY DEF StatusSurvivesWithSepc
  <2>1. t # Main /\ frames[t][Len(frames[t])] = StartFrame(t)
    BY <1>5
  <2> QED
    BY <1>3, <2>1
<1>16. OthersAreInTraps
  BY <1>2, <1>5 DEF OthersAreInTraps
<1>17. StagesAreRight
  BY <1>6 DEF StagesAreRight
<1>18. OnlyDisturbedReturnsGoAstray /\ ModeIsRight
  BY <1>2, <1>7 DEF OnlyDisturbedReturnsGoAstray, ModeIsRight, BodyMode
<1> QED
  BY <1>10, <1>11, <1>12, <1>13, <1>14, <1>15, <1>16, <1>17, <1>18 DEF TrapInv

LEMMA StepKeepsTrapInv == TrapInv /\ [Next]_vars => TrapInv'
<1> SUFFICES ASSUME TrapInv, [Next]_vars
             PROVE  TrapInv'
  OBVIOUS
<1>1. CASE Ecall \/ Interrupt
  BY <1>1, EcallStep, InterruptStep
<1>2. CASE Handle
  BY <1>2, DispatchStep, SleepStep, TimerStep, CreateStep, SwitchModeStep, PutcStep,
     WaitStep, SignalStep, FetchStep, StoreStep, ConsoleReadsStep, ConsoleCompletesStep
     DEF Handle
<1>3. CASE Return
  <2>1. CASE Sret
    BY <2>1, ReturnAstray, ReturnStep
  <2> QED
    BY <1>3, <2>1, RestoreSepcStep, RestoreStatusStep DEF Return
<1>4. CASE OutputRemoves \/ Type \/ InterruptInside
  BY <1>4, OutputStep, TypeStep, InterruptInsideStep
<1>5. CASE UNCHANGED vars
  BY <1>5, StutterStep
<1> QED
  BY <1>1, <1>2, <1>3, <1>4, <1>5 DEF Next

LEMMA TrapInvHolds == Spec => []TrapInv
BY InitHasTrapInv, StepKeepsTrapInv, PTL DEF Spec

\* The registers, the frames of every thread and the input buffer keep their
\* types (Riscv.cpp:22-272).
THEOREM TrapTypes == Spec => []TypeOK
<1>1. TrapInv => TypeOK
  BY DEF TrapInv
<1> QED
  BY <1>1, TrapInvHolds, PTL

\* For any number of threads and any nesting, a trap returns to where it was
\* entered unless another thread ran in the middle of a console interrupt or
\* it was interrupted after it had written sepc (Riscv.cpp:31-32, 219-270).
THEOREM OthersReturnHome == Spec => []OnlyDisturbedReturnsGoAstray
<1>1. TrapInv => OnlyDisturbedReturnsGoAstray
  BY DEF TrapInv
<1> QED
  BY <1>1, TrapInvHolds, PTL

\* Kernel code runs in supervisor mode and every thread in its own, as long as
\* returns go where they should (TCB.cpp:146-148).
THEOREM ThreadsRunInTheirMode == Spec => []ModeIsRight
<1>1. TrapInv => ModeIsRight
  BY DEF TrapInv
<1> QED
  BY <1>1, TrapInvHolds, PTL

-----------------------------------------------------------------------------
(* Lists that hold nothing twice                                           *)

\* Putting a new element at the end.
LEMMA LastJoins ==
    ASSUME NEW S, NEW q \in Seq(S), NEW e \in S, IsInjective(q), e \notin Range(q)
    PROVE  /\ Append(q, e) \in Seq(S)
           /\ Len(Append(q, e)) = Len(q) + 1
           /\ Range(Append(q, e)) = Range(q) \cup {e}
           /\ IsInjective(Append(q, e))
<1>1. /\ Append(q, e) \in Seq(S)
      /\ Len(Append(q, e)) = Len(q) + 1
      /\ DOMAIN Append(q, e) = 1 .. Len(q) + 1
      /\ DOMAIN q = 1 .. Len(q) /\ Len(q) \in Nat
      /\ \A i \in 1 .. Len(q) : Append(q, e)[i] = q[i]
      /\ Append(q, e)[Len(q) + 1] = e
  BY AppendProperties, LenProperties
<1>2. Range(Append(q, e)) \subseteq Range(q) \cup {e}
  BY <1>1 DEF Range
<1>3. e \in Range(Append(q, e))
  BY <1>1 DEF Range
<1>4. \A x \in Range(q) : x \in Range(Append(q, e))
  BY <1>1 DEF Range
<1>5. IsInjective(Append(q, e))
  BY <1>1 DEF IsInjective, Range
<1> QED
  BY <1>1, <1>2, <1>3, <1>4, <1>5

\* Taking the first element.
LEMMA FirstLeaves ==
    ASSUME NEW S, NEW q \in Seq(S), q # << >>, IsInjective(q)
    PROVE  /\ Head(q) \in S /\ Head(q) \in Range(q)
           /\ Tail(q) \in Seq(S)
           /\ Len(Tail(q)) = Len(q) - 1
           /\ Range(Tail(q)) = Range(q) \ {Head(q)}
           /\ IsInjective(Tail(q))
<1>1. /\ Head(q) = q[1] /\ Head(q) \in S
      /\ Tail(q) \in Seq(S) /\ Len(q) \in Nat \ {0}
      /\ Len(Tail(q)) = Len(q) - 1
      /\ DOMAIN q = 1 .. Len(q) /\ DOMAIN Tail(q) = 1 .. Len(q) - 1
      /\ \A i \in 1 .. Len(q) - 1 : Tail(q)[i] = q[i + 1]
  BY HeadTailProperties, LenProperties, EmptySeq
<1>2. Head(q) \in Range(q)
  BY <1>1 DEF Range
<1>3. IsInjective(Tail(q))
  BY <1>1 DEF IsInjective
<1>4. Range(Tail(q)) \subseteq Range(q) \ {Head(q)}
  BY <1>1 DEF Range, IsInjective
<1>5. \A i \in 1 .. Len(q) : q[i] # q[1] => q[i] \in Range(Tail(q))
  <2> SUFFICES ASSUME NEW i \in 1 .. Len(q), q[i] # q[1] PROVE q[i] \in Range(Tail(q))
    OBVIOUS
  <2>1. i - 1 \in 1 .. Len(q) - 1 /\ Tail(q)[i - 1] = q[i]
    BY <1>1
  <2> QED
    BY <1>1, <2>1 DEF Range
<1>6. Range(q) \ {Head(q)} \subseteq Range(Tail(q))
  BY <1>1, <1>5 DEF Range
<1> QED
  BY <1>1, <1>2, <1>3, <1>4, <1>6

\* A list and some others in a set: the set is as large as both together.
LEMMA Crowd ==
    ASSUME NEW S, NEW A, IsFiniteSet(A), NEW q \in Seq(S), IsInjective(q),
           Range(q) \subseteq A, NEW D \in SUBSET A, D \cap Range(q) = {}
    PROVE  Len(q) + Cardinality(D) <= Cardinality(A)
<1>1. Len(q) \in Nat /\ DOMAIN q = 1 .. Len(q)
  BY LenProperties
<1>2. ExistsBijection(1 .. Len(q), Range(q))
  <2>1. q \in [1 .. Len(q) -> Range(q)]
    BY <1>1, SeqDef DEF Range
  <2>2. q \in Injection(1 .. Len(q), Range(q))
    BY <2>1 DEF Injection
  <2>3. q \in Surjection(1 .. Len(q), Range(q))
    BY <1>1, <2>1 DEF Surjection, Range
  <2> QED
    BY <2>2, <2>3 DEF ExistsBijection, Bijection
<1>3. Cardinality(Range(q)) = Len(q)
  BY <1>1, <1>2, FS_CountingElements
<1>4. IsFiniteSet(Range(q)) /\ IsFiniteSet(D)
  BY FS_Subset
<1>5. Cardinality(Range(q) \cup D) = Len(q) + Cardinality(D) - Cardinality(Range(q) \cap D)
  BY <1>3, <1>4, FS_Union
<1>6. Cardinality(Range(q) \cap D) = 0
  BY FS_EmptySet
<1>7. Cardinality(Range(q) \cup D) <= Cardinality(A)
  BY FS_Subset
<1>8. Cardinality(D) \in Nat /\ Cardinality(A) \in Nat
  BY <1>4, FS_CardinalityType
<1> QED
  BY <1>1, <1>5, <1>6, <1>7, <1>8

-----------------------------------------------------------------------------
(* The array of the input buffer                                           *)

RingIsTyped ==
    /\ buffer \in [0 .. Capacity - 1 -> Nat]
    /\ head \in 0 .. Capacity - 1 /\ tail \in 0 .. Capacity - 1

LEMMA Wrapping ==
    \A x \in 0 .. Capacity + Capacity - 1 :
        /\ x % Capacity \in 0 .. Capacity - 1
        /\ x % Capacity = IF x < Capacity THEN x ELSE x - Capacity
BY KernelBufferAssumption DEF KernelBufferAssumption

LEMMA ElementsAreNumbers ==
    ASSUME RingIsTyped, NEW n \in 0 .. Capacity
    PROVE  Elements(n) \in Seq(Nat) /\ Len(Elements(n)) = n
<1>1. \A i \in 1 .. n : (head + i - 1) % Capacity \in 0 .. Capacity - 1
  BY Wrapping, KernelBufferAssumption DEF RingIsTyped, KernelBufferAssumption
<1>2. Elements(n) \in [1 .. n -> Nat]
  BY <1>1 DEF Elements, RingIsTyped
<1>3. n \in Nat
  BY KernelBufferAssumption DEF KernelBufferAssumption
<1> QED
  BY <1>2, <1>3, SeqDef, LenProperties

\* insertIntoBuffer, if there is a free place.
LEMMA PutAppends ==
    ASSUME RingIsTyped, NEW n \in 0 .. Capacity - 1, NEW v \in Nat,
           tail = (head + n) % Capacity, Put(v)
    PROVE  /\ RingIsTyped'
           /\ tail' = (head' + (n + 1)) % Capacity
           /\ Elements(n + 1)' = Append(Elements(n), v)
<1>1. /\ Capacity \in Nat \ {0} /\ n + 1 \in 0 .. Capacity
      /\ head \in 0 .. Capacity - 1 /\ tail \in 0 .. Capacity - 1 /\ head' = head
      /\ buffer' = [buffer EXCEPT ![tail] = v]
      /\ buffer \in [0 .. Capacity - 1 -> Nat]
      /\ tail' = (tail + 1) % Capacity
  BY KernelBufferAssumption DEF KernelBufferAssumption, RingIsTyped, Put
<1>2. RingIsTyped'
  BY <1>1, Wrapping DEF RingIsTyped
<1>3. tail' = (head' + (n + 1)) % Capacity
  <2> DEFINE old == head + n
             new == head + (n + 1)
  <2>1. /\ old \in 0 .. Capacity + Capacity - 1 /\ new \in 0 .. Capacity + Capacity - 1
        /\ tail + 1 \in 0 .. Capacity + Capacity - 1
        /\ new = old + 1
    <3>1. /\ Capacity \in Nat \ {0} /\ n \in 0 .. Capacity - 1
          /\ head \in 0 .. Capacity - 1 /\ tail \in 0 .. Capacity - 1
      BY <1>1
    <3> QED
      BY ONLY <3>1
  <2>6. tail = old % Capacity
    OBVIOUS
  <2>2. (head' + (n + 1)) % Capacity = new % Capacity
    BY <1>1
  <2> HIDE DEF old, new
  <2>3. tail = IF old < Capacity THEN old ELSE old - Capacity
    BY <2>1, <2>6, Wrapping
  <2>4. new % Capacity = IF new < Capacity THEN new ELSE new - Capacity
    BY <2>1, Wrapping
  <2>5. tail' = IF tail + 1 < Capacity THEN tail + 1 ELSE tail + 1 - Capacity
    BY <1>1, <2>1, Wrapping
  <2>7. /\ Capacity \in Nat \ {0} /\ tail \in 0 .. Capacity - 1 /\ old \in Nat /\ new = old + 1
    BY <1>1, <2>1
  <2>8. tail' = new % Capacity
    BY ONLY <2>3, <2>4, <2>5, <2>7
  <2> QED
    BY <2>2, <2>8
<1>4. \A i \in 1 .. n : /\ (head + i - 1) % Capacity \in 0 .. Capacity - 1
                        /\ (head + i - 1) % Capacity # tail
  <2> SUFFICES ASSUME NEW i \in 1 .. n
               PROVE  /\ (head + i - 1) % Capacity \in 0 .. Capacity - 1
                      /\ (head + i - 1) % Capacity # tail
    OBVIOUS
  <2> DEFINE at == head + i - 1
             end == head + n
  <2>1. /\ at \in 0 .. Capacity + Capacity - 1 /\ end \in 0 .. Capacity + Capacity - 1
        /\ tail = end % Capacity
        /\ at < end /\ end - at < Capacity + 1 /\ end - at # Capacity
    BY <1>1
  <2> HIDE DEF at, end
  <2>2. /\ at % Capacity \in 0 .. Capacity - 1
        /\ at % Capacity = IF at < Capacity THEN at ELSE at - Capacity
    BY <2>1, Wrapping
  <2>3. tail = IF end < Capacity THEN end ELSE end - Capacity
    BY <2>1, Wrapping
  <2>4. at % Capacity \in 0 .. Capacity - 1 /\ at % Capacity # tail
    <3>1. Capacity \in Nat /\ at \in Int /\ end \in Int /\ at < end /\ end - at < Capacity
      BY <1>1, <2>1
    <3> QED
      BY <2>2, <2>3, <3>1
  <2> QED
    BY <2>4 DEF at
<1>5. /\ Elements(n) \in Seq(Nat) /\ Len(Elements(n)) = n
      /\ Elements(n + 1)' \in Seq(Nat) /\ Len(Elements(n + 1)') = n + 1
  <2>1. Elements(n) \in Seq(Nat) /\ Len(Elements(n)) = n
    BY <1>1, ElementsAreNumbers
  <2>2. Elements(n + 1)' = [i \in 1 .. n + 1 |-> buffer'[(head' + i - 1) % Capacity]]
    BY DEF Elements
  <2>3. \A i \in 1 .. n + 1 : (head' + i - 1) % Capacity \in 0 .. Capacity - 1
    BY <1>1, Wrapping
  <2>4. Elements(n + 1)' \in [1 .. n + 1 -> Nat]
    BY <1>2, <2>2, <2>3 DEF RingIsTyped
  <2> QED
    BY <1>1, <2>1, <2>4, SeqDef, LenProperties
<1>6. \A i \in 1 .. n : Elements(n + 1)'[i] = Elements(n)[i]
  BY <1>1, <1>4 DEF Elements
<1>7. Elements(n + 1)'[n + 1] = v
  <2>1. Elements(n + 1)'[n + 1] = buffer'[(head' + (n + 1) - 1) % Capacity]
    BY <1>1 DEF Elements
  <2>2. (n + 1) - 1 = n /\ head' + (n + 1) - 1 = head + n
    BY <1>1
  <2> QED
    BY <1>1, <2>1, <2>2
<1>8. Append(Elements(n), v) \in Seq(Nat)
      /\ Len(Append(Elements(n), v)) = n + 1
      /\ \A i \in 1 .. n : Append(Elements(n), v)[i] = Elements(n)[i]
      /\ Append(Elements(n), v)[n + 1] = v
  BY <1>5, AppendProperties
<1>9. \A i \in 1 .. n + 1 : Elements(n + 1)'[i] = Append(Elements(n), v)[i]
  <2> SUFFICES ASSUME NEW i \in 1 .. n + 1
               PROVE  Elements(n + 1)'[i] = Append(Elements(n), v)[i]
    OBVIOUS
  <2>1. CASE i = n + 1
    BY <1>7, <1>8, <2>1
  <2>2. CASE i # n + 1
    <3>1. i \in 1 .. n
      BY <1>1, <2>2
    <3> QED
      BY <1>6, <1>8, <3>1
  <2> QED
    BY <2>1, <2>2
<1>10. Elements(n + 1)' = Append(Elements(n), v)
  BY <1>5, <1>8, <1>9, SeqEqual
<1> QED
  BY <1>2, <1>3, <1>10

\* removeFromBuffer, if there is a character.
LEMMA FetchTakesFirst ==
    ASSUME RingIsTyped, NEW n \in 1 .. Capacity, tail = (head + n) % Capacity, Fetch
    PROVE  /\ RingIsTyped' /\ Fetched \in Nat
           /\ tail' = (head' + (n - 1)) % Capacity
           /\ Elements(n - 1)' \in Seq(Nat)
           /\ Elements(n) = << Fetched >> \o Elements(n - 1)'
<1>1. /\ Capacity \in Nat \ {0} /\ n - 1 \in 0 .. Capacity
      /\ head \in 0 .. Capacity - 1 /\ tail \in 0 .. Capacity - 1
      /\ head' = (head + 1) % Capacity /\ buffer' = buffer /\ tail' = tail
  BY KernelBufferAssumption DEF KernelBufferAssumption, RingIsTyped, Fetch
<1>2. RingIsTyped' /\ Fetched \in Nat
  BY <1>1, Wrapping DEF RingIsTyped, Fetched
<1>3. \A i \in 0 .. n - 1 : (head' + i) % Capacity = (head + (i + 1)) % Capacity
  <2> SUFFICES ASSUME NEW i \in 0 .. n - 1
               PROVE  (head' + i) % Capacity = (head + (i + 1)) % Capacity
    OBVIOUS
  <2> DEFINE at == head + (i + 1)
             then == head' + i
  <2>1. head' \in 0 .. Capacity - 1
    BY <1>2 DEF RingIsTyped
  <2>2. head' = IF head + 1 < Capacity THEN head + 1 ELSE head + 1 - Capacity
    <3>1. head + 1 \in 0 .. Capacity + Capacity - 1
      BY <1>1
    <3> QED
      BY <1>1, <3>1, Wrapping
  <2>3. /\ at \in 0 .. Capacity + Capacity - 1 /\ then \in 0 .. Capacity + Capacity - 1
        /\ IF head + 1 < Capacity THEN then = at ELSE then = at - Capacity
        /\ head + 1 < Capacity \/ at >= Capacity
    BY <1>1, <2>1, <2>2
  <2> HIDE DEF at, then
  <2>4. at % Capacity = IF at < Capacity THEN at ELSE at - Capacity
    BY <2>3, Wrapping
  <2>5. then % Capacity = IF then < Capacity THEN then ELSE then - Capacity
    BY <2>3, Wrapping
  <2>6. then % Capacity = at % Capacity
    BY <1>1, <2>3, <2>4, <2>5
  <2> QED
    BY <2>6 DEF at, then
<1>4. tail' = (head' + (n - 1)) % Capacity
  BY <1>1, <1>3
<1>5. /\ Elements(n) \in Seq(Nat) /\ Len(Elements(n)) = n
      /\ Elements(n - 1)' \in Seq(Nat) /\ Len(Elements(n - 1)') = n - 1
  <2>1. Elements(n) \in Seq(Nat) /\ Len(Elements(n)) = n
    BY <1>1, ElementsAreNumbers
  <2>2. Elements(n - 1)' = [i \in 1 .. n - 1 |-> buffer'[(head' + i - 1) % Capacity]]
    BY DEF Elements
  <2>3. \A i \in 1 .. n - 1 : (head' + i - 1) % Capacity \in 0 .. Capacity - 1
    <3>1. head' \in 0 .. Capacity - 1
      BY <1>2 DEF RingIsTyped
    <3>2. \A i \in 1 .. n - 1 : head' + i - 1 \in 0 .. Capacity + Capacity - 1
      BY <1>1, <3>1
    <3> QED
      BY <3>2, Wrapping
  <2>4. Elements(n - 1)' \in [1 .. n - 1 -> Nat]
    BY <1>2, <2>2, <2>3 DEF RingIsTyped
  <2> QED
    BY <1>1, <2>1, <2>4, SeqDef, LenProperties
<1>6. /\ << Fetched >> \in Seq(Nat) /\ Len(<< Fetched >>) = 1
      /\ << Fetched >>[1] = Fetched
  BY <1>2
<1>7. /\ << Fetched >> \o Elements(n - 1)' \in Seq(Nat)
      /\ Len(<< Fetched >> \o Elements(n - 1)') = n
      /\ \A i \in 1 .. n : (<< Fetched >> \o Elements(n - 1)')[i] =
                           IF i <= 1 THEN Fetched ELSE Elements(n - 1)'[i - 1]
  BY <1>1, <1>5, <1>6, ConcatProperties
<1>8. Elements(n)[1] = Fetched
  <2>1. head + 1 - 1 = head /\ head + 0 = head /\ head % Capacity = head
    BY <1>1, Wrapping
  <2> QED
    BY <1>1, <2>1 DEF Elements, Fetched
<1>9. \A i \in 2 .. n : Elements(n)[i] = Elements(n - 1)'[i - 1]
  <2> SUFFICES ASSUME NEW i \in 2 .. n PROVE Elements(n)[i] = Elements(n - 1)'[i - 1]
    OBVIOUS
  <2>1. i - 2 \in 0 .. n - 1 /\ i - 1 \in 1 .. n - 1 /\ i \in 1 .. n
    BY <1>1
  <2>2. (head' + (i - 2)) % Capacity = (head + ((i - 2) + 1)) % Capacity
    BY <1>3, <2>1
  <2>3. head' + (i - 1) - 1 = head' + (i - 2) /\ head + ((i - 2) + 1) = head + i - 1
    BY <1>1, <1>2, <2>1 DEF RingIsTyped
  <2>4. Elements(n)[i] = buffer[(head + i - 1) % Capacity]
    BY <2>1 DEF Elements
  <2>5. Elements(n - 1)'[i - 1] = buffer'[(head' + (i - 1) - 1) % Capacity]
    BY <2>1 DEF Elements
  <2> QED
    BY <1>1, <2>2, <2>3, <2>4, <2>5
<1>10. \A i \in 1 .. n : Elements(n)[i] = (<< Fetched >> \o Elements(n - 1)')[i]
  <2> SUFFICES ASSUME NEW i \in 1 .. n
               PROVE  Elements(n)[i] = (<< Fetched >> \o Elements(n - 1)')[i]
    OBVIOUS
  <2>1. CASE i = 1
    BY <1>7, <1>8, <2>1
  <2>2. CASE i # 1
    <3>1. i \in 2 .. n /\ ~(i <= 1)
      BY <1>1, <2>2
    <3> QED
      BY <1>7, <1>9, <3>1
  <2> QED
    BY <2>1, <2>2
<1>11. Elements(n) = << Fetched >> \o Elements(n - 1)'
  BY <1>5, <1>7, <1>10, SeqEqual
<1> QED
  BY <1>2, <1>4, <1>5, <1>11

LEMMA FourAreDifferent ==
    /\ Main \in Threads /\ UserMain \in Threads /\ Output \in Threads /\ Idle \in Threads
    /\ Main # UserMain /\ Main # Output /\ Main # Idle
    /\ UserMain # Output /\ UserMain # Idle /\ Output # Idle
<1>1. \A a, b, c : Cardinality({a, b, c}) <= 3
  <2> SUFFICES ASSUME NEW a, NEW b, NEW c PROVE Cardinality({a, b, c}) <= 3
    OBVIOUS
  <2>1. IsFiniteSet({a}) /\ Cardinality({a}) = 1
    BY FS_Singleton
  <2>2. {a, b} = {a} \cup {b} /\ {a, b, c} = {a, b} \cup {c}
    OBVIOUS
  <2>3. IsFiniteSet({a, b}) /\ Cardinality({a, b}) <= 2
    BY <2>1, <2>2, FS_AddElement
  <2>4. Cardinality({a, b}) \in Nat
    BY <2>3, FS_CardinalityType
  <2> QED
    BY <2>2, <2>3, <2>4, FS_AddElement
<1>2. ASSUME \E a, b, c : {Main, UserMain, Output, Idle} = {a, b, c} PROVE FALSE
  <2>1. PICK a, b, c : {Main, UserMain, Output, Idle} = {a, b, c}
    BY <1>2
  <2>2. Cardinality({a, b, c}) = 4
    BY <2>1, TrapsAssumption DEF TrapsAssumption
  <2>3. Cardinality({a, b, c}) <= 3
    BY <1>1
  <2> QED
    BY <2>2, <2>3
<1>3. /\ Main = UserMain => {Main, UserMain, Output, Idle} = {Main, Output, Idle}
      /\ Main = Output => {Main, UserMain, Output, Idle} = {Main, UserMain, Idle}
      /\ Main = Idle => {Main, UserMain, Output, Idle} = {Main, UserMain, Output}
      /\ UserMain = Output => {Main, UserMain, Output, Idle} = {Main, Output, Idle}
      /\ UserMain = Idle => {Main, UserMain, Output, Idle} = {Main, Output, Idle}
      /\ Output = Idle => {Main, UserMain, Output, Idle} = {Main, UserMain, Output}
  OBVIOUS
<1>4. {Main, UserMain, Output, Idle} \subseteq Threads
  BY TrapsAssumption DEF TrapsAssumption
<1> QED
  BY <1>2, <1>3, <1>4

-----------------------------------------------------------------------------
(* Who is where                                                            *)

\* The threads that wait for a semaphore of the buffer, given its lists.
Blocked(bl) == {t \in Threads : \E s \in BufferSemaphores : t \in Range(bl[s])}

ListsAreApart(bl) ==
    /\ \A s \in BufferSemaphores : IsInjective(bl[s])
    /\ \A s, u \in BufferSemaphores : s # u => Range(bl[s]) \cap Range(bl[u]) = {}

\* The list q of ready threads and the lists bl of those that wait; st and ow
\* are the stages and outputWaits.  Nobody runs; main() is ready unless it
\* waits for a place.
ListsFit(q, bl, st, ow) ==
    /\ IsInjective(q) /\ ListsAreApart(bl)
    /\ Range(q) \cap Blocked(bl) = {}
    /\ Idle \notin Range(q) \cup Blocked(bl)
    /\ Main \in Range(q) \cup Range(bl["spaceAvailable"])
    /\ ow => Output \notin Range(q) \cup Blocked(bl)
    /\ \A t \in Threads : st[t] = "new" => t \notin {Idle, Output} \cup Range(q) \cup Blocked(bl)

\* The same while r runs.  The idle thread runs only if main() waits for a
\* place.
PlacesFit(q, r, bl, st, ow) ==
    /\ IsInjective(q) /\ ListsAreApart(bl)
    /\ Range(q) \cap Blocked(bl) = {}
    /\ {Idle, r} \cap (Range(q) \cup Blocked(bl)) = {}
    /\ Main \in {r} \cup Range(q) \cup Range(bl["spaceAvailable"])
    /\ r = Idle => Main \in Range(bl["spaceAvailable"])
    /\ ow => Output \notin {r} \cup Range(q) \cup Blocked(bl)
    /\ \A t \in Threads : st[t] = "new" =>
          t \notin {Idle, Output, r} \cup Range(q) \cup Blocked(bl)

LEMMA SwitchFits ==
    ASSUME NEW q \in Seq(Threads), NEW bl, NEW st, NEW ow, ListsFit(q, bl, st, ow)
    PROVE  /\ PlacesFit(Rest(q), First(q), bl, st, ow)
           /\ Rest(q) \in Seq(Threads) /\ First(q) \in Threads
<1>1. Main # Idle /\ Output # Idle /\ Idle \in Threads
  BY FourAreDifferent
<1>2. CASE q = << >>
  <2>1. Range(q) = {} /\ Rest(q) = q /\ First(q) = Idle
    BY <1>2 DEF Range, Rest, First
  <2> QED
    BY <1>1, <2>1 DEF ListsFit, PlacesFit
<1>3. CASE q # << >>
  <2>1. /\ Head(q) \in Threads /\ Head(q) \in Range(q) /\ Tail(q) \in Seq(Threads)
        /\ Range(Tail(q)) = Range(q) \ {Head(q)} /\ IsInjective(Tail(q))
        /\ Rest(q) = Tail(q) /\ First(q) = Head(q)
    BY <1>3, FirstLeaves DEF ListsFit, Rest, First
  <2> QED
    BY <1>1, <2>1 DEF ListsFit, PlacesFit
<1> QED
  BY <1>2, <1>3

LEMMA EnqueueAdds ==
    ASSUME NEW q \in Seq(Threads), IsInjective(q), NEW t \in Threads, t \notin Range(q)
    PROVE  /\ Enqueue(q, t) \in Seq(Threads) /\ IsInjective(Enqueue(q, t))
           /\ Range(Enqueue(q, t)) = IF t = Idle THEN Range(q) ELSE Range(q) \cup {t}
<1>1. CASE t = Idle
  BY <1>1 DEF Enqueue
<1>2. CASE t # Idle
  BY <1>2, LastJoins DEF Enqueue
<1> QED
  BY <1>1, <1>2

\* The running thread becomes ready.
LEMMA RunningIsEnqueued ==
    ASSUME NEW q \in Seq(Threads), NEW r \in Threads, NEW bl, NEW st, NEW ow,
           PlacesFit(q, r, bl, st, ow)
    PROVE  Enqueue(q, r) \in Seq(Threads) /\ ListsFit(Enqueue(q, r), bl, st, ow)
<1>1. Main # Idle /\ Output # Idle
  BY FourAreDifferent
<1>2. /\ Enqueue(q, r) \in Seq(Threads) /\ IsInjective(Enqueue(q, r))
      /\ Range(Enqueue(q, r)) = IF r = Idle THEN Range(q) ELSE Range(q) \cup {r}
  BY EnqueueAdds DEF PlacesFit
<1> QED
  BY <1>1, <1>2 DEF PlacesFit, ListsFit

\* Another one does.
LEMMA AnotherIsEnqueued ==
    ASSUME NEW q \in Seq(Threads), NEW r, NEW bl, NEW st, NEW ow, PlacesFit(q, r, bl, st, ow),
           NEW t \in Threads, t \notin {r} \cup Range(q) \cup Blocked(bl),
           st[t] # "new", ow => t # Output
    PROVE  Enqueue(q, t) \in Seq(Threads) /\ PlacesFit(Enqueue(q, t), r, bl, st, ow)
<1>1. /\ Enqueue(q, t) \in Seq(Threads) /\ IsInjective(Enqueue(q, t))
      /\ Range(Enqueue(q, t)) = IF t = Idle THEN Range(q) ELSE Range(q) \cup {t}
  BY EnqueueAdds DEF PlacesFit
<1> QED
  BY <1>1 DEF PlacesFit

\* The stages go on, and the output thread stops waiting.
LEMMA LaterStagesFit ==
    ASSUME NEW q, NEW r, NEW bl, NEW st, NEW ow, PlacesFit(q, r, bl, st, ow),
           NEW st2, NEW ow2, ow2 => ow, \A t \in Threads : st2[t] = "new" => st[t] = "new"
    PROVE  PlacesFit(q, r, bl, st2, ow2)
BY DEF PlacesFit

\* The running thread gives up the processor without being ready.
LEMMA RunningLeaves ==
    ASSUME NEW q, NEW r, NEW bl, NEW st, NEW ow, PlacesFit(q, r, bl, st, ow),
           r # Main, r # Idle, NEW ow2, ow2 => ow \/ r = Output
    PROVE  ListsFit(q, bl, st, ow2)
BY DEF PlacesFit, ListsFit

\* The lists after one of them has become c.
LEMMA OneListChanges ==
    ASSUME NEW bl \in [BufferSemaphores -> Seq(Threads)], NEW s \in BufferSemaphores,
           NEW c \in Seq(Threads), NEW cl, cl = [bl EXCEPT ![s] = c]
    PROVE  /\ cl \in [BufferSemaphores -> Seq(Threads)]
           /\ \A u \in BufferSemaphores : cl[u] = IF u = s THEN c ELSE bl[u]
OBVIOUS

LEMMA BlockedAreThreads ==
    ASSUME NEW bl \in [BufferSemaphores -> Seq(Threads)]
    PROVE  \A s \in BufferSemaphores :
              Range(bl[s]) \subseteq Threads /\ Range(bl[s]) \subseteq Blocked(bl)
BY DEF Range, Blocked

LEMMA BufferSemaphoresAre ==
    /\ "itemAvailable" \in BufferSemaphores /\ "spaceAvailable" \in BufferSemaphores
    /\ "mutexHead" \in BufferSemaphores /\ "mutexTail" \in BufferSemaphores
BY DEF BufferSemaphores

\* The running thread joins a list; main() only waits for a place.
LEMMA RunningWaits ==
    ASSUME runningThread \in Threads, blockedThreads \in [BufferSemaphores -> Seq(Threads)],
           PlacesFit(ready, runningThread, blockedThreads, stage, outputWaits),
           runningThread # Idle,
           NEW s \in BufferSemaphores, runningThread = Main => s = "spaceAvailable",
           blockedThreads' = [blockedThreads EXCEPT ![s] = Append(blockedThreads[s], runningThread)]
    PROVE  /\ blockedThreads' \in [BufferSemaphores -> Seq(Threads)]
           /\ ListsFit(ready, blockedThreads', stage, outputWaits)
           /\ \A u \in BufferSemaphores :
                 Range(blockedThreads'[u]) = IF u = s THEN Range(blockedThreads[u]) \cup {runningThread}
                                             ELSE Range(blockedThreads[u])
<1> DEFINE c == Append(blockedThreads[s], runningThread)
<1>1. /\ runningThread \notin Range(blockedThreads[s])
      /\ IsInjective(blockedThreads[s]) /\ blockedThreads[s] \in Seq(Threads)
  BY BlockedAreThreads DEF PlacesFit, ListsAreApart
<1>2. c \in Seq(Threads) /\ IsInjective(c) /\ Range(c) = Range(blockedThreads[s]) \cup {runningThread}
  BY <1>1, LastJoins
<1> HIDE DEF c
<1>3. /\ blockedThreads' \in [BufferSemaphores -> Seq(Threads)]
      /\ \A u \in BufferSemaphores : blockedThreads'[u] = IF u = s THEN c ELSE blockedThreads[u]
  BY <1>2, OneListChanges DEF c
<1>4. \A u \in BufferSemaphores :
         Range(blockedThreads'[u]) = IF u = s THEN Range(blockedThreads[u]) \cup {runningThread}
                                     ELSE Range(blockedThreads[u])
  BY <1>2, <1>3
<1>5. Blocked(blockedThreads') = Blocked(blockedThreads) \cup {runningThread}
  BY <1>4 DEF Blocked
<1>6. \A u \in BufferSemaphores : runningThread \notin Range(blockedThreads[u])
  BY BlockedAreThreads DEF PlacesFit
<1>7. ListsAreApart(blockedThreads')
  BY <1>2, <1>3, <1>4, <1>6 DEF PlacesFit, ListsAreApart
<1>8. Main \in Range(ready) \cup Range(blockedThreads'["spaceAvailable"])
  BY <1>4, BufferSemaphoresAre DEF PlacesFit
<1> QED
  BY <1>3, <1>4, <1>5, <1>7, <1>8 DEF PlacesFit, ListsFit

\* The first of a list becomes ready.
LEMMA WaiterIsReleased ==
    ASSUME ready \in Seq(Threads), blockedThreads \in [BufferSemaphores -> Seq(Threads)],
           PlacesFit(ready, runningThread, blockedThreads, stage, outputWaits),
           runningThread # Idle,
           NEW s \in BufferSemaphores, blockedThreads[s] # << >>,
           blockedThreads' = [blockedThreads EXCEPT ![s] = Tail(blockedThreads[s])]
    PROVE  /\ PlacesFit(Enqueue(ready, Head(blockedThreads[s])), runningThread, blockedThreads',
                        stage, outputWaits)
           /\ \A u \in BufferSemaphores : Range(blockedThreads'[u]) \subseteq Range(blockedThreads[u])
<1> DEFINE c == Tail(blockedThreads[s])
           t == Head(blockedThreads[s])
<1>1. IsInjective(blockedThreads[s]) /\ blockedThreads[s] \in Seq(Threads)
  BY DEF PlacesFit, ListsAreApart
<1>2. /\ t \in Threads /\ t \in Range(blockedThreads[s]) /\ c \in Seq(Threads)
      /\ Range(c) = Range(blockedThreads[s]) \ {t} /\ IsInjective(c)
  BY <1>1, FirstLeaves
<1> HIDE DEF c, t
<1>3. /\ blockedThreads' \in [BufferSemaphores -> Seq(Threads)]
      /\ \A u \in BufferSemaphores : blockedThreads'[u] = IF u = s THEN c ELSE blockedThreads[u]
  BY <1>2, OneListChanges DEF c
<1>4. /\ \A u \in BufferSemaphores :
            Range(blockedThreads'[u]) = IF u = s THEN Range(blockedThreads[u]) \ {t}
                                        ELSE Range(blockedThreads[u])
      /\ \A u \in BufferSemaphores : u # s => t \notin Range(blockedThreads[u])
  BY <1>2, <1>3 DEF PlacesFit, ListsAreApart
<1>5. Blocked(blockedThreads') = Blocked(blockedThreads) \ {t}
  BY <1>4 DEF Blocked
<1>6. t \in Blocked(blockedThreads)
  BY <1>2 DEF Blocked
<1>7. t # Idle /\ t \notin Range(ready)
  BY <1>6 DEF PlacesFit
<1>8. /\ Enqueue(ready, t) \in Seq(Threads) /\ IsInjective(Enqueue(ready, t))
      /\ Range(Enqueue(ready, t)) = Range(ready) \cup {t}
  BY <1>2, <1>7, EnqueueAdds DEF PlacesFit
<1>9. ListsAreApart(blockedThreads')
  <2>1. \A u \in BufferSemaphores : IsInjective(blockedThreads'[u])
    BY <1>2, <1>3 DEF PlacesFit, ListsAreApart
  <2>2. \A u, v \in BufferSemaphores :
           u # v => Range(blockedThreads'[u]) \cap Range(blockedThreads'[v]) = {}
    BY <1>4 DEF PlacesFit, ListsAreApart
  <2> QED
    BY <2>1, <2>2 DEF ListsAreApart
<1>10. Main \in {runningThread} \cup Range(Enqueue(ready, t))
                \cup Range(blockedThreads'["spaceAvailable"])
  BY <1>4, <1>8, BufferSemaphoresAre DEF PlacesFit
<1>11. \A u \in BufferSemaphores : Range(blockedThreads'[u]) \subseteq Range(blockedThreads[u])
  BY <1>4
<1>12. PlacesFit(Enqueue(ready, t), runningThread, blockedThreads', stage, outputWaits)
  BY <1>5, <1>6, <1>8, <1>9, <1>10 DEF PlacesFit
<1> QED
  BY <1>3, <1>11, <1>12 DEF t

-----------------------------------------------------------------------------
(* What the traps hold                                                     *)

\* The console interrupt is in service.
Serving(f) == f.kind = "console" /\ f.phase # "sret"

\* The statements of the buffer that have a wait behind them and a signal
\* before them, in getc and in the console interrupt.
PastInGetc == {"waitHead", "fetch", "signalHead", "signalSpace"}
PastInConsole == {"waitTail", "store", "signalTail", "signalItem"}
PastAWait == PastInGetc \cup PastInConsole

\* The i-th trap of thread t, whose stage is s.
TrapFits(f, t, i, s) ==
    /\ f.kind = "getc" => i = 1
    /\ f.kind \in {"getc", "sleep"} => t \notin {Main, Output, Idle}
    /\ f.kind = "console" => t # Idle
    /\ f.phase \in PastInGetc \cup {"waitItem"} => f.kind = "getc"
    /\ f.phase \in PastInConsole \cup {"waitSpace"} => f.kind = "console"
    /\ f.phase \in {"waitSpace", "waitTail", "store"} => Len(f.input) = 1
    /\ f.phase \notin {"waitSpace", "waitTail", "store"} => f.input = << >>
    /\ s = "new" => f.kind = "start"

TrapsFit(fr, st) ==
    \A t \in Threads : \A i \in 1 .. Len(fr[t]) : TrapFits(fr[t][i], t, i, st[t])

\* plic_claim and plic_complete enclose one interrupt at a time.
OneServes(fr) ==
    \A t, u \in Threads : \A i \in 1 .. Len(fr[t]) : \A j \in 1 .. Len(fr[u]) :
        Serving(fr[t][i]) /\ Serving(fr[u][j]) => t = u /\ i = j

\* InHand, for any frames.
Holding(fr) == {t \in Threads : \E i \in 1 .. Len(fr[t]) : fr[t][i].input # << >>}

Hand(fr) ==
    IF Holding(fr) = {} THEN << >>
    ELSE LET t == CHOOSE t \in Holding(fr) : TRUE
             i == CHOOSE i \in 1 .. Len(fr[t]) : fr[t][i].input # << >>
         IN  fr[t][i].input

\* Those that wait for a semaphore go on behind the wait.
PastWait == [itemAvailable  |-> "waitHead", mutexHead |-> "fetch",
             spaceAvailable |-> "waitTail", mutexTail |-> "store"]

WaitersFit(bl, fr) ==
    \A s \in BufferSemaphores : \A t \in Range(bl[s]) :
        Len(fr[t]) > 0 /\ fr[t][Len(fr[t])].phase = PastWait[s]

LEMMA HandNow ==
    InHand = Hand(frames) /\ InHand' = Hand(frames')
BY DEF InHand, Hand, Holding

LEMMA HoldersServe ==
    ASSUME NEW fr, NEW st, TrapsFit(fr, st)
    PROVE  \A t \in Threads : \A i \in 1 .. Len(fr[t]) :
              fr[t][i].input # << >> => Serving(fr[t][i])
BY DEF TrapsFit, TrapFits, Serving, PastInConsole

LEMMA OneHolds ==
    ASSUME NEW fr \in [Threads -> Seq(Frame)], NEW st, TrapsFit(fr, st), OneServes(fr),
           NEW t \in Threads, NEW i \in 1 .. Len(fr[t]), fr[t][i].input # << >>
    PROVE  Hand(fr) = fr[t][i].input
<1>1. \A u \in Threads : \A j \in 1 .. Len(fr[u]) :
         fr[u][j].input # << >> => Serving(fr[u][j])
  BY HoldersServe
<1>2. \A u \in Threads : \A j \in 1 .. Len(fr[u]) :
         fr[u][j].input # << >> => u = t /\ j = i
  BY <1>1 DEF OneServes
<1>3. Holding(fr) = {t}
  BY <1>2 DEF Holding
<1>4. (CHOOSE u \in Holding(fr) : TRUE) = t
  BY <1>3
<1>5. (CHOOSE j \in 1 .. Len(fr[t]) : fr[t][j].input # << >>) = i
  <2> DEFINE P(j) == j \in 1 .. Len(fr[t]) /\ fr[t][j].input # << >>
  <2>1. \A j : P(j) <=> j = i
    BY <1>2
  <2>2. (CHOOSE j : P(j)) = i
    <3>1. P(i)
      BY <2>1
    <3>2. P(CHOOSE j : P(j))
      BY <3>1
    <3> QED
      BY <2>1, <3>2
  <2> QED
    BY <2>2
<1>6. Hand(fr) = LET u == CHOOSE u \in Holding(fr) : TRUE
                     j == CHOOSE j \in 1 .. Len(fr[u]) : fr[u][j].input # << >>
                 IN  fr[u][j].input
  BY <1>3 DEF Hand
<1> QED
  BY <1>4, <1>5, <1>6

LEMMA NoneHolds ==
    ASSUME NEW fr, \A t \in Threads : \A i \in 1 .. Len(fr[t]) : fr[t][i].input = << >>
    PROVE  Hand(fr) = << >>
BY DEF Hand, Holding

\* The hand is empty or holds one character.
LEMMA HandIsSmall ==
    ASSUME NEW fr \in [Threads -> Seq(Frame)], NEW st, TrapsFit(fr, st), OneServes(fr)
    PROVE  Hand(fr) \in Seq(Nat) /\ (Hand(fr) = << >> \/ Len(Hand(fr)) = 1)
<1>1. CASE \E t \in Threads : \E i \in 1 .. Len(fr[t]) : fr[t][i].input # << >>
  <2>5. PICK t \in Threads : \E i \in 1 .. Len(fr[t]) : fr[t][i].input # << >>
    BY <1>1
  <2>1. PICK i \in 1 .. Len(fr[t]) : fr[t][i].input # << >>
    BY <2>5
  <2>2. Hand(fr) = fr[t][i].input
    BY <2>1, OneHolds
  <2>3. fr[t][i] \in Frame
    OBVIOUS
  <2>4. fr[t][i].input \in Seq(Nat) /\ Len(fr[t][i].input) = 1
    BY <2>1, <2>3 DEF Frame, TrapsFit, TrapFits
  <2> QED
    BY <2>2, <2>4
<1>2. CASE ~(\E t \in Threads : \E i \in 1 .. Len(fr[t]) : fr[t][i].input # << >>)
  <2>1. Hand(fr) = << >>
    BY <1>2, NoneHolds
  <2> QED
    BY <2>1
<1> QED
  BY <1>1, <1>2

\* The traps p of a thread become q; no character moves.
GoOn(p, q) ==
    /\ \A i \in 1 .. Len(p) : p[i].input # << >> => i <= Len(q) /\ q[i].input = p[i].input
    /\ \A i \in 1 .. Len(q) : q[i].input # << >> => i <= Len(p) /\ q[i].input = p[i].input

LEMMA HandStays ==
    ASSUME NEW fr \in [Threads -> Seq(Frame)], NEW st, TrapsFit(fr, st), OneServes(fr),
           NEW gr \in [Threads -> Seq(Frame)], NEW su, TrapsFit(gr, su), OneServes(gr),
           \A t \in Threads : GoOn(fr[t], gr[t])
    PROVE  Hand(gr) = Hand(fr)
<1>2. \A t \in Threads : Len(fr[t]) \in Nat /\ Len(gr[t]) \in Nat
  OBVIOUS
<1>3. CASE \E t \in Threads : \E i \in 1 .. Len(fr[t]) : fr[t][i].input # << >>
  <2>5. PICK t \in Threads : \E i \in 1 .. Len(fr[t]) : fr[t][i].input # << >>
    BY <1>3
  <2>1. PICK i \in 1 .. Len(fr[t]) : fr[t][i].input # << >>
    BY <2>5
  <2>2. i \in 1 .. Len(gr[t]) /\ gr[t][i].input = fr[t][i].input
    BY <1>2, <2>1 DEF GoOn
  <2>3. Hand(fr) = fr[t][i].input
    BY <2>1, OneHolds
  <2>4. Hand(gr) = gr[t][i].input
    BY <2>1, <2>2, OneHolds
  <2> QED
    BY <2>2, <2>3, <2>4
<1>4. CASE \A t \in Threads : \A i \in 1 .. Len(fr[t]) : fr[t][i].input = << >>
  <2>1. \A t \in Threads : \A i \in 1 .. Len(gr[t]) : gr[t][i].input = << >>
    <3> SUFFICES ASSUME NEW t \in Threads, NEW i \in 1 .. Len(gr[t]), gr[t][i].input # << >>
                 PROVE  FALSE
      OBVIOUS
    <3>1. i \in 1 .. Len(fr[t]) /\ gr[t][i].input = fr[t][i].input
      BY <1>2 DEF GoOn
    <3> QED
      BY <1>4, <3>1
  <2> QED
    BY <1>4, <2>1, NoneHolds
<1> QED
  BY <1>3, <1>4

-----------------------------------------------------------------------------
(* Who has passed a wait                                                   *)

\* The threads with a trap at one of the statements S.
Within(fr, S) == {t \in Threads : \E i \in 1 .. Len(fr[t]) : fr[t][i].phase \in S}

\* A statement past a wait uses a permit of the semaphores it is between: of
\* itemAvailable until the character is fetched, of spaceAvailable until it is
\* stored, and those that the signals to come will give back.
UsedByGetc == [itemAvailable  |-> {"waitHead", "fetch"},
               spaceAvailable |-> {"signalHead", "signalSpace"},
               mutexHead      |-> {"fetch", "signalHead"},
               mutexTail      |-> {}]

UsedByConsole == [itemAvailable  |-> {"signalTail", "signalItem"},
                  spaceAvailable |-> {"waitTail", "store"},
                  mutexHead      |-> {},
                  mutexTail      |-> {"store", "signalTail"}]

Used(fr, s) == Cardinality(Within(fr, UsedByGetc[s])) + Cardinality(Within(fr, UsedByConsole[s]))

\* The permits there are with n characters in the buffer.
Permits(s, n) == CASE s = "itemAvailable"  -> n
                   [] s = "spaceAvailable" -> Capacity - n
                   [] OTHER                -> 1

LEMMA UsesArePast ==
    \A s \in BufferSemaphores :
        /\ UsedByGetc[s] \subseteq PastInGetc /\ UsedByConsole[s] \subseteq PastInConsole
        /\ UsedByGetc[s] \subseteq PastAWait /\ UsedByConsole[s] \subseteq PastAWait
BY DEF BufferSemaphores, UsedByGetc, UsedByConsole, PastInGetc, PastInConsole, PastAWait

LEMMA UsersAreFinite ==
    ASSUME NEW fr, IsFiniteSet(Within(fr, PastAWait)), NEW S \in SUBSET PastAWait
    PROVE  IsFiniteSet(Within(fr, S)) /\ Cardinality(Within(fr, S)) \in Nat
<1>1. Within(fr, S) \subseteq Within(fr, PastAWait)
  BY DEF Within
<1> QED
  BY <1>1, FS_Subset, FS_CardinalityType

LEMMA UsedIsNat ==
    ASSUME NEW fr, IsFiniteSet(Within(fr, PastAWait)), NEW s \in BufferSemaphores
    PROVE  /\ Cardinality(Within(fr, UsedByGetc[s])) \in Nat
           /\ Cardinality(Within(fr, UsedByConsole[s])) \in Nat
           /\ Used(fr, s) \in Nat
<1>1. UsedByGetc[s] \in SUBSET PastAWait /\ UsedByConsole[s] \in SUBSET PastAWait
  BY UsesArePast
<1>2. /\ Cardinality(Within(fr, UsedByGetc[s])) \in Nat
      /\ Cardinality(Within(fr, UsedByConsole[s])) \in Nat
  BY <1>1, UsersAreFinite
<1> QED
  BY <1>2 DEF Used

\* The traps p of a thread become q; none passes a wait or goes on behind one.
SamePast(p, q) ==
    /\ \A i \in 1 .. Len(p) : p[i].phase \in PastAWait => i <= Len(q) /\ q[i].phase = p[i].phase
    /\ \A i \in 1 .. Len(q) : q[i].phase \in PastAWait => i <= Len(p) /\ q[i].phase = p[i].phase

LEMMA WithinStays ==
    ASSUME NEW fr \in [Threads -> Seq(Frame)], NEW gr \in [Threads -> Seq(Frame)],
           \A t \in Threads : SamePast(fr[t], gr[t])
    PROVE  /\ \A S \in SUBSET PastAWait : Within(gr, S) = Within(fr, S)
           /\ \A s \in BufferSemaphores : Used(gr, s) = Used(fr, s)
<1>1. \A t \in Threads : Len(fr[t]) \in Nat /\ Len(gr[t]) \in Nat
  OBVIOUS
<1>2. ASSUME NEW S \in SUBSET PastAWait, NEW t \in Threads
      PROVE  (\E i \in 1 .. Len(gr[t]) : gr[t][i].phase \in S)
             <=> (\E i \in 1 .. Len(fr[t]) : fr[t][i].phase \in S)
  <2>1. ASSUME NEW i \in 1 .. Len(gr[t]), gr[t][i].phase \in S
        PROVE  i \in 1 .. Len(fr[t]) /\ fr[t][i].phase \in S
    BY <1>1, <2>1 DEF SamePast
  <2>2. ASSUME NEW i \in 1 .. Len(fr[t]), fr[t][i].phase \in S
        PROVE  i \in 1 .. Len(gr[t]) /\ gr[t][i].phase \in S
    BY <1>1, <2>2 DEF SamePast
  <2> QED
    BY <2>1, <2>2
<1>3. \A S \in SUBSET PastAWait : Within(gr, S) = Within(fr, S)
  BY <1>2 DEF Within
<1> QED
  BY <1>3, UsesArePast DEF Used

\* A thread's d-th trap goes on; its other traps are not at statements of S.
OneGoesOn(fr, gr, r, d, S) ==
    /\ d \in 1 .. Len(fr[r])
    /\ \A t \in Threads : Len(gr[t]) = Len(fr[t])
    /\ \A t \in Threads : \A i \in 1 .. Len(fr[t]) :
          t # r \/ i # d => gr[t][i].phase = fr[t][i].phase
    /\ \A i \in 1 .. Len(fr[r]) : i # d => fr[r][i].phase \notin S

Counts(p, S) == IF p \in S THEN 1 ELSE 0

LEMMA OneMoves ==
    ASSUME NEW fr, NEW gr, NEW r \in Threads, NEW d, NEW S,
           OneGoesOn(fr, gr, r, d, S), IsFiniteSet(Within(fr, S))
    PROVE  /\ IsFiniteSet(Within(gr, S))
           /\ Cardinality(Within(gr, S)) =
                 Cardinality(Within(fr, S)) + Counts(gr[r][d].phase, S) - Counts(fr[r][d].phase, S)
<1>1. \A t \in Threads : t # r => (t \in Within(gr, S) <=> t \in Within(fr, S))
  BY DEF Within, OneGoesOn
<1>2. r \in Within(fr, S) <=> fr[r][d].phase \in S
  BY DEF Within, OneGoesOn
<1>3. r \in Within(gr, S) <=> gr[r][d].phase \in S
  BY DEF Within, OneGoesOn
<1>4. Within(gr, S) \subseteq Threads /\ Within(fr, S) \subseteq Threads
  BY DEF Within, OneGoesOn
<1>5. CASE fr[r][d].phase \in S /\ gr[r][d].phase \notin S
  <2>1. Within(gr, S) = Within(fr, S) \ {r}
    BY <1>1, <1>2, <1>3, <1>4, <1>5
  <2>2. r \in Within(fr, S)
    BY <1>2, <1>5
  <2> DEFINE W == Within(fr, S)
  <2> HIDE DEF W
  <2>3. IsFiniteSet(W) /\ r \in W
    BY <2>2 DEF W
  <2>4. IsFiniteSet(W \ {r}) /\ Cardinality(W \ {r}) = Cardinality(W) - 1
    BY <2>3, FS_RemoveElement
  <2>5. Cardinality(W) \in Nat
    BY <2>3, FS_CardinalityType
  <2>6. Counts(gr[r][d].phase, S) = 0 /\ Counts(fr[r][d].phase, S) = 1
    BY <1>5 DEF Counts
  <2>7. IsFiniteSet(Within(gr, S)) /\ Cardinality(Within(gr, S)) = Cardinality(Within(fr, S)) - 1
    BY <2>1, <2>4 DEF W
  <2> QED
    BY <2>5, <2>6, <2>7 DEF W
<1>6. CASE fr[r][d].phase \notin S /\ gr[r][d].phase \in S
  <2>1. Within(gr, S) = Within(fr, S) \cup {r}
    BY <1>1, <1>2, <1>3, <1>4, <1>6
  <2> QED
    BY <1>2, <1>6, <2>1, FS_AddElement, FS_CardinalityType DEF Counts
<1>7. CASE fr[r][d].phase \in S /\ gr[r][d].phase \in S
  <2>3. \A t \in Threads : t \in Within(gr, S) <=> t \in Within(fr, S)
    BY <1>1, <1>2, <1>3, <1>7
  <2>1. Within(gr, S) = Within(fr, S)
    BY <1>4, <2>3
  <2> QED
    BY <1>7, <2>1, FS_CardinalityType DEF Counts
<1>8. CASE fr[r][d].phase \notin S /\ gr[r][d].phase \notin S
  <2>3. \A t \in Threads : t \in Within(gr, S) <=> t \in Within(fr, S)
    BY <1>1, <1>2, <1>3, <1>8
  <2>1. Within(gr, S) = Within(fr, S)
    BY <1>4, <2>3
  <2> QED
    BY <1>8, <2>1, FS_CardinalityType DEF Counts
<1> QED
  BY <1>5, <1>6, <1>7, <1>8

-----------------------------------------------------------------------------
(* The inductive invariant of the input                                    *)

\* A permit of itemAvailable is a character nobody is about to take, one of
\* spaceAvailable a place nobody is about to fill, and one of a mutex says
\* that nobody is inside.
PermitsAreRight ==
    /\ IsFiniteSet(Within(frames, PastAWait))
    /\ \A s \in BufferSemaphores : semaphoreValue[s] = Permits(s, Buffered) - Used(frames, s)

InputInv ==
    /\ TrapInv
    /\ TrapsFit(frames, stage) /\ OneServes(frames)
    /\ WaitersFit(blockedThreads, frames)
    /\ PlacesFit(ready, runningThread, blockedThreads, stage, outputWaits)
    /\ buffer \in [0 .. Capacity - 1 -> Nat] /\ received \in Seq(Nat)
    /\ PermitsAreRight
    /\ InputIsInOrder

\* The parts of the invariant after a step that leaves n characters in the
\* buffer.
LEMMA InvFollows ==
    ASSUME TrapInv',
           TrapsFit(frames', stage'), OneServes(frames'),
           WaitersFit(blockedThreads', frames'),
           PlacesFit(ready', runningThread', blockedThreads', stage', outputWaits'),
           buffer' \in [0 .. Capacity - 1 -> Nat], received' \in Seq(Nat),
           NEW n \in 0 .. Capacity, Buffered' = n,
           IsFiniteSet(Within(frames', PastAWait)),
           \A s \in BufferSemaphores : semaphoreValue'[s] = Permits(s, n) - Used(frames', s),
           tail' = (head' + n) % Capacity,
           typed' = received' \o Elements(n)' \o Hand(frames') \o uart'
    PROVE  InputInv'
<1>1. InHand' = Hand(frames')
  BY HandNow
<1>2. PermitsAreRight'
  BY DEF PermitsAreRight, Within, Used, Permits
<1>3. Elements(Buffered)' = Elements(n)'
  BY DEF Elements
<1>4. InputIsInOrder'
  BY <1>1, <1>3 DEF InputIsInOrder
<1>5. /\ TrapsFit(frames, stage)' /\ OneServes(frames)' /\ WaitersFit(blockedThreads, frames)'
      /\ PlacesFit(ready, runningThread, blockedThreads, stage, outputWaits)'
  BY DEF TrapsFit, TrapFits, OneServes, WaitersFit, PlacesFit, ListsAreApart, Blocked
<1> QED
  BY <1>2, <1>4, <1>5 DEF InputInv

\* What the invariant says of the state before a step.
LEMMA InputNow ==
    ASSUME InputInv
    PROVE  \E n \in 0 .. Capacity :
              /\ Buffered = n
              /\ IsFiniteSet(Within(frames, PastAWait))
              /\ \A s \in BufferSemaphores : semaphoreValue[s] = Permits(s, n) - Used(frames, s)
              /\ tail = (head + n) % Capacity
              /\ typed = received \o Elements(n) \o Hand(frames) \o uart
              /\ n = Len(typed) - Len(received) - Len(Hand(frames)) - Len(uart)
              /\ Elements(n) \in Seq(Nat) /\ Len(Elements(n)) = n
              /\ Hand(frames) \in Seq(Nat)
              /\ Hand(frames) = << >> \/ Len(Hand(frames)) = 1
              /\ RingIsTyped
<1>1. PICK n \in 0 .. Capacity : Buffered = n
  BY DEF InputInv, InputIsInOrder
<1>2. InHand = Hand(frames)
  BY HandNow
<1>3. /\ IsFiniteSet(Within(frames, PastAWait))
      /\ \A s \in BufferSemaphores : semaphoreValue[s] = Permits(s, n) - Used(frames, s)
  BY <1>1 DEF InputInv, PermitsAreRight
<1>4. typed = received \o Elements(n) \o Hand(frames) \o uart /\ tail = (head + n) % Capacity
  BY <1>1, <1>2 DEF InputInv, InputIsInOrder
<1>6. RingIsTyped
  BY DEF InputInv, TrapInv, TypeOK, RingIsTyped
<1>7. Elements(n) \in Seq(Nat) /\ Len(Elements(n)) = n
  BY <1>6, ElementsAreNumbers
<1>8. frames \in [Threads -> Seq(Frame)]
  BY DEF InputInv, TrapInv, Types
<1>9. Hand(frames) \in Seq(Nat) /\ (Hand(frames) = << >> \/ Len(Hand(frames)) = 1)
  BY <1>8, HandIsSmall DEF InputInv
<1>10. n = Len(typed) - Len(received) - Len(Hand(frames)) - Len(uart)
  BY <1>1, <1>2 DEF Buffered
<1> QED
  BY <1>1, <1>3, <1>4, <1>6, <1>7, <1>9, <1>10

LEMMA WhereNow ==
    ASSUME InputInv
    PROVE  /\ TrapsFit(frames, stage) /\ OneServes(frames)
           /\ WaitersFit(blockedThreads, frames)
           /\ PlacesFit(ready, runningThread, blockedThreads, stage, outputWaits)
           /\ frames \in [Threads -> Seq(Frame)]
           /\ blockedThreads \in [BufferSemaphores -> Seq(Threads)]
           /\ ready \in Seq(Threads) /\ runningThread \in Threads
           /\ stage \in [Threads -> Stages]
BY DEF InputInv, TrapInv, TypeOK, Types, SemaphoresAreTyped, Stages

\* The trap that runs, as the invariant describes it.
LEMMA TopNow ==
    ASSUME InputInv, Depth > 0
    PROVE  /\ TrapFits(Top, runningThread, Depth, stage[runningThread])
           /\ Top \in Frame /\ Depth \in 1 .. Len(frames[runningThread])
           /\ Top = frames[runningThread][Depth]
<1>1. TypeOK /\ Types
  BY DEF InputInv, TrapInv
<1>2. Top \in Frame /\ Depth \in Nat /\ Depth = Len(frames[runningThread])
      /\ Top = frames[runningThread][Depth]
  BY <1>1, DepthIsNat DEF Depth, Top
<1>3. runningThread \in Threads /\ TrapsFit(frames, stage)
  BY WhereNow
<1> QED
  BY <1>2, <1>3 DEF TrapsFit

\* The lists do not hold the running thread, so what it does to its own traps
\* does not concern those that wait.
LEMMA WaitersStay ==
    ASSUME InputInv, \A t \in Threads : t # runningThread => frames'[t] = frames[t]
    PROVE  WaitersFit(blockedThreads, frames')
<1>1. \A s \in BufferSemaphores : \A t \in Range(blockedThreads[s]) :
         t \in Threads /\ t # runningThread
  BY WhereNow, BlockedAreThreads DEF PlacesFit
<1>2. \A s \in BufferSemaphores : \A t \in Range(blockedThreads[s]) : frames'[t] = frames[t]
  BY <1>1
<1> QED
  BY <1>2, WhereNow DEF WaitersFit

\* The running trap becomes g, and the stages go on.
LEMMA TopFits ==
    ASSUME InputInv, Depth > 0, Top.phase # "sret", NEW g \in Frame, g.kind = Top.kind,
           TrapFits(g, runningThread, Depth, stage[runningThread]),
           frames' = [frames EXCEPT ![runningThread] = [@ EXCEPT ![Depth] = g]],
           \A t \in Threads : stage'[t] = "new" => stage[t] = "new"
    PROVE  /\ TrapsFit(frames', stage') /\ OneServes(frames')
           /\ WaitersFit(blockedThreads, frames')
           /\ frames' \in [Threads -> Seq(Frame)]
           /\ \A t \in Threads : Len(frames'[t]) = Len(frames[t])
           /\ \A t \in Threads : \A i \in 1 .. Len(frames[t]) :
                 frames'[t][i] = IF t = runningThread /\ i = Depth THEN g ELSE frames[t][i]
<1> DEFINE r == runningThread
<1>1. /\ TypeOK /\ Types
      /\ TrapsFit(frames, stage) /\ OneServes(frames)
  BY WhereNow DEF InputInv, TrapInv
<1>2. /\ frames' \in [Threads -> Seq(Frame)]
      /\ \A t \in Threads : Len(frames'[t]) = Len(frames[t])
      /\ \A t \in Threads : \A i \in 1 .. Len(frames[t]) :
            frames'[t][i] = IF t = r /\ i = Depth THEN g ELSE frames[t][i]
  BY <1>1, TopChanges
<1>3. /\ r \in Threads /\ Depth \in 1 .. Len(frames[r]) /\ Top = frames[r][Depth]
      /\ \A t \in Threads : Len(frames[t]) \in Nat
  BY <1>1, DepthIsNat DEF TypeOK, Depth, Top
<1>5. TrapFits(g, r, Depth, stage'[r])
  BY <1>3 DEF TrapFits
<1>6. TrapsFit(frames', stage')
  <2> SUFFICES ASSUME NEW t \in Threads, NEW i \in 1 .. Len(frames[t])
               PROVE  TrapFits(frames'[t][i], t, i, stage'[t])
    BY <1>2 DEF TrapsFit
  <2>1. CASE t = r /\ i = Depth
    BY <1>2, <1>5, <2>1
  <2>2. CASE ~(t = r /\ i = Depth)
    <3>1. frames'[t][i] = frames[t][i] /\ TrapFits(frames[t][i], t, i, stage[t])
      BY <1>1, <1>2, <2>2 DEF TrapsFit
    <3> QED
      BY <3>1 DEF TrapFits
  <2> QED
    BY <2>1, <2>2
<1>7. \A t \in Threads : \A i \in 1 .. Len(frames[t]) :
         Serving(frames'[t][i]) => Serving(frames[t][i])
  BY <1>2, <1>3 DEF Serving
<1>8. OneServes(frames')
  BY <1>1, <1>2, <1>7 DEF OneServes
<1>9. \A t \in Threads : t # r => frames'[t] = frames[t]
  BY <1>1 DEF Types
<1>10. WaitersFit(blockedThreads, frames')
  BY <1>9, WaitersStay
<1> QED
  BY <1>2, <1>6, <1>8, <1>10

\* A step that moves no character keeps the invariant if what it does to the
\* traps and to the lists does.
LEMMA IdleStepKeeps ==
    ASSUME InputInv, TrapInv', UNCHANGED inputVars,
           TrapsFit(frames', stage'), OneServes(frames'),
           WaitersFit(blockedThreads, frames'),
           \A t \in Threads : GoOn(frames[t], frames'[t]) /\ SamePast(frames[t], frames'[t]),
           PlacesFit(ready', runningThread', blockedThreads, stage', outputWaits')
    PROVE  InputInv'
<1>1. PICK n \in 0 .. Capacity :
              /\ Buffered = n
              /\ IsFiniteSet(Within(frames, PastAWait))
              /\ \A s \in BufferSemaphores : semaphoreValue[s] = Permits(s, n) - Used(frames, s)
              /\ tail = (head + n) % Capacity
              /\ typed = received \o Elements(n) \o Hand(frames) \o uart
  BY InputNow
<1>2. frames \in [Threads -> Seq(Frame)] /\ frames' \in [Threads -> Seq(Frame)]
  BY DEF InputInv, TrapInv, Types
<1>3. Hand(frames') = Hand(frames)
  BY <1>2, WhereNow, HandStays
<1>4. UNCHANGED << semaphoreValue, blockedThreads, buffer, head, tail, uart, typed, received >>
  BY DEF inputVars, semVars, ringVars
<1>5. Elements(n)' = Elements(n)
  BY <1>4 DEF Elements
<1>6. Buffered' = n
  BY <1>1, <1>3, <1>4, HandNow DEF Buffered
<1>7. buffer \in [0 .. Capacity - 1 -> Nat] /\ received \in Seq(Nat)
  BY DEF InputInv
<1>8. typed' = received' \o Elements(n)' \o Hand(frames') \o uart'
  BY <1>1, <1>3, <1>4, <1>5
<1>9. tail' = (head' + n) % Capacity
  BY <1>1, <1>4
<1>10. /\ Within(frames', PastAWait) = Within(frames, PastAWait)
       /\ \A s \in BufferSemaphores : Used(frames', s) = Used(frames, s)
  BY <1>2, WithinStays
<1>11. /\ IsFiniteSet(Within(frames', PastAWait))
       /\ \A s \in BufferSemaphores : semaphoreValue'[s] = Permits(s, n) - Used(frames', s)
  BY <1>1, <1>4, <1>10
<1>12. buffer' \in [0 .. Capacity - 1 -> Nat] /\ received' \in Seq(Nat)
  BY <1>4, <1>7
<1>13. /\ WaitersFit(blockedThreads', frames')
       /\ PlacesFit(ready', runningThread', blockedThreads', stage', outputWaits')
  BY <1>4
<1> QED
  BY <1>6, <1>8, <1>9, <1>11, <1>12, <1>13, InvFollows

\* A step of a handler that has nothing to do with the buffer.
LEMMA HandlerStepKeeps ==
    ASSUME InputInv, TrapInv', NEW kinds, NEW before, before \in {"run", "restore", "status"},
           NEW phase, phase \in {"restore", "status", "sret"}, At(kinds, before), GoTo(phase),
           \A t \in Threads : stage'[t] = "new" => stage[t] = "new",
           UNCHANGED inputVars,
           PlacesFit(ready', runningThread', blockedThreads, stage', outputWaits')
    PROVE  InputInv'
<1> DEFINE g == [Top EXCEPT !.phase = phase]
           r == runningThread
<1>1. /\ Depth > 0 /\ Top \in Frame /\ Top.phase = before
      /\ r \in Threads /\ Depth \in 1 .. Len(frames[r]) /\ Top = frames[r][Depth]
      /\ TrapFits(Top, r, Depth, stage[r])
      /\ \A t \in Threads : Len(frames[t]) \in Nat
  BY WhereNow, TopNow DEF At
<1>2. /\ g \in Frame /\ g.kind = Top.kind /\ g.phase = phase /\ g.input = Top.input
  BY <1>1 DEF Frame, Phases
<1>3. frames' = [frames EXCEPT ![r] = [@ EXCEPT ![Depth] = g]]
  BY <1>1 DEF GoTo
<1> HIDE DEF g
<1>4. TrapFits(g, r, Depth, stage[r])
  BY <1>1, <1>2 DEF TrapFits, PastInGetc, PastInConsole
<1>5. Top.phase # "sret" /\ Top.phase \notin PastAWait /\ g.phase \notin PastAWait
  BY <1>1, <1>2 DEF PastAWait, PastInGetc, PastInConsole
<1>6. /\ TrapsFit(frames', stage') /\ OneServes(frames')
      /\ WaitersFit(blockedThreads, frames')
      /\ \A t \in Threads : Len(frames'[t]) = Len(frames[t])
      /\ \A t \in Threads : \A i \in 1 .. Len(frames[t]) :
            frames'[t][i] = IF t = r /\ i = Depth THEN g ELSE frames[t][i]
  BY <1>1, <1>2, <1>3, <1>4, <1>5, TopFits
<1>7. \A t \in Threads : \A i \in 1 .. Len(frames[t]) :
         /\ frames'[t][i].input = frames[t][i].input
         /\ frames'[t][i].phase \in PastAWait => frames'[t][i].phase = frames[t][i].phase
         /\ frames[t][i].phase \in PastAWait => frames'[t][i].phase = frames[t][i].phase
  BY <1>1, <1>2, <1>5, <1>6
<1>8. \A t \in Threads : SamePast(frames[t], frames'[t])
  BY <1>1, <1>6, <1>7 DEF SamePast
<1>9. \A t \in Threads : GoOn(frames[t], frames'[t])
  BY <1>1, <1>6, <1>7 DEF GoOn
<1> QED
  BY <1>6, <1>8, <1>9, IdleStepKeeps

LEMMA DispatchKeepsOrder ==
    ASSUME InputInv, TrapInv', HandleDispatch
    PROVE  InputInv'
<1>1. /\ At({"dispatch"}, "run") /\ GoTo("restore") /\ UNCHANGED << stage, outputWaits, inputVars >>
      /\ runningThread' = First(Enqueue(ready, runningThread))
      /\ ready' = Rest(Enqueue(ready, runningThread))
  BY DEF HandleDispatch, SwitchTo, outputVars
<1>2. Enqueue(ready, runningThread) \in Seq(Threads)
      /\ ListsFit(Enqueue(ready, runningThread), blockedThreads, stage, outputWaits)
  BY WhereNow, RunningIsEnqueued
<1>3. PlacesFit(ready', runningThread', blockedThreads, stage', outputWaits')
  BY <1>1, <1>2, SwitchFits
<1>4. \A t \in Threads : stage'[t] = "new" => stage[t] = "new"
  BY <1>1
<1> QED
  BY <1>1, <1>3, <1>4, HandlerStepKeeps

LEMMA SleepKeepsOrder ==
    ASSUME InputInv, TrapInv', HandleSleep
    PROVE  InputInv'
<1>1. /\ At({"sleep"}, "run") /\ GoTo("restore") /\ UNCHANGED << stage, outputWaits, inputVars >>
      /\ runningThread' = First(ready) /\ ready' = Rest(ready)
  BY DEF HandleSleep, SuspendCurrentThread, SwitchTo, outputVars
<1>2. runningThread # Main /\ runningThread # Idle
  BY <1>1, TopNow DEF At, TrapFits
<1>3. ListsFit(ready, blockedThreads, stage, outputWaits)
  BY <1>2, WhereNow, RunningLeaves
<1>4. PlacesFit(ready', runningThread', blockedThreads, stage', outputWaits')
  BY <1>1, <1>3, WhereNow, SwitchFits
<1>5. \A t \in Threads : stage'[t] = "new" => stage[t] = "new"
  BY <1>1
<1> QED
  BY <1>1, <1>4, <1>5, HandlerStepKeeps

\* A sleeping thread is in no list and can be made ready.
LEMMA SleeperIsElsewhere ==
    ASSUME InputInv, NEW t \in Asleep
    PROVE  /\ t \in Threads /\ t \notin {runningThread} \cup Range(ready) \cup Blocked(blockedThreads)
           /\ stage[t] # "new" /\ t # Output
<1>1. /\ t \in Threads /\ t # runningThread /\ \A i \in 1 .. Len(ready) : ready[i] # t
      /\ frames[t] # << >> /\ frames[t][Len(frames[t])].kind = "sleep"
  BY DEF Asleep
<1>2. frames[t] \in Seq(Frame) /\ ready \in Seq(Threads)
  BY <1>1, WhereNow
<1>3. Len(frames[t]) \in 1 .. Len(frames[t]) /\ DOMAIN ready = 1 .. Len(ready)
  BY <1>1, <1>2, LenProperties, EmptySeq
<1>4. TrapFits(frames[t][Len(frames[t])], t, Len(frames[t]), stage[t])
  BY <1>1, <1>3, WhereNow DEF TrapsFit
<1>5. t \notin Range(ready)
  BY <1>1, <1>3 DEF Range
<1>6. \A s \in BufferSemaphores : PastWait[s] \in PastInGetc \cup PastInConsole
  BY DEF PastWait, PastInGetc, PastInConsole, BufferSemaphores
<1>7. t \notin Blocked(blockedThreads)
  BY <1>1, <1>4, <1>6, WhereNow DEF WaitersFit, TrapFits, Blocked
<1> QED
  BY <1>1, <1>4, <1>5, <1>7 DEF TrapFits

LEMMA TimerKeepsOrder ==
    ASSUME InputInv, TrapInv', HandleTimer
    PROVE  InputInv'
<1>1. /\ At({"tick", "slice"}, "run") /\ UNCHANGED << stage, outputWaits, inputVars >>
  BY DEF HandleTimer, outputVars
<1>2. PICK q \in {ready} \cup {Enqueue(ready, t) : t \in Asleep} :
          \/ Top.kind = "tick" /\ GoTo("sret") /\ ready' = q /\ UNCHANGED runningThread
          \/ Top.kind = "slice" /\ GoTo("restore") /\ SwitchTo(Enqueue(q, runningThread))
  BY DEF HandleTimer
<1>3. q \in Seq(Threads) /\ PlacesFit(q, runningThread, blockedThreads, stage, outputWaits)
  <2>1. CASE q = ready
    BY <2>1, WhereNow
  <2>2. ASSUME NEW t \in Asleep, q = Enqueue(ready, t)
        PROVE  q \in Seq(Threads) /\ PlacesFit(q, runningThread, blockedThreads, stage, outputWaits)
    BY <2>2, WhereNow, SleeperIsElsewhere, AnotherIsEnqueued
  <2> QED
    BY <2>1, <2>2
<1>4. \A t \in Threads : stage'[t] = "new" => stage[t] = "new"
  BY <1>1
<1>5. CASE GoTo("sret") /\ ready' = q /\ UNCHANGED runningThread
  <2>1. PlacesFit(ready', runningThread', blockedThreads, stage', outputWaits')
    BY <1>1, <1>3, <1>5
  <2> QED
    BY <1>1, <1>4, <1>5, <2>1, HandlerStepKeeps
<1>6. CASE GoTo("restore") /\ SwitchTo(Enqueue(q, runningThread))
  <2>1. Enqueue(q, runningThread) \in Seq(Threads)
        /\ ListsFit(Enqueue(q, runningThread), blockedThreads, stage, outputWaits)
    BY <1>3, WhereNow, RunningIsEnqueued
  <2>2. PlacesFit(Rest(Enqueue(q, runningThread)), First(Enqueue(q, runningThread)),
                  blockedThreads, stage, outputWaits)
    BY <2>1, SwitchFits
  <2>3. PlacesFit(ready', runningThread', blockedThreads, stage', outputWaits')
    BY <1>1, <1>6, <2>2 DEF SwitchTo
  <2> QED
    BY <1>1, <1>4, <1>6, <2>3, HandlerStepKeeps
<1> QED
  BY <1>2, <1>5, <1>6

LEMMA CreateKeepsOrder ==
    ASSUME InputInv, TrapInv', HandleCreate
    PROVE  InputInv'
<1>1. /\ At({"create"}, "run") /\ GoTo("restore")
      /\ UNCHANGED << runningThread, outputWaits, inputVars >>
  BY DEF HandleCreate, outputVars
<1>2. PICK t \in Threads : /\ stage[t] = "new"
                           /\ stage' = [stage EXCEPT ![t] = "wrapper"]
                           /\ ready' = Enqueue(ready, t)
  BY DEF HandleCreate
<1>3. /\ \A u \in Threads : stage'[u] = "new" => stage[u] = "new"
      /\ stage'[t] # "new"
  BY <1>2, WhereNow
<1>4. PlacesFit(ready, runningThread, blockedThreads, stage', outputWaits)
  BY <1>3, WhereNow, LaterStagesFit
<1>5. t \notin {runningThread} \cup Range(ready) \cup Blocked(blockedThreads)
      /\ t # Output
  BY <1>2, WhereNow DEF PlacesFit
<1>6. PlacesFit(Enqueue(ready, t), runningThread, blockedThreads, stage', outputWaits)
  BY <1>3, <1>4, <1>5, WhereNow, AnotherIsEnqueued
<1>7. PlacesFit(ready', runningThread', blockedThreads, stage', outputWaits')
  BY <1>1, <1>2, <1>6
<1> QED
  BY <1>1, <1>3, <1>7, HandlerStepKeeps

LEMMA SwitchModeKeepsOrder ==
    ASSUME InputInv, TrapInv', HandleSwitchMode
    PROVE  InputInv'
<1>1. /\ At({"to user", "to supervisor"}, "run") /\ GoTo("restore")
      /\ UNCHANGED << ready, runningThread, stage, outputWaits, inputVars >>
  BY DEF HandleSwitchMode, outputVars
<1>2. PlacesFit(ready', runningThread', blockedThreads, stage', outputWaits')
  BY <1>1, WhereNow
<1>3. \A t \in Threads : stage'[t] = "new" => stage[t] = "new"
  BY <1>1
<1> QED
  BY <1>1, <1>2, <1>3, HandlerStepKeeps

LEMMA PutcKeepsOrder ==
    ASSUME InputInv, TrapInv', HandlePutc
    PROVE  InputInv'
<1>1. /\ At({"putc"}, "run") /\ GoTo("restore")
      /\ UNCHANGED << runningThread, stage, inputVars >>
      /\ outputWaits' = FALSE
      /\ ready' = IF outputWaits THEN Enqueue(ready, Output) ELSE ready
  BY DEF HandlePutc
<1>2. PlacesFit(ready, runningThread, blockedThreads, stage, FALSE)
  BY WhereNow, LaterStagesFit
<1>3. PlacesFit(ready', runningThread, blockedThreads, stage, FALSE)
  <2>1. CASE outputWaits
    <3>1. /\ Output \in Threads /\ stage[Output] # "new"
          /\ Output \notin {runningThread} \cup Range(ready) \cup Blocked(blockedThreads)
      BY <2>1, WhereNow, FourAreDifferent DEF PlacesFit
    <3>2. PlacesFit(Enqueue(ready, Output), runningThread, blockedThreads, stage, FALSE)
      BY <1>2, <3>1, WhereNow, AnotherIsEnqueued
    <3> QED
      BY <1>1, <2>1, <3>2
  <2>2. CASE ~outputWaits
    BY <1>1, <1>2, <2>2
  <2> QED
    BY <2>1, <2>2
<1>4. PlacesFit(ready', runningThread', blockedThreads, stage', outputWaits')
  BY <1>1, <1>3
<1>5. \A t \in Threads : stage'[t] = "new" => stage[t] = "new"
  BY <1>1
<1> QED
  BY <1>1, <1>4, <1>5, HandlerStepKeeps

LEMMA ConsoleCompletesKeepsOrder ==
    ASSUME InputInv, TrapInv', ConsoleCompletes
    PROVE  InputInv'
<1>1. /\ At({"console"}, "run") /\ GoTo("sret")
      /\ UNCHANGED << ready, runningThread, stage, outputWaits, inputVars >>
  BY DEF ConsoleCompletes, InputRest, outputVars
<1>2. PlacesFit(ready', runningThread', blockedThreads, stage', outputWaits')
  BY <1>1, WhereNow
<1>3. \A t \in Threads : stage'[t] = "new" => stage[t] = "new"
  BY <1>1
<1> QED
  BY <1>1, <1>2, <1>3, HandlerStepKeeps

LEMMA RestoreKeepsOrder ==
    ASSUME InputInv, TrapInv', RestoreSepc \/ RestoreStatus
    PROVE  InputInv'
<1>1. UNCHANGED << ready, runningThread, stage, outputWaits, inputVars >>
  BY DEF RestoreSepc, RestoreStatus, outputVars
<1>2. PlacesFit(ready', runningThread', blockedThreads, stage', outputWaits')
  BY <1>1, WhereNow
<1>3. \A t \in Threads : stage'[t] = "new" => stage[t] = "new"
  BY <1>1
<1>4. CASE RestoreSepc
  <2> DEFINE phase == IF Top.kind \in SavesStatus THEN "status" ELSE "sret"
  <2>1. At(SavesSepc \cup {"start"}, "restore") /\ GoTo(phase)
    BY <1>4 DEF RestoreSepc
  <2>2. phase \in {"restore", "status", "sret"}
    OBVIOUS
  <2> HIDE DEF phase
  <2> QED
    BY <1>1, <1>2, <1>3, <2>1, <2>2, HandlerStepKeeps
<1>5. CASE RestoreStatus
  <2>1. At(SavesStatus, "status") /\ GoTo("sret")
    BY <1>5 DEF RestoreStatus
  <2> QED
    BY <1>1, <1>2, <1>3, <2>1, HandlerStepKeeps
<1> QED
  BY <1>4, <1>5

\* A step that leaves the traps alone.
LEMMA FramesStay ==
    ASSUME InputInv, TrapInv', UNCHANGED << frames, stage, inputVars >>,
           PlacesFit(ready', runningThread', blockedThreads, stage', outputWaits')
    PROVE  InputInv'
<1>1. \A t \in Threads : GoOn(frames[t], frames'[t]) /\ SamePast(frames[t], frames'[t])
  BY WhereNow DEF GoOn, SamePast
<1>2. TrapsFit(frames', stage') /\ OneServes(frames') /\ WaitersFit(blockedThreads, frames')
  BY WhereNow
<1> QED
  BY <1>1, <1>2, IdleStepKeeps

LEMMA OutputKeepsOrder ==
    ASSUME InputInv, TrapInv', OutputRemoves
    PROVE  InputInv'
<1>1. /\ runningThread = Output /\ UNCHANGED << frames, stage, inputVars >>
      /\ \/ UNCHANGED << outputWaits, ready, runningThread >>
         \/ outputWaits' = TRUE /\ SwitchTo(ready)
  BY DEF OutputRemoves, SuspendCurrentThread
<1>2. PlacesFit(ready', runningThread', blockedThreads, stage', outputWaits')
  <2>1. CASE UNCHANGED << outputWaits, ready, runningThread >>
    BY <1>1, <2>1, WhereNow
  <2>2. CASE outputWaits' = TRUE /\ SwitchTo(ready)
    <3>1. Output # Main /\ Output # Idle
      BY FourAreDifferent
    <3>2. ListsFit(ready, blockedThreads, stage, TRUE)
      BY <1>1, <3>1, WhereNow, RunningLeaves
    <3>3. PlacesFit(Rest(ready), First(ready), blockedThreads, stage, TRUE)
      BY <3>2, WhereNow, SwitchFits
    <3> QED
      BY <1>1, <2>2, <3>3 DEF SwitchTo
  <2> QED
    BY <1>1, <2>1, <2>2
<1> QED
  BY <1>1, <1>2, FramesStay

LEMMA AstrayKeepsOrder ==
    ASSUME InputInv, TrapInv', Sret, astray'
    PROVE  InputInv'
<1>1. UNCHANGED << frames, stage, ready, runningThread, outputWaits, inputVars >>
  BY DEF Sret, outputVars
<1> QED
  BY <1>1, WhereNow, FramesStay

LEMMA SretKeepsOrder ==
    ASSUME InputInv, TrapInv', Sret, ~astray'
    PROVE  InputInv'
<1> DEFINE r == runningThread
<1>1. /\ Depth > 0 /\ Top.phase = "sret"
      /\ UNCHANGED << ready, runningThread, outputWaits, inputVars >>
      /\ frames' = [frames EXCEPT ![r] = SubSeq(@, 1, Depth - 1)]
      /\ stage' = [stage EXCEPT ![r] = StageAfter(r, Top.kind)]
  BY DEF Sret, outputVars
<1>2. TypeOK /\ Types /\ r \in Threads /\ stage \in [Threads -> Stages]
      /\ \A t \in Threads : Len(frames[t]) \in Nat
  BY WhereNow, DepthIsNat DEF InputInv, TrapInv
<1>3. /\ frames' \in [Threads -> Seq(Frame)]
      /\ \A t \in Threads : t # r => frames'[t] = frames[t]
      /\ Len(frames'[r]) = Depth - 1
      /\ \A i \in 1 .. Depth - 1 : frames'[r][i] = frames[r][i]
  BY <1>1, <1>2, TopIsPopped
<1>4. /\ Depth = Len(frames[r]) /\ Depth \in Nat \ {0} /\ Top = frames[r][Depth]
      /\ Top.input = << >>
  BY <1>1, <1>2, TopNow DEF TrapFits, Depth
<1>5. \A t \in Threads : stage'[t] = "new" => stage[t] = "new"
  <2>1. StageAfter(r, Top.kind) = "new" => stage[r] = "new"
    BY DEF StageAfter
  <2> QED
    BY <1>1, <1>2, <2>1
<1>6. \A t \in Threads : \A i \in 1 .. Len(frames'[t]) :
         i \in 1 .. Len(frames[t]) /\ frames'[t][i] = frames[t][i]
  BY <1>2, <1>3, <1>4
<1>7. TrapsFit(frames', stage')
  <2> SUFFICES ASSUME NEW t \in Threads, NEW i \in 1 .. Len(frames'[t])
               PROVE  TrapFits(frames'[t][i], t, i, stage'[t])
    BY DEF TrapsFit
  <2>1. i \in 1 .. Len(frames[t]) /\ frames'[t][i] = frames[t][i]
    BY <1>6
  <2>2. TrapFits(frames[t][i], t, i, stage[t])
    BY <2>1, WhereNow DEF TrapsFit
  <2> QED
    BY <1>5, <2>1, <2>2 DEF TrapFits
<1>8. OneServes(frames')
  BY <1>6, WhereNow DEF OneServes
<1>9. WaitersFit(blockedThreads, frames')
  BY <1>3, WaitersStay
<1>10. Top.phase \notin PastAWait
  BY <1>1 DEF PastAWait, PastInGetc, PastInConsole
<1>11. \A t \in Threads : SamePast(frames[t], frames'[t])
  <2>1. SamePast(frames[r], frames'[r])
    <3>1. \A i \in 1 .. Depth : i = Depth \/ i \in 1 .. Depth - 1
      BY <1>4
    <3> QED
      BY <1>3, <1>4, <1>10, <3>1 DEF SamePast
  <2>2. ASSUME NEW t \in Threads, t # r PROVE SamePast(frames[t], frames'[t])
    BY <1>2, <1>3, <2>2 DEF SamePast
  <2> QED
    BY <2>1, <2>2
<1>12. \A t \in Threads : GoOn(frames[t], frames'[t])
  <2>1. GoOn(frames[r], frames'[r])
    <3>1. \A i \in 1 .. Depth : i = Depth \/ i \in 1 .. Depth - 1
      BY <1>4
    <3> QED
      BY <1>3, <1>4, <3>1 DEF GoOn
  <2>2. ASSUME NEW t \in Threads, t # r PROVE GoOn(frames[t], frames'[t])
    BY <1>2, <1>3, <2>2 DEF GoOn
  <2> QED
    BY <2>1, <2>2
<1>13. PlacesFit(ready', runningThread', blockedThreads, stage', outputWaits')
  BY <1>1, <1>5, WhereNow, LaterStagesFit
<1> QED
  BY <1>1, <1>7, <1>8, <1>9, <1>11, <1>12, <1>13, IdleStepKeeps

\* A trap is entered; the console's only if none is in service.
LEMMA TrapKeepsOrder ==
    ASSUME InputInv, TrapInv', NEW kind, Trap(kind), MayTrap(kind),
           kind \in {"getc", "sleep"} => runningThread \notin {Main, Output, Idle},
           kind = "console" => ~InService
    PROVE  InputInv'
<1> DEFINE r == runningThread
           new == NewFrame(kind)
<1>1. UNCHANGED << ready, runningThread, stage, outputWaits, inputVars >>
  BY DEF Trap, outputVars
<1>2. TypeOK /\ Types /\ r \in Threads /\ Depth = Len(frames[r]) /\ Depth \in Nat
      /\ \A t \in Threads : Len(frames[t]) \in Nat
  BY WhereNow, DepthIsNat DEF InputInv, TrapInv, Depth
<1>3. PICK s \in Seq(Frame) :
          /\ Len(s) = Depth
          /\ frames' = [frames EXCEPT ![r] = Append(s, new)]
          /\ \A i \in 1 .. Depth :
                /\ s[i].kind = frames[r][i].kind
                /\ s[i].phase = frames[r][i].phase
                /\ s[i].sepc = frames[r][i].sepc
                /\ s[i].SPP = frames[r][i].SPP
                /\ s[i].input = frames[r][i].input
                /\ s[i].disturbed <=> \/ frames[r][i].disturbed
                                      \/ i = Depth /\ Returning(Top)
  BY Interrupted DEF InputInv
<1>4. /\ new.kind = kind /\ new.phase = (IF kind = "getc" THEN "waitItem" ELSE "run")
      /\ new.input = << >>
  BY DEF NewFrame
<1>5. new \in Frame
  <2>1. kind \in Kinds
    BY DEF MayTrap, Kinds, SavesSepc, SavesStatus
  <2>2. Here \in Threads \X Int /\ mode \in Modes /\ SIE \in BOOLEAN
    BY <1>2 DEF Here, Place, TypeOK, Modes
  <2>3. (IF kind = "getc" THEN "waitItem" ELSE "run") \in Phases /\ << >> \in Seq(Nat)
    BY DEF Phases, Statements
  <2> QED
    BY <2>1, <2>2, <2>3 DEF Frame, NewFrame
<1> HIDE DEF new
<1>6. /\ frames' \in [Threads -> Seq(Frame)]
      /\ \A t \in Threads : t # r => frames'[t] = frames[t]
      /\ Len(frames'[r]) = Depth + 1
      /\ \A i \in 1 .. Depth + 1 : frames'[r][i] = IF i = Depth + 1 THEN new ELSE s[i]
  BY <1>2, <1>3, <1>5, TopIsPushed
<1>7. \A t \in Threads : \A i \in 1 .. Len(frames[t]) :
         /\ i \in 1 .. Len(frames'[t])
         /\ frames'[t][i].kind = frames[t][i].kind
         /\ frames'[t][i].phase = frames[t][i].phase
         /\ frames'[t][i].input = frames[t][i].input
  <2>1. ASSUME NEW i \in 1 .. Depth
        PROVE  /\ i \in 1 .. Len(frames'[r]) /\ frames'[r][i] = s[i]
               /\ frames'[r][i].kind = frames[r][i].kind
               /\ frames'[r][i].phase = frames[r][i].phase
               /\ frames'[r][i].input = frames[r][i].input
    <3>1. i \in 1 .. Depth + 1 /\ i # Depth + 1
      BY <1>2
    <3> QED
      BY <1>3, <1>6, <3>1
  <2> QED
    BY <1>2, <1>6, <2>1
<1>8. \A t \in Threads : \A i \in 1 .. Len(frames'[t]) :
         i \in 1 .. Len(frames[t]) \/ (t = r /\ i = Depth + 1 /\ frames'[t][i] = new)
  BY <1>2, <1>6
<1>9. stage[r] # "new"
  BY <1>2, WhereNow DEF PlacesFit
<1>10. TrapFits(new, r, Depth + 1, stage[r])
  <2>1. kind = "getc" => Depth + 1 = 1
    BY <1>2 DEF MayTrap
  <2>2. kind = "console" => r # Idle
    <3> SUFFICES ASSUME kind = "console", r = Idle PROVE FALSE
      OBVIOUS
    <3>1. Main \in Range(blockedThreads["spaceAvailable"]) /\ Main \in Threads
      BY WhereNow, FourAreDifferent DEF PlacesFit
    <3>2. Len(frames[Main]) \in 1 .. Len(frames[Main])
          /\ frames[Main][Len(frames[Main])].phase = "waitTail"
      BY <1>2, <3>1, WhereNow, BufferSemaphoresAre DEF WaitersFit, PastWait
    <3>3. frames[Main][Len(frames[Main])].kind = "console"
      BY <3>1, <3>2, WhereNow DEF TrapsFit, TrapFits, PastInConsole
    <3> QED
      BY <3>1, <3>2, <3>3 DEF InService
  <2> QED
    BY <1>4, <1>9, <2>1, <2>2 DEF TrapFits, PastInGetc, PastInConsole
<1>11. TrapsFit(frames', stage')
  <2> SUFFICES ASSUME NEW t \in Threads, NEW i \in 1 .. Len(frames'[t])
               PROVE  TrapFits(frames'[t][i], t, i, stage[t])
    BY <1>1 DEF TrapsFit
  <2>1. CASE i \in 1 .. Len(frames[t])
    <3>1. TrapFits(frames[t][i], t, i, stage[t])
      BY <2>1, WhereNow DEF TrapsFit
    <3>2. /\ frames'[t][i].kind = frames[t][i].kind
          /\ frames'[t][i].phase = frames[t][i].phase
          /\ frames'[t][i].input = frames[t][i].input
      BY <1>7, <2>1
    <3> QED
      BY <3>1, <3>2 DEF TrapFits
  <2>2. CASE t = r /\ i = Depth + 1 /\ frames'[t][i] = new
    BY <1>10, <2>2
  <2> QED
    BY <1>8, <2>1, <2>2
<1>12. OneServes(frames')
  <2>1. \A t \in Threads : \A i \in 1 .. Len(frames[t]) :
           Serving(frames'[t][i]) => Serving(frames[t][i])
    BY <1>7 DEF Serving
  <2>2. CASE kind = "console"
    <3>1. \A t \in Threads : \A i \in 1 .. Len(frames[t]) : ~Serving(frames[t][i])
      BY <2>2 DEF InService, Serving
    <3>2. \A t \in Threads : \A i \in 1 .. Len(frames'[t]) :
             Serving(frames'[t][i]) => t = r /\ i = Depth + 1
      BY <1>8, <2>1, <3>1
    <3> QED
      BY <3>2 DEF OneServes
  <2>3. CASE kind # "console"
    <3>1. \A t \in Threads : \A i \in 1 .. Len(frames'[t]) :
             Serving(frames'[t][i]) => i \in 1 .. Len(frames[t]) /\ Serving(frames[t][i])
      BY <1>4, <1>8, <2>1, <2>3 DEF Serving
    <3> QED
      BY <3>1, WhereNow DEF OneServes
  <2> QED
    BY <2>2, <2>3
<1>13. WaitersFit(blockedThreads, frames')
  BY <1>6, WaitersStay
<1>14. new.phase \notin PastAWait
  BY <1>4 DEF PastAWait, PastInGetc, PastInConsole
<1>15. \A t \in Threads : SamePast(frames[t], frames'[t])
  <2> SUFFICES ASSUME NEW t \in Threads PROVE SamePast(frames[t], frames'[t])
    OBVIOUS
  <2>1. \A i \in 1 .. Len(frames[t]) :
           i <= Len(frames'[t]) /\ frames'[t][i].phase = frames[t][i].phase
    BY <1>7
  <2>2. \A i \in 1 .. Len(frames'[t]) :
           frames'[t][i].phase \in PastAWait => i \in 1 .. Len(frames[t])
    BY <1>8, <1>14
  <2> QED
    BY <2>1, <2>2 DEF SamePast
<1>16. \A t \in Threads : GoOn(frames[t], frames'[t])
  <2> SUFFICES ASSUME NEW t \in Threads PROVE GoOn(frames[t], frames'[t])
    OBVIOUS
  <2>1. \A i \in 1 .. Len(frames[t]) :
           i <= Len(frames'[t]) /\ frames'[t][i].input = frames[t][i].input
    BY <1>7
  <2>2. \A i \in 1 .. Len(frames'[t]) : frames'[t][i].input # << >> => i \in 1 .. Len(frames[t])
    BY <1>4, <1>8
  <2> QED
    BY <2>1, <2>2 DEF GoOn
<1>17. PlacesFit(ready', runningThread', blockedThreads, stage', outputWaits')
  BY <1>1, WhereNow
<1> QED
  BY <1>1, <1>11, <1>12, <1>13, <1>15, <1>16, <1>17, IdleStepKeeps

LEMMA EntryKeepsOrder ==
    ASSUME InputInv, TrapInv', Ecall \/ Interrupt
    PROVE  InputInv'
<1>1. CASE Ecall
  <2>1. PICK kind :
           /\ Trap(kind) /\ Depth = 0 /\ kind # "console"
           /\ \/ kind = "to user" /\ stage[runningThread] = "wrapper"
              \/ kind = "to supervisor" /\ stage[runningThread] = "entry"
              \/ kind = "dispatch"
              \/ /\ kind \in {"dispatch", "sleep", "getc", "putc", "create"}
                 /\ runningThread \notin {Main, Output, Idle}
    BY <1>1 DEF Ecall, InOwnCode
  <2>2. MayTrap(kind)
    BY <2>1 DEF MayTrap
  <2>3. kind \in {"getc", "sleep"} => runningThread \notin {Main, Output, Idle}
    BY <2>1
  <2> QED
    BY <2>1, <2>2, <2>3, TrapKeepsOrder
<1>2. CASE Interrupt
  <2>1. PICK kind \in {"tick", "slice", "console"} :
           Trap(kind) /\ (kind = "console" => ~InService)
    BY <1>2 DEF Interrupt
  <2>2. Depth = 0 \/ SIE
    <3>1. Depth \in Nat /\ ~astray /\ TrapInv
      BY <2>1, NowTyped, DepthIsNat DEF Trap, InputInv
    <3> QED
      BY <1>2, <3>1 DEF Interrupt, TrapInv, ModeIsRight
  <2> QED
    BY <2>1, <2>2, TrapKeepsOrder DEF MayTrap
<1> QED
  BY <1>1, <1>2

LEMMA InterruptInsideKeepsOrder ==
    ASSUME InputInv, TrapInv', InterruptInside
    PROVE  InputInv'
<1>1. UNCHANGED << frames, stage, ready, runningThread, outputWaits, inputVars >>
  BY DEF InterruptInside, outputVars
<1> QED
  BY <1>1, WhereNow, FramesStay

-----------------------------------------------------------------------------
(* Steps that move a character                                             *)

LEMMA TwoJoin ==
    ASSUME NEW S, NEW a \in Seq(S), NEW b \in Seq(S)
    PROVE  a \o b \in Seq(S)
BY ConcatProperties

\* The character w goes from the buffer to the caller of getc.
LEMMA ToReceived ==
    ASSUME NEW r \in Seq(Nat), NEW w \in Seq(Nat), NEW e \in Seq(Nat), NEW h, NEW u
    PROVE  r \o (w \o e) \o h \o u = (r \o w) \o e \o h \o u
<1>1. r \o (w \o e) = (r \o w) \o e
  BY ConcatAssociative
<1> QED
  BY <1>1

LEMMA FirstAndRest ==
    ASSUME NEW u \in Seq(Nat), u # << >>
    PROVE  /\ Head(u) \in Nat /\ Tail(u) \in Seq(Nat) /\ Len(Tail(u)) = Len(u) - 1
           /\ u = << Head(u) >> \o Tail(u)
<1>1. /\ Head(u) \in Nat /\ Tail(u) \in Seq(Nat) /\ Len(u) \in Nat \ {0}
      /\ Len(Tail(u)) = Len(u) - 1 /\ Head(u) = u[1]
      /\ \A i \in 1 .. Len(u) - 1 : Tail(u)[i] = u[i + 1]
  BY HeadTailProperties, LenProperties, EmptySeq
<1> DEFINE x == Head(u)
           v == Tail(u)
<1>2. x \in Nat /\ v \in Seq(Nat) /\ Len(v) = Len(u) - 1
  BY <1>1
<1>3. \A i \in 1 .. Len(u) : u[i] = IF i <= 1 THEN x ELSE v[i - 1]
  <2> SUFFICES ASSUME NEW i \in 1 .. Len(u) PROVE u[i] = IF i <= 1 THEN x ELSE v[i - 1]
    OBVIOUS
  <2>1. CASE i <= 1
    BY <1>1, <2>1
  <2>2. CASE ~(i <= 1)
    <3>1. i - 1 \in 1 .. Len(u) - 1 /\ (i - 1) + 1 = i
      BY <1>1, <2>2
    <3> QED
      BY <1>1, <2>2, <3>1
  <2> QED
    BY <2>1, <2>2
<1> HIDE DEF x, v
<1>4. << x >> \in Seq(Nat) /\ Len(<< x >>) = 1 /\ << x >>[1] = x
  BY <1>2
<1>5. << x >> \o v \in Seq(Nat) /\ Len(<< x >> \o v) = 1 + Len(v)
      /\ \A i \in 1 .. 1 + Len(v) : (<< x >> \o v)[i] = IF i <= 1 THEN << x >>[i] ELSE v[i - 1]
  BY <1>2, <1>4, ConcatProperties
<1>6. Len(u) \in Nat \ {0} /\ 1 + Len(v) = Len(u)
  BY <1>1, <1>2
<1>7. \A i \in 1 .. Len(u) : (<< x >> \o v)[i] = u[i]
  <2> SUFFICES ASSUME NEW i \in 1 .. Len(u) PROVE (<< x >> \o v)[i] = u[i]
    OBVIOUS
  <2>1. (<< x >> \o v)[i] = IF i <= 1 THEN << x >>[i] ELSE v[i - 1]
    BY <1>5, <1>6
  <2>2. i <= 1 => i = 1
    BY <1>6
  <2> QED
    BY <1>3, <1>4, <2>1, <2>2
<1>8. u = << x >> \o v
  BY <1>5, <1>6, <1>7, SeqEqual
<1> QED
  BY <1>1, <1>8 DEF x, v

\* From the console to the interrupt.
LEMMA ToHand ==
    ASSUME NEW b \in Seq(Nat), NEW x \in Nat, NEW v \in Seq(Nat)
    PROVE  b \o << >> \o (<< x >> \o v) = b \o << x >> \o v
<1>1. << x >> \in Seq(Nat)
  OBVIOUS
<1>2. b \o << >> = b
  BY ConcatEmptySeq
<1>3. b \o (<< x >> \o v) = (b \o << x >>) \o v
  BY <1>1, ConcatAssociative
<1> QED
  BY <1>2, <1>3

\* From the interrupt to the buffer.
LEMMA ToBuffer ==
    ASSUME NEW r \in Seq(Nat), NEW e \in Seq(Nat), NEW w \in Seq(Nat)
    PROVE  r \o e \o w = r \o (e \o w) \o << >>
<1>1. (r \o e) \o w = r \o (e \o w)
  BY ConcatAssociative
<1>2. e \o w \in Seq(Nat)
  BY TwoJoin
<1>3. r \o (e \o w) \in Seq(Nat)
  BY <1>2, TwoJoin
<1>4. (r \o (e \o w)) \o << >> = r \o (e \o w)
  BY <1>3, ConcatEmptySeq
<1> QED
  BY <1>1, <1>4

\* From the keyboard to the console.
LEMMA ToConsole ==
    ASSUME NEW b \in Seq(Nat), NEW u \in Seq(Nat), NEW x \in Nat
    PROVE  Append(b \o u, x) = b \o Append(u, x)
<1>1. << x >> \in Seq(Nat) /\ b \o u \in Seq(Nat)
  BY TwoJoin
<1>2. Append(b \o u, x) = (b \o u) \o << x >>
  BY <1>1, AppendIsConcat
<1>3. (b \o u) \o << x >> = b \o (u \o << x >>)
  BY <1>1, ConcatAssociative
<1>4. Append(u, x) = u \o << x >>
  BY AppendIsConcat
<1> QED
  BY <1>2, <1>3, <1>4

-----------------------------------------------------------------------------
(* The statements of the buffer                                            *)

Uses(p, s) == Counts(p, UsedByGetc[s] \cup UsedByConsole[s])

\* The trap at a statement becomes g: the permits in use.
LEMMA StatementUses ==
    ASSUME InputInv, Depth > 0, Top.kind \in {"getc", "console"}, Top.phase # "sret",
           NEW g \in Frame, g.kind = Top.kind,
           TrapFits(g, runningThread, Depth, stage[runningThread]),
           frames' = [frames EXCEPT ![runningThread] = [@ EXCEPT ![Depth] = g]]
    PROVE  /\ IsFiniteSet(Within(frames', PastAWait))
           /\ \A s \in BufferSemaphores :
                 Used(frames', s) = Used(frames, s) + Uses(g.phase, s) - Uses(Top.phase, s)
<1> DEFINE r == runningThread
<1>1. /\ r \in Threads /\ Depth \in 1 .. Len(frames[r]) /\ Top = frames[r][Depth]
      /\ TrapFits(Top, r, Depth, stage[r]) /\ Depth = Len(frames[r])
      /\ TypeOK /\ Types /\ frames \in [Threads -> Seq(Frame)]
      /\ TrapsFit(frames, stage) /\ OneServes(frames)
  BY WhereNow, TopNow DEF InputInv, TrapInv, Depth
<1>2. /\ frames' \in [Threads -> Seq(Frame)]
      /\ \A t \in Threads : Len(frames'[t]) = Len(frames[t])
      /\ \A t \in Threads : \A i \in 1 .. Len(frames[t]) :
            frames'[t][i] = IF t = r /\ i = Depth THEN g ELSE frames[t][i]
  BY <1>1, TopChanges
<1>3. /\ \A t \in Threads : \A i \in 1 .. Len(frames[t]) :
            t # r \/ i # Depth => frames'[t][i].phase = frames[t][i].phase
      /\ frames'[r][Depth].phase = g.phase /\ frames[r][Depth].phase = Top.phase
  BY <1>1, <1>2
<1>4. IsFiniteSet(Within(frames, PastAWait))
  BY DEF InputInv, PermitsAreRight
<1>5. IsFiniteSet(Within(frames', PastAWait))
  <2>1. Within(frames', PastAWait) \subseteq Within(frames, PastAWait) \cup {r}
    BY <1>2, <1>3 DEF Within
  <2>2. IsFiniteSet(Within(frames, PastAWait) \cup {r})
    BY <1>4, FS_AddElement
  <2> QED
    BY <2>1, <2>2, FS_Subset
<1>6. ASSUME NEW S, \A i \in 1 .. Len(frames[r]) : i # Depth => frames[r][i].phase \notin S,
             S \in SUBSET PastAWait
      PROVE  Cardinality(Within(frames', S)) =
             Cardinality(Within(frames, S)) + Counts(g.phase, S) - Counts(Top.phase, S)
  <2>1. IsFiniteSet(Within(frames, S))
    BY <1>4, <1>6, UsersAreFinite
  <2>2. OneGoesOn(frames, frames', r, Depth, S)
    BY <1>1, <1>2, <1>3, <1>6 DEF OneGoesOn
  <2>3. Cardinality(Within(frames', S)) =
           Cardinality(Within(frames, S)) + Counts(frames'[r][Depth].phase, S)
           - Counts(frames[r][Depth].phase, S)
    <3>1. r \in Threads
      BY <1>1
    <3>2. \A fr, gr, d : OneGoesOn(fr, gr, r, d, S) /\ IsFiniteSet(Within(fr, S))
             => Cardinality(Within(gr, S)) =
                   Cardinality(Within(fr, S)) + Counts(gr[r][d].phase, S) - Counts(fr[r][d].phase, S)
      BY <3>1, OneMoves
    <3> HIDE DEF r
    <3> QED
      BY <2>1, <2>2, <3>2
  <2> QED
    BY <1>3, <2>3
<1>7. ASSUME NEW S, Top.phase \notin S, g.phase \notin S
      PROVE  Within(frames', S) = Within(frames, S)
  BY <1>1, <1>2, <1>3, <1>7 DEF Within
<1>8. ASSUME NEW s \in BufferSemaphores
      PROVE  Used(frames', s) = Used(frames, s) + Uses(g.phase, s) - Uses(Top.phase, s)
  <2> DEFINE G == UsedByGetc[s]
             C == UsedByConsole[s]
  <2>1. G \subseteq PastInGetc /\ C \subseteq PastInConsole /\ G \in SUBSET PastAWait
        /\ C \in SUBSET PastAWait
    BY UsesArePast
  <2>2. /\ Cardinality(Within(frames, G)) \in Nat /\ Cardinality(Within(frames, C)) \in Nat
        /\ Used(frames, s) = Cardinality(Within(frames, G)) + Cardinality(Within(frames, C))
        /\ Used(frames', s) = Cardinality(Within(frames', G)) + Cardinality(Within(frames', C))
    BY <1>4, UsedIsNat DEF Used
  <2>3. /\ Uses(g.phase, s) = Counts(g.phase, G \cup C)
        /\ Uses(Top.phase, s) = Counts(Top.phase, G \cup C)
    BY DEF Uses
  <2> HIDE DEF G, C
  <2>4. CASE Top.kind = "getc"
    <3>1. Top.phase \notin C /\ g.phase \notin C
      BY <1>1, <2>1, <2>4 DEF TrapFits, PastInConsole
    <3>2. \A i \in 1 .. Len(frames[r]) : i = Depth
      BY <1>1, <2>4 DEF TrapFits
    <3>3. Cardinality(Within(frames', C)) = Cardinality(Within(frames, C))
      BY <1>7, <3>1
    <3>4. Cardinality(Within(frames', G)) =
             Cardinality(Within(frames, G)) + Counts(g.phase, G) - Counts(Top.phase, G)
      BY <1>6, <2>1, <3>2
    <3>5. Uses(g.phase, s) = Counts(g.phase, G) /\ Uses(Top.phase, s) = Counts(Top.phase, G)
      BY <2>3, <3>1 DEF Counts
    <3>6. Counts(g.phase, G) \in Int /\ Counts(Top.phase, G) \in Int
      BY DEF Counts
    <3> QED
      BY <2>2, <3>3, <3>4, <3>5, <3>6
  <2>5. CASE Top.kind = "console"
    <3>1. Top.phase \notin G /\ g.phase \notin G
      BY <1>1, <2>1, <2>5 DEF TrapFits, PastInGetc
    <3>2. \A i \in 1 .. Len(frames[r]) : i # Depth => frames[r][i].phase \notin C
      <4>1. ASSUME NEW i \in 1 .. Len(frames[r]), frames[r][i].phase \in C
            PROVE  Serving(frames[r][i])
        <5>1. TrapFits(frames[r][i], r, i, stage[r]) /\ frames[r][i].phase \in PastInConsole
          BY <1>1, <2>1, <4>1 DEF TrapsFit
        <5> QED
          BY <5>1 DEF TrapFits, Serving, PastInConsole
      <4>2. Serving(Top)
        BY <2>5 DEF Serving
      <4> QED
        BY <1>1, <4>1, <4>2 DEF OneServes
    <3>3. Cardinality(Within(frames', G)) = Cardinality(Within(frames, G))
      BY <1>7, <3>1
    <3>4. Cardinality(Within(frames', C)) =
             Cardinality(Within(frames, C)) + Counts(g.phase, C) - Counts(Top.phase, C)
      BY <1>6, <2>1, <3>2
    <3>5. Uses(g.phase, s) = Counts(g.phase, C) /\ Uses(Top.phase, s) = Counts(Top.phase, C)
      BY <2>3, <3>1 DEF Counts
    <3>6. Counts(g.phase, C) \in Int /\ Counts(Top.phase, C) \in Int
      BY DEF Counts
    <3> QED
      BY <2>2, <3>3, <3>4, <3>5, <3>6
  <2> QED
    BY <2>4, <2>5
<1> QED
  BY <1>5, <1>8

LEMMA WaitUses ==
    ASSUME NEW p \in DOMAIN WaitsFor, NEW s \in BufferSemaphores
    PROVE  Uses(After[p], s) = Uses(p, s) + (IF s = WaitsFor[p] THEN 1 ELSE 0)
<1>1. p \in {"waitItem", "waitHead", "waitSpace", "waitTail"}
  BY DEF WaitsFor
<1>2. CASE p = "waitItem"
  BY <1>2 DEF WaitsFor, After, Uses, Counts, UsedByGetc, UsedByConsole, BufferSemaphores
<1>3. CASE p = "waitHead"
  BY <1>3 DEF WaitsFor, After, Uses, Counts, UsedByGetc, UsedByConsole, BufferSemaphores
<1>4. CASE p = "waitSpace"
  BY <1>4 DEF WaitsFor, After, Uses, Counts, UsedByGetc, UsedByConsole, BufferSemaphores
<1>5. CASE p = "waitTail"
  BY <1>5 DEF WaitsFor, After, Uses, Counts, UsedByGetc, UsedByConsole, BufferSemaphores
<1> QED
  BY <1>1, <1>2, <1>3, <1>4, <1>5

LEMMA SignalUses ==
    ASSUME NEW p \in DOMAIN Signals, NEW s \in BufferSemaphores
    PROVE  Uses(After[p], s) = Uses(p, s) - (IF s = Signals[p] THEN 1 ELSE 0)
<1>1. p \in {"signalHead", "signalSpace", "signalTail", "signalItem"}
  BY DEF Signals
<1>2. CASE p = "signalHead"
  BY <1>2 DEF Signals, After, Uses, Counts, UsedByGetc, UsedByConsole, BufferSemaphores
<1>3. CASE p = "signalSpace"
  BY <1>3 DEF Signals, After, Uses, Counts, UsedByGetc, UsedByConsole, BufferSemaphores
<1>4. CASE p = "signalTail"
  BY <1>4 DEF Signals, After, Uses, Counts, UsedByGetc, UsedByConsole, BufferSemaphores
<1>5. CASE p = "signalItem"
  BY <1>5 DEF Signals, After, Uses, Counts, UsedByGetc, UsedByConsole, BufferSemaphores
<1> QED
  BY <1>1, <1>2, <1>3, <1>4, <1>5

LEMMA FetchUses ==
    ASSUME NEW s \in BufferSemaphores
    PROVE  Uses("signalHead", s) - Uses("fetch", s) =
           CASE s = "itemAvailable" -> -1 [] s = "spaceAvailable" -> 1 [] OTHER -> 0
BY DEF Uses, Counts, UsedByGetc, UsedByConsole, BufferSemaphores

LEMMA StoreUses ==
    ASSUME NEW s \in BufferSemaphores
    PROVE  Uses("signalTail", s) - Uses("store", s) =
           CASE s = "itemAvailable" -> 1 [] s = "spaceAvailable" -> -1 [] OTHER -> 0
BY DEF Uses, Counts, UsedByGetc, UsedByConsole, BufferSemaphores

LEMMA UsesIsInt == \A p, s : Uses(p, s) \in Int
BY DEF Uses, Counts

-----------------------------------------------------------------------------
(* What the permits say                                                    *)

\* Those who have passed a wait and are not in the list are no more than the
\* permits there are.
LEMMA NoMoreThanPermits ==
    ASSUME InputInv, NEW n \in 0 .. Capacity, Buffered = n, NEW s \in BufferSemaphores,
           NEW A, A \in {UsedByGetc[s], UsedByConsole[s]}, PastWait[s] \in A,
           NEW D \in SUBSET Within(frames, A), D \cap Range(blockedThreads[s]) = {}
    PROVE  Cardinality(D) <= Permits(s, n)
<1> DEFINE q == blockedThreads[s]
           w == Cardinality(Within(frames, A))
           v == semaphoreValue[s]
<1>1. IsFiniteSet(Within(frames, PastAWait)) /\ v = Permits(s, n) - Used(frames, s)
  BY DEF InputInv, PermitsAreRight
<1>2. A \in SUBSET PastAWait
  BY UsesArePast
<1>3. IsFiniteSet(Within(frames, A)) /\ w \in Nat
  BY <1>1, <1>2, UsersAreFinite
<1>4. /\ Cardinality(Within(frames, UsedByGetc[s])) \in Nat
      /\ Cardinality(Within(frames, UsedByConsole[s])) \in Nat
      /\ Used(frames, s) \in Nat
  BY <1>1, UsedIsNat
<1>5. w <= Used(frames, s)
  BY <1>4 DEF Used
<1>6. q \in Seq(Threads) /\ IsInjective(q)
  BY WhereNow DEF PlacesFit, ListsAreApart
<1>7. Range(q) \subseteq Within(frames, A)
  <2> SUFFICES ASSUME NEW t \in Range(q) PROVE t \in Within(frames, A)
    OBVIOUS
  <2>1. t \in Threads /\ Len(frames[t]) > 0 /\ frames[t][Len(frames[t])].phase = PastWait[s]
    BY WhereNow, BlockedAreThreads DEF WaitersFit
  <2>2. Len(frames[t]) \in 1 .. Len(frames[t])
    BY <2>1, WhereNow
  <2> QED
    BY <2>1, <2>2 DEF Within
<1>8. IsFiniteSet(D) /\ Cardinality(D) \in Nat
  BY <1>3, FS_Subset, FS_CardinalityType
<1>9. Len(q) + Cardinality(D) <= w
  BY <1>3, <1>6, <1>7, Crowd
<1>10. v \in Int /\ Len(q) = IF v < 0 THEN -v ELSE 0
  BY DEF InputInv, TrapInv, Types, SemaphoresAreTyped
<1>11. Permits(s, n) \in Int
  BY KernelBufferAssumption DEF Permits, KernelBufferAssumption
<1> HIDE DEF q, w, v
<1> QED
  BY <1>1, <1>3, <1>4, <1>5, <1>8, <1>9, <1>10, <1>11

\* The thread that fetches finds a character, the one that stores a place.
LEMMA ThereIsOne ==
    ASSUME InputInv, NEW n \in 0 .. Capacity, Buffered = n, Depth > 0,
           NEW s \in BufferSemaphores, NEW A, A \in {UsedByGetc[s], UsedByConsole[s]},
           PastWait[s] \in A, Top.phase \in A
    PROVE  1 <= Permits(s, n)
<1> DEFINE r == runningThread
<1>1. r \in Threads /\ Depth \in 1 .. Len(frames[r]) /\ Top = frames[r][Depth]
  BY WhereNow, TopNow
<1>2. {r} \in SUBSET Within(frames, A)
  BY <1>1 DEF Within
<1>3. {r} \cap Range(blockedThreads[s]) = {}
  BY <1>1, WhereNow, BlockedAreThreads DEF PlacesFit
<1>4. Cardinality({r}) = 1
  BY FS_Singleton
<1>5. Cardinality({r}) <= Permits(s, n)
  BY <1>2, <1>3, NoMoreThanPermits
<1> QED
  BY <1>4, <1>5

\* The console interrupt in service is the only trap at its statements, so it
\* finds mutexTail free.
LEMMA TailIsFree ==
    ASSUME InputInv, Depth > 0, Top.phase = "waitTail"
    PROVE  semaphoreValue["mutexTail"] = 1
<1> DEFINE r == runningThread
           S == {"store", "signalTail"}
<1>1. /\ r \in Threads /\ Depth \in 1 .. Len(frames[r]) /\ Top = frames[r][Depth]
      /\ TrapFits(Top, r, Depth, stage[r])
  BY WhereNow, TopNow
<1>2. Serving(Top)
  BY <1>1 DEF TrapFits, Serving, PastInConsole
<1>3. ASSUME NEW t \in Threads, NEW i \in 1 .. Len(frames[t]), frames[t][i].phase \in S
      PROVE  FALSE
  <2>1. TrapFits(frames[t][i], t, i, stage[t])
    BY WhereNow DEF TrapsFit
  <2>2. Serving(frames[t][i])
    BY <1>3, <2>1 DEF TrapFits, Serving, PastInConsole
  <2>3. t = r /\ i = Depth
    BY <1>1, <1>2, <2>2, WhereNow DEF OneServes
  <2> QED
    BY <1>1, <1>3, <2>3
<1>4. Within(frames, S) = {} /\ Within(frames, {}) = {}
  BY <1>3 DEF Within
<1>5. Used(frames, "mutexTail") = 0
  BY <1>4, FS_EmptySet DEF Used, UsedByGetc, UsedByConsole
<1>6. semaphoreValue["mutexTail"] = Permits("mutexTail", Buffered) - Used(frames, "mutexTail")
  BY BufferSemaphoresAre DEF InputInv, PermitsAreRight
<1> QED
  BY <1>5, <1>6 DEF Permits

\* A trap that uses the buffer goes on as g.
LEMMA StatementGoesOn ==
    ASSUME InputInv, Depth > 0, Top.kind \in {"getc", "console"}, Top.phase # "sret",
           NEW g \in Frame, g.kind = Top.kind, g.phase # "sret",
           TrapFits(g, runningThread, Depth, stage[runningThread]),
           frames' = [frames EXCEPT ![runningThread] = [@ EXCEPT ![Depth] = g]],
           UNCHANGED stage
    PROVE  /\ TrapsFit(frames', stage') /\ OneServes(frames')
           /\ WaitersFit(blockedThreads, frames')
           /\ Len(frames'[runningThread]) = Depth /\ frames'[runningThread][Depth] = g
           /\ IsFiniteSet(Within(frames', PastAWait))
           /\ \A s \in BufferSemaphores :
                 Used(frames', s) = Used(frames, s) + Uses(g.phase, s) - Uses(Top.phase, s)
           /\ Top.kind = "console" => Hand(frames) = Top.input /\ Hand(frames') = g.input
           /\ g.input = Top.input => Hand(frames') = Hand(frames)
<1> DEFINE r == runningThread
<1>1. /\ r \in Threads /\ Depth \in 1 .. Len(frames[r]) /\ Top = frames[r][Depth]
      /\ TrapFits(Top, r, Depth, stage[r]) /\ \A t \in Threads : Len(frames[t]) \in Nat
      /\ Depth = Len(frames[r])
  BY WhereNow, TopNow DEF Depth
<1>2. \A t \in Threads : stage'[t] = "new" => stage[t] = "new"
  OBVIOUS
<1>3. /\ TrapsFit(frames', stage') /\ OneServes(frames')
      /\ WaitersFit(blockedThreads, frames')
      /\ frames' \in [Threads -> Seq(Frame)]
      /\ \A t \in Threads : Len(frames'[t]) = Len(frames[t])
      /\ \A t \in Threads : \A i \in 1 .. Len(frames[t]) :
            frames'[t][i] = IF t = r /\ i = Depth THEN g ELSE frames[t][i]
  BY <1>2, TopFits
<1>4. Len(frames'[r]) = Depth /\ frames'[r][Depth] = g
  BY <1>1, <1>3
<1>5. /\ IsFiniteSet(Within(frames', PastAWait))
      /\ \A s \in BufferSemaphores :
            Used(frames', s) = Used(frames, s) + Uses(g.phase, s) - Uses(Top.phase, s)
  BY StatementUses
<1>6. ASSUME g.input = Top.input PROVE Hand(frames') = Hand(frames)
  <2>1. \A t \in Threads : \A i \in 1 .. Len(frames[t]) : frames'[t][i].input = frames[t][i].input
    BY <1>1, <1>3, <1>6
  <2>2. \A t \in Threads : GoOn(frames[t], frames'[t])
    BY <1>1, <1>3, <2>1 DEF GoOn
  <2> QED
    BY <1>3, <2>2, WhereNow, HandStays
<1>7. ASSUME NEW fr \in [Threads -> Seq(Frame)], NEW st, TrapsFit(fr, st), OneServes(fr),
             Depth \in 1 .. Len(fr[r]), Serving(fr[r][Depth])
      PROVE  Hand(fr) = fr[r][Depth].input
  <2>1. CASE fr[r][Depth].input # << >>
    BY <1>1, <1>7, <2>1, OneHolds
  <2>2. CASE fr[r][Depth].input = << >>
    <3>1. \A t \in Threads : \A i \in 1 .. Len(fr[t]) :
             fr[t][i].input # << >> => Serving(fr[t][i])
      BY <1>7, HoldersServe
    <3>2. \A t \in Threads : \A i \in 1 .. Len(fr[t]) : fr[t][i].input = << >>
      BY <1>1, <1>7, <2>2, <3>1 DEF OneServes
    <3> QED
      BY <2>2, <3>2, NoneHolds
  <2> QED
    BY <2>1, <2>2
<1>8. ASSUME Top.kind = "console" PROVE Hand(frames) = Top.input /\ Hand(frames') = g.input
  <2>1. Serving(Top) /\ Serving(g)
    BY <1>8 DEF Serving
  <2>2. Hand(frames) = Top.input
    BY <1>1, <1>7, <2>1, WhereNow
  <2>3. Hand(frames') = g.input
    BY <1>1, <1>3, <1>4, <1>7, <2>1
  <2> QED
    BY <2>2, <2>3
<1> QED
  BY <1>3, <1>4, <1>5, <1>6, <1>8

\* One semaphore, before a step.
LEMMA PermitNow ==
    ASSUME InputInv, NEW n \in 0 .. Capacity, Buffered = n, NEW s \in BufferSemaphores
    PROVE  /\ semaphoreValue[s] = Permits(s, n) - Used(frames, s)
           /\ semaphoreValue[s] \in Int /\ Used(frames, s) \in Nat
           /\ \A m \in 0 .. Capacity : Permits(s, m) \in Int
<1>1. semaphoreValue[s] = Permits(s, n) - Used(frames, s) /\ Used(frames, s) \in Nat
  BY UsedIsNat DEF InputInv, PermitsAreRight
<1>2. \A m \in 0 .. Capacity : Permits(s, m) \in Int
  BY KernelBufferAssumption DEF Permits, KernelBufferAssumption
<1> QED
  BY <1>1, <1>2

-----------------------------------------------------------------------------
(* Each statement of the buffer                                            *)

\* A statement that moves no character: what it waits for or signals changes
\* by one, as its use does.
LEMMA SemaphoreStepKeeps ==
    ASSUME InputInv, TrapInv', NEW S, AtStatement(S), Top.phase \in DOMAIN After,
           NEW g \in Frame, g.kind = Top.kind, g.phase = After[Top.phase], g.input = Top.input,
           TrapFits(g, runningThread, Depth, stage[runningThread]),
           frames' = [frames EXCEPT ![runningThread] = [@ EXCEPT ![Depth] = g]],
           UNCHANGED << stage, ringVars, uart, typed, received >>,
           \A s \in BufferSemaphores :
              semaphoreValue'[s] - semaphoreValue[s] = -(Uses(g.phase, s) - Uses(Top.phase, s)),
           WaitersFit(blockedThreads, frames') => WaitersFit(blockedThreads', frames'),
           PlacesFit(ready', runningThread', blockedThreads', stage', outputWaits')
    PROVE  InputInv'
<1>1. /\ Depth > 0 /\ Top.kind \in {"getc", "console"} /\ Top.phase # "sret" /\ g.phase # "sret"
  BY DEF AtStatement, After
<1>2. PICK n \in 0 .. Capacity :
              /\ Buffered = n
              /\ tail = (head + n) % Capacity
              /\ typed = received \o Elements(n) \o Hand(frames) \o uart
  BY InputNow
<1>3. /\ TrapsFit(frames', stage') /\ OneServes(frames')
      /\ WaitersFit(blockedThreads, frames')
      /\ IsFiniteSet(Within(frames', PastAWait))
      /\ \A s \in BufferSemaphores :
            Used(frames', s) = Used(frames, s) + Uses(g.phase, s) - Uses(Top.phase, s)
      /\ Hand(frames') = Hand(frames)
  BY <1>1, StatementGoesOn
<1>4. semaphoreValue' \in [BufferSemaphores -> Int]
  BY DEF TrapInv, Types, SemaphoresAreTyped
<1>5. \A s \in BufferSemaphores : semaphoreValue'[s] = Permits(s, n) - Used(frames', s)
  <2> SUFFICES ASSUME NEW s \in BufferSemaphores
               PROVE  semaphoreValue'[s] = Permits(s, n) - Used(frames', s)
    OBVIOUS
  <2>1. /\ semaphoreValue[s] = Permits(s, n) - Used(frames, s)
        /\ Used(frames, s) \in Nat /\ Permits(s, n) \in Int
    BY <1>2, PermitNow
  <2>2. Uses(g.phase, s) \in Int /\ Uses(Top.phase, s) \in Int /\ semaphoreValue'[s] \in Int
    BY <1>4, UsesIsInt
  <2>3. /\ Used(frames', s) = Used(frames, s) + Uses(g.phase, s) - Uses(Top.phase, s)
        /\ semaphoreValue'[s] - semaphoreValue[s] = -(Uses(g.phase, s) - Uses(Top.phase, s))
    BY <1>3
  <2> QED
    BY ONLY <2>1, <2>2, <2>3
<1>6. UNCHANGED << buffer, head, tail >>
  BY DEF ringVars
<1>7. Elements(n)' = Elements(n)
  BY <1>6 DEF Elements
<1>8. Buffered' = n
  BY <1>2, <1>3, HandNow DEF Buffered
<1>9. typed' = received' \o Elements(n)' \o Hand(frames') \o uart'
  BY <1>2, <1>3, <1>7
<1>10. tail' = (head' + n) % Capacity
  BY <1>2, <1>6
<1>11. buffer' \in [0 .. Capacity - 1 -> Nat] /\ received' \in Seq(Nat)
  BY <1>6 DEF InputInv
<1> QED
  BY <1>3, <1>5, <1>8, <1>9, <1>10, <1>11, InvFollows

\* The trap at a statement that keeps its character fits behind it.
LEMMA NextFits ==
    ASSUME NEW f, NEW t, NEW d, NEW s, TrapFits(f, t, d, s), f.kind \in {"getc", "console"},
           f.phase \in DOMAIN WaitsFor \cup DOMAIN Signals \cup {"fetch"},
           NEW g, g.kind = f.kind, g.phase = After[f.phase], g.input = f.input
    PROVE  TrapFits(g, t, d, s)
<1>1. f.phase \in {"waitItem", "waitHead", "fetch", "signalHead", "signalSpace"}
      \/ f.phase \in {"waitSpace", "waitTail", "signalTail", "signalItem"}
  BY WaitStatements, SignalStatements
<1>2. CASE f.phase \in {"waitItem", "waitHead", "fetch", "signalHead", "signalSpace"}
  <2>1. f.kind = "getc" /\ f.input = << >>
    BY <1>2 DEF TrapFits, PastInGetc
  <2>2. g.phase \in {"waitHead", "fetch", "signalHead", "signalSpace", "restore"}
    BY <1>2 DEF After
  <2> QED
    BY <2>1, <2>2 DEF TrapFits, PastInGetc, PastInConsole
<1>3. CASE f.phase \in {"waitSpace", "waitTail"}
  <2>1. f.kind = "console" /\ Len(f.input) = 1
    BY <1>3 DEF TrapFits, PastInConsole
  <2>2. g.phase \in {"waitTail", "store"}
    BY <1>3 DEF After
  <2> QED
    BY <2>1, <2>2 DEF TrapFits, PastInGetc, PastInConsole
<1>4. CASE f.phase \in {"signalTail", "signalItem"}
  <2>1. f.kind = "console" /\ f.input = << >>
    BY <1>4 DEF TrapFits, PastInConsole
  <2>2. g.phase \in {"signalItem", "run"}
    BY <1>4 DEF After
  <2> QED
    BY <2>1, <2>2 DEF TrapFits, PastInGetc, PastInConsole
<1> QED
  BY <1>1, <1>2, <1>3, <1>4

LEMMA AfterAWait ==
    \A p \in DOMAIN WaitsFor : /\ p \in DOMAIN After /\ WaitsFor[p] \in BufferSemaphores
                               /\ After[p] = PastWait[WaitsFor[p]]
BY DEF WaitsFor, After, PastWait, BufferSemaphores

\* What a wait does to the lists: nothing, or it makes the thread wait.
LEMMA WaitMovesRunning ==
    ASSUME InputInv, WaitSemaphore, NEW s, s = WaitsFor[Top.phase],
           Len(frames'[runningThread]) > 0,
           frames'[runningThread][Len(frames'[runningThread])].phase = After[Top.phase]
    PROVE  /\ WaitersFit(blockedThreads, frames') => WaitersFit(blockedThreads', frames')
           /\ PlacesFit(ready', runningThread', blockedThreads', stage', outputWaits')
<1> DEFINE r == runningThread
<1>1. /\ Depth > 0 /\ Top.kind \in {"getc", "console"} /\ Top.phase \in DOMAIN WaitsFor
      /\ UNCHANGED << stage, outputWaits >>
      /\ \/ WaitPasses(s) /\ UNCHANGED << ready, runningThread >>
         \/ WaitBlocks(s, r) /\ SwitchTo(ready)
  BY DEF WaitSemaphore, AtStatement, InputRest, SuspendCurrentThread, outputVars
<1>2. s \in BufferSemaphores /\ After[Top.phase] = PastWait[s]
  BY <1>1, AfterAWait
<1>3. TrapFits(Top, r, Depth, stage[r])
  BY <1>1, TopNow
<1>4. CASE WaitPasses(s) /\ UNCHANGED << ready, runningThread >>
  <2>1. blockedThreads' = blockedThreads
    BY <1>4 DEF WaitPasses
  <2> QED
    BY <1>1, <1>4, <2>1, WhereNow
<1>5. CASE WaitBlocks(s, r) /\ SwitchTo(ready)
  <2>1. /\ semaphoreValue[s] - 1 < 0
        /\ blockedThreads' = [blockedThreads EXCEPT ![s] = Append(blockedThreads[s], r)]
    BY <1>5 DEF WaitBlocks
  <2>2. r # Idle
    BY <1>1, <1>3 DEF TrapFits
  <2>3. r = Main => s = "spaceAvailable"
    <3> SUFFICES ASSUME r = Main PROVE s = "spaceAvailable"
      OBVIOUS
    <3>1. Top.kind # "getc"
      BY <1>1, <1>3 DEF TrapFits
    <3>2. Top.phase \in {"waitSpace", "waitTail"}
      BY <1>1, <1>3, <3>1, WaitStatements DEF TrapFits, PastInGetc
    <3>3. CASE Top.phase = "waitSpace"
      BY <3>3 DEF WaitsFor
    <3>4. CASE Top.phase = "waitTail"
      <4>1. s = "mutexTail"
        BY <3>4 DEF WaitsFor
      <4>2. semaphoreValue[s] = 1
        BY <1>1, <3>4, <4>1, TailIsFree
      <4> QED
        BY <2>1, <4>2
    <3> QED
      BY <3>2, <3>3, <3>4
  <2>4. /\ blockedThreads' \in [BufferSemaphores -> Seq(Threads)]
        /\ ListsFit(ready, blockedThreads', stage, outputWaits)
        /\ \A u \in BufferSemaphores :
              Range(blockedThreads'[u]) = IF u = s THEN Range(blockedThreads[u]) \cup {r}
                                          ELSE Range(blockedThreads[u])
    <3>1. /\ r \in Threads /\ blockedThreads \in [BufferSemaphores -> Seq(Threads)]
          /\ PlacesFit(ready, r, blockedThreads, stage, outputWaits)
      BY WhereNow
    <3>2. s \in BufferSemaphores
      BY <1>2
    <3> QED
      BY ONLY <2>1, <2>2, <2>3, <3>1, <3>2, RunningWaits
  <2>5. PlacesFit(Rest(ready), First(ready), blockedThreads', stage, outputWaits)
    BY <2>4, WhereNow, SwitchFits
  <2>6. PlacesFit(ready', runningThread', blockedThreads', stage', outputWaits')
    BY <1>1, <1>5, <2>5 DEF SwitchTo
  <2>7. WaitersFit(blockedThreads, frames') => WaitersFit(blockedThreads', frames')
    BY <1>2, <2>4 DEF WaitersFit
  <2> QED
    BY <2>6, <2>7
<1> QED
  BY <1>1, <1>4, <1>5

LEMMA WaitKeepsOrder ==
    ASSUME InputInv, TrapInv', WaitSemaphore
    PROVE  InputInv'
<1> DEFINE r == runningThread
           p == Top.phase
           s == WaitsFor[p]
           moved == Top.kind = "console" /\ runningThread' # runningThread
           next == After[p]
           g == [Top EXCEPT !.phase = next, !.disturbed = @ \/ moved]
<1>1. /\ AtStatement(DOMAIN WaitsFor) /\ Depth > 0 /\ Top.kind \in {"getc", "console"}
      /\ p \in DOMAIN WaitsFor
      /\ UNCHANGED << stage, ringVars, uart, typed, received >>
      /\ semaphoreValue' = [semaphoreValue EXCEPT ![s] = @ - 1]
  BY DEF WaitSemaphore, AtStatement, InputRest, WaitPasses, WaitBlocks, Decrement
<1>2. frames' = [frames EXCEPT ![r] = [@ EXCEPT ![Depth] = g]]
  BY DEF WaitSemaphore, Top
<1>3. /\ Top \in Frame /\ TrapFits(Top, r, Depth, stage[r])
      /\ p \in DOMAIN After /\ s \in BufferSemaphores /\ next \in Statements
  BY <1>1, TopNow, AfterAWait, WaitStatements
<1>4. moved \in BOOLEAN
  OBVIOUS
<1> HIDE DEF moved, next, s
<1>5. g \in Frame /\ g.kind = Top.kind /\ g.phase = next /\ g.input = Top.input
  BY <1>3, <1>4 DEF Frame, Phases
<1> HIDE DEF g
<1>6. TrapFits(g, r, Depth, stage[r])
  BY <1>1, <1>3, <1>5, NextFits DEF next
<1>7. Top.phase # "sret" /\ g.phase # "sret"
  BY <1>1, <1>3, <1>5, WaitStatements DEF Statements
<1>8. Len(frames'[r]) = Depth /\ frames'[r][Depth] = g
  BY <1>1, <1>2, <1>5, <1>6, <1>7, StatementGoesOn
<1>9. /\ WaitersFit(blockedThreads, frames') => WaitersFit(blockedThreads', frames')
      /\ PlacesFit(ready', runningThread', blockedThreads', stage', outputWaits')
  BY <1>1, <1>5, <1>8, WaitMovesRunning DEF s, next
<1>10. \A u \in BufferSemaphores :
          semaphoreValue'[u] - semaphoreValue[u] = -(Uses(g.phase, u) - Uses(Top.phase, u))
  <2> SUFFICES ASSUME NEW u \in BufferSemaphores
               PROVE  semaphoreValue'[u] - semaphoreValue[u]
                      = -(Uses(g.phase, u) - Uses(Top.phase, u))
    OBVIOUS
  <2>1. Uses(g.phase, u) = Uses(p, u) + (IF u = s THEN 1 ELSE 0)
    BY <1>1, <1>5, WaitUses DEF s, next
  <2>2. semaphoreValue \in [BufferSemaphores -> Int]
    BY DEF InputInv, TrapInv, Types, SemaphoresAreTyped
  <2>3. semaphoreValue'[u] = IF u = s THEN semaphoreValue[u] - 1 ELSE semaphoreValue[u]
    BY <1>1, <2>2
  <2>4. Uses(p, u) \in Int /\ semaphoreValue[u] \in Int
    BY <2>2, UsesIsInt
  <2> QED
    BY <2>1, <2>3, <2>4
<1> QED
  BY <1>1, <1>2, <1>3, <1>5, <1>6, <1>9, <1>10, SemaphoreStepKeeps DEF next

\* What a signal does to the lists: nothing, or it makes the first ready.
LEMMA SignalMovesFirst ==
    ASSUME InputInv, NEW s \in BufferSemaphores, Signal(s), runningThread # Idle,
           UNCHANGED << runningThread, stage, outputWaits >>
    PROVE  /\ WaitersFit(blockedThreads, frames') => WaitersFit(blockedThreads', frames')
           /\ PlacesFit(ready', runningThread', blockedThreads', stage', outputWaits')
<1>1. /\ semaphoreValue \in [BufferSemaphores -> Int]
      /\ \A u \in BufferSemaphores :
            Len(blockedThreads[u]) = IF semaphoreValue[u] < 0 THEN -semaphoreValue[u] ELSE 0
  BY DEF InputInv, TrapInv, Types, SemaphoresAreTyped
<1>2. CASE semaphoreValue[s] + 1 <= 0
  <2>1. /\ ready' = Enqueue(ready, Head(blockedThreads[s]))
        /\ blockedThreads' = [blockedThreads EXCEPT ![s] = Tail(blockedThreads[s])]
    BY <1>1, <1>2 DEF Signal
  <2>2. blockedThreads[s] # << >>
    <3>1. semaphoreValue[s] \in Int /\ semaphoreValue[s] < 0
      BY <1>1, <1>2
    <3>2. Len(blockedThreads[s]) # 0
      BY <1>1, <3>1
    <3> QED
      BY <3>2
  <2>3. /\ PlacesFit(Enqueue(ready, Head(blockedThreads[s])), runningThread, blockedThreads',
                     stage, outputWaits)
        /\ \A u \in BufferSemaphores : Range(blockedThreads'[u]) \subseteq Range(blockedThreads[u])
    <3>1. /\ ready \in Seq(Threads) /\ blockedThreads \in [BufferSemaphores -> Seq(Threads)]
          /\ PlacesFit(ready, runningThread, blockedThreads, stage, outputWaits)
      BY WhereNow
    <3>2. s \in BufferSemaphores /\ runningThread # Idle
      OBVIOUS
    <3> QED
      BY ONLY <2>1, <2>2, <3>1, <3>2, WaiterIsReleased
  <2> QED
    BY <2>1, <2>3 DEF WaitersFit
<1>3. CASE ~(semaphoreValue[s] + 1 <= 0)
  <2>1. UNCHANGED << blockedThreads, ready >>
    BY <1>1, <1>3 DEF Signal
  <2> QED
    BY <2>1, WhereNow
<1> QED
  BY <1>2, <1>3

LEMMA AfterASignal ==
    \A p \in DOMAIN Signals : /\ p \in DOMAIN After /\ p # "sret"
                              /\ Signals[p] \in BufferSemaphores /\ After[p] \in Phases
BY DEF Signals, After, BufferSemaphores, Phases, Statements

LEMMA SignalKeepsOrder ==
    ASSUME InputInv, TrapInv', SignalSemaphore
    PROVE  InputInv'
<1> DEFINE r == runningThread
           p == Top.phase
           s == Signals[p]
           next == After[p]
           g == [Top EXCEPT !.phase = next]
<1>1. /\ AtStatement(DOMAIN Signals) /\ Depth > 0 /\ Top.kind \in {"getc", "console"}
      /\ p \in DOMAIN Signals /\ Signal(s) /\ GoTo(next)
      /\ UNCHANGED << runningThread, stage, outputWaits, ringVars, uart, typed, received >>
      /\ semaphoreValue' = [semaphoreValue EXCEPT ![s] = @ + 1]
  BY DEF SignalSemaphore, AtStatement, InputRest, Signal, outputVars
<1>2. frames' = [frames EXCEPT ![r] = [@ EXCEPT ![Depth] = g]]
  BY <1>1 DEF GoTo, Top
<1>3. /\ Top \in Frame /\ TrapFits(Top, r, Depth, stage[r])
      /\ p \in DOMAIN After /\ s \in BufferSemaphores /\ next \in Phases
  BY <1>1, TopNow, AfterASignal
<1> HIDE DEF next, s
<1>5. g \in Frame /\ g.kind = Top.kind /\ g.phase = next /\ g.input = Top.input
  BY <1>3 DEF Frame
<1> HIDE DEF g
<1>6. TrapFits(g, r, Depth, stage[r])
  BY <1>1, <1>3, <1>5, NextFits DEF next
<1>7. r # Idle
  BY <1>1, <1>3 DEF TrapFits
<1>9. /\ WaitersFit(blockedThreads, frames') => WaitersFit(blockedThreads', frames')
      /\ PlacesFit(ready', runningThread', blockedThreads', stage', outputWaits')
  BY <1>1, <1>3, <1>7, SignalMovesFirst
<1>10. \A u \in BufferSemaphores :
          semaphoreValue'[u] - semaphoreValue[u] = -(Uses(g.phase, u) - Uses(Top.phase, u))
  <2> SUFFICES ASSUME NEW u \in BufferSemaphores
               PROVE  semaphoreValue'[u] - semaphoreValue[u]
                      = -(Uses(g.phase, u) - Uses(Top.phase, u))
    OBVIOUS
  <2>1. Uses(g.phase, u) = Uses(p, u) - (IF u = s THEN 1 ELSE 0)
    BY <1>1, <1>5, SignalUses DEF s, next
  <2>2. semaphoreValue \in [BufferSemaphores -> Int]
    BY DEF InputInv, TrapInv, Types, SemaphoresAreTyped
  <2>3. semaphoreValue'[u] = IF u = s THEN semaphoreValue[u] + 1 ELSE semaphoreValue[u]
    BY <1>1, <2>2
  <2>4. Uses(p, u) \in Int /\ semaphoreValue[u] \in Int
    BY <2>2, UsesIsInt
  <2> QED
    BY <2>1, <2>3, <2>4
<1> QED
  BY <1>1, <1>2, <1>3, <1>5, <1>6, <1>9, <1>10, SemaphoreStepKeeps DEF next

\* The lists stay while a statement works on the array.
LEMMA ListsStay ==
    ASSUME InputInv, WaitersFit(blockedThreads, frames'),
           UNCHANGED << ready, runningThread, stage, outputWaits, semVars >>
    PROVE  /\ WaitersFit(blockedThreads', frames')
           /\ PlacesFit(ready', runningThread', blockedThreads', stage', outputWaits')
           /\ semaphoreValue' = semaphoreValue
BY WhereNow DEF semVars

LEMMA FetchKeepsOrder ==
    ASSUME InputInv, TrapInv', FetchCharacter
    PROVE  InputInv'
<1> DEFINE r == runningThread
           g == [Top EXCEPT !.phase = "signalHead"]
<1>1. /\ AtStatement({"fetch"}) /\ GoTo("signalHead") /\ Fetch
      /\ Depth > 0 /\ Top.kind \in {"getc", "console"} /\ Top.phase = "fetch"
      /\ received' = Append(received, Fetched)
      /\ UNCHANGED << ready, runningThread, stage, outputWaits, semVars, uart, typed >>
  BY DEF FetchCharacter, AtStatement, After, InputRest, outputVars
<1>2. frames' = [frames EXCEPT ![r] = [@ EXCEPT ![Depth] = g]]
  BY <1>1 DEF GoTo, Top
<1>3. Top \in Frame /\ TrapFits(Top, r, Depth, stage[r])
  BY <1>1, TopNow
<1>4. g \in Frame /\ g.kind = Top.kind /\ g.phase = "signalHead" /\ g.input = Top.input
  BY <1>3 DEF Frame, Phases, Statements
<1> HIDE DEF g
<1>5. TrapFits(g, r, Depth, stage[r])
  <2>1. g.phase = After[Top.phase]
    BY <1>1, <1>4 DEF After
  <2> QED
    BY <1>1, <1>3, <1>4, <2>1, NextFits
<1>6. PICK n \in 0 .. Capacity :
              /\ Buffered = n
              /\ tail = (head + n) % Capacity
              /\ typed = received \o Elements(n) \o Hand(frames) \o uart
              /\ n = Len(typed) - Len(received) - Len(Hand(frames)) - Len(uart)
              /\ Hand(frames) \in Seq(Nat)
              /\ RingIsTyped
  BY InputNow
<1>7. Capacity \in Nat \ {0} /\ n \in Nat
  BY KernelBufferAssumption DEF KernelBufferAssumption
<1>8. n \in 1 .. Capacity /\ n - 1 \in 0 .. Capacity
  <2>1. 1 <= Permits("itemAvailable", n)
    <3>1. /\ UsedByGetc["itemAvailable"] = {"waitHead", "fetch"}
          /\ PastWait["itemAvailable"] = "waitHead"
      BY DEF UsedByGetc, PastWait
    <3> QED
      BY <1>1, <1>6, <3>1, BufferSemaphoresAre, ThereIsOne
  <2>2. 1 <= n
    BY <2>1 DEF Permits
  <2> QED
    BY <1>7, <2>2
<1>9. /\ RingIsTyped' /\ Fetched \in Nat
      /\ tail' = (head' + (n - 1)) % Capacity
      /\ Elements(n - 1)' \in Seq(Nat)
      /\ Elements(n) = << Fetched >> \o Elements(n - 1)'
  BY <1>1, <1>6, <1>8, FetchTakesFirst
<1>10. /\ TrapsFit(frames', stage') /\ OneServes(frames')
       /\ WaitersFit(blockedThreads, frames')
       /\ IsFiniteSet(Within(frames', PastAWait))
       /\ \A s \in BufferSemaphores :
             Used(frames', s) = Used(frames, s) + Uses("signalHead", s) - Uses("fetch", s)
       /\ Hand(frames') = Hand(frames)
  <2>1. Top.phase # "sret" /\ g.phase # "sret" /\ UNCHANGED stage
    BY <1>1, <1>4
  <2> QED
    BY <1>1, <1>2, <1>4, <1>5, <2>1, StatementGoesOn
<1>11. /\ WaitersFit(blockedThreads', frames')
       /\ PlacesFit(ready', runningThread', blockedThreads', stage', outputWaits')
       /\ semaphoreValue' = semaphoreValue
  BY <1>1, <1>10, ListsStay
<1>12. \A s \in BufferSemaphores : semaphoreValue'[s] = Permits(s, n - 1) - Used(frames', s)
  <2> SUFFICES ASSUME NEW s \in BufferSemaphores
               PROVE  semaphoreValue'[s] = Permits(s, n - 1) - Used(frames', s)
    OBVIOUS
  <2>1. semaphoreValue[s] = Permits(s, n) - Used(frames, s) /\ Used(frames, s) \in Nat
    BY <1>6, PermitNow
  <2>2. Uses("signalHead", s) \in Int /\ Uses("fetch", s) \in Int
    BY UsesIsInt
  <2>3. Used(frames', s) = Used(frames, s) + Uses("signalHead", s) - Uses("fetch", s)
    BY <1>10
  <2>4. Permits(s, n) \in Int /\ Permits(s, n - 1) \in Int
    BY <1>6, <1>8, PermitNow
  <2>5. Uses("signalHead", s) - Uses("fetch", s) = Permits(s, n - 1) - Permits(s, n)
    BY <1>7, FetchUses DEF Permits
  <2> QED
    BY <1>11, <2>1, <2>2, <2>3, <2>4, <2>5
<1>13. received \in Seq(Nat) /\ received' \in Seq(Nat) /\ Len(received') = Len(received) + 1
  BY <1>1, <1>9, AppendProperties DEF InputInv
<1>14. typed' = received' \o Elements(n - 1)' \o Hand(frames') \o uart'
  <2>2. typed = received \o (<< Fetched >> \o Elements(n - 1)') \o Hand(frames) \o uart
    BY <1>6, <1>9
  <2>3. typed = Append(received, Fetched) \o Elements(n - 1)' \o Hand(frames) \o uart
    <3>4. << Fetched >> \in Seq(Nat)
      BY <1>9
    <3>1. PICK w \in Seq(Nat) : w = << Fetched >>
      BY <3>4
    <3>5. received \in Seq(Nat) /\ w \in Seq(Nat) /\ Elements(n - 1)' \in Seq(Nat)
      BY <1>9, <1>13
    <3>2. Append(received, Fetched) = received \o w
      BY <1>9, <1>13, <3>1, AppendIsConcat
    <3>3. received \o (w \o Elements(n - 1)') = (received \o w) \o Elements(n - 1)'
      BY ONLY <3>5, ConcatAssociative
    <3> QED
      BY <2>2, <3>1, <3>2, <3>3
  <2> QED
    BY <1>1, <1>10, <2>3
<1>15. Buffered' = n - 1
  <2>1. Buffered' = Len(typed) - (Len(received) + 1) - Len(Hand(frames)) - Len(uart)
    BY <1>1, <1>10, <1>13, HandNow DEF Buffered
  <2>2. /\ Len(typed) \in Nat /\ Len(received) \in Nat /\ Len(Hand(frames)) \in Nat
        /\ Len(uart) \in Nat
    BY <1>6, <1>13, LenProperties DEF InputInv, TrapInv, Types
  <2> QED
    BY <1>6, <1>7, <2>1, <2>2
<1>16. buffer' \in [0 .. Capacity - 1 -> Nat]
  BY <1>9 DEF RingIsTyped
<1> QED
  BY <1>8, <1>9, <1>10, <1>11, <1>12, <1>13, <1>14, <1>15, <1>16, InvFollows

LEMMA StoreKeepsOrder ==
    ASSUME InputInv, TrapInv', StoreCharacter
    PROVE  InputInv'
<1> DEFINE r == runningThread
           g == [Top EXCEPT !.phase = "signalTail", !.input = << >>]
<1>1. /\ AtStatement({"store"}) /\ Put(Top.input[1])
      /\ Depth > 0 /\ Top.phase = "store"
      /\ UNCHANGED << ready, runningThread, stage, outputWaits, semVars, uart, typed, received >>
  BY DEF StoreCharacter, AtStatement, InputRest, outputVars
<1>2. frames' = [frames EXCEPT ![r] = [@ EXCEPT ![Depth] = g]]
  BY DEF StoreCharacter, After, Top
<1>3. /\ Top \in Frame /\ TrapFits(Top, r, Depth, stage[r])
      /\ Top.kind = "console" /\ Len(Top.input) = 1
  BY <1>1, TopNow DEF TrapFits, PastInConsole
<1>4. Top.input \in Seq(Nat)
  BY <1>3 DEF Frame
<1>5. PICK x \in Nat : x = Top.input[1] /\ Top.input = << x >>
  <2>1. Top.input[1] \in Nat /\ Top.input = << Top.input[1] >>
    BY <1>3, <1>4
  <2> QED
    BY <2>1
<1>6. PICK n \in 0 .. Capacity :
              /\ Buffered = n
              /\ tail = (head + n) % Capacity
              /\ typed = received \o Elements(n) \o Hand(frames) \o uart
              /\ n = Len(typed) - Len(received) - Len(Hand(frames)) - Len(uart)
              /\ Elements(n) \in Seq(Nat)
              /\ RingIsTyped
  BY InputNow
<1>7. /\ typed \in Seq(Nat) /\ received \in Seq(Nat) /\ uart \in Seq(Nat)
      /\ Capacity \in Nat \ {0} /\ n \in Nat
  BY KernelBufferAssumption DEF InputInv, TrapInv, Types, KernelBufferAssumption
<1>19. << >> \in Seq(Nat)
  OBVIOUS
<1>8. g \in Frame /\ g.kind = "console" /\ g.phase = "signalTail" /\ g.input = << >>
  BY <1>3, <1>19 DEF Frame, Phases, Statements
<1> HIDE DEF g
<1>20. TrapFits(g, r, Depth, stage[r])
  BY <1>3, <1>8 DEF TrapFits, PastInGetc, PastInConsole
<1>9. /\ TrapsFit(frames', stage') /\ OneServes(frames')
      /\ WaitersFit(blockedThreads, frames')
      /\ IsFiniteSet(Within(frames', PastAWait))
      /\ \A s \in BufferSemaphores :
            Used(frames', s) = Used(frames, s) + Uses("signalTail", s) - Uses("store", s)
      /\ Hand(frames) = << x >> /\ Hand(frames') = << >>
  <2>1. Top.phase # "sret" /\ g.phase # "sret" /\ UNCHANGED stage
    BY <1>1, <1>8
  <2> QED
    BY <1>1, <1>2, <1>3, <1>5, <1>8, <1>20, <2>1, StatementGoesOn
<1>10. /\ WaitersFit(blockedThreads', frames')
       /\ PlacesFit(ready', runningThread', blockedThreads', stage', outputWaits')
       /\ semaphoreValue' = semaphoreValue
  BY <1>1, <1>9, ListsStay
<1>11. n \in 0 .. Capacity - 1 /\ n + 1 \in 0 .. Capacity
  <2>1. 1 <= Permits("spaceAvailable", n)
    <3>1. /\ UsedByConsole["spaceAvailable"] = {"waitTail", "store"}
          /\ PastWait["spaceAvailable"] = "waitTail"
      BY DEF UsedByConsole, PastWait
    <3> QED
      BY <1>1, <1>6, <3>1, BufferSemaphoresAre, ThereIsOne
  <2>2. 1 <= Capacity - n
    BY <2>1 DEF Permits
  <2> QED
    BY <1>7, <2>2
<1>12. /\ RingIsTyped'
       /\ tail' = (head' + (n + 1)) % Capacity
       /\ Elements(n + 1)' = Append(Elements(n), x)
  <2>1. Put(x)
    BY <1>1, <1>5
  <2> QED
    BY <1>6, <1>11, <2>1, PutAppends
<1>13. \A s \in BufferSemaphores : semaphoreValue'[s] = Permits(s, n + 1) - Used(frames', s)
  <2> SUFFICES ASSUME NEW s \in BufferSemaphores
               PROVE  semaphoreValue'[s] = Permits(s, n + 1) - Used(frames', s)
    OBVIOUS
  <2>1. semaphoreValue[s] = Permits(s, n) - Used(frames, s) /\ Used(frames, s) \in Nat
    BY <1>6, PermitNow
  <2>2. Uses("signalTail", s) \in Int /\ Uses("store", s) \in Int
    BY UsesIsInt
  <2>3. Used(frames', s) = Used(frames, s) + Uses("signalTail", s) - Uses("store", s)
    BY <1>9
  <2>4. Permits(s, n) \in Int /\ Permits(s, n + 1) \in Int
    BY <1>6, <1>11, PermitNow
  <2>5. Uses("signalTail", s) - Uses("store", s) = Permits(s, n + 1) - Permits(s, n)
    BY <1>7, StoreUses DEF Permits
  <2> QED
    BY <1>10, <2>1, <2>2, <2>3, <2>4, <2>5
<1>16. Buffered' = n + 1
  <2>1. Buffered' = Len(typed) - Len(received) - 0 - Len(uart)
    BY <1>1, <1>9, HandNow DEF Buffered
  <2>2. n = Len(typed) - Len(received) - 1 - Len(uart)
    BY <1>6, <1>9
  <2>3. Len(typed) \in Nat /\ Len(received) \in Nat /\ Len(uart) \in Nat
    BY <1>7, LenProperties
  <2> QED
    BY <1>7, <2>1, <2>2, <2>3
<1>17. typed' = received' \o Elements(n + 1)' \o Hand(frames') \o uart'
  <2>1. PICK e \in Seq(Nat) : e = Elements(n)
    BY <1>6
  <2>7. << x >> \in Seq(Nat)
    OBVIOUS
  <2>2. PICK w \in Seq(Nat) : w = << x >>
    BY <2>7
  <2>6. received \in Seq(Nat) /\ e \in Seq(Nat) /\ w \in Seq(Nat)
    BY <1>7
  <2>3. typed = received \o e \o w \o uart
    BY <1>6, <1>9, <2>1, <2>2
  <2>5. received \o e \o w = received \o (e \o w) \o << >>
    BY ONLY <2>6, ToBuffer
  <2>4. Elements(n + 1)' = e \o w
    BY <1>12, <2>1, <2>2, AppendIsConcat
  <2> QED
    BY <1>1, <1>9, <2>3, <2>4, <2>5
<1>18. buffer' \in [0 .. Capacity - 1 -> Nat] /\ received' \in Seq(Nat)
  BY <1>1, <1>7, <1>12 DEF RingIsTyped
<1> QED
  BY <1>9, <1>10, <1>11, <1>12, <1>13, <1>16, <1>17, <1>18, InvFollows

LEMMA ConsoleReadsKeepsOrder ==
    ASSUME InputInv, TrapInv', ConsoleReads
    PROVE  InputInv'
<1> DEFINE r == runningThread
           g == [Top EXCEPT !.phase = "waitSpace", !.input = << Head(uart) >>]
<1>1. /\ Depth > 0 /\ Top.kind = "console" /\ Top.phase = "run"
      /\ uart # << >> /\ uart' = Tail(uart)
      /\ UNCHANGED << ready, runningThread, stage, outputWaits, semVars, ringVars, typed, received >>
  BY DEF ConsoleReads, At, InputRest, outputVars
<1>2. frames' = [frames EXCEPT ![r] = [@ EXCEPT ![Depth] = g]]
  BY DEF ConsoleReads, Top
<1>3. Top \in Frame /\ TrapFits(Top, r, Depth, stage[r]) /\ Top.input = << >>
  BY <1>1, TopNow DEF TrapFits
<1>4. PICK n \in 0 .. Capacity :
              /\ Buffered = n
              /\ tail = (head + n) % Capacity
              /\ typed = received \o Elements(n) \o Hand(frames) \o uart
              /\ n = Len(typed) - Len(received) - Len(Hand(frames)) - Len(uart)
              /\ Elements(n) \in Seq(Nat)
  BY InputNow
<1>5. /\ typed \in Seq(Nat) /\ received \in Seq(Nat) /\ uart \in Seq(Nat)
      /\ buffer \in [0 .. Capacity - 1 -> Nat]
      /\ UNCHANGED << buffer, head, tail >>
  BY <1>1 DEF InputInv, TrapInv, Types, ringVars
<1>6. /\ Head(uart) \in Nat /\ Tail(uart) \in Seq(Nat) /\ Len(Tail(uart)) = Len(uart) - 1
      /\ uart = << Head(uart) >> \o Tail(uart)
  BY <1>1, <1>5, FirstAndRest
<1>7. << Head(uart) >> \in Seq(Nat) /\ Len(<< Head(uart) >>) = 1
  BY <1>6
<1>8. g \in Frame /\ g.kind = "console" /\ g.phase = "waitSpace" /\ g.input = << Head(uart) >>
  BY <1>1, <1>3, <1>7 DEF Frame, Phases, Statements
<1> HIDE DEF g
<1>20. TrapFits(g, r, Depth, stage[r])
  BY <1>1, <1>3, <1>7, <1>8 DEF TrapFits, PastInGetc, PastInConsole
<1>9. /\ TrapsFit(frames', stage') /\ OneServes(frames')
      /\ WaitersFit(blockedThreads, frames')
      /\ IsFiniteSet(Within(frames', PastAWait))
      /\ \A s \in BufferSemaphores :
            Used(frames', s) = Used(frames, s) + Uses("waitSpace", s) - Uses("run", s)
      /\ Hand(frames) = << >> /\ Hand(frames') = << Head(uart) >>
  <2>1. Top.phase # "sret" /\ g.phase # "sret" /\ UNCHANGED stage
    BY <1>1, <1>8
  <2> QED
    BY <1>1, <1>2, <1>3, <1>8, <1>20, <2>1, StatementGoesOn
<1>10. /\ WaitersFit(blockedThreads', frames')
       /\ PlacesFit(ready', runningThread', blockedThreads', stage', outputWaits')
       /\ semaphoreValue' = semaphoreValue
  BY <1>1, <1>9, ListsStay
<1>11. \A s \in BufferSemaphores : semaphoreValue'[s] = Permits(s, n) - Used(frames', s)
  <2> SUFFICES ASSUME NEW s \in BufferSemaphores
               PROVE  semaphoreValue'[s] = Permits(s, n) - Used(frames', s)
    OBVIOUS
  <2>1. semaphoreValue[s] = Permits(s, n) - Used(frames, s) /\ Used(frames, s) \in Nat
    BY <1>4, PermitNow
  <2>2. Uses("waitSpace", s) = 0 /\ Uses("run", s) = 0
    BY DEF Uses, Counts, UsedByGetc, UsedByConsole, BufferSemaphores
  <2> QED
    BY <1>9, <1>10, <2>1, <2>2
<1>14. Elements(n)' = Elements(n)
  BY <1>5 DEF Elements
<1>15. Buffered' = n
  <2>1. Buffered' = Len(typed) - Len(received) - 1 - (Len(uart) - 1)
    BY <1>1, <1>6, <1>7, <1>9, HandNow DEF Buffered
  <2>2. n = Len(typed) - Len(received) - 0 - Len(uart)
    BY <1>4, <1>9
  <2>3. Len(typed) \in Nat /\ Len(received) \in Nat /\ Len(uart) \in Nat
    BY <1>5, LenProperties
  <2> QED
    BY <2>1, <2>2, <2>3
<1>16. typed' = received' \o Elements(n)' \o Hand(frames') \o uart'
  <2>1. PICK x \in Nat : x = Head(uart)
    BY <1>6
  <2>2. PICK v \in Seq(Nat) : v = Tail(uart)
    BY <1>6
  <2>3. PICK b \in Seq(Nat) : b = received \o Elements(n)
    BY <1>4, <1>5, TwoJoin
  <2>4. b \o << >> \o (<< x >> \o v) = b \o << x >> \o v
    BY ToHand
  <2>5. uart = << x >> \o v
    BY <1>6, <2>1, <2>2
  <2>6. typed = b \o << >> \o uart
    BY <1>4, <1>9, <2>3
  <2>7. typed = b \o << x >> \o v
    BY <2>4, <2>5, <2>6
  <2>8. Hand(frames') = << x >> /\ uart' = v /\ typed' = typed /\ received' = received
    BY <1>1, <1>9, <2>1, <2>2
  <2>9. received' \o Elements(n)' = b
    BY <1>14, <2>3, <2>8
  <2> QED
    BY <2>7, <2>8, <2>9
<1>17. tail' = (head' + n) % Capacity
  BY <1>4, <1>5
<1>18. buffer' \in [0 .. Capacity - 1 -> Nat] /\ received' \in Seq(Nat)
  BY <1>1, <1>5
<1> QED
  BY <1>9, <1>10, <1>11, <1>15, <1>16, <1>17, <1>18, InvFollows

LEMMA TypeKeepsOrder ==
    ASSUME InputInv, TrapInv', Type
    PROVE  InputInv'
<1> DEFINE x == Len(typed) + 1
<1>1. /\ typed' = Append(typed, x) /\ uart' = Append(uart, x)
      /\ UNCHANGED << ready, runningThread, frames, stage, outputWaits, semVars,
                      buffer, head, tail, received >>
  BY DEF Type, outputVars, ringVars
<1>2. PICK n \in 0 .. Capacity :
              /\ Buffered = n
              /\ IsFiniteSet(Within(frames, PastAWait))
              /\ \A s \in BufferSemaphores : semaphoreValue[s] = Permits(s, n) - Used(frames, s)
              /\ tail = (head + n) % Capacity
              /\ typed = received \o Elements(n) \o Hand(frames) \o uart
              /\ n = Len(typed) - Len(received) - Len(Hand(frames)) - Len(uart)
              /\ Elements(n) \in Seq(Nat)
              /\ Hand(frames) \in Seq(Nat)
  BY InputNow
<1>3. /\ typed \in Seq(Nat) /\ received \in Seq(Nat) /\ uart \in Seq(Nat)
      /\ buffer \in [0 .. Capacity - 1 -> Nat]
  BY DEF InputInv, TrapInv, Types
<1>4. x \in Nat
  BY <1>3, LenProperties
<1> HIDE DEF x
<1>5. TrapsFit(frames', stage') /\ OneServes(frames') /\ WaitersFit(blockedThreads, frames')
  BY <1>1, WhereNow
<1>6. Elements(n)' = Elements(n)
  BY <1>1 DEF Elements
<1>7. Buffered' = n
  <2>1. Len(Append(typed, x)) = Len(typed) + 1 /\ Len(Append(uart, x)) = Len(uart) + 1
    BY <1>3, <1>4, AppendProperties
  <2>2. Buffered' = (Len(typed) + 1) - Len(received) - Len(Hand(frames)) - (Len(uart) + 1)
    BY <1>1, <2>1, HandNow DEF Buffered
  <2>3. /\ Len(typed) \in Nat /\ Len(received) \in Nat /\ Len(Hand(frames)) \in Nat
        /\ Len(uart) \in Nat
    BY <1>2, <1>3, LenProperties
  <2> QED
    BY <1>2, <2>2, <2>3
<1>8. typed' = received' \o Elements(n)' \o Hand(frames') \o uart'
  <2>1. PICK b \in Seq(Nat) : b = received \o Elements(n) \o Hand(frames)
    BY <1>2, <1>3, TwoJoin
  <2>2. Append(b \o uart, x) = b \o Append(uart, x)
    BY <1>3, <1>4, ToConsole
  <2> QED
    BY <1>1, <1>2, <1>6, <2>1, <2>2
<1>9. /\ WaitersFit(blockedThreads', frames')
      /\ PlacesFit(ready', runningThread', blockedThreads', stage', outputWaits')
      /\ semaphoreValue' = semaphoreValue
  BY <1>1, <1>5, ListsStay
<1>10. tail' = (head' + n) % Capacity
  BY <1>1, <1>2
<1>11. /\ buffer' \in [0 .. Capacity - 1 -> Nat] /\ received' \in Seq(Nat)
       /\ IsFiniteSet(Within(frames', PastAWait))
       /\ \A s \in BufferSemaphores : semaphoreValue'[s] = Permits(s, n) - Used(frames', s)
  BY <1>1, <1>2, <1>3, <1>9 DEF InputInv
<1> QED
  BY <1>5, <1>7, <1>8, <1>9, <1>10, <1>11, InvFollows

-----------------------------------------------------------------------------
(* The order of the input                                                  *)

LEMMA InitHasPlaces ==
    ASSUME Init
    PROVE  PlacesFit(ready, runningThread, blockedThreads, stage, outputWaits)
<1>1. /\ Main # Idle /\ Output # Idle /\ UserMain # Idle /\ Main # UserMain /\ Main # Output
      /\ UserMain # Output /\ UserMain \in Threads /\ Output \in Threads
  BY FourAreDifferent
<1>2. \A s \in BufferSemaphores : blockedThreads[s] = << >>
  BY DEF Init, Construct
<1>3. ready = << UserMain, Output >> /\ runningThread = Main /\ outputWaits = FALSE
  BY DEF Init
<1>4. \A s \in BufferSemaphores : Range(blockedThreads[s]) = {} /\ IsInjective(blockedThreads[s])
  BY <1>2 DEF Range, IsInjective
<1>5. /\ DOMAIN ready = 1 .. 2 /\ ready[1] = UserMain /\ ready[2] = Output
  BY <1>3
<1>6. Range(ready) = {UserMain, Output}
  BY <1>5 DEF Range
<1>7. IsInjective(ready)
  BY <1>1, <1>5 DEF IsInjective
<1>8. \A t \in Threads : stage[t] = "new" => t \notin {Main, UserMain, Output, Idle}
  BY DEF Init
<1>9. ListsAreApart(blockedThreads) /\ Blocked(blockedThreads) = {}
  BY <1>4 DEF ListsAreApart, Blocked
<1> QED
  BY <1>1, <1>3, <1>6, <1>7, <1>8, <1>9 DEF PlacesFit

LEMMA InitHasInputInv == Init => InputInv
<1> SUFFICES ASSUME Init PROVE InputInv
  OBVIOUS
<1>1. TrapInv
  BY InitHasTrapInv
<1>2. \A t \in Threads : frames[t] = IF t = Main THEN << >> ELSE << StartFrame(t) >>
  BY DEF Init
<1>3. \A t \in Threads : /\ StartFrame(t).kind = "start" /\ StartFrame(t).phase = "restore"
                         /\ StartFrame(t).input = << >>
  BY DEF StartFrame
<1>4. \A t \in Threads : \A i \in 1 .. Len(frames[t]) :
         /\ frames[t][i].kind = "start" /\ frames[t][i].phase = "restore"
         /\ frames[t][i].input = << >>
  <2> SUFFICES ASSUME NEW t \in Threads, NEW i \in 1 .. Len(frames[t])
               PROVE  frames[t][i] = StartFrame(t)
    BY <1>3
  <2>1. t # Main
    <3>1. Len(<< >>) = 0 /\ 1 .. 0 = {}
      OBVIOUS
    <3> QED
      BY <1>2, <3>1
  <2>2. frames[t] = << StartFrame(t) >>
    BY <1>2, <2>1
  <2>3. Len(<< StartFrame(t) >>) = 1 /\ << StartFrame(t) >>[1] = StartFrame(t)
    OBVIOUS
  <2>4. i = 1
    BY <2>2, <2>3
  <2> QED
    BY <2>2, <2>3, <2>4
<1>5. TrapsFit(frames, stage) /\ OneServes(frames)
  BY <1>4 DEF TrapsFit, TrapFits, OneServes, Serving, PastInGetc, PastInConsole
<1>6. \A s \in BufferSemaphores : blockedThreads[s] = << >>
  BY DEF Init, Construct
<1>7. WaitersFit(blockedThreads, frames)
  BY <1>6 DEF WaitersFit, Range
<1>8. \A S \in SUBSET PastAWait : Within(frames, S) = {}
  BY <1>4 DEF Within, PastAWait, PastInGetc, PastInConsole
<1>9. /\ IsFiniteSet(Within(frames, PastAWait))
      /\ \A s \in BufferSemaphores : Used(frames, s) = 0
  <2>1. IsFiniteSet({}) /\ Cardinality({}) = 0
    BY FS_EmptySet
  <2>2. \A s \in BufferSemaphores : /\ Within(frames, UsedByGetc[s]) = {}
                                    /\ Within(frames, UsedByConsole[s]) = {}
    BY <1>8, UsesArePast
  <2>3. Within(frames, PastAWait) = {}
    BY <1>8
  <2> QED
    BY <2>1, <2>2, <2>3 DEF Used
<1>10. InHand = << >>
  BY <1>4, NoneHolds, HandNow
<1>11. /\ typed = << >> /\ received = << >> /\ uart = << >> /\ head = 0 /\ tail = 0
       /\ buffer = [i \in 0 .. Capacity - 1 |-> 0]
       /\ semaphoreValue = [s \in BufferSemaphores |->
                              CASE s = "spaceAvailable" -> Capacity
                                [] s = "itemAvailable"  -> 0
                                [] OTHER                -> 1]
  BY DEF Init, Construct
<1>12. Capacity \in Nat \ {0}
  BY KernelBufferAssumption DEF KernelBufferAssumption
<1>13. Buffered = 0
  <2>1. Len(<< >>) = 0 /\ 0 - 0 - 0 - 0 = 0
    OBVIOUS
  <2> QED
    BY <1>10, <1>11, <2>1 DEF Buffered
<1>14. Elements(0) = << >>
  <2>1. Elements(0) \in Seq(Nat) /\ Len(Elements(0)) = 0
    <3>1. buffer \in [0 .. Capacity - 1 -> Nat]
      BY <1>11
    <3>2. RingIsTyped /\ 0 \in 0 .. Capacity
      BY <1>11, <1>12, <3>1 DEF RingIsTyped
    <3> QED
      BY <3>2, ElementsAreNumbers
  <2> QED
    BY <2>1, EmptySeq
<1>15. InputIsInOrder
  <2>1. << >> \o << >> \o << >> \o << >> = << >>
    OBVIOUS
  <2>2. 0 % Capacity = 0
    BY <1>12, Wrapping
  <2>3. tail = (head + Buffered) % Capacity
    BY <1>11, <1>13, <2>2
  <2>4. typed = received \o Elements(Buffered) \o InHand \o uart
    BY <1>10, <1>11, <1>13, <1>14, <2>1
  <2>5. Buffered \in 0 .. Capacity
    BY <1>12, <1>13
  <2> QED
    BY <2>3, <2>4, <2>5 DEF InputIsInOrder
<1>16. PermitsAreRight
  <2> SUFFICES ASSUME NEW s \in BufferSemaphores
               PROVE  semaphoreValue[s] = Permits(s, Buffered) - Used(frames, s)
    BY <1>9 DEF PermitsAreRight
  <2>1. semaphoreValue[s] = Permits(s, 0) /\ Permits(s, 0) \in Int
    BY <1>11, <1>12 DEF Permits
  <2> QED
    BY <1>9, <1>13, <2>1
<1>18. buffer \in [0 .. Capacity - 1 -> Nat] /\ received \in Seq(Nat)
  BY <1>11
<1>19. PlacesFit(ready, runningThread, blockedThreads, stage, outputWaits)
  BY InitHasPlaces
<1> QED
  BY <1>1, <1>5, <1>7, <1>15, <1>16, <1>18, <1>19 DEF InputInv

\* A step in which nothing happens.
LEMMA StutterKeepsOrder ==
    ASSUME InputInv, TrapInv', UNCHANGED vars
    PROVE  InputInv'
<1>1. UNCHANGED << frames, stage, ready, runningThread, outputWaits, inputVars >>
  BY DEF vars, outputVars
<1> QED
  BY <1>1, WhereNow, FramesStay

LEMMA StepKeepsInputInv == InputInv /\ [Next]_vars => InputInv'
<1> SUFFICES ASSUME InputInv, [Next]_vars
             PROVE  InputInv'
  OBVIOUS
<1>1. TrapInv'
  BY StepKeepsTrapInv DEF InputInv
<1>2. CASE Ecall \/ Interrupt
  BY <1>1, <1>2, EntryKeepsOrder
<1>3. CASE Handle
  BY <1>1, <1>3, DispatchKeepsOrder, SleepKeepsOrder, TimerKeepsOrder, CreateKeepsOrder,
     SwitchModeKeepsOrder, PutcKeepsOrder, WaitKeepsOrder, SignalKeepsOrder, FetchKeepsOrder,
     StoreKeepsOrder, ConsoleReadsKeepsOrder, ConsoleCompletesKeepsOrder
     DEF Handle
<1>4. CASE Return
  <2>1. CASE Sret
    BY <1>1, <2>1, AstrayKeepsOrder, SretKeepsOrder
  <2> QED
    BY <1>1, <1>4, <2>1, RestoreKeepsOrder DEF Return
<1>5. CASE OutputRemoves \/ Type \/ InterruptInside
  BY <1>1, <1>5, OutputKeepsOrder, TypeKeepsOrder, InterruptInsideKeepsOrder
<1>6. CASE UNCHANGED vars
  BY <1>1, <1>6, StutterKeepsOrder
<1> QED
  BY <1>2, <1>3, <1>4, <1>5, <1>6 DEF Next

LEMMA InputInvHolds == Spec => []InputInv
BY InitHasInputInv, StepKeepsInputInv, PTL DEF Spec

\* For any number of threads, any capacity and any nesting, what is typed
\* reaches getc without loss, copy or change of order, whichever traps are
\* suspended or interrupted between two statements of the buffer; up to the
\* first interrupt inside a semaphore operation, where the model ends
\* (KernelBuffer.cpp:65-87, Riscv.cpp:256-268).
THEOREM InputStaysInOrder == Spec => []InputIsInOrder
<1>1. InputInv => InputIsInOrder
  BY DEF InputInv
<1> QED
  BY <1>1, InputInvHolds, PTL

\* Two threads past the wait of a mutex, and not in its list, are one.
LEMMA OneIsInside ==
    ASSUME InputInv, NEW s \in {"mutexHead", "mutexTail"},
           NEW A, A \in {UsedByGetc[s], UsedByConsole[s]}, PastWait[s] \in A,
           NEW t \in Inside(s, A), NEW u \in Inside(s, A)
    PROVE  t = u
<1>1. s \in BufferSemaphores
  BY DEF BufferSemaphores
<1>2. PICK n \in 0 .. Capacity : Buffered = n
  BY InputNow
<1>3. {t, u} \in SUBSET Within(frames, A)
  BY DEF Inside, Within
<1>4. {t, u} \cap Range(blockedThreads[s]) = {}
  <2>1. DOMAIN blockedThreads[s] = 1 .. Len(blockedThreads[s])
    BY <1>1, WhereNow
  <2> QED
    BY <2>1 DEF Inside, Range
<1>5. Cardinality({t, u}) <= 1
  <2>1. Cardinality({t, u}) <= Permits(s, n)
    BY <1>1, <1>2, <1>3, <1>4, NoMoreThanPermits
  <2> QED
    BY <2>1 DEF Permits
<1>6. CASE t # u
  <2>1. {t, u} = {t} \cup {u} /\ u \notin {t}
    BY <1>6
  <2>2. IsFiniteSet({t}) /\ Cardinality({t}) = 1
    BY FS_Singleton
  <2>3. Cardinality({t} \cup {u}) = Cardinality({t}) + 1
    BY <2>1, <2>2, FS_AddElement
  <2> QED
    BY <1>5, <2>1, <2>2, <2>3
<1> QED
  BY <1>6

\* For any number of threads and any nesting, one thread at a time is between
\* the wait and the signal of a mutex of the input buffer, although a trap
\* that was resumed with interrupts on is interrupted there
\* (KernelBuffer.cpp:67-72, 79-84).
THEOREM OneThreadInEachMutex == Spec => []MutexesExclude
<1>1. InputInv => MutexesExclude
  <2> SUFFICES ASSUME InputInv PROVE MutexesExclude
    OBVIOUS
  <2>1. UsedByGetc["mutexHead"] = {"fetch", "signalHead"} /\ PastWait["mutexHead"] = "fetch"
    BY DEF UsedByGetc, PastWait
  <2>2. UsedByConsole["mutexTail"] = {"store", "signalTail"} /\ PastWait["mutexTail"] = "store"
    BY DEF UsedByConsole, PastWait
  <2>3. \A t, u \in Inside("mutexHead", {"fetch", "signalHead"}) : t = u
    BY <2>1, OneIsInside
  <2>4. \A t, u \in Inside("mutexTail", {"store", "signalTail"}) : t = u
    BY <2>2, OneIsInside
  <2> QED
    BY <2>3, <2>4 DEF MutexesExclude
<1> QED
  BY <1>1, InputInvHolds, PTL

-----------------------------------------------------------------------------
(* The arguments of system calls                                           *)

Code(f) == AllCalls[f][1]
Arity(f) == AllCalls[f][2]

\* The fields a thread may have loaded: none, the first arguments, or all.
LoadedSets(f) == {1 .. k : k \in 0 .. Arity(f)} \cup {Fields(f)}

\* A thread inside a call.  Field 0 holds the code of its function as soon as
\* anyone stored it; the other fields are its own unless it was disturbed.
InACall(t) ==
    LET f == call[t][1]
        wanted == call[t][2]
    IN
    /\ f \in Functions
    /\ wanted \in [Fields(f) -> Nat] /\ wanted[0] = Code(f)
    /\ stored[t] \in 0 .. Arity(f) + 1
    /\ DOMAIN register[t] \in LoadedSets(f)
    /\ register[t] \in [DOMAIN register[t] -> Nat]
    /\ DOMAIN register[t] # {} => stored[t] = Arity(f) + 1
    /\ stored[t] > 0 => arguments[f][0] = Code(f)
    /\ 0 \in DOMAIN register[t] => register[t][0] = Code(f)
    /\ t \notin disturbed =>
          /\ \A i \in 0 .. stored[t] - 1 : arguments[f][i] = wanted[i]
          /\ \A i \in DOMAIN register[t] : register[t][i] = wanted[i]

CallInv ==
    /\ DOMAIN arguments = Functions
    /\ \A f \in Functions : arguments[f] \in [Fields(f) -> Nat]
    /\ DOMAIN call = Callers /\ DOMAIN stored = Callers /\ DOMAIN register = Callers
    /\ \A t \in Callers : call[t] = None => stored[t] = 0 /\ register[t] = << >>
    /\ \A t \in Callers : call[t] # None => InACall(t)
    /\ OnlyTheSameCallInterferes

\* Every function has a code and a number of arguments.
LEMMA CallTable ==
    ASSUME CallsAreKnown
    PROVE  \A f \in Functions : Code(f) \in Nat /\ Arity(f) \in Nat /\ 0 \in Fields(f)
<1> DEFINE OK(table) == \A f \in DOMAIN table : table[f][1] \in Nat /\ table[f][2] \in Nat
<1>1. OK(MemoryCalls)
  BY DEF MemoryCalls
<1>2. OK(ThreadCalls)
  BY DEF ThreadCalls
<1>3. OK(SemaphoreCalls)
  BY DEF SemaphoreCalls
<1>4. OK(OtherCalls)
  BY DEF OtherCalls
<1>5. OK(AllCalls)
  BY <1>1, <1>2, <1>3, <1>4 DEF AllCalls
<1> QED
  BY <1>5 DEF CallsAreKnown, Code, Arity, Fields

LEMMA InitCallInv == CallsInit => CallInv
<1> SUFFICES ASSUME CallsInit PROVE CallInv
  OBVIOUS
<1>1. \A f \in Functions : arguments[f] \in [Fields(f) -> Nat]
  BY DEF CallsInit
<1> QED
  BY <1>1 DEF CallsInit, CallInv, OnlyTheSameCallInterferes

\* A call begins: the thread has stored and loaded nothing.
LEMMA CallKeeps ==
    ASSUME CallsAreKnown, CallInv, NEW t \in Callers, NEW f \in Functions, Call(t, f)
    PROVE  CallInv'
<1>1. PICK given \in [Fields(f) \ {0} -> Values] :
         call' = [call EXCEPT ![t] =
                    << f, [i \in Fields(f) |-> IF i = 0 THEN Code(f) ELSE given[i]] >>]
  BY DEF Call, Code
<1>2. call[t] = None /\ UNCHANGED << arguments, stored, register, trapped, disturbed >>
  BY DEF Call
<1> DEFINE wanted == [i \in Fields(f) |-> IF i = 0 THEN Code(f) ELSE given[i]]
<1>3. wanted \in [Fields(f) -> Nat] /\ wanted[0] = Code(f)
  BY CallTable DEF CallsAreKnown
<1>4. call' = [call EXCEPT ![t] = << f, wanted >>]
  BY <1>1
<1>5. stored[t] = 0 /\ register[t] = << >>
  BY <1>2 DEF CallInv
<1> HIDE DEF wanted
<1>6. InACall(t)'
  <2>1. call'[t][1] = f /\ call'[t][2] = wanted
    BY <1>4 DEF CallInv
  <2>2. DOMAIN << >> = {} /\ {} \in LoadedSets(f)
    <3>1. 1 .. 0 \in LoadedSets(f) /\ 1 .. 0 = {}
      BY CallTable DEF LoadedSets
    <3> QED
      BY <3>1
  <2>3. << >> \in [{} -> Nat]
    OBVIOUS
  <2>4. 0 \in 0 .. Arity(f) + 1 /\ 0 .. 0 - 1 = {}
    BY CallTable
  <2> QED
    BY <1>2, <1>3, <1>5, <2>1, <2>2, <2>3, <2>4 DEF InACall
<1>7. ASSUME NEW u \in Callers, u # t, call'[u] # None PROVE InACall(u)'
  <2>1. call'[u] = call[u]
    BY <1>4, <1>7 DEF CallInv
  <2> QED
    BY <1>2, <1>7, <2>1 DEF CallInv, InACall
<1>8. \A u \in Callers : call'[u] = None => call[u] = None
  <2>1. call'[t] # None
    BY <1>4 DEF CallInv, None
  <2> QED
    BY <1>4, <2>1 DEF CallInv
<1> QED
  BY <1>2, <1>4, <1>6, <1>7, <1>8 DEF CallInv, OnlyTheSameCallInterferes

\* A store: the thread's own field is right, and the other threads in the
\* same function are disturbed.
LEMMA StoreKeeps ==
    ASSUME CallsAreKnown, CallInv, NEW t \in Callers, Store(t)
    PROVE  CallInv'
<1> DEFINE f == call[t][1]
           i == stored[t]
           wanted == call[t][2]
<1>1. /\ call[t] # None /\ i \in Fields(f)
      /\ arguments' = [arguments EXCEPT ![f][i] = wanted[i]]
      /\ stored' = [stored EXCEPT ![t] = i + 1]
      /\ disturbed' = disturbed \cup Sharing(t)
      /\ UNCHANGED << call, register, trapped >>
  BY DEF Store
<1>2. /\ f \in Functions /\ wanted \in [Fields(f) -> Nat] /\ wanted[0] = Code(f)
      /\ i \in 0 .. Arity(f) + 1
      /\ DOMAIN register[t] \in LoadedSets(f)
      /\ register[t] \in [DOMAIN register[t] -> Nat]
      /\ DOMAIN register[t] # {} => i = Arity(f) + 1
      /\ i > 0 => arguments[f][0] = Code(f)
      /\ t \notin disturbed => \A j \in 0 .. i - 1 : arguments[f][j] = wanted[j]
  BY <1>1 DEF CallInv, InACall
<1>3. Arity(f) \in Nat /\ Code(f) \in Nat /\ Fields(f) = 0 .. Arity(f)
  BY <1>2, CallTable DEF Arity, Fields
<1>4. /\ DOMAIN arguments = Functions /\ arguments[f] \in [Fields(f) -> Nat]
      /\ DOMAIN stored = Callers
  BY <1>2 DEF CallInv
<1> HIDE DEF f, i, wanted
<1>5. /\ DOMAIN arguments' = Functions
      /\ arguments'[f] = [arguments[f] EXCEPT ![i] = wanted[i]]
      /\ \A g \in Functions \ {f} : arguments'[g] = arguments[g]
  BY <1>1, <1>2, <1>4
<1>6. \A g \in Functions : arguments'[g] \in [Fields(g) -> Nat]
  <2>1. arguments'[f] \in [Fields(f) -> Nat]
    BY <1>1, <1>2, <1>4, <1>5
  <2> QED
    BY <1>5, <2>1 DEF CallInv
<1>7. arguments'[f][0] = Code(f)
  <2>1. 0 \in Fields(f) /\ (i = 0 \/ i > 0)
    BY <1>2, <1>3
  <2> QED
    BY <1>1, <1>2, <1>4, <1>5, <2>1
<1>8. InACall(t)'
  <2>1. call'[t][1] = f /\ call'[t][2] = wanted /\ stored'[t] = i + 1 /\ register'[t] = register[t]
    BY <1>1, <1>4 DEF f, wanted
  <2>2. i + 1 \in 0 .. Arity(f) + 1 /\ i # Arity(f) + 1
    BY <1>1, <1>3
  <2>3. DOMAIN register[t] = {}
    BY <1>2, <2>2
  <2>4. t \notin disturbed' => \A j \in 0 .. i + 1 - 1 : arguments'[f][j] = wanted[j]
    <3> SUFFICES ASSUME t \notin disturbed', NEW j \in 0 .. i + 1 - 1
                 PROVE  arguments'[f][j] = wanted[j]
      OBVIOUS
    <3>1. j \in Fields(f) /\ (j = i \/ j \in 0 .. i - 1)
      BY <1>1, <1>3
    <3>2. t \notin disturbed
      BY <1>1
    <3> QED
      BY <1>1, <1>2, <1>4, <1>5, <3>1, <3>2
  <2> QED
    BY <1>2, <1>7, <2>1, <2>2, <2>3, <2>4 DEF InACall
<1>9. ASSUME NEW u \in Callers, u # t, call[u] # None PROVE InACall(u)'
  <2> DEFINE g == call[u][1]
  <2>1. InACall(u) /\ g \in Functions
    BY <1>9 DEF CallInv, InACall
  <2>2. call'[u] = call[u] /\ stored'[u] = stored[u] /\ register'[u] = register[u]
    BY <1>1, <1>4, <1>9
  <2>3. CASE g = f
    <3>1. u \in disturbed'
      BY <1>1, <1>9, <2>3 DEF Sharing, f
    <3> QED
      BY <1>7, <2>1, <2>2, <2>3, <3>1 DEF InACall
  <2>4. CASE g # f
    <3>1. arguments'[g] = arguments[g]
      BY <1>5, <2>1, <2>4
    <3>2. u \notin disturbed' => u \notin disturbed
      BY <1>1
    <3> QED
      BY <2>1, <2>2, <3>1, <3>2 DEF InACall
  <2> QED
    BY <2>3, <2>4
<1>10. \A u \in Callers : call'[u] = None => stored'[u] = 0 /\ register'[u] = << >>
  BY <1>1, <1>4 DEF CallInv
<1>11. DOMAIN call' = Callers /\ DOMAIN stored' = Callers /\ DOMAIN register' = Callers
  BY <1>1, <1>4 DEF CallInv
<1>12. OnlyTheSameCallInterferes'
  BY <1>1 DEF CallInv, OnlyTheSameCallInterferes
<1> QED
  BY <1>1, <1>5, <1>6, <1>8, <1>9, <1>10, <1>11, <1>12 DEF CallInv

\* A load: the registers get the next argument, and the code at the end.
LEMMA LoadKeeps ==
    ASSUME CallsAreKnown, CallInv, NEW t \in Callers, Load(t)
    PROVE  CallInv'
<1> DEFINE f == call[t][1]
           wanted == call[t][2]
           loaded == DOMAIN register[t]
           i == LoadOrder(f)[Cardinality(loaded) + 1]
<1>1. /\ call[t] # None /\ stored[t] = Arity(f) + 1 /\ loaded # Fields(f)
      /\ register' = [register EXCEPT ![t] =
                        [j \in loaded \cup {i} |-> IF j = i THEN arguments[f][i] ELSE register[t][j]]]
      /\ UNCHANGED << arguments, call, stored, trapped, disturbed >>
  BY DEF Load, Arity, CallInv
<1>2. /\ f \in Functions
      /\ wanted \in [Fields(f) -> Nat] /\ wanted[0] = Code(f)
      /\ loaded \in LoadedSets(f)
      /\ register[t] \in [loaded -> Nat]
      /\ stored[t] > 0 => arguments[f][0] = Code(f)
      /\ 0 \in loaded => register[t][0] = Code(f)
      /\ t \notin disturbed =>
            /\ \A j \in 0 .. stored[t] - 1 : arguments[f][j] = wanted[j]
            /\ \A j \in loaded : register[t][j] = wanted[j]
  BY <1>1 DEF CallInv, InACall
<1>3. Arity(f) \in Nat /\ Fields(f) = 0 .. Arity(f)
  BY <1>2, CallTable DEF Arity, Fields
<1>4. i \in Fields(f) /\ loaded \cup {i} \in LoadedSets(f)
  <2>1. PICK k \in 0 .. Arity(f) : loaded = 1 .. k
    BY <1>1, <1>2 DEF LoadedSets
  <2>2. Cardinality(loaded) = k
    <3>1. Cardinality(1 .. k) = IF 1 > k THEN 0 ELSE k - 1 + 1
      <4>1. 1 \in Int /\ k \in Int
        BY <1>3
      <4> QED
        BY <4>1, FS_Interval
    <3> QED
      BY <1>3, <2>1, <3>1
  <2>3. i = IF k + 1 \in Fields(f) THEN k + 1 ELSE 0
    <3>1. k + 1 \in 1 .. Arity(f) + 1
      BY <1>3
    <3>2. LoadOrder(f)[k + 1] = IF k + 1 \in Fields(f) THEN k + 1 ELSE 0
      BY <3>1 DEF LoadOrder, Arity
    <3> QED
      BY <2>2, <3>2
  <2> HIDE DEF i, loaded
  <2>4. CASE k + 1 \in Fields(f)
    <3>1. loaded \cup {i} = 1 .. k + 1 /\ k + 1 \in 0 .. Arity(f)
      BY <1>3, <2>1, <2>3, <2>4
    <3> QED
      BY <2>3, <2>4, <3>1 DEF LoadedSets
  <2>5. CASE k + 1 \notin Fields(f)
    <3>1. loaded \cup {i} = Fields(f) /\ 0 \in Fields(f)
      BY <1>3, <2>1, <2>3, <2>5
    <3> QED
      BY <2>3, <2>5, <3>1 DEF LoadedSets
  <2> QED
    BY <2>4, <2>5
<1> DEFINE now == [j \in loaded \cup {i} |-> IF j = i THEN arguments[f][i] ELSE register[t][j]]
<1>5. register'[t] = now /\ \A u \in Callers \ {t} : register'[u] = register[u]
  BY <1>1 DEF CallInv
<1>6. DOMAIN register' = Callers
  BY <1>1 DEF CallInv
<1>7. arguments[f] \in [Fields(f) -> Nat] /\ stored[t] > 0 /\ 0 .. stored[t] - 1 = Fields(f)
  BY <1>1, <1>2, <1>3 DEF CallInv
<1> HIDE DEF f, wanted, loaded, i
<1>8. /\ DOMAIN now = loaded \cup {i} /\ now \in [loaded \cup {i} -> Nat]
      /\ 0 \in DOMAIN now => now[0] = Code(f)
      /\ t \notin disturbed => \A j \in DOMAIN now : now[j] = wanted[j]
  <2>1. DOMAIN now = loaded \cup {i}
    OBVIOUS
  <2>2. \A j \in loaded \cup {i} : now[j] \in Nat
    BY <1>2, <1>4, <1>7
  <2>3. 0 \in DOMAIN now => now[0] = Code(f)
    BY <1>2, <1>7
  <2>4. t \notin disturbed => \A j \in DOMAIN now : now[j] = wanted[j]
    BY <1>2, <1>4, <1>7
  <2> QED
    BY <2>1, <2>2, <2>3, <2>4
<1> HIDE DEF now
<1>9. InACall(t)'
  <2>1. call'[t][1] = f /\ call'[t][2] = wanted /\ stored'[t] = stored[t]
        /\ arguments' = arguments /\ disturbed' = disturbed /\ register'[t] = now
    BY <1>1, <1>5 DEF f, wanted
  <2>2. stored[t] \in 0 .. Arity(f) + 1 /\ stored[t] = Arity(f) + 1
    BY <1>1, <1>3
  <2> QED
    BY <1>2, <1>4, <1>7, <1>8, <2>1, <2>2 DEF InACall
<1>10. ASSUME NEW u \in Callers, u # t, call[u] # None PROVE InACall(u)'
  <2>1. InACall(u)
    BY <1>10 DEF CallInv
  <2>2. /\ call'[u] = call[u] /\ stored'[u] = stored[u] /\ register'[u] = register[u]
        /\ arguments' = arguments /\ disturbed' = disturbed
    BY <1>1, <1>5, <1>10 DEF CallInv
  <2> QED
    BY <2>1, <2>2 DEF InACall
<1>11. \A u \in Callers : call'[u] = None => stored'[u] = 0 /\ register'[u] = << >>
  BY <1>1, <1>5 DEF CallInv
<1>12. OnlyTheSameCallInterferes'
  BY <1>1 DEF CallInv, OnlyTheSameCallInterferes
<1> QED
  BY <1>1, <1>6, <1>9, <1>10, <1>11, <1>12 DEF CallInv

\* The trap: all the fields are in the registers.
LEMMA EcallKeeps ==
    ASSUME CallsAreKnown, CallInv, NEW t \in Callers, EnterTrap(t)
    PROVE  CallInv'
<1> DEFINE f == call[t][1]
           wanted == call[t][2]
<1>1. /\ call[t] # None /\ DOMAIN register[t] = Fields(f)
      /\ trapped' = << f, wanted, register[t], t \in disturbed >>
      /\ call' = [call EXCEPT ![t] = None]
      /\ stored' = [stored EXCEPT ![t] = 0]
      /\ register' = [register EXCEPT ![t] = << >>]
      /\ disturbed' = disturbed \ {t}
      /\ UNCHANGED arguments
  BY DEF EnterTrap
<1>2. /\ f \in Functions
      /\ wanted \in [Fields(f) -> Nat]
      /\ register[t] \in [Fields(f) -> Nat]
      /\ 0 \in Fields(f) => register[t][0] = Code(f)
      /\ t \notin disturbed => \A j \in Fields(f) : register[t][j] = wanted[j]
  BY <1>1 DEF CallInv, InACall
<1>3. OnlyTheSameCallInterferes'
  <2>1. register[t][0] = Code(f)
    BY <1>2, CallTable
  <2>2. t \notin disturbed => register[t] = wanted
    BY <1>2
  <2> QED
    BY <1>1, <2>1, <2>2 DEF OnlyTheSameCallInterferes, Code
<1>4. ASSUME NEW u \in Callers, call'[u] # None PROVE InACall(u)'
  <2>1. u # t
    BY <1>1, <1>4 DEF CallInv
  <2>2. call'[u] = call[u] /\ stored'[u] = stored[u] /\ register'[u] = register[u]
        /\ (u \in disturbed' <=> u \in disturbed)
    BY <1>1, <2>1 DEF CallInv
  <2> QED
    BY <1>1, <1>4, <2>2 DEF CallInv, InACall
<1>5. \A u \in Callers : call'[u] = None => stored'[u] = 0 /\ register'[u] = << >>
  BY <1>1 DEF CallInv
<1> QED
  BY <1>1, <1>3, <1>4, <1>5 DEF CallInv

\* Whatever the timer does between the stores and the loads, the trap serves
\* the function that was called, with the arguments that were given unless
\* another thread stored those of the same function meanwhile
\* (ABI_Interface.cpp:8-15).
THEOREM FunctionsDoNotInterfere ==
    ASSUME CallsAreKnown
    PROVE  CallsSpec => []OnlyTheSameCallInterferes
<1>1. CallInv /\ [CallsNext]_callVars => CallInv'
  <2> SUFFICES ASSUME CallInv, [CallsNext]_callVars PROVE CallInv'
    OBVIOUS
  <2>1. CASE CallsNext
    BY <2>1, CallKeeps, StoreKeeps, LoadKeeps, EcallKeeps DEF CallsNext
  <2>2. CASE UNCHANGED callVars
    BY <2>2 DEF callVars, CallInv, InACall, OnlyTheSameCallInterferes
  <2> QED
    BY <2>1, <2>2
<1>2. CallInv => OnlyTheSameCallInterferes
  BY DEF CallInv
<1> QED
  BY <1>1, <1>2, InitCallInv, PTL DEF CallsSpec
=============================================================================
