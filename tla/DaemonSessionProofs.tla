------------------------- MODULE DaemonSessionProofs -------------------------
(***************************************************************************)
(* Theorems about a session of the command daemon: its output and exit     *)
(* code, for any amount of output, and the queue of terminal input, for    *)
(* any buffer sizes.                                                       *)
(***************************************************************************)
EXTENDS DaemonSession, PtySession, TLAPS

(* Nothing that was printed is in the handler's pipes, and nobody prints. *)
AllSent == ~writing /\ \A f \in Fds : pipe[f] = 0

(* What is printed is in the pipe or was sent; only a running child        *)
(* prints, and only on the descriptors of its mode.                        *)
OutputCounted ==
  /\ \A f \in Fds : pipe[f] + got[f] = printed[f]
  /\ \A f \in Fds \ Outputs : printed[f] = 0
  /\ writing => child = "run"

(* The child is forked once, and killed only by a handler that then waits  *)
(* for it.                                                                 *)
ChildKnown ==
  /\ h \in {"accept", "request", "fork"} => child = "none"
  /\ child = "none" => h \in {"accept", "request", "fork", "gone"}
  /\ child = "none" => ~killed /\ holder = "none" /\ \A f \in Fds : printed[f] = 0
  /\ h \in {"killwait", "abort"} => killed
  /\ killed => h \in {"killwait", "abort", "end", "gone"}
  /\ h = "end" /\ client # "torn" => child = "reaped"
  /\ h = "gone" /\ client # "torn" => child \in {"none", "reaped"}

(* The exit code is the status of a child that was waited for. *)
CodeTrue ==
  /\ code # NoCode => child = "reaped" /\ code = status
  /\ child = "reaped" => code # NoCode \/ killed

(* A descriptor is closed at its end of file, when it is read empty and    *)
(* nobody can write to it any more.                                        *)
ClosedIsEmpty ==
  h \in {"mask", "wait", "batch"} =>
    /\ open \subseteq Outputs
    /\ \A f \in Outputs \ open : ~Writers /\ pipe[f] = 0

(* The loop is done when the child is reaped or all its output is read. *)
DoneMeans ==
  /\ h \in {"accept", "request", "fork", "mask", "wait"} => done = 0
  /\ h \in {"batch", "reap"} =>
       /\ done = 1 => mode = "pipe" /\ child = "reaped"
       /\ done = 2 => open = {} \/ (mode = "pty" /\ child = "reaped")
  /\ h = "reap" => AllSent
  /\ h \in {"end", "gone"} /\ child # "none" /\ ~killed /\ client # "torn" => AllSent
  /\ verdict # NoCode /\ child # "none" /\ ~killed => AllSent

(* What the client hears and returns. *)
VerdictTrue ==
  /\ verdict # NoCode \/ client = "back" => h = "gone"
  /\ (verdict # NoCode \/ client = "back") /\ child # "none" => child = "reaped"
  /\ verdict # NoCode /\ child # "none" /\ ~killed => verdict = status
  /\ h = "gone" /\ child # "none" /\ ~killed /\ client = "wait" => verdict # NoCode
  /\ client = "back" /\ child # "none" /\ ~killed => result = status

SessionInv ==
  /\ OutputCounted /\ ChildKnown /\ CodeTrue /\ ClosedIsEmpty /\ DoneMeans /\ VerdictTrue

-----------------------------------------------------------------------------
(***************************************************************************)
(* The steps, one lemma for each part of the invariant.                    *)
(***************************************************************************)
(* Every step keeps the types; a read never overfills what was sent. *)
LEMMA TypesKept == TypeOK /\ SessionInv /\ [Next]_vars => TypeOK'
<1> SUFFICES ASSUME TypeOK, SessionInv, [Next]_vars PROVE TypeOK'
  OBVIOUS
<1> USE SessionAssumption DEF TypeOK, SessionInv, OutputCounted, Fds, Outputs, Codes,
        handlerVars, childVars, clientVars, kind
<1>1. CASE UNCHANGED vars
  BY <1>1 DEF vars
<1>2. CASE HandlerNext
  <2>1. CASE Accept
    BY <2>1 DEF Accept, SendExit
  <2>2. CASE Request
    BY <2>2 DEF Request, SendExit
  <2>3. CASE Fork
    <3>1. writing' \in BOOLEAN
      BY <2>3 DEF Fork
    <3>2. CASE child' = "run" /\ open' = Outputs /\ verdict' = verdict /\ h' = "mask"
      BY <2>3, <3>1, <3>2 DEF Fork
    <3>3. CASE UNCHANGED <<child, open>> /\ SendExit(1) /\ h' = "gone"
      BY <2>3, <3>1, <3>3 DEF Fork, SendExit
    <3>q. QED BY <2>3, <3>2, <3>3 DEF Fork
  <2>4. CASE Mask
    <3>1. watched' \in BOOLEAN /\ killed' \in BOOLEAN
      BY <2>4 DEF Mask
    <3>q. QED BY <2>4, <3>1 DEF Mask
  <2>5. CASE Abort
    BY <2>5 DEF Abort, SendExit
  <2>6. CASE EpollWait
    <3>1. batch' \subseteq Fds \cup {"sfd", "conn"}
      BY <2>6 DEF EpollWait, Ready
    <3>q. QED BY <2>6, <3>1 DEF EpollWait
  <2>7. CASE OnSignal
    <3>1. pending' \in BOOLEAN
      BY <2>7 DEF OnSignal
    <3>2. code' \in Codes \cup {NoCode} /\ done' \in 0..2
      BY <2>7 DEF OnSignal
    <3>q. QED BY <2>7, <3>1, <3>2 DEF OnSignal
  <2>8. CASE OnHangup
    <3>1. killed' \in BOOLEAN
      BY <2>8 DEF OnHangup, KillChild
    <3>q. QED BY <2>8, <3>1 DEF OnHangup, KillChild
  <2>9. CASE KillWait
    BY <2>9 DEF KillWait
  <2>10. ASSUME NEW f \in Fds, OnOutput(f) PROVE TypeOK'
    <3>1. got[f] + pipe[f] \in 0..MaxOut
      <4>1. pipe[f] + got[f] = printed[f] /\ pipe[f] \in Nat /\ got[f] \in Nat
        OBVIOUS
      <4>q. QED BY <4>1
    <3>2. killed' \in BOOLEAN
      BY <2>10 DEF OnOutput, KillChild
    <3>3. got' \in [Fds -> 0..MaxOut] /\ pipe' \in [Fds -> 0..MaxOut]
      BY <2>10, <3>1 DEF OnOutput
    <3>4. open' \in {open, open \ {f}} /\ done' \in {done, 2}
      BY <2>10 DEF OnOutput
    <3>5. h' \in {h, "killwait"} /\ batch' \subseteq batch
      BY <2>10 DEF OnOutput, KillChild
    <3>q. QED BY <2>10, <3>2, <3>3, <3>4, <3>5 DEF OnOutput
  <2>11. CASE BatchEnd
    BY <2>11 DEF BatchEnd, Drained
  <2>12. CASE Reap
    BY <2>12 DEF Reap
  <2>13. CASE SessionEnd
    <3>1. watched' \in BOOLEAN /\ pending' \in BOOLEAN
      BY <2>13 DEF SessionEnd
    <3>2. verdict' \in Codes \cup {NoCode}
      BY <2>13 DEF SessionEnd, SendExit
    <3>q. QED BY <2>13, <3>1, <3>2 DEF SessionEnd
  <2>q. QED BY <1>2, <2>1, <2>2, <2>3, <2>4, <2>5, <2>6, <2>7, <2>8, <2>9, <2>10, <2>11,
         <2>12, <2>13 DEF HandlerNext
<1>3. CASE ChildNext
  <2>1. ASSUME NEW f \in Fds, Output(f) PROVE TypeOK'
    BY <2>1 DEF Output
  <2>2. CASE Spawn
    BY <2>2 DEF Spawn
  <2>3. CASE Release
    BY <2>3 DEF Release
  <2>4. CASE CloseOutput
    <3>1. writing' \in BOOLEAN
      BY <2>4 DEF CloseOutput
    <3>q. QED BY <2>4, <3>1 DEF CloseOutput
  <2>5. CASE Stopped
    BY <2>5 DEF Stopped
  <2>6. CASE Exit
    <3>1. writing' \in BOOLEAN /\ pending' \in BOOLEAN
      BY <2>6 DEF Exit
    <3>q. QED BY <2>6, <3>1 DEF Exit
  <2>q. QED BY <1>3, <2>1, <2>2, <2>3, <2>4, <2>5, <2>6 DEF ChildNext
<1>4. CASE ClientDies
  BY <1>4 DEF ClientDies
<1>5. CASE ClientReturn
  BY <1>5 DEF ClientReturn
<1>6. CASE ClientLeaves
  BY <1>6 DEF ClientLeaves
<1>q. QED
  BY <1>1, <1>2, <1>3, <1>4, <1>5, <1>6 DEF Next

(* No step loses or duplicates a unit of output: a read moves it from the *)
(* pipe to the client, the drain after the loop as well.                   *)
LEMMA OutputCountedKept == TypeOK /\ SessionInv /\ [Next]_vars => OutputCounted'
<1> SUFFICES ASSUME TypeOK, SessionInv, [Next]_vars PROVE OutputCounted'
  OBVIOUS
<1> USE SessionAssumption DEF TypeOK, SessionInv, OutputCounted, ChildKnown, Fds,
        Outputs, handlerVars, childVars, clientVars, kind
<1>1. CASE UNCHANGED vars
  BY <1>1 DEF vars
<1>2. CASE HandlerNext
  <2>1. CASE Accept
    BY <2>1 DEF Accept, SendExit
  <2>2. CASE Request
    BY <2>2 DEF Request, SendExit
  <2>3. CASE Fork
    BY <2>3 DEF Fork, SendExit
  <2>4. CASE Mask
    BY <2>4 DEF Mask
  <2>5. CASE Abort
    BY <2>5 DEF Abort, SendExit
  <2>6. CASE EpollWait
    BY <2>6 DEF EpollWait
  <2>7. CASE OnSignal
    BY <2>7 DEF OnSignal
  <2>8. CASE OnHangup
    BY <2>8 DEF OnHangup, KillChild
  <2>9. CASE KillWait
    BY <2>9 DEF KillWait
  <2>10. ASSUME NEW f \in Fds, OnOutput(f) PROVE OutputCounted'
    BY <2>10 DEF OnOutput, KillChild
  <2>11. CASE BatchEnd
    BY <2>11 DEF BatchEnd, Drained
  <2>12. CASE Reap
    BY <2>12 DEF Reap
  <2>13. CASE SessionEnd
    BY <2>13 DEF SessionEnd, SendExit
  <2>q. QED BY <1>2, <2>1, <2>2, <2>3, <2>4, <2>5, <2>6, <2>7, <2>8, <2>9, <2>10, <2>11,
         <2>12, <2>13 DEF HandlerNext
<1>3. CASE ChildNext
  <2>1. ASSUME NEW f \in Fds, Output(f) PROVE OutputCounted'
    BY <2>1 DEF Output
  <2>2. CASE Spawn
    BY <2>2 DEF Spawn
  <2>3. CASE Release
    BY <2>3 DEF Release
  <2>4. CASE CloseOutput
    BY <2>4 DEF CloseOutput
  <2>5. CASE Stopped
    BY <2>5 DEF Stopped
  <2>6. CASE Exit
    BY <2>6 DEF Exit
  <2>q. QED BY <1>3, <2>1, <2>2, <2>3, <2>4, <2>5, <2>6 DEF ChildNext
<1>4. CASE ClientDies
  BY <1>4 DEF ClientDies
<1>5. CASE ClientReturn
  BY <1>5 DEF ClientReturn
<1>6. CASE ClientLeaves
  BY <1>6 DEF ClientLeaves
<1>q. QED
  BY <1>1, <1>2, <1>3, <1>4, <1>5, <1>6 DEF Next

(* The handler leaves a child behind in no step: it waits for it before    *)
(* session_end, and also after it killed it.                               *)
LEMMA ChildKnownKept == TypeOK /\ SessionInv /\ [Next]_vars => ChildKnown'
<1> SUFFICES ASSUME TypeOK, SessionInv, [Next]_vars PROVE ChildKnown'
  OBVIOUS
<1> USE SessionAssumption DEF TypeOK, SessionInv, ChildKnown, CodeTrue, OutputCounted,
        Fds, Outputs, handlerVars, childVars, clientVars, kind
<1>1. CASE UNCHANGED vars
  BY <1>1 DEF vars
<1>2. CASE HandlerNext
  <2>1. CASE Accept
    BY <2>1 DEF Accept, SendExit
  <2>2. CASE Request
    BY <2>2 DEF Request, SendExit
  <2>3. CASE Fork
    BY <2>3 DEF Fork, SendExit
  <2>4. CASE Mask
    BY <2>4 DEF Mask
  <2>5. CASE Abort
    BY <2>5 DEF Abort, SendExit
  <2>6. CASE EpollWait
    BY <2>6 DEF EpollWait
  <2>7. CASE OnSignal
    BY <2>7 DEF OnSignal
  <2>8. CASE OnHangup
    BY <2>8 DEF OnHangup, KillChild
  <2>9. CASE KillWait
    BY <2>9 DEF KillWait
  <2>10. ASSUME NEW f \in Fds, OnOutput(f) PROVE ChildKnown'
    BY <2>10 DEF OnOutput, KillChild
  <2>11. CASE BatchEnd
    BY <2>11 DEF BatchEnd, Drained
  <2>12. CASE Reap
    BY <2>12 DEF Reap
  <2>13. CASE SessionEnd
    BY <2>13 DEF SessionEnd, SendExit
  <2>q. QED BY <1>2, <2>1, <2>2, <2>3, <2>4, <2>5, <2>6, <2>7, <2>8, <2>9, <2>10, <2>11,
         <2>12, <2>13 DEF HandlerNext
<1>3. CASE ChildNext
  <2>1. ASSUME NEW f \in Fds, Output(f) PROVE ChildKnown'
    BY <2>1 DEF Output
  <2>2. CASE Spawn
    BY <2>2 DEF Spawn
  <2>3. CASE Release
    BY <2>3 DEF Release
  <2>4. CASE CloseOutput
    BY <2>4 DEF CloseOutput
  <2>5. CASE Stopped
    BY <2>5 DEF Stopped
  <2>6. CASE Exit
    BY <2>6 DEF Exit
  <2>q. QED BY <1>3, <2>1, <2>2, <2>3, <2>4, <2>5, <2>6 DEF ChildNext
<1>4. CASE ClientDies
  BY <1>4 DEF ClientDies
<1>5. CASE ClientReturn
  BY <1>5 DEF ClientReturn
<1>6. CASE ClientLeaves
  BY <1>6 DEF ClientLeaves
<1>q. QED
  BY <1>1, <1>2, <1>3, <1>4, <1>5, <1>6 DEF Next

(* Only a wait for the child sets the exit code, once. *)
LEMMA CodeTrueKept == TypeOK /\ SessionInv /\ [Next]_vars => CodeTrue'
<1> SUFFICES ASSUME TypeOK, SessionInv, [Next]_vars PROVE CodeTrue'
  OBVIOUS
<1> USE SessionAssumption DEF TypeOK, SessionInv, CodeTrue, ChildKnown, Codes,
        handlerVars, childVars, clientVars, kind
<1>1. CASE UNCHANGED vars
  BY <1>1 DEF vars
<1>2. CASE HandlerNext
  <2>1. CASE Accept
    BY <2>1 DEF Accept, SendExit
  <2>2. CASE Request
    BY <2>2 DEF Request, SendExit
  <2>3. CASE Fork
    BY <2>3 DEF Fork, SendExit
  <2>4. CASE Mask
    BY <2>4 DEF Mask
  <2>5. CASE Abort
    BY <2>5 DEF Abort, SendExit
  <2>6. CASE EpollWait
    BY <2>6 DEF EpollWait
  <2>7. CASE OnSignal
    BY <2>7 DEF OnSignal
  <2>8. CASE OnHangup
    BY <2>8 DEF OnHangup, KillChild
  <2>9. CASE KillWait
    BY <2>9 DEF KillWait
  <2>10. ASSUME NEW f \in Fds, OnOutput(f) PROVE CodeTrue'
    BY <2>10 DEF OnOutput, KillChild
  <2>11. CASE BatchEnd
    BY <2>11 DEF BatchEnd, Drained
  <2>12. CASE Reap
    BY <2>12 DEF Reap
  <2>13. CASE SessionEnd
    BY <2>13 DEF SessionEnd, SendExit
  <2>q. QED BY <1>2, <2>1, <2>2, <2>3, <2>4, <2>5, <2>6, <2>7, <2>8, <2>9, <2>10, <2>11,
         <2>12, <2>13 DEF HandlerNext
<1>3. CASE ChildNext
  <2>1. ASSUME NEW f \in Fds, Output(f) PROVE CodeTrue'
    BY <2>1 DEF Output
  <2>2. CASE Spawn
    BY <2>2 DEF Spawn
  <2>3. CASE Release
    BY <2>3 DEF Release
  <2>4. CASE CloseOutput
    BY <2>4 DEF CloseOutput
  <2>5. CASE Stopped
    BY <2>5 DEF Stopped
  <2>6. CASE Exit
    BY <2>6 DEF Exit
  <2>q. QED BY <1>3, <2>1, <2>2, <2>3, <2>4, <2>5, <2>6 DEF ChildNext
<1>4. CASE ClientDies
  BY <1>4 DEF ClientDies
<1>5. CASE ClientReturn
  BY <1>5 DEF ClientReturn
<1>6. CASE ClientLeaves
  BY <1>6 DEF ClientLeaves
<1>q. QED
  BY <1>1, <1>2, <1>3, <1>4, <1>5, <1>6 DEF Next

(* A step closes an output descriptor only at its end of file, and a child *)
(* that has no writer any more never gets one again.                       *)
LEMMA ClosedIsEmptyKept == TypeOK /\ SessionInv /\ [Next]_vars => ClosedIsEmpty'
<1> SUFFICES ASSUME TypeOK, SessionInv, [Next]_vars PROVE ClosedIsEmpty'
  OBVIOUS
<1> USE SessionAssumption DEF TypeOK, SessionInv, OutputCounted, ChildKnown,
        ClosedIsEmpty, Writers, Fds, Outputs, handlerVars, childVars, clientVars, kind
<1>1. CASE UNCHANGED vars
  BY <1>1 DEF vars
<1>2. CASE HandlerNext
  <2>1. CASE Accept
    BY <2>1 DEF Accept, SendExit
  <2>2. CASE Request
    BY <2>2 DEF Request, SendExit
  <2>3. CASE Fork
    BY <2>3 DEF Fork, SendExit
  <2>4. CASE Mask
    BY <2>4 DEF Mask
  <2>5. CASE Abort
    BY <2>5 DEF Abort, SendExit
  <2>6. CASE EpollWait
    BY <2>6 DEF EpollWait
  <2>7. CASE OnSignal
    BY <2>7 DEF OnSignal
  <2>8. CASE OnHangup
    BY <2>8 DEF OnHangup, KillChild
  <2>9. CASE KillWait
    BY <2>9 DEF KillWait
  <2>10. ASSUME NEW f \in Fds, OnOutput(f) PROVE ClosedIsEmpty'
    <3>1. CASE pipe[f] > 0 /\ Away
      BY <2>10, <3>1 DEF OnOutput, KillChild
    <3>2. CASE ~(pipe[f] > 0 /\ Away)
      <4>1. /\ pipe' = [pipe EXCEPT ![f] = 0]
            /\ open' = (IF Writers THEN open ELSE open \ {f})
            /\ UNCHANGED <<mode, h, writing, holder>>
        BY <2>10, <3>2 DEF OnOutput
      <4>2. ASSUME NEW g \in Outputs \ open' PROVE ~Writers /\ pipe'[g] = 0
        <5>1. CASE g \in open
          BY <4>1, <4>2, <5>1
        <5>2. CASE g \notin open
          BY <2>10, <4>1, <4>2, <5>2 DEF OnOutput
        <5>q. QED BY <5>1, <5>2
      <4>3. open' \subseteq open /\ h = "batch"
        BY <2>10, <4>1 DEF OnOutput
      <4>q. QED BY <4>1, <4>2, <4>3
    <3>q. QED BY <3>1, <3>2
  <2>11. CASE BatchEnd
    BY <2>11 DEF BatchEnd, Drained
  <2>12. CASE Reap
    BY <2>12 DEF Reap
  <2>13. CASE SessionEnd
    BY <2>13 DEF SessionEnd, SendExit
  <2>q. QED BY <1>2, <2>1, <2>2, <2>3, <2>4, <2>5, <2>6, <2>7, <2>8, <2>9, <2>10, <2>11,
         <2>12, <2>13 DEF HandlerNext
<1>3. CASE ChildNext
  <2>1. ASSUME NEW f \in Fds, Output(f) PROVE ClosedIsEmpty'
    BY <2>1 DEF Output
  <2>2. CASE Spawn
    BY <2>2 DEF Spawn
  <2>3. CASE Release
    BY <2>3 DEF Release
  <2>4. CASE CloseOutput
    BY <2>4 DEF CloseOutput
  <2>5. CASE Stopped
    BY <2>5 DEF Stopped
  <2>6. CASE Exit
    BY <2>6 DEF Exit
  <2>q. QED BY <1>3, <2>1, <2>2, <2>3, <2>4, <2>5, <2>6 DEF ChildNext
<1>4. CASE ClientDies
  BY <1>4 DEF ClientDies
<1>5. CASE ClientReturn
  BY <1>5 DEF ClientReturn
<1>6. CASE ClientLeaves
  BY <1>6 DEF ClientLeaves
<1>q. QED
  BY <1>1, <1>2, <1>3, <1>4, <1>5, <1>6 DEF Next

(* The loop ends, on the signal or at the last end of file, in a state     *)
(* from which the drain leaves nothing in the pipes.                       *)
LEMMA DoneMeansKept == TypeOK /\ SessionInv /\ [Next]_vars => DoneMeans'
<1> SUFFICES ASSUME TypeOK, SessionInv, [Next]_vars PROVE DoneMeans'
  OBVIOUS
<1> USE SessionAssumption DEF TypeOK, SessionInv, OutputCounted, ChildKnown,
        ClosedIsEmpty, CodeTrue, DoneMeans, VerdictTrue, AllSent, Writers, Fds, Outputs, handlerVars,
        childVars, clientVars, kind
<1>1. CASE UNCHANGED vars
  BY <1>1 DEF vars
<1>2. CASE HandlerNext
  <2>1. CASE Accept
    BY <2>1 DEF Accept, SendExit
  <2>2. CASE Request
    BY <2>2 DEF Request, SendExit
  <2>3. CASE Fork
    <3>1. CASE h' = "mask"
      BY <2>3, <3>1 DEF Fork
    <3>2. CASE h' = "gone" /\ child' = "none"
      BY <2>3, <3>2 DEF Fork
    <3>q. QED BY <2>3, <3>1, <3>2 DEF Fork
  <2>4. CASE Mask
    BY <2>4 DEF Mask
  <2>5. CASE Abort
    BY <2>5 DEF Abort, SendExit
  <2>6. CASE EpollWait
    BY <2>6 DEF EpollWait
  <2>7. CASE OnSignal
    BY <2>7 DEF OnSignal
  <2>8. CASE OnHangup
    BY <2>8 DEF OnHangup, KillChild
  <2>9. CASE KillWait
    BY <2>9 DEF KillWait
  <2>10. ASSUME NEW f \in Fds, OnOutput(f) PROVE DoneMeans'
    <3>1. CASE pipe[f] > 0 /\ Away
      BY <2>10, <3>1 DEF OnOutput, KillChild
    <3>2. CASE ~(pipe[f] > 0 /\ Away)
      <4>1. /\ done' = (IF open' = {} THEN 2 ELSE done)
            /\ open' \subseteq open /\ h = "batch"
            /\ UNCHANGED <<mode, h, child, verdict>>
        BY <2>10, <3>2 DEF OnOutput
      <4>2. verdict' = NoCode
        BY <4>1
      <4>q. QED BY <4>1, <4>2
    <3>q. QED BY <3>1, <3>2
  <2>11. CASE BatchEnd
    <3>1. verdict' = NoCode
      BY <2>11 DEF BatchEnd
    <3>2. CASE done = 0
      BY <2>11, <3>1, <3>2 DEF BatchEnd
    <3>3. CASE done # 0
      <4>1. h' = "reap" /\ h = "batch" /\ UNCHANGED <<mode, open, done, child, writing, holder>>
        BY <2>11, <3>3 DEF BatchEnd
      <4>2. AllSent'
        BY <2>11, <3>3 DEF BatchEnd, Drained
      <4>q. QED BY <3>1, <3>3, <4>1, <4>2
    <3>q. QED BY <3>2, <3>3
  <2>12. CASE Reap
    BY <2>12 DEF Reap
  <2>13. CASE SessionEnd
    BY <2>13 DEF SessionEnd, SendExit
  <2>q. QED BY <1>2, <2>1, <2>2, <2>3, <2>4, <2>5, <2>6, <2>7, <2>8, <2>9, <2>10, <2>11,
         <2>12, <2>13 DEF HandlerNext
<1>3. CASE ChildNext
  <2>1. ASSUME NEW f \in Fds, Output(f) PROVE DoneMeans'
    BY <2>1 DEF Output
  <2>2. CASE Spawn
    BY <2>2 DEF Spawn
  <2>3. CASE Release
    BY <2>3 DEF Release
  <2>4. CASE CloseOutput
    BY <2>4 DEF CloseOutput
  <2>5. CASE Stopped
    BY <2>5 DEF Stopped
  <2>6. CASE Exit
    BY <2>6 DEF Exit
  <2>q. QED BY <1>3, <2>1, <2>2, <2>3, <2>4, <2>5, <2>6 DEF ChildNext
<1>4. CASE ClientDies
  BY <1>4 DEF ClientDies
<1>5. CASE ClientReturn
  BY <1>5 DEF ClientReturn
<1>6. CASE ClientLeaves
  BY <1>6 DEF ClientLeaves
<1>q. QED
  BY <1>1, <1>2, <1>3, <1>4, <1>5, <1>6 DEF Next

(* The exit code sent, and the one the client returns, stay the status. *)
LEMMA VerdictTrueKept == TypeOK /\ SessionInv /\ [Next]_vars => VerdictTrue'
<1> SUFFICES ASSUME TypeOK, SessionInv, [Next]_vars PROVE VerdictTrue'
  OBVIOUS
<1> USE SessionAssumption DEF TypeOK, SessionInv, ChildKnown, CodeTrue, VerdictTrue,
        Codes, handlerVars, childVars, clientVars, kind
<1>1. CASE UNCHANGED vars
  BY <1>1 DEF vars
<1>2. CASE HandlerNext
  <2>1. CASE Accept
    BY <2>1 DEF Accept, SendExit
  <2>2. CASE Request
    BY <2>2 DEF Request, SendExit
  <2>3. CASE Fork
    BY <2>3 DEF Fork, SendExit
  <2>4. CASE Mask
    BY <2>4 DEF Mask
  <2>5. CASE Abort
    BY <2>5 DEF Abort, SendExit
  <2>6. CASE EpollWait
    BY <2>6 DEF EpollWait
  <2>7. CASE OnSignal
    BY <2>7 DEF OnSignal
  <2>8. CASE OnHangup
    BY <2>8 DEF OnHangup, KillChild
  <2>9. CASE KillWait
    BY <2>9 DEF KillWait
  <2>10. ASSUME NEW f \in Fds, OnOutput(f) PROVE VerdictTrue'
    BY <2>10 DEF OnOutput, KillChild
  <2>11. CASE BatchEnd
    BY <2>11 DEF BatchEnd, Drained
  <2>12. CASE Reap
    BY <2>12 DEF Reap
  <2>13. CASE SessionEnd
    BY <2>13 DEF SessionEnd, SendExit
  <2>q. QED BY <1>2, <2>1, <2>2, <2>3, <2>4, <2>5, <2>6, <2>7, <2>8, <2>9, <2>10, <2>11,
         <2>12, <2>13 DEF HandlerNext
<1>3. CASE ChildNext
  <2>1. ASSUME NEW f \in Fds, Output(f) PROVE VerdictTrue'
    BY <2>1 DEF Output
  <2>2. CASE Spawn
    BY <2>2 DEF Spawn
  <2>3. CASE Release
    BY <2>3 DEF Release
  <2>4. CASE CloseOutput
    BY <2>4 DEF CloseOutput
  <2>5. CASE Stopped
    BY <2>5 DEF Stopped
  <2>6. CASE Exit
    BY <2>6 DEF Exit
  <2>q. QED BY <1>3, <2>1, <2>2, <2>3, <2>4, <2>5, <2>6 DEF ChildNext
<1>4. CASE ClientDies
  BY <1>4 DEF ClientDies
<1>5. CASE ClientReturn
  BY <1>5 DEF ClientReturn
<1>6. CASE ClientLeaves
  BY <1>6 DEF ClientLeaves
<1>q. QED
  BY <1>1, <1>2, <1>3, <1>4, <1>5, <1>6 DEF Next

-----------------------------------------------------------------------------
(* The invariant of a session, in every reachable state. *)
THEOREM SessionInvariant == Spec => [](TypeOK /\ SessionInv)
<1>1. Init => TypeOK /\ SessionInv
  <2> SUFFICES ASSUME Init PROVE TypeOK /\ SessionInv
    OBVIOUS
  <2> USE SessionAssumption DEF Init, Fds
  <2>1. TypeOK
    <3>1. /\ watched \in BOOLEAN /\ pending \in BOOLEAN
          /\ writing \in BOOLEAN /\ killed \in BOOLEAN
      OBVIOUS
    <3>2. \A f \in Fds : printed[f] = 0 /\ pipe[f] = 0 /\ got[f] = 0
      OBVIOUS
    <3>3. /\ printed \in [Fds -> 0..MaxOut] /\ pipe \in [Fds -> 0..MaxOut]
          /\ got \in [Fds -> 0..MaxOut]
      BY <3>2
    <3>q. QED BY <3>1, <3>3 DEF TypeOK, Codes
  <2>2. OutputCounted /\ ChildKnown /\ CodeTrue
    BY DEF OutputCounted, ChildKnown, CodeTrue
  <2>3. ClosedIsEmpty /\ DoneMeans /\ VerdictTrue
    BY DEF ClosedIsEmpty, DoneMeans, VerdictTrue
  <2>q. QED BY <2>1, <2>2, <2>3 DEF SessionInv
<1>2. TypeOK /\ SessionInv /\ [Next]_vars => (TypeOK /\ SessionInv)'
  <2> SUFFICES ASSUME TypeOK, SessionInv, [Next]_vars PROVE TypeOK' /\ SessionInv'
    OBVIOUS
  <2>q. QED
    BY TypesKept, OutputCountedKept, ChildKnownKept, CodeTrueKept, ClosedIsEmptyKept,
       DoneMeansKept, VerdictTrueKept DEF SessionInv
<1>q. QED
  BY <1>1, <1>2, PTL DEF Spec

(* What the client is told is right and complete, for any amount of output *)
(* and whatever the batches of epoll_wait bring together: a client that    *)
(* stays until MSG_EXIT returns the command's own exit status, after the   *)
(* command has exited, and the status follows everything the command       *)
(* printed, even while a descendant holds the pipes open.  One that leaves *)
(* before (daemon.c:1290-1296) is not told it.                             *)
THEOREM RelayCorrect == Spec => []RelayInv
<1>1. TypeOK /\ SessionInv => RelayInv
  <2> SUFFICES ASSUME TypeOK, SessionInv PROVE RelayInv
    OBVIOUS
  <2>1. StatusRelayed
    BY DEF SessionInv, ChildKnown, VerdictTrue, StatusRelayed
  <2>2. OutputBeforeStatus
    <3> SUFFICES ASSUME verdict # NoCode, child # "none", ~killed, NEW f \in Fds
                 PROVE  got[f] = printed[f]
      BY DEF OutputBeforeStatus
    <3>1. pipe[f] = 0
      BY DEF SessionInv, VerdictTrue, DoneMeans, AllSent
    <3>2. pipe[f] + got[f] = printed[f] /\ got[f] \in Nat
      BY SessionAssumption DEF SessionInv, OutputCounted, TypeOK
    <3>q. QED BY <3>1, <3>2
  <2>q. QED BY <2>1, <2>2 DEF RelayInv
<1>q. QED
  BY <1>1, SessionInvariant, PTL

(* A handler never exits before its child: whichever way a session ends,   *)
(* refused, aborted for want of an epoll descriptor, hung up by the client *)
(* or finished, no command runs on without its handler; but for a session  *)
(* that ends in the middle of an unknown frame (daemon.c:579-586).         *)
THEOREM NoOrphansLeft == Spec => []NoOrphan
<1>1. SessionInv => NoOrphan
  BY DEF SessionInv, ChildKnown, NoOrphan
<1>q. QED
  BY <1>1, SessionInvariant, PTL

-----------------------------------------------------------------------------
(***************************************************************************)
(* The queue of an interactive session (PtySession), for every frame size, *)
(* buffer size and pair of water marks that leaves room for one frame      *)
(* above the high mark (PtyAssumption).                                    *)
(***************************************************************************)

(* What holds between the queue and its water marks in every state: while  *)
(* the client is read the queue is below the high mark.  This is what is   *)
(* missing from NeverWedged and LostOnlyWithoutMemory to be inductive.     *)
BelowHigh == conn = "read" => wlen < High

QueueInv == /\ PtyTypeOK /\ wlen <= wcap /\ BelowHigh
            /\ NeverWedged /\ LostOnlyWithoutMemory /\ InputAccounted

(* The client and the child do not touch the queue. *)
LEMMA TerminalStep ==
  ASSUME QueueInv, PtyClientNext \/ PtyChildNext
  PROVE  QueueInv'
<1> USE PtyAssumption DEF PtyAssumption, QueueInv, PtyTypeOK, BelowHigh, NeverWedged,
        LostOnlyWithoutMemory, InputAccounted, ptyQueueVars, ptyClientVars, ptyChildVars
<1>1. ASSUME NEW n \in 1..Frame, ClientRead(n) PROVE QueueInv'
  BY <1>1 DEF ClientRead
<1>2. CASE ClientSend
  BY <1>2 DEF ClientSend
<1>3. CASE ClientRecv
  BY <1>3 DEF ClientRecv
<1>4. CASE ChildRead
  BY <1>4 DEF ChildRead
<1>5. ASSUME NEW n \in 1..Talk, ChildPrint(n) PROVE QueueInv'
  BY <1>5 DEF ChildPrint
<1>6. CASE ChildWrite
  BY <1>6 DEF ChildWrite, Least
<1> QED BY <1>1, <1>2, <1>3, <1>4, <1>5, <1>6 DEF PtyClientNext, PtyChildNext

(* A frame that arrives while the client is read always finds room, unless *)
(* realloc fails.                                                          *)
LEMMA QueueStep ==
  ASSUME QueueInv, NEW rem \in 0..Frame, conn = "read", Queue(rem)
  PROVE  /\ wlen' \in 0..WbufMax /\ wcap' \in 0..WbufMax /\ wlen' <= wcap'
         /\ master' \in {"in", "inout"} /\ conn' \in {"read", "suspended"}
         /\ memory' \in {"ok", "short"}
         /\ lost' \in Nat /\ (conn' = "read" => wlen' < High)
         /\ (master' = "inout" <=> wlen' > 0) /\ (conn' = "suspended" => wlen' >= Low)
         /\ (lost' > 0 => memory' = "short") /\ wlen' + lost' = wlen + lost + rem
<1> USE PtyAssumption DEF PtyAssumption, QueueInv, PtyTypeOK, BelowHigh, NeverWedged,
        LostOnlyWithoutMemory, ptyQueueVars
<1>0. wlen + rem <= WbufMax
  OBVIOUS
<1>1. CASE rem = 0 /\ UNCHANGED ptyQueueVars
  BY <1>1
<1>2. CASE rem > 0 /\ wlen + rem <= wcap /\ Enqueue(rem) /\ UNCHANGED <<wcap, memory>>
  BY <1>0, <1>2 DEF Enqueue
<1>3. ASSUME rem > 0, NEW c \in 0..WbufMax, Grown(wlen + rem, c), wcap' = c,
             Enqueue(rem), UNCHANGED memory
      PROVE  /\ wlen' = wlen + rem /\ wlen' <= wcap' /\ master' = "inout" /\ lost' = lost
             /\ conn' = (IF wlen' >= High THEN "suspended" ELSE conn)
  BY <1>0, <1>3 DEF Enqueue, Grown, Sizes
<1>4. CASE rem > 0 /\ memory' = "short" /\ Drop(rem) /\ UNCHANGED wcap
  BY <1>4 DEF Drop
<1>5. CASE \E c \in 0..WbufMax : /\ rem > 0 /\ Grown(wlen + rem, c) /\ wcap' = c
                                /\ Enqueue(rem) /\ UNCHANGED memory
  BY <1>0, <1>3, <1>5
<1> QED BY <1>0, <1>1, <1>2, <1>4, <1>5 DEF Queue

(* Every event of the handler's loop keeps the queue and its water marks in *)
(* accord and every byte in one place.                                     *)
LEMMA HandlerStep ==
  ASSUME QueueInv, PtyHandlerNext
  PROVE  QueueInv'
<1> USE PtyAssumption
<1>1. ASSUME NEW n \in 1..Frame, HandlerRecv(n) PROVE QueueInv'
  <2>1. PICK w \in 0..n : /\ tty + w <= TtyCap /\ tty' = tty + w /\ Queue(n - w)
    BY <1>1 DEF HandlerRecv
  <2>2. n - w \in 0..Frame /\ conn = "read"
    BY <1>1, <2>1 DEF PtyAssumption, HandlerRecv
  <2>3. /\ wlen' \in 0..WbufMax /\ wcap' \in 0..WbufMax /\ wlen' <= wcap'
        /\ master' \in {"in", "inout"} /\ conn' \in {"read", "suspended"}
         /\ memory' \in {"ok", "short"}
        /\ lost' \in Nat /\ (conn' = "read" => wlen' < High)
        /\ (master' = "inout" <=> wlen' > 0) /\ (conn' = "suspended" => wlen' >= Low)
        /\ (lost' > 0 => memory' = "short") /\ wlen' + lost' = wlen + lost + (n - w)
    BY <2>1, <2>2, QueueStep
  <2>4. /\ typed' = typed /\ cpend' = cpend /\ up' = up - n /\ eaten' = eaten
        /\ n <= up /\ typed + cpend + up + wlen + tty + eaten + lost = Typed
    BY <1>1 DEF HandlerRecv, QueueInv, InputAccounted, ptyClientVars, ptyChildVars
  <2>5. /\ typed \in Nat /\ cpend \in Nat /\ up \in Nat /\ wlen \in Nat /\ tty \in Nat
        /\ eaten \in Nat /\ lost \in Nat
    BY DEF PtyAssumption, QueueInv, PtyTypeOK
  <2>6. n \in Nat /\ w \in Nat
    BY <2>1 DEF PtyAssumption
  <2>7. wlen' \in Nat /\ lost' \in Nat /\ wlen' + lost' = wlen + lost + (n - w)
    BY <2>3 DEF PtyAssumption
  <2>8. ASSUME NEW l \in Nat, NEW o \in Nat, l + o = wlen + lost + (n - w)
         PROVE  /\ typed + cpend + (up - n) + l + (tty + w) + eaten + o = Typed
                /\ o \in 0..Typed
    BY <2>4, <2>5, <2>6, <2>8
  <2>9. /\ typed + cpend + (up - n) + wlen' + (tty + w) + eaten + lost' = Typed
         /\ lost' \in 0..Typed
    BY <2>7, <2>8, Zenon
  <2>10. InputAccounted'
    BY <2>1, <2>4, <2>9 DEF InputAccounted
  <2>11. /\ typed' \in 0..Typed /\ cpend' \in 0..Frame /\ up' \in 0..SockCap
        /\ down' \in 0..SockCap /\ hpend' \in 0..Frame /\ tty' \in 0..TtyCap
        /\ out' \in 0..TtyCap /\ talk' \in 0..Talk /\ wpend' \in 0..Talk
        /\ eaten' \in 0..Typed
    BY <1>1, <2>1 DEF PtyAssumption, HandlerRecv, QueueInv, PtyTypeOK,
       ptyClientVars, ptyChildVars
  <2>12. PtyTypeOK'
    BY <2>3, <2>11, <2>9 DEF PtyTypeOK
  <2> QED BY <2>3, <2>10, <2>12 DEF QueueInv, BelowHigh, NeverWedged,
     LostOnlyWithoutMemory
<1>2. CASE HandlerFlush
  <2>1. PICK k \in Nat : /\ k <= wlen /\ k <= TtyCap - tty
                         /\ wlen' = wlen - k /\ tty' = tty + k
    BY <1>2 DEF PtyAssumption, HandlerFlush, Least, QueueInv, PtyTypeOK
  <2> QED BY <1>2, <2>1 DEF PtyAssumption, HandlerFlush, QueueInv, PtyTypeOK,
     BelowHigh, NeverWedged,
     LostOnlyWithoutMemory, InputAccounted, ptyClientVars, ptyChildVars
<1>3. ASSUME NEW n \in 1..Frame, HandlerRead(n) PROVE QueueInv'
  BY <1>3 DEF PtyAssumption, HandlerRead, QueueInv, PtyTypeOK, BelowHigh,
     NeverWedged, LostOnlyWithoutMemory, InputAccounted, ptyClientVars, ptyQueueVars, ptyChildVars
<1>4. CASE HandlerSend
  BY <1>4 DEF PtyAssumption, HandlerSend, QueueInv, PtyTypeOK, BelowHigh,
     NeverWedged, LostOnlyWithoutMemory, InputAccounted, ptyClientVars, ptyQueueVars, ptyChildVars
<1> QED BY <1>1, <1>2, <1>3, <1>4 DEF PtyHandlerNext

(***************************************************************************)
(* For every choice of the buffer sizes: pty_wbuf never overflows, the     *)
(* backpressure never wedges, input is dropped only when realloc failed,   *)
(* and every byte typed is accounted for.                                  *)
(***************************************************************************)
THEOREM QueueCorrect ==
  PtySpec => [](/\ PtyTypeOK /\ NeverWedged
                /\ LostOnlyWithoutMemory /\ InputAccounted)
<1>1. PtyInit => QueueInv
  BY PtyAssumption DEF PtyAssumption, PtyInit, QueueInv, PtyTypeOK, BelowHigh, NeverWedged,
     LostOnlyWithoutMemory, InputAccounted
<1>2. QueueInv /\ [PtyNext]_ptyVars => QueueInv'
  <2> SUFFICES ASSUME QueueInv, [PtyNext]_ptyVars PROVE QueueInv'
    OBVIOUS
  <2>1. CASE PtyNext
    BY <2>1, TerminalStep, HandlerStep DEF PtyNext
  <2>2. CASE UNCHANGED ptyVars
    BY <2>2 DEF ptyVars, QueueInv, PtyTypeOK, BelowHigh, NeverWedged,
       LostOnlyWithoutMemory, InputAccounted, ptyClientVars, ptyQueueVars, ptyChildVars
  <2> QED BY <2>1, <2>2
<1>3. QueueInv => PtyTypeOK /\ NeverWedged /\ LostOnlyWithoutMemory /\ InputAccounted
  BY DEF QueueInv
<1> QED BY <1>1, <1>2, <1>3, PTL DEF PtySpec

(***************************************************************************)
(* "no data lost, client stalls" (daemon.c:569), for every choice of the   *)
(* buffer sizes: every byte typed is in one place on its way to the child, *)
(* within the buffer there, or was dropped because realloc failed.         *)
(***************************************************************************)
THEOREM InputNeverLost == PtySpec => []InputKept
<1>1. PtyTypeOK /\ NeverWedged /\ LostOnlyWithoutMemory /\ InputAccounted => InputKept
  BY DEF InputKept
<1> QED BY <1>1, QueueCorrect, PTL
=============================================================================
