-------------------------- MODULE FreonLockProofs --------------------------
(***************************************************************************)
(* Theorems about the display lock, for any set of X servers, any crashes  *)
(* and any failing calls.                                                  *)
(***************************************************************************)
EXTENDS FreonLock, TLAPS

\* A server past flock() - in a later step of a claim, in a release, or told
\* that the display is its own - holds the lock, and holds it alone.  This is
\* what a failing flock() breaks: it leaves lockfd open without the lock, and
\* the next claim goes straight to the write.
LockHeld ==
    /\ \A s \in holder : holder = {s}
    /\ \A s \in lockfd : pc[s] # "flock" => s \in holder
    /\ \A s \in Servers :
           pc[s] \in {"flock", "write", "drop", "take", "clear"} => s \in lockfd
    /\ \A s \in Servers : pc[s] = "flock" => s \notin using
    /\ using \subseteq lockfd

\* What the holder has done to the file and to Chromium OS so far; the latter as
\* far as its dbus-send went through.
HolderState ==
    /\ \A s \in Servers : pc[s] \in {"take", "clear"} => s \notin using
    /\ \A s \in using : pc[s] \in {"idle", "write", "drop"}
    /\ \A s \in using : file = {s}
    /\ \A s \in Servers : pc[s] = "drop" => file = {s}
    /\ chromeOwns => using \subseteq unheard

\* Without Chromium OS the display has a user, or one that is giving it back.
SomebodyDrives ==
    \/ faults \cap {"write", "dbus", "crash"} # {}
    \/ chromeOwns
    \/ using # {}
    \/ \E s \in Servers : pc[s] = "take"

\* The inductive invariant: who holds the lock follows from where each server is,
\* and a display that Chromium OS has dropped is somebody's (freon.c:72-214).
FreonInv ==
    /\ FreonTypeOK
    /\ "flock" \in faults \/ (LockHeld /\ HolderState)
    /\ SomebodyDrives

----------------------------------------------------------------------------
\* The initial state satisfies the inductive invariant.
LEMMA FreonInitInv == Init => FreonInv
BY FreonAssumption
   DEF Init, FreonInv, FreonTypeOK, LockHeld, HolderState, SomebodyDrives,
       Steps, Faults, Ttys

\* The part of the invariant about the lock, as long as no flock() has failed.
LockInv == LockHeld /\ HolderState

\* Every step of a server keeps the types.
LEMMA FreonStepType ==
    ASSUME FreonTypeOK, NEW s \in Servers, Step(s)
    PROVE  FreonTypeOK'
<1> USE FreonAssumption DEF FreonTypeOK, Steps, Faults, Goto, Fault, Yields
<1>0. CASE \E t \in Ttys : OpenTty(s, t) \/ CloseTty(s, t)
  <2>1. PICK t \in Ttys : OpenTty(s, t) \/ CloseTty(s, t)
        BY <1>0
  <2>2. ttys' \in [Servers -> SUBSET Ttys]
    <3>1. CASE OpenTty(s, t)
          BY <3>1 DEF OpenTty
    <3>2. CASE CloseTty(s, t)
          BY <3>2 DEF CloseTty
    <3> QED BY <2>1, <3>1, <3>2
  <2> QED BY <2>1, <2>2 DEF OpenTty, CloseTty
<1>1. CASE Claim(s)
      BY <1>1 DEF Claim
<1>2. CASE Flock(s)
      BY <1>2 DEF Flock
<1>3. CASE FlockFails(s)
      BY <1>3 DEF FlockFails
<1>4. CASE WritePid(s)
      BY <1>4 DEF WritePid
<1>5. CASE WritePidFails(s)
      BY <1>5 DEF WritePidFails
<1>6. CASE DropChrome(s)
      BY <1>6 DEF DropChrome
<1>7. CASE DropChromeFails(s)
      BY <1>7 DEF DropChromeFails
<1>8. CASE Release(s)
      BY <1>8 DEF Release
<1>9. CASE TakeChrome(s)
      BY <1>9 DEF TakeChrome
<1>10. CASE TakeChromeFails(s)
      BY <1>10 DEF TakeChromeFails
<1>11. CASE ClearAndClose(s)
      BY <1>11 DEF ClearAndClose
<1>12. CASE ClearFails(s)
      BY <1>12 DEF ClearFails
<1>13. CASE Crash(s)
      BY <1>13 DEF Crash
<1> QED BY <1>0, <1>1, <1>2, <1>3, <1>4, <1>5, <1>6, <1>7, <1>8, <1>9, <1>10, <1>11, <1>12, <1>13 DEF Step

\* Every step of a server leaves the display with somebody.
LEMMA FreonStepDrives ==
    ASSUME FreonTypeOK, SomebodyDrives, NEW s \in Servers, Step(s)
    PROVE  SomebodyDrives'
<1> USE DEF FreonTypeOK, SomebodyDrives, Goto, Fault, Yields
<1>0. CASE \E t \in Ttys : OpenTty(s, t) \/ CloseTty(s, t)
      BY <1>0 DEF OpenTty, CloseTty
<1>1. CASE Claim(s)
      BY <1>1 DEF Claim
<1>2. CASE Flock(s)
      BY <1>2 DEF Flock
<1>3. CASE FlockFails(s)
      BY <1>3 DEF FlockFails
<1>4. CASE WritePid(s)
      BY <1>4 DEF WritePid
<1>5. CASE WritePidFails(s)
      BY <1>5 DEF WritePidFails
<1>6. CASE DropChrome(s)
      BY <1>6 DEF DropChrome
<1>7. CASE DropChromeFails(s)
      BY <1>7 DEF DropChromeFails
<1>8. CASE Release(s)
      BY <1>8 DEF Release
<1>9. CASE TakeChrome(s)
      BY <1>9 DEF TakeChrome
<1>10. CASE TakeChromeFails(s)
      BY <1>10 DEF TakeChromeFails
<1>11. CASE ClearAndClose(s)
      BY <1>11 DEF ClearAndClose
<1>12. CASE ClearFails(s)
      BY <1>12 DEF ClearFails
<1>13. CASE Crash(s)
      BY <1>13 DEF Crash
<1> QED BY <1>0, <1>1, <1>2, <1>3, <1>4, <1>5, <1>6, <1>7, <1>8, <1>9, <1>10, <1>11, <1>12, <1>13 DEF Step

\* Every step of a server but a failing flock() keeps the holder of the lock
\* alone: only the holder is past flock(), and nobody else writes or claims.
LEMMA FreonStepLockHeld ==
    ASSUME FreonTypeOK, LockInv, NEW s \in Servers, Step(s), ~FlockFails(s)
    PROVE  LockHeld'
<1> USE DEF FreonTypeOK, LockInv, LockHeld, HolderState, Goto, Yields
<1>0. CASE \E t \in Ttys : OpenTty(s, t) \/ CloseTty(s, t)
      BY <1>0 DEF OpenTty, CloseTty
<1>1. CASE Claim(s)
      BY <1>1 DEF Claim
<1>2. CASE Flock(s)
      BY <1>2 DEF Flock
<1>3. CASE WritePid(s)
      BY <1>3 DEF WritePid
<1>4. CASE WritePidFails(s)
      BY <1>4 DEF WritePidFails
<1>5. CASE DropChrome(s)
      BY <1>5 DEF DropChrome
<1>6. CASE DropChromeFails(s)
      BY <1>6 DEF DropChromeFails
<1>7. CASE Release(s)
      BY <1>7 DEF Release
<1>8. CASE TakeChrome(s)
      BY <1>8 DEF TakeChrome
<1>9. CASE TakeChromeFails(s)
      BY <1>9 DEF TakeChromeFails
<1>10. CASE ClearAndClose(s)
      BY <1>10 DEF ClearAndClose
<1>11. CASE ClearFails(s)
      BY <1>11 DEF ClearFails
<1>12. CASE Crash(s)
      BY <1>12 DEF Crash
<1> QED BY <1>0, <1>1, <1>2, <1>3, <1>4, <1>5, <1>6, <1>7, <1>8, <1>9, <1>10, <1>11, <1>12 DEF Step

\* ... and keeps the file and Chromium OS in agreement with it.
LEMMA FreonStepHolderState ==
    ASSUME FreonTypeOK, LockInv, NEW s \in Servers, Step(s), ~FlockFails(s)
    PROVE  HolderState'
<1> USE DEF FreonTypeOK, LockInv, LockHeld, HolderState, Goto, Yields
<1>0. CASE \E t \in Ttys : OpenTty(s, t) \/ CloseTty(s, t)
      BY <1>0 DEF OpenTty, CloseTty
<1>1. CASE Claim(s)
      BY <1>1 DEF Claim
<1>2. CASE Flock(s)
      BY <1>2 DEF Flock
<1>3. CASE WritePid(s)
      BY <1>3 DEF WritePid
<1>4. CASE WritePidFails(s)
      BY <1>4 DEF WritePidFails
<1>5. CASE DropChrome(s)
      BY <1>5 DEF DropChrome
<1>6. CASE DropChromeFails(s)
      BY <1>6 DEF DropChromeFails
<1>7. CASE Release(s)
      BY <1>7 DEF Release
<1>8. CASE TakeChrome(s)
      BY <1>8 DEF TakeChrome
<1>9. CASE TakeChromeFails(s)
      BY <1>9 DEF TakeChromeFails
<1>10. CASE ClearAndClose(s)
      BY <1>10 DEF ClearAndClose
<1>11. CASE ClearFails(s)
      BY <1>11 DEF ClearFails
<1>12. CASE Crash(s)
      BY <1>12 DEF Crash
<1> QED BY <1>0, <1>1, <1>2, <1>3, <1>4, <1>5, <1>6, <1>7, <1>8, <1>9, <1>10, <1>11, <1>12 DEF Step

\* The lock part of the invariant survives every step in which flock() has not
\* failed before or now.
LEMMA FreonStepInv ==
    ASSUME FreonInv, NEW s \in Servers, Step(s)
    PROVE  FreonInv'
<1>1. FreonTypeOK'
      BY FreonStepType DEF FreonInv
<1>2. SomebodyDrives'
      BY FreonStepDrives DEF FreonInv
<1>3. faults \subseteq faults'
      BY DEF Step, OpenTty, CloseTty, Claim, Flock, FlockFails, WritePid,
             WritePidFails, DropChrome, DropChromeFails, Release, TakeChrome,
             TakeChromeFails, ClearAndClose, ClearFails, Crash, Fault
<1>4. CASE "flock" \in faults
      BY <1>1, <1>2, <1>3, <1>4 DEF FreonInv
<1>5. CASE FlockFails(s)
      BY <1>1, <1>2, <1>5 DEF FreonInv, FlockFails, Fault
<1>6. CASE "flock" \notin faults /\ ~FlockFails(s)
      BY <1>1, <1>2, <1>6, FreonStepLockHeld, FreonStepHolderState
      DEF FreonInv, LockInv
<1> QED BY <1>4, <1>5, <1>6

\* The invariant implies the properties it was strengthened for.
LEMMA FreonInvSuffices ==
    ASSUME FreonInv
    PROVE  OneOwner /\ ChromeYields /\ FileNamesUser /\ NotOrphaned
<1>1. OneOwner /\ ChromeYields /\ FileNamesUser
      BY DEF FreonInv, FreonTypeOK, LockHeld, HolderState, OneOwner, Arbitrates,
             ChromeYields, FileNamesUser
<1>2. NotOrphaned
      BY DEF FreonInv, SomebodyDrives, NotOrphaned
<1> QED BY <1>1, <1>2

\* The invariant holds in every reachable state.
THEOREM FreonInvariant == Spec => []FreonInv
<1>1. Init => FreonInv
      BY FreonInitInv
<1>2. FreonInv /\ [Next]_vars => FreonInv'
  <2> SUFFICES ASSUME FreonInv, [Next]_vars
               PROVE  FreonInv'
      OBVIOUS
  <2>1. ASSUME NEW s \in Servers, Step(s)
        PROVE  FreonInv'
        BY <2>1, FreonStepInv
  <2>2. CASE UNCHANGED vars
        BY <2>2
        DEF vars, FreonInv, FreonTypeOK, LockHeld, HolderState, SomebodyDrives
  <2> QED BY <2>1, <2>2 DEF Next
<1> QED BY <1>1, <1>2, PTL DEF Spec

\* The display lock arbitrates: unless a flock() has failed, at most one X server
\* believes that the display is its own, whatever else fails (freon.c:48-95).
THEOREM FreonOneOwner == Spec => []OneOwner
<1>1. FreonInv => OneOwner
      BY FreonInvSuffices
<1> QED BY <1>1, FreonInvariant, PTL

\* Unless a flock() has failed, Chromium OS and an X server never both drive the
\* display, but for a server whose own last claim ended in a failing dbus-send and
\* returned its positive status (freon.c:120-137).
THEOREM FreonChromeYields == Spec => []ChromeYields
<1>1. FreonInv => ChromeYields
      BY FreonInvSuffices
<1> QED BY <1>1, FreonInvariant, PTL

\* Unless a flock() has failed, the lock file names the X server that uses the
\* display (freon.c:50-51).
THEOREM FreonFileNamesUser == Spec => []FileNamesUser
<1>1. FreonInv => FileNamesUser
      BY FreonInvSuffices
<1> QED BY <1>1, FreonInvariant, PTL

\* Unless a write or a D-Bus call has failed or a server has died, somebody
\* drives the display between two calls, even after a failed flock()
\* (freon.c:120-137).
THEOREM FreonNotOrphaned == Spec => []NotOrphaned
<1>1. FreonInv => NotOrphaned
      BY FreonInvSuffices
<1> QED BY <1>1, FreonInvariant, PTL
============================================================================
