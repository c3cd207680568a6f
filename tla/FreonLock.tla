----------------------------- MODULE FreonLock -----------------------------
(***************************************************************************)
(* The display lock of croutonfreon.so (src/src/freon.c): the hooks        *)
(* preloaded into every Xorg of every chroot.  open() and close() keep the *)
(* descriptors of the two terminals, ioctl() turns the VT requests on the  *)
(* second into a claim or a release of the display.  A claim takes the     *)
(* flock on /tmp/crouton-lock/display, writes the pid there and asks       *)
(* Chromium OS over D-Bus to drop the display; a release asks Chromium OS  *)
(* to take it back, writes 0 and closes the file.  One action is one       *)
(* system call another process can notice.  Any of them may fail and any   *)
(* server may die; faults remembers which of that has happened.            *)
(***************************************************************************)
EXTENDS Naturals

CONSTANTS Servers,     \* the X servers with the library preloaded
          Chrome       \* what the lock file says when Chromium OS owns the GPU

ASSUME FreonAssumption == Chrome \notin Servers

\* What can go wrong.  A failing open() of the lock file leaves everything as
\* it was and is not listed; "write" stands for ftruncate() and write(),
\* "dbus" for the dbus-send command, "crash" for the death of a server.
Faults == {"flock", "write", "dbus", "crash"}

Ttys == {"tty0", "tty7"}

VARIABLES
    ttys,          \* the terminals each server has open: tty0fd, tty7fd
    pc,            \* where each server is in its ioctl() call
    lockfd,        \* servers whose static lockfd is not -1
    holder,        \* the holders of the flock (a set: empty or one server)
    file,          \* what the lock file names (a set: nobody when it is empty)
    using,         \* servers that take the display to be theirs: their last
                   \* claim did not return -1
    unheard,       \* history: those of them whose claim dbus-send did not pass on
    chromeOwns,    \* Chromium OS holds the display
    faults         \* history: what has gone wrong so far

vars == <<ttys, pc, lockfd, holder, file, using, unheard, chromeOwns, faults>>

Steps == {"idle", "flock", "write", "drop", "take", "clear"}

FreonTypeOK ==
    /\ ttys \in [Servers -> SUBSET Ttys]
    /\ pc \in [Servers -> Steps]
    /\ lockfd \subseteq Servers
    /\ holder \subseteq Servers
    /\ file \subseteq Servers \cup {Chrome}
    /\ using \subseteq Servers
    /\ unheard \subseteq using
    /\ chromeOwns \in BOOLEAN
    /\ faults \subseteq Faults

Init ==
    /\ ttys = [s \in Servers |-> {}]
    /\ pc = [s \in Servers |-> "idle"]
    /\ lockfd = {}
    /\ holder = {}
    /\ file = {Chrome}
    /\ using = {}
    /\ unheard = {}
    /\ chromeOwns = TRUE
    /\ faults = {}

Goto(s, to) == pc' = [pc EXCEPT ![s] = to]

Fault(f) == faults' = faults \cup {f}

\* The server no longer takes the display to be its own.
Yields(s) == using' = using \ {s} /\ unheard' = unheard \ {s}

----------------------------------------------------------------------------
(* The open() and close() hooks: both terminals are really /dev/null.       *)

OpenTty(s, t) ==
    /\ pc[s] = "idle"
    /\ t \notin ttys[s]
    /\ ttys' = [ttys EXCEPT ![s] = @ \cup {t}]
    /\ UNCHANGED <<pc, lockfd, holder, file, using, unheard, chromeOwns, faults>>

\* Closing a terminal releases nothing: a server that closes tty7 while it has
\* the display keeps the lock until it opens the terminal again or dies.
CloseTty(s, t) ==
    /\ pc[s] = "idle"
    /\ t \in ttys[s]
    /\ ttys' = [ttys EXCEPT ![s] = @ \ {t}]
    /\ UNCHANGED <<pc, lockfd, holder, file, using, unheard, chromeOwns, faults>>

----------------------------------------------------------------------------
(* set_display_lock(getpid()), then ReleaseDisplayOwnership.               *)

\* open() only when lockfd is -1; a server that has the file open goes
\* straight to the write.
Claim(s) ==
    /\ pc[s] = "idle"
    /\ "tty7" \in ttys[s]
    /\ IF s \in lockfd
       THEN Goto(s, "write") /\ UNCHANGED lockfd
       ELSE Goto(s, "flock") /\ lockfd' = lockfd \cup {s}
    /\ UNCHANGED <<ttys, holder, file, using, unheard, chromeOwns, faults>>

\* Mutant: LOCK_SH for LOCK_EX.
FlockShared(s) ==
    /\ pc[s] = "flock"
    /\ holder' = holder \cup {s}
    /\ Goto(s, "write")
    /\ UNCHANGED <<ttys, lockfd, file, using, unheard, chromeOwns, faults>>

\* flock(LOCK_EX) blocks until no other server holds the lock.
Flock(s) ==
    /\ pc[s] = "flock"
    /\ holder = {}
    /\ holder' = {s}
    /\ Goto(s, "write")
    /\ UNCHANGED <<ttys, lockfd, file, using, unheard, chromeOwns, faults>>

\* A failed flock returns -1 and leaves lockfd open.
FlockFails(s) ==
    /\ pc[s] = "flock"
    /\ Goto(s, "idle")
    /\ Fault("flock")
    /\ UNCHANGED <<ttys, lockfd, holder, file, using, unheard, chromeOwns>>

\* Mutant: the claim goes on without writing the pid.
WritePidSkipped(s) ==
    /\ pc[s] = "write"
    /\ Goto(s, "drop")
    /\ UNCHANGED <<ttys, lockfd, holder, file, using, unheard, chromeOwns, faults>>

WritePid(s) ==
    /\ pc[s] = "write"
    /\ file' = {s}
    /\ Goto(s, "drop")
    /\ UNCHANGED <<ttys, lockfd, holder, using, unheard, chromeOwns, faults>>

\* ftruncate() fails, or write() on the empty file: the ioctl returns -1, the
\* lock is kept.
WritePidFails(s) ==
    /\ pc[s] = "write"
    /\ file' \in {file, {}}
    /\ Yields(s)
    /\ Goto(s, "idle")
    /\ Fault("write")
    /\ UNCHANGED <<ttys, lockfd, holder, chromeOwns>>

\* The ioctl returns what system() returns for dbus-send: here 0.
DropChrome(s) ==
    /\ pc[s] = "drop"
    /\ chromeOwns' = FALSE
    /\ using' = using \cup {s}
    /\ unheard' = unheard \ {s}
    /\ Goto(s, "idle")
    /\ UNCHANGED <<ttys, lockfd, holder, file, faults>>

\* dbus-send fails before or after Chromium OS has heard of it.  The ioctl
\* returns its wait status, which is positive, so a caller that looks for -1 has
\* the display; or -1, when system() cannot run it or wait for it.
DropChromeFails(s) ==
    /\ pc[s] = "drop"
    /\ chromeOwns' \in {chromeOwns, FALSE}
    /\ \/ using' = using \cup {s} /\ unheard' = unheard \cup {s}
       \/ Yields(s)
    /\ Goto(s, "idle")
    /\ Fault("dbus")
    /\ UNCHANGED <<ttys, lockfd, holder, file>>

----------------------------------------------------------------------------
(* TakeDisplayOwnership, then set_display_lock(0); nothing without lockfd.  *)

\* Mutant: the lock is given up before Chromium OS takes the display.
ReleaseUnlocksFirst(s) ==
    /\ pc[s] = "idle"
    /\ "tty7" \in ttys[s]
    /\ s \in lockfd
    /\ Yields(s)
    /\ holder' = holder \ {s}
    /\ Goto(s, "take")
    /\ UNCHANGED <<ttys, lockfd, file, chromeOwns, faults>>

Release(s) ==
    /\ pc[s] = "idle"
    /\ "tty7" \in ttys[s]
    /\ s \in lockfd
    /\ Yields(s)
    /\ Goto(s, "take")
    /\ UNCHANGED <<ttys, lockfd, holder, file, chromeOwns, faults>>

\* Mutant: a release that does not call TakeDisplayOwnership.
TakeChromeSkipped(s) ==
    /\ pc[s] = "take"
    /\ Goto(s, "clear")
    /\ UNCHANGED <<ttys, lockfd, holder, file, using, unheard, chromeOwns, faults>>

TakeChrome(s) ==
    /\ pc[s] = "take"
    /\ chromeOwns' = TRUE
    /\ Goto(s, "clear")
    /\ UNCHANGED <<ttys, lockfd, holder, file, using, unheard, faults>>

\* A dbus-send that fails without effect: the lock is given up all the same.
TakeChromeFails(s) ==
    /\ pc[s] = "take"
    /\ Goto(s, "clear")
    /\ Fault("dbus")
    /\ UNCHANGED <<ttys, lockfd, holder, file, using, unheard, chromeOwns>>

\* Mutant: lockfd is not reset to -1 after the close().
ClearKeepsFd(s) ==
    /\ pc[s] = "clear"
    /\ file' = {Chrome}
    /\ holder' = holder \ {s}
    /\ Goto(s, "idle")
    /\ UNCHANGED <<ttys, lockfd, using, unheard, chromeOwns, faults>>

\* The write of 0, then close(), which gives the flock up.
ClearAndClose(s) ==
    /\ pc[s] = "clear"
    /\ file' = {Chrome}
    /\ lockfd' = lockfd \ {s}
    /\ holder' = holder \ {s}
    /\ Goto(s, "idle")
    /\ UNCHANGED <<ttys, using, unheard, chromeOwns, faults>>

\* ftruncate() or write() fails: returns before close(), the lock is kept.
ClearFails(s) ==
    /\ pc[s] = "clear"
    /\ file' \in {file, {}}
    /\ Goto(s, "idle")
    /\ Fault("write")
    /\ UNCHANGED <<ttys, lockfd, holder, using, unheard, chromeOwns>>

----------------------------------------------------------------------------
\* The process dies: the kernel closes lockfd, nobody tells Chromium OS.  The
\* death of a server without lockfd is that of one that closes its terminals.
Crash(s) ==
    /\ s \in lockfd
    /\ ttys' = [ttys EXCEPT ![s] = {}]
    /\ lockfd' = lockfd \ {s}
    /\ holder' = holder \ {s}
    /\ Yields(s)
    /\ Goto(s, "idle")
    /\ Fault("crash")
    /\ UNCHANGED <<file, chromeOwns>>

Step(s) ==
    \/ \E t \in Ttys : OpenTty(s, t) \/ CloseTty(s, t)
    \/ Claim(s) \/ Flock(s) \/ FlockFails(s)
    \/ WritePid(s) \/ WritePidFails(s)
    \/ DropChrome(s) \/ DropChromeFails(s)
    \/ Release(s) \/ TakeChrome(s) \/ TakeChromeFails(s)
    \/ ClearAndClose(s) \/ ClearFails(s)
    \/ Crash(s)

Next == \E s \in Servers : Step(s)

Spec == Init /\ [][Next]_vars

----------------------------------------------------------------------------
(* Properties *)

\* What the comment of set_display_lock says: the lock "arbitrates which
\* chroot is using the GPU" (freon.c:48), so two X servers never both believe
\* that the display is theirs.
Arbitrates == \A s, t \in using : s = t

\* The display has one user as long as no flock() fails, whatever else fails
\* and whoever dies in the middle of a claim or a release (freon.c:55-95).
OneOwner == "flock" \in faults \/ Arbitrates

\* No X server drives the display together with Chromium OS: a claim locks before
\* ReleaseDisplayOwnership, a release calls TakeDisplayOwnership while it still has
\* the lock (freon.c:120-137).  Only a server whose own last claim ended in a
\* failing dbus-send may: the ioctl hands it a positive status, not -1
\* (freon.c:133), until its next claim or release.
ChromeYields == "flock" \in faults \/ (chromeOwns => using \subseteq unheard)

\* Between two ioctl() calls the lock file names the server that uses the
\* display (freon.c:50-51): no other server overwrites it meanwhile.
FileNamesUser ==
    \/ "flock" \in faults
    \/ \A s \in using : pc[s] = "idle" => file = {s}

\* As long as every write and every D-Bus call succeeds and no server dies, the
\* display is never orphaned, even if flock() fails: when no call is in
\* progress either Chromium OS drives it or an X server that was given it
\* (freon.c:120-137).
NotOrphaned ==
    \/ faults \cap {"write", "dbus", "crash"} # {}
    \/ \E s \in Servers : pc[s] # "idle"
    \/ chromeOwns
    \/ using # {}
============================================================================
