---------------------------- MODULE ChrootMounts ----------------------------
(***************************************************************************)
(* The life of one chroot: enter-chroot with the mount-chroot it starts    *)
(* and the unmount-chroot in its exit trap, in several terminals at once,  *)
(* and unmount-chroot started by hand.  They find each other only through  *)
(* the mount table and the process table.  One action is one command that  *)
(* reads or changes either.                                                *)
(*                                                                         *)
(* Two instances that both find the chroot unmounted both mount it, one    *)
(* on top of the other: the mount point is a stack of layers.  Layer 1 is  *)
(* the bare directory, where nothing can run.  "run" is /var/run, which     *)
(* marks a started chroot.                                                 *)
(***************************************************************************)
EXTENDS Naturals, FiniteSets, Sequences

CONSTANTS
    Instances,     \* instances of enter-chroot, or of unmount-chroot by hand
    Lingering,     \* instances whose session may leave processes behind
    Interrupted,   \* instances that may get a signal
    Tries,         \* TRIES: failed passes before processes are signalled
    MountOrder     \* the submounts in the order enter-chroot makes them

ASSUME MountsAssumption ==
    /\ Lingering \subseteq Instances
    /\ Interrupted \subseteq Instances
    /\ Tries \in Nat
    /\ MountOrder \in Seq(STRING)
    /\ \E n \in DOMAIN MountOrder : MountOrder[n] = "run"
    /\ \A n \in DOMAIN MountOrder : MountOrder[n] # "base"

VARIABLES
    pc,            \* where each instance is
    layers,        \* for each layer, how often each submount is mounted
    inside,        \* the layer each instance's session runs in, 0 for none
    orphan,        \* the layer of what it left behind, 0 for none
    pending,       \* mounts each enterer has still to make
    firstrun,      \* enterers that found /var/run not mounted
    todo,          \* how often each unmounter has still to umount each point
    failed,        \* unmounters of which an umount failed in this pass
    tries,         \* ntries
    killing,       \* unmounters whose SIGNAL is KILL
    asking,        \* unmounters without -y whose user has not answered "a"
    late           \* history: sessions begun since each one's last checkusage

mountVars == <<layers, inside, orphan>>
enterVars == <<pending, firstrun>>
unmountVars == <<todo, failed, tries, killing, asking>>
vars == <<pc, mountVars, enterVars, unmountVars, late>>

----------------------------------------------------------------------------
Subs == {MountOrder[n] : n \in DOMAIN MountOrder}
Bare == [m \in Subs |-> 0]
Points == Subs \cup {"base"}   \* mount points: the submounts and the chroot
NoMounts == [point \in Points |-> 0]

Mounting == {"check", "bind", "prepare", "firstrun", "target", "mount", "start"}
InPass == {"list", "umount", "failed"}
Unmounting == {"usage"} \cup InPass
Steps == {"idle", "session", "done", "lost"} \cup Mounting \cup Unmounting

MountsTypeOK ==
    /\ pc \in [Instances -> Steps]
    /\ layers \in Seq([Subs -> Nat]) /\ Len(layers) > 0
    /\ inside \in [Instances -> Nat]
    /\ orphan \in [Instances -> Nat]
    /\ pending \in [Instances -> Seq(Subs)]
    /\ firstrun \subseteq Instances
    /\ todo \in [Instances -> [Points -> Nat]]
    /\ failed \subseteq Instances
    /\ tries \in [Instances -> 0..Tries]
    /\ killing \subseteq Instances
    /\ asking \subseteq Instances
    /\ late \in [Instances -> SUBSET Instances]

Init ==
    /\ pc = [i \in Instances |-> "idle"]
    /\ layers = <<Bare>>
    /\ inside = [i \in Instances |-> 0]
    /\ orphan = [i \in Instances |-> 0]
    /\ pending = [i \in Instances |-> <<>>]
    /\ firstrun = {}
    /\ todo = [i \in Instances |-> NoMounts]
    /\ failed = {}
    /\ tries = [i \in Instances |-> 0]
    /\ killing = {}
    /\ asking = {}
    /\ late = [i \in Instances |-> {}]

Goto(i, step) == pc' = [pc EXCEPT ![i] = step]

\* What the script still had to do is forgotten when its exit trap starts.
Leave(i) ==
    /\ Goto(i, "usage")
    /\ pending' = [pending EXCEPT ![i] = <<>>]
    /\ firstrun' = firstrun \ {i}

Top == Len(layers)
Mounted == Top > 1
SetTop(sub, n) == layers' = [layers EXCEPT ![Top] = [@ EXCEPT ![sub] = n]]

Sessions == {i \in Instances : inside[i] # 0}
Orphans == {i \in Instances : orphan[i] # 0}

\* A process whose root is the top layer may have anything there open.
TopInUse == \E i \in Instances : Top \in {inside[i], orphan[i]}

----------------------------------------------------------------------------
(* enter-chroot                                                            *)

\* The start of enter-chroot, which starts mount-chroot.
Begin(i) ==
    /\ pc[i] = "idle"
    /\ Goto(i, "check")
    /\ UNCHANGED <<mountVars, enterVars, unmountVars, late>>

\* mountpoint -q
CheckMounted(i) ==
    /\ pc[i] = "check"
    /\ Goto(i, IF Mounted THEN "prepare" ELSE "bind")
    /\ UNCHANGED <<mountVars, enterVars, unmountVars, late>>

\* mount --bind, whatever has been mounted there since.
Bind(i) ==
    /\ pc[i] = "bind"
    /\ layers' = Append(layers, Bare)
    /\ Goto(i, "prepare")
    /\ UNCHANGED <<inside, orphan, enterVars, unmountVars, late>>

\* The trap is set: from here on, whatever ends the script runs unmount-chroot.
\* Reading etc/passwd and writing etc/crouton/name fail in the bare directory.
Prepare(i) ==
    /\ pc[i] = "prepare"
    /\ Goto(i, IF Mounted THEN "firstrun" ELSE "usage")
    /\ UNCHANGED <<mountVars, enterVars, unmountVars, late>>

\* "If /var/run isn't mounted, we know the chroot hasn't been started yet."
CheckFirstRun(i) ==
    /\ pc[i] = "firstrun"
    /\ firstrun' = IF layers[Top]["run"] = 0 THEN firstrun \cup {i} ELSE firstrun
    /\ pending' = [pending EXCEPT ![i] = MountOrder]
    /\ Goto(i, "target")
    /\ UNCHANGED <<mountVars, unmountVars, late>>

\* bindmount() and tmpfsmount() skip what is a mount point already.
CheckTarget(i) ==
    /\ pc[i] = "target"
    /\ IF pending[i] = <<>>
       THEN Goto(i, "start") /\ UNCHANGED pending
       ELSE IF layers[Top][Head(pending[i])] = 0
            THEN Goto(i, "mount") /\ UNCHANGED pending
            ELSE pending' = [pending EXCEPT ![i] = Tail(@)] /\ UNCHANGED pc
    /\ UNCHANGED <<mountVars, firstrun, unmountVars, late>>

MountTarget(i) ==
    /\ pc[i] = "mount"
    /\ pending[i] # <<>>
    /\ SetTop(Head(pending[i]), layers[Top][Head(pending[i])] + 1)
    /\ pending' = [pending EXCEPT ![i] = Tail(@)]
    /\ Goto(i, "target")
    /\ UNCHANGED <<inside, orphan, firstrun, unmountVars, late>>

\* The start-up scripts, if this is the first run, and the user's shell; in
\* the bare directory there is nothing to run.
StartSession(i) ==
    /\ pc[i] = "start"
    /\ IF Mounted
       THEN /\ inside' = [inside EXCEPT ![i] = Top]
            /\ late' = [j \in Instances |-> IF pc[j] \in InPass THEN late[j] \cup {i} ELSE {}]
            /\ Goto(i, "session")
            /\ UNCHANGED enterVars
       ELSE Leave(i) /\ UNCHANGED <<inside, late>>
    /\ UNCHANGED <<layers, orphan, unmountVars>>

\* The shell exits, and the exit trap starts unmount-chroot.
EndSession(i) ==
    /\ pc[i] = "session"
    /\ inside' = [inside EXCEPT ![i] = 0]
    /\ Leave(i)
    /\ UNCHANGED <<layers, orphan, unmountVars, late>>

\* The same, but something it started stays, as a child of init.
EndLingering(i) ==
    /\ i \in Lingering
    /\ pc[i] = "session"
    /\ orphan' = [orphan EXCEPT ![i] = inside[i]]
    /\ inside' = [inside EXCEPT ![i] = 0]
    /\ Leave(i)
    /\ UNCHANGED <<layers, unmountVars, late>>

----------------------------------------------------------------------------
(* unmount-chroot                                                          *)

BeginUnmount(i) ==
    /\ pc[i] = "idle"
    /\ asking' = asking \cup {i}
    /\ Goto(i, "usage")
    /\ UNCHANGED <<mountVars, enterVars, todo, failed, tries, killing, late>>

\* Mutant: the check before a pass is left out.
CheckUsageSkipped(i) ==
    /\ pc[i] = "usage"
    /\ Goto(i, "list")
    /\ late' = [late EXCEPT ![i] = {}]
    /\ UNCHANGED <<mountVars, enterVars, unmountVars>>

\* checkusage(): processes inside whose parent is outside.  What a session has
\* left behind, or an instance that has not started its own, is not seen.
CheckUsage(i) ==
    /\ pc[i] = "usage"
    /\ Goto(i, IF Sessions = {} THEN "list" ELSE "done")
    /\ late' = [late EXCEPT ![i] = {}]
    /\ UNCHANGED <<mountVars, enterVars, unmountVars>>

\* /proc/mounts: a line for every mount of every layer.
MountsOf(sub) == UNION {{n} \X (1..layers[n][sub]) : n \in DOMAIN layers}
Times(point) == IF point = "base" THEN Top - 1 ELSE Cardinality(MountsOf(point))

ListMounts(i) ==
    /\ pc[i] = "list"
    /\ todo' = [todo EXCEPT ![i] = [point \in Points |-> Times(point)]]
    /\ Goto(i, "umount")
    /\ UNCHANGED <<mountVars, enterVars, failed, tries, killing, asking, late>>

\* sort -r: the submounts from the last to the first, then the chroot itself.
Takes(i, point) ==
    /\ todo[i][point] > 0
    /\ \A n \in DOMAIN MountOrder :
          todo[i][MountOrder[n]] > 0 =>
              \E m \in DOMAIN MountOrder : m >= n /\ point = MountOrder[m]
    /\ todo' = [todo EXCEPT ![i][point] = @ - 1]

\* umount succeeds on what is mounted in or as the top layer and not in use.
Umount(i) ==
    /\ pc[i] = "umount"
    /\ \E point \in Points :
          /\ Takes(i, point)
          /\ \/ /\ point \in Subs
                /\ layers[Top][point] > 0
                /\ SetTop(point, layers[Top][point] - 1)
             \/ /\ point = "base"
                /\ Mounted /\ layers[Top] = Bare /\ ~TopInUse
                /\ layers' = SubSeq(layers, 1, Top - 1)
    /\ UNCHANGED <<pc, inside, orphan, enterVars, failed, tries, killing, asking, late>>

UmountFails(i) ==
    /\ pc[i] = "umount"
    /\ \E point \in Points :
          /\ Takes(i, point)
          /\ \/ point \in Subs /\ (layers[Top][point] = 0 \/ TopInUse)
             \/ point = "base" /\ (~Mounted \/ layers[Top] # Bare \/ TopInUse)
    /\ failed' = failed \cup {i}
    /\ UNCHANGED <<pc, mountVars, enterVars, tries, killing, asking, late>>

\* Mutant: umount called once for all mount points "may return 0 when many
\* mount points cannot be unmounted".
EndPassUnchecked(i) ==
    /\ pc[i] = "umount"
    /\ todo[i] = NoMounts
    /\ Goto(i, "done")
    /\ UNCHANGED <<mountVars, enterVars, unmountVars, late>>

EndPass(i) ==
    /\ pc[i] = "umount"
    /\ todo[i] = NoMounts
    /\ Goto(i, IF i \in failed THEN "failed" ELSE "done")
    /\ failed' = failed \ {i}
    /\ UNCHANGED <<mountVars, enterVars, todo, tries, killing, asking, late>>

\* Another second's patience.
Wait(i) ==
    /\ pc[i] = "failed"
    /\ tries[i] < Tries
    /\ tries' = [tries EXCEPT ![i] = @ + 1]
    /\ Goto(i, "usage")
    /\ UNCHANGED <<mountVars, enterVars, todo, failed, killing, asking, late>>

\* Mutant: the signal stays TERM.
EscalateSkipped(i) == UNCHANGED killing

\* TERM is followed by KILL.
Escalate(i) == killing' = killing \cup {i}

\* What the unmounter is told to do with which signal: -y or the answer "a"
\* escalates, "k" kills at once, "y" goes on as before.
Answered(i, kill) ==
    \/ kill = (i \in killing) /\ Escalate(i) /\ asking' = asking \ {i}
    \/ i \in asking /\ kill /\ Escalate(i) /\ UNCHANGED asking
    \/ i \in asking /\ kill = (i \in killing) /\ UNCHANGED <<killing, asking>>

\* The signal goes to every process whose root is the chroot: KILL ends all,
\* TERM some.  A session that ends so lets its enter-chroot go on to its trap.
Kill(i) ==
    /\ pc[i] = "failed"
    /\ tries[i] = Tries
    /\ \E kill \in BOOLEAN, dead \in SUBSET (Sessions \cup Orphans) :
          /\ Answered(i, kill)
          /\ kill => dead = Sessions \cup Orphans
          /\ inside' = [j \in Instances |-> IF j \in dead THEN 0 ELSE inside[j]]
          /\ orphan' = [j \in Instances |-> IF j \in dead THEN 0 ELSE orphan[j]]
          /\ firstrun' = firstrun \ dead
          /\ pc' = [j \in Instances |->
                       IF j = i \/ (j \in dead /\ pc[j] = "session") THEN "usage" ELSE pc[j]]
    /\ tries' = [tries EXCEPT ![i] = 0]
    /\ UNCHANGED <<layers, pending, todo, failed, late>>

\* The user may also answer N, or want the processes listed first.
Decline(i) ==
    /\ i \in asking
    /\ pc[i] = "failed"
    /\ tries[i] = Tries
    /\ Goto(i, "done") \/ Goto(i, "usage")
    /\ UNCHANGED <<mountVars, enterVars, unmountVars, late>>

----------------------------------------------------------------------------
\* Before the trap is set, and once it runs (the trap resets itself), a signal
\* ends the script; in between it starts the trap.  A session that runs ends
\* first.
Interrupt(i) ==
    /\ i \in Interrupted
    /\ \/ /\ pc[i] \in {"check", "bind", "prepare"} \cup Unmounting
          /\ Goto(i, "lost")
          /\ UNCHANGED enterVars
       \/ pc[i] \in Mounting \ {"check", "bind", "prepare"} /\ Leave(i)
    /\ UNCHANGED <<mountVars, unmountVars, late>>

Enter(i) ==
    \/ CheckMounted(i) \/ Bind(i) \/ Prepare(i) \/ CheckFirstRun(i)
    \/ CheckTarget(i) \/ MountTarget(i) \/ StartSession(i)

Unmount(i) ==
    \/ CheckUsage(i) \/ ListMounts(i) \/ Umount(i) \/ UmountFails(i) \/ EndPass(i)
    \/ Wait(i) \/ Kill(i) \/ Decline(i)

Next == \E i \in Instances :
    \/ Begin(i) \/ Enter(i) \/ EndSession(i) \/ EndLingering(i)
    \/ BeginUnmount(i) \/ Unmount(i) \/ Interrupt(i)

Spec == Init /\ [][Next]_vars

\* Scripts run when they can; nobody has to start or leave a session.
FairSpec == Spec /\ \A i \in Instances : WF_vars(Enter(i)) /\ WF_vars(Unmount(i))

----------------------------------------------------------------------------
(* Properties *)

\* "Auto-unmount everything below and including the chroot upon exit"
\* (enter-chroot:193): when every instance has ended, and none was cut short
\* outside its trap, nothing is mounted and nothing runs, although an instance
\* that finds another at work leaves the unmounting to it.
CleanAtEnd ==
    (\A i \in Instances : pc[i] \in {"idle", "done"}) =>
        layers = <<Bare>> /\ Sessions = {} /\ Orphans = {}

\* Whatever session an unmount-chroot at work can take a mount from, or end
\* with a signal, has begun since the check that precedes every pass: "Not
\* unmounting as another instance is using it" (unmount-chroot:187-191 and
\* 297-301).
OnlyLateDisturbed ==
    \A i \in Instances : pc[i] \in {"umount", "failed"} => Sessions \subseteq late[i]

\* The unmount-chroot of an exit trap comes to an end: it escalates until
\* nothing keeps the chroot busy, or leaves it to another instance.
LeavesInTheEnd ==
    \A i \in Instances :
        pc[i] = "usage" /\ i \notin asking ~> pc[i] \in {"done", "lost"}

\* "If /var/run isn't mounted, we know the chroot hasn't been started yet."
\* (enter-chroot:349): of the sessions that run at the same time at most one
\* was the first and ran the start-up scripts.
OneFirstRun ==
    \A i, j \in Sessions \cap firstrun : i = j
============================================================================
