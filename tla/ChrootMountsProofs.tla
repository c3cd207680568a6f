------------------------- MODULE ChrootMountsProofs -------------------------
(***************************************************************************)
(* Theorems about the life of a chroot, for any number of instances, any   *)
(* submounts and any patience.                                             *)
(***************************************************************************)
EXTENDS ChrootMounts, SequenceTheorems, FiniteSetTheorems, TLAPS

\* From the check to the end of a pass an unmounter knows of every session
\* that it did not begin after the check.
CheckedFirst == \A i \in Instances : pc[i] \in InPass => Sessions \subseteq late[i]

\* The inductive invariant behind OnlyLateDisturbed: an unmounter in a pass knows
\* of all sessions but the late ones (unmount-chroot:187-300).
MountsInv == MountsTypeOK /\ CheckedFirst

\* Where scripts and processes are: who asks unmounts by hand, sessions run as
\* long as their enter-chroot waits, nothing runs in the bare directory, and an
\* umount has failed only in a pass.
Placed ==
    /\ \A i \in asking : pc[i] \in Unmounting \cup {"done", "lost"}
    /\ \A i \in Instances : inside[i] # 0 <=> pc[i] = "session"
    /\ \A i \in Instances : {inside[i], orphan[i]} \subseteq {0} \cup 2..Top
    /\ \A i \in failed : pc[i] \in {"umount", "lost"}

\* An instance that will read the mount table before it ends.
WillList(i) ==
    /\ i \notin asking
    /\ \/ pc[i] \in Mounting \cup {"session", "usage", "list", "failed"}
       \/ pc[i] = "umount" /\ i \in failed

\* An instance whose pass, if nothing fails, leaves nothing mounted.
Clears(i) ==
    /\ i \notin asking
    /\ pc[i] = "umount" /\ i \notin failed
    /\ \A point \in Points : Times(point) <= todo[i][point]

\* As long as something is mounted somebody is still to unmount it.
Attended ==
    \/ layers = <<Bare>>
    \/ \E i \in Instances : pc[i] = "lost" \/ WillList(i) \/ Clears(i)

\* The inductive invariant behind CleanAtEnd: whoever leaves the chroot mounted
\* leaves somebody who is going to unmount it (unmount-chroot:228-300).
CleanInv == MountsInv /\ Placed /\ Attended

\* The parts of the types that the arguments below need.
LayersType == layers \in Seq([Subs -> Nat]) /\ Len(layers) > 0

ProcessTypes ==
    /\ pc \in [Instances -> Steps]
    /\ inside \in [Instances -> Nat]
    /\ late \in [Instances -> SUBSET Instances]

OtherTypes ==
    /\ orphan \in [Instances -> Nat]
    /\ pending \in [Instances -> Seq(Subs)]
    /\ firstrun \subseteq Instances
    /\ todo \in [Instances -> [Points -> Nat]]
    /\ failed \subseteq Instances
    /\ tries \in [Instances -> 0..Tries]
    /\ killing \subseteq Instances
    /\ asking \subseteq Instances

----------------------------------------------------------------------------
\* Steps that start no session and no pass.
LEMMA NothingStarts ==
    ASSUME CheckedFirst, late' = late, Sessions' \subseteq Sessions,
           \A j \in Instances : pc'[j] \in InPass => pc[j] \in InPass
    PROVE  CheckedFirst'
BY DEF CheckedFirst

LEMMA MountsInit == Init => MountsInv
<1> SUFFICES ASSUME Init PROVE MountsInv
    OBVIOUS
<1>1. MountsTypeOK
      BY MountsAssumption DEF Init, MountsTypeOK, Steps, Bare, NoMounts
<1>2. CheckedFirst
      BY DEF Init, CheckedFirst, InPass
<1> QED BY <1>1, <1>2 DEF MountsInv

\* What is mounted or unmounted on the top layer changes nothing below it.
LEMMA SetTopKept ==
    ASSUME LayersType, NEW sub, NEW n, sub \in Subs => n \in Nat, SetTop(sub, n)
    PROVE  LayersType'
<1> DEFINE new == [layers[Top] EXCEPT ![sub] = n]
<1>1. layers' = [layers EXCEPT ![Top] = new]
      BY DEF SetTop
<1>2. Top \in 1..Len(layers)
      BY DEF Top, LayersType
<1>3. layers[Top] \in [Subs -> Nat]
      BY <1>2 DEF LayersType
<1>4. new \in [Subs -> Nat]
      BY <1>3
<1> HIDE DEF new
<1> QED BY <1>1, <1>2, <1>4, ExceptSeq DEF LayersType

\* The bare directory and what is mounted over it remain.
LEMMA LayersKept ==
    ASSUME LayersType, NEW i \in Instances,
           \/ Enter(i) \/ Unmount(i) \/ Begin(i) \/ EndSession(i) \/ EndLingering(i)
           \/ BeginUnmount(i) \/ Interrupt(i) \/ UNCHANGED vars
    PROVE  LayersType'
<1>1. CASE Bind(i)
      BY <1>1 DEF Bind, Bare, LayersType
<1>2. CASE MountTarget(i)
  <2> DEFINE point == Head(pending[i])
  <2>1. layers[Top] \in [Subs -> Nat]
        BY DEF Top, LayersType
  <2>2. point \in Subs => layers[Top][point] + 1 \in Nat
        BY <2>1
  <2>3. SetTop(point, layers[Top][point] + 1)
        BY <1>2 DEF MountTarget
  <2> HIDE DEF point
  <2> QED BY <2>2, <2>3, SetTopKept
<1>3. CASE Umount(i)
  <2>1. PICK point \in Points :
            \/ /\ point \in Subs /\ layers[Top][point] > 0
               /\ SetTop(point, layers[Top][point] - 1)
            \/ Mounted /\ layers' = SubSeq(layers, 1, Top - 1)
        BY <1>3 DEF Umount
  <2>2. CASE /\ point \in Subs /\ layers[Top][point] > 0
             /\ SetTop(point, layers[Top][point] - 1)
    <3>1. layers[Top] \in [Subs -> Nat]
          BY DEF Top, LayersType
    <3>2. layers[Top][point] - 1 \in Nat
          BY <2>2, <3>1
    <3> QED BY <2>2, <3>2, SetTopKept
  <2>3. CASE Mounted /\ layers' = SubSeq(layers, 1, Top - 1)
        BY <2>3 DEF Top, Mounted, LayersType
  <2> QED BY <2>1, <2>2, <2>3
<1>4. CASE UNCHANGED layers
      BY <1>4 DEF LayersType
<1> QED BY <1>1, <1>2, <1>3, <1>4
        DEF Enter, Unmount, Begin, EndSession, EndLingering, BeginUnmount, Interrupt,
            vars, mountVars, CheckMounted, Prepare, CheckFirstRun, CheckTarget,
            StartSession, CheckUsage, ListMounts, UmountFails, EndPass, Wait, Kill,
            Decline

\* The mount table is finite.
LEMMA TimesType ==
    ASSUME LayersType, NEW point \in Points
    PROVE  Times(point) \in Nat /\ (point \in Subs => IsFiniteSet(MountsOf(point)))
<1>1. Len(layers) \in Nat \ {0} /\ DOMAIN layers = 1..Len(layers)
      /\ layers \in Seq([Subs -> Nat])
      BY DEF LayersType
<1>2. ASSUME point \in Subs
      PROVE  IsFiniteSet(MountsOf(point))
  <2> DEFINE of == [n \in DOMAIN layers |-> {n} \X (1..layers[n][point])]
             all == {{n} \X (1..layers[n][point]) : n \in DOMAIN layers}
  <2>1. of \in Surjection(DOMAIN layers, all)
        BY DEF Surjection
  <2>2. IsFiniteSet(DOMAIN layers)
        BY <1>1, FS_Interval
  <2>3. \A n \in DOMAIN layers : IsFiniteSet({n} \X (1..layers[n][point]))
    <3> TAKE n \in DOMAIN layers
    <3>1. layers[n][point] \in Nat
          BY <1>1, <1>2
    <3>2. IsFiniteSet({n})
          BY FS_Singleton
    <3>3. IsFiniteSet(1..layers[n][point])
          BY <3>1, FS_Interval
    <3> QED BY <3>2, <3>3, FS_Product
  <2>4. IsFiniteSet(all) /\ \A T \in all : IsFiniteSet(T)
    <3> HIDE DEF of
    <3>1. IsFiniteSet(all)
          BY <2>1, <2>2, FS_Surjection
    <3> QED BY <2>3, <3>1
  <2> HIDE DEF all
  <2>5. IsFiniteSet(UNION all)
        BY <2>4, FS_UNION
  <2> QED BY <2>5 DEF all, MountsOf
<1>3. CASE point = "base"
      BY <1>1, <1>3, MountsAssumption DEF Times, Top, Subs
<1>4. CASE point # "base"
      BY <1>2, <1>4, FS_CardinalityType DEF Times, Points
<1> QED BY <1>2, <1>3, <1>4

\* What every script keeps for itself.
LEMMA OthersKept ==
    ASSUME OtherTypes, ProcessTypes, LayersType, NEW i \in Instances,
           \/ Enter(i) \/ Unmount(i) \/ Begin(i) \/ EndSession(i) \/ EndLingering(i)
           \/ BeginUnmount(i) \/ Interrupt(i)
    PROVE  OtherTypes'
<1> USE DEF OtherTypes, mountVars, enterVars, unmountVars
<1>1. CASE Begin(i) \/ CheckMounted(i) \/ Bind(i) \/ Prepare(i)
      BY <1>1 DEF Begin, CheckMounted, Bind, Prepare
<1>2. CASE CheckFirstRun(i)
  <2>1. MountOrder \in Seq(Subs)
        BY MountsAssumption DEF Subs
  <2> QED BY <1>2, <2>1 DEF CheckFirstRun
<1>3. CASE CheckTarget(i) \/ MountTarget(i)
  <2>1. pending[i] # <<>> => Tail(pending[i]) \in Seq(Subs)
        OBVIOUS
  <2> QED BY <1>3, <2>1 DEF CheckTarget, MountTarget
<1>4. CASE StartSession(i) \/ EndSession(i) \/ EndLingering(i) \/ Interrupt(i)
  <2>1. orphan' = orphan \/ orphan' = [orphan EXCEPT ![i] = inside[i]]
        BY <1>4 DEF StartSession, EndSession, EndLingering, Interrupt
  <2>2. UNCHANGED enterVars \/ Leave(i)
        BY <1>4 DEF StartSession, EndSession, EndLingering, Interrupt
  <2>4. pending' \in [Instances -> Seq(Subs)] /\ firstrun' \subseteq Instances
    <3>1. CASE UNCHANGED enterVars
          BY <3>1
    <3>2. CASE Leave(i)
      <4>1. <<>> \in Seq(Subs)
            OBVIOUS
      <4> QED BY <3>2, <4>1 DEF Leave
    <3> QED BY <2>2, <3>1, <3>2
  <2>3. orphan' \in [Instances -> Nat]
        BY <2>1 DEF ProcessTypes
  <2> QED BY <1>4, <2>3, <2>4 DEF StartSession, EndSession, EndLingering, Interrupt
<1>5. CASE BeginUnmount(i)
      BY <1>5 DEF BeginUnmount
<1>6. CASE CheckUsage(i) \/ Decline(i) \/ EndPass(i)
      BY <1>6 DEF CheckUsage, Decline, EndPass
<1>10. CASE ListMounts(i)
  <2>1. [point \in Points |-> Times(point)] \in [Points -> Nat]
        BY TimesType
  <2> QED BY <1>10, <2>1 DEF ListMounts
<1>7. CASE Umount(i) \/ UmountFails(i)
  <2>1. PICK point \in Points : Takes(i, point)
        BY <1>7 DEF Umount, UmountFails
  <2>2. todo' \in [Instances -> [Points -> Nat]]
        BY <2>1 DEF Takes
  <2> QED BY <1>7, <2>2 DEF Umount, UmountFails
<1>8. CASE Wait(i)
      BY <1>8, MountsAssumption DEF Wait
<1>9. CASE Kill(i)
  <2>1. orphan' \in [Instances -> Nat] /\ firstrun' \subseteq Instances
        BY <1>9 DEF Kill
  <2>2. killing' \subseteq Instances /\ asking' \subseteq Instances
        BY <1>9 DEF Kill, Answered, Escalate
  <2> QED BY <1>9, <2>1, <2>2, MountsAssumption DEF Kill
<1> QED BY <1>1, <1>2, <1>3, <1>4, <1>5, <1>6, <1>7, <1>8, <1>9, <1>10 DEF Enter, Unmount

\* A step of the scripts.
LEMMA NextKeeps == ASSUME MountsInv, [Next]_vars PROVE MountsInv'
<1>0. MountsInv <=> LayersType /\ ProcessTypes /\ OtherTypes /\ CheckedFirst
      BY DEF MountsInv, MountsTypeOK, LayersType, ProcessTypes, OtherTypes
<1>1. CASE UNCHANGED vars
      BY <1>1 DEF vars, mountVars, enterVars, unmountVars, MountsInv, MountsTypeOK,
                  CheckedFirst, Sessions
<1>2. ASSUME NEW i \in Instances,
             \/ Begin(i) \/ Enter(i) \/ EndSession(i) \/ EndLingering(i)
             \/ BeginUnmount(i) \/ Unmount(i) \/ Interrupt(i)
      PROVE  ProcessTypes' /\ CheckedFirst'
  <2>1. LayersType /\ ProcessTypes /\ CheckedFirst
        BY <1>0
  <2> USE <2>1
  <2>2. CASE StartSession(i)
    <3>1. Top \in Nat
          BY DEF Top, LayersType
    <3>2. CASE Mounted
      <4>1. ProcessTypes'
            BY <2>2, <3>1, <3>2 DEF StartSession, ProcessTypes, Goto, Steps, InPass
      <4>2. Sessions' \subseteq Sessions \cup {i}
            BY <2>2, <3>2 DEF StartSession, Sessions, ProcessTypes
      <4>3. ASSUME NEW j \in Instances, pc'[j] \in InPass
            PROVE  Sessions' \subseteq late'[j]
        <5>1. pc[j] \in InPass
              BY <2>2, <3>2, <4>3 DEF StartSession, Goto, InPass, ProcessTypes
        <5>2. late'[j] = late[j] \cup {i}
              BY <2>2, <3>2, <5>1 DEF StartSession
        <5> QED BY <4>2, <5>1, <5>2 DEF CheckedFirst
      <4> QED BY <4>1, <4>3 DEF CheckedFirst
    <3>3. CASE ~Mounted
      <4>1. Leave(i) /\ UNCHANGED <<inside, late>>
            BY <2>2, <3>3 DEF StartSession
      <4> QED BY <4>1, NothingStarts
              DEF Leave, Goto, ProcessTypes, Steps, Unmounting, InPass, Sessions
    <3> QED BY <3>2, <3>3
  <2>3. CASE CheckUsage(i)
    <3>1. ProcessTypes'
          BY <2>3 DEF CheckUsage, Goto, ProcessTypes, mountVars, Steps, Unmounting, InPass
    <3>2. Sessions' = Sessions
          BY <2>3 DEF CheckUsage, mountVars, Sessions
    <3>3. ASSUME NEW j \in Instances, pc'[j] \in InPass
          PROVE  Sessions' \subseteq late'[j]
      <4>1. CASE j = i
            BY <2>3, <3>2, <3>3, <4>1 DEF CheckUsage, Goto, InPass, ProcessTypes
      <4>2. CASE j # i
        <5>1. pc[j] \in InPass /\ late'[j] = late[j]
              BY <2>3, <3>3, <4>2 DEF CheckUsage, Goto, ProcessTypes
        <5> QED BY <3>2, <5>1 DEF CheckedFirst
      <4> QED BY <4>1, <4>2
    <3> QED BY <3>1, <3>3 DEF CheckedFirst
  <2>4. ASSUME late' = late, \A j \in Instances : inside'[j] \in {0, inside[j]},
               inside' \in [Instances -> Nat], pc' \in [Instances -> Steps],
               \A j \in Instances : pc'[j] \in InPass => pc[j] \in InPass
        PROVE  ProcessTypes' /\ CheckedFirst'
    <3>1. Sessions' \subseteq Sessions
          BY <2>4 DEF Sessions
    <3> QED BY <2>4, <3>1, NothingStarts DEF ProcessTypes
  <2>5. CASE Kill(i)
    <3>1. /\ late' = late
          /\ \A j \in Instances : inside'[j] \in {0, inside[j]}
          /\ inside' \in [Instances -> Nat]
          BY <2>5 DEF Kill, ProcessTypes
    <3>2. /\ pc' \in [Instances -> Steps]
          /\ \A j \in Instances : pc'[j] \in InPass => pc[j] \in InPass
          BY <2>5 DEF Kill, ProcessTypes, Steps, Unmounting, InPass
    <3> QED BY <3>1, <3>2, <2>4
  <2>6. CASE EndSession(i) \/ EndLingering(i)
    <3>1. /\ late' = late
          /\ inside' = [inside EXCEPT ![i] = 0]
          /\ Goto(i, "usage")
          BY <2>6 DEF EndSession, EndLingering, Leave
    <3>2. /\ \A j \in Instances : inside'[j] \in {0, inside[j]}
          /\ inside' \in [Instances -> Nat]
          BY <3>1 DEF ProcessTypes
    <3>3. /\ pc' \in [Instances -> Steps]
          /\ \A j \in Instances : pc'[j] \in InPass => pc[j] \in InPass
          BY <3>1 DEF Goto, ProcessTypes, Steps, Unmounting, InPass
    <3> QED BY <3>1, <3>2, <3>3, <2>4
  <2>7. CASE \/ Begin(i) \/ CheckMounted(i) \/ Bind(i) \/ Prepare(i) \/ CheckFirstRun(i)
             \/ CheckTarget(i) \/ MountTarget(i) \/ BeginUnmount(i) \/ Interrupt(i)
    <3>1. late' = late /\ inside' = inside
          BY <2>7 DEF Begin, CheckMounted, Bind, Prepare, CheckFirstRun, CheckTarget,
                      MountTarget, BeginUnmount, Interrupt, mountVars
    <3>2. /\ pc' \in [Instances -> Steps]
          /\ \A j \in Instances : pc'[j] \in InPass => pc[j] \in InPass
          BY <2>7 DEF Begin, CheckMounted, Bind, Prepare, CheckFirstRun, CheckTarget,
                      MountTarget, BeginUnmount, Interrupt, Leave, Goto, ProcessTypes,
                      Steps, Mounting, Unmounting, InPass
    <3> QED BY <3>1, <3>2, <2>4 DEF ProcessTypes
  <2>8. CASE \/ ListMounts(i) \/ Umount(i) \/ UmountFails(i) \/ EndPass(i) \/ Wait(i)
             \/ Decline(i)
    <3>1. late' = late /\ inside' = inside
          BY <2>8 DEF ListMounts, Umount, UmountFails, EndPass, Wait, Decline, mountVars
    <3>2. /\ pc' \in [Instances -> Steps]
          /\ \A j \in Instances : pc'[j] \in InPass => pc[j] \in InPass
          BY <2>8 DEF ListMounts, Umount, UmountFails, EndPass, Wait, Decline, Goto,
                      ProcessTypes, Steps, Unmounting, InPass
    <3> QED BY <3>1, <3>2, <2>4 DEF ProcessTypes
  <2> QED BY <1>2, <2>2, <2>3, <2>5, <2>6, <2>7, <2>8 DEF Enter, Unmount
<1>3. CASE Next
  <2> PICK i \in Instances :
          \/ Begin(i) \/ Enter(i) \/ EndSession(i) \/ EndLingering(i)
          \/ BeginUnmount(i) \/ Unmount(i) \/ Interrupt(i)
      BY <1>3 DEF Next
  <2>1. ProcessTypes' /\ CheckedFirst'
        BY <1>2
  <2>2. LayersType' /\ OtherTypes'
        BY <1>0, LayersKept, OthersKept
  <2> QED BY <2>1, <2>2
          DEF MountsInv, MountsTypeOK, LayersType, ProcessTypes, OtherTypes
<1> QED BY <1>1, <1>3

----------------------------------------------------------------------------
\* Whatever the instances do, an unmounter at work (unmount-chroot:187-302)
\* has checked, before the pass, for every session that has not begun since.
THEOREM MountsInvariant == Spec => []MountsInv
<1>1. Init => MountsInv
      BY MountsInit
<1>2. MountsInv /\ [Next]_vars => MountsInv'
      BY NextKeeps
<1> QED BY <1>1, <1>2, PTL DEF Spec

\* No unmount-chroot takes a mount from a session, or signals one, that its
\* last checkusage() could have found.
THEOREM MountsOnlyLateDisturbed == Spec => []OnlyLateDisturbed
<1>1. MountsInv => OnlyLateDisturbed
      BY DEF MountsInv, CheckedFirst, OnlyLateDisturbed, InPass
<1> QED BY <1>1, MountsInvariant, PTL

----------------------------------------------------------------------------
(* Nothing stays mounted.                                                   *)

\* A mount is a layer and a number, now and after a step.
LEMMA MountIs ==
    ASSUME NEW sub
    PROVE  /\ \A a, b : <<a, b>> \in MountsOf(sub) <=>
                          a \in DOMAIN layers /\ b \in 1..layers[a][sub]
           /\ \A e \in MountsOf(sub) : \E a, b : e = <<a, b>>
BY DEF MountsOf

LEMMA MountWillBe ==
    ASSUME NEW sub
    PROVE  /\ \A a, b : <<a, b>> \in MountsOf(sub)' <=>
                          a \in DOMAIN layers' /\ b \in 1..layers'[a][sub]
           /\ \A e \in MountsOf(sub)' : \E a, b : e = <<a, b>>
BY DEF MountsOf

\* One submount less on the top layer.
LEMMA SubUnmounted ==
    ASSUME LayersType, NEW sub \in Subs, layers[Top][sub] > 0,
           SetTop(sub, layers[Top][sub] - 1)
    PROVE  /\ Top' = Top
           /\ Times(sub)' = Times(sub) - 1
           /\ \A point \in Points : point # sub => Times(point)' = Times(point)
<1> DEFINE n == layers[Top][sub]
<1>1. /\ Top \in DOMAIN layers /\ DOMAIN layers = 1..Top /\ Top \in Nat
      /\ n \in Nat /\ n > 0 /\ sub # "base" /\ layers \in Seq([Subs -> Nat])
  <2>1. /\ Top \in DOMAIN layers /\ DOMAIN layers = 1..Top /\ Top \in Nat
        /\ layers \in Seq([Subs -> Nat])
        BY DEF Top, LayersType
  <2>2. n \in Nat /\ n > 0
        BY <2>1
  <2>3. sub # "base"
        BY MountsAssumption DEF Subs
  <2> QED BY <2>1, <2>2, <2>3
<1>2. /\ DOMAIN layers' = DOMAIN layers /\ Len(layers') = Len(layers)
      /\ layers'[Top][sub] = n - 1
      /\ \A p \in Subs : p # sub => layers'[Top][p] = layers[Top][p]
      /\ \A a \in DOMAIN layers : a # Top => layers'[a] = layers[a]
      BY <1>1 DEF SetTop
<1>3. Top' = Top
      BY <1>2 DEF Top
<1> HIDE DEF n
<1>4. MountsOf(sub)' = MountsOf(sub) \ {<<Top, n>>}
  <2>1. ASSUME NEW a, NEW b
        PROVE  <<a, b>> \in MountsOf(sub)' <=>
                   <<a, b>> \in MountsOf(sub) /\ <<a, b>> # <<Top, n>>
    <3>1. <<a, b>> \in MountsOf(sub)' <=> a \in DOMAIN layers' /\ b \in 1..layers'[a][sub]
          BY MountWillBe
    <3>2. <<a, b>> \in MountsOf(sub) <=> a \in DOMAIN layers /\ b \in 1..layers[a][sub]
          BY MountIs
    <3>3. CASE a = Top
          BY <1>1, <1>2, <3>1, <3>2, <3>3 DEF n
    <3>4. CASE a # Top
          BY <1>2, <3>1, <3>2, <3>4
    <3> QED BY <3>3, <3>4
  <2>2. \A e \in MountsOf(sub)' : \E a, b : e = <<a, b>>
        BY MountWillBe
  <2>3. \A e \in MountsOf(sub) : \E a, b : e = <<a, b>>
        BY MountIs
  <2> QED BY <2>1, <2>2, <2>3
<1>5. Times(sub)' = Times(sub) - 1
  <2>1. <<Top, n>> \in MountsOf(sub)
        BY <1>1, MountIs DEF n
  <2>2. IsFiniteSet(MountsOf(sub))
        BY TimesType DEF Points
  <2>3. Cardinality(MountsOf(sub) \ {<<Top, n>>}) = Cardinality(MountsOf(sub)) - 1
        BY <2>1, <2>2, FS_RemoveElement
  <2> QED BY <1>1, <1>4, <2>3 DEF Times
<1>6. ASSUME NEW point \in Points, point # sub
      PROVE  Times(point)' = Times(point)
  <2>1. CASE point = "base"
        BY <1>3, <2>1 DEF Times
  <2>2. CASE point # "base"
    <3>1. point \in Subs
          BY <2>2 DEF Points
    <3>2. \A a \in DOMAIN layers : layers'[a][point] = layers[a][point]
          BY <1>2, <1>6, <3>1
    <3>3. MountsOf(point)' = MountsOf(point)
          BY <1>2, <3>2 DEF MountsOf
    <3> QED BY <2>2, <3>3 DEF Times
  <2> QED BY <2>1, <2>2
<1> QED BY <1>3, <1>5, <1>6

\* The top layer is taken away, which had nothing mounted on it.
LEMMA BaseUnmounted ==
    ASSUME LayersType, Mounted, layers[Top] = Bare, layers' = SubSeq(layers, 1, Top - 1)
    PROVE  /\ Top' = Top - 1
           /\ Times("base")' = Times("base") - 1
           /\ \A point \in Points : point # "base" => Times(point)' = Times(point)
<1>1. /\ DOMAIN layers = 1..Top /\ Top \in Nat /\ Top > 1 /\ layers \in Seq([Subs -> Nat])
      BY DEF Top, LayersType, Mounted
<1>2. /\ Len(layers') = Top - 1 /\ DOMAIN layers' = 1..Top - 1
      /\ \A a \in 1..Top - 1 : layers'[a] = layers[a]
      BY <1>1
<1>3. Top' = Top - 1
      BY <1>2 DEF Top
<1>4. Times("base")' = Times("base") - 1
      BY <1>1, <1>3 DEF Times
<1>5. ASSUME NEW point \in Points, point # "base"
      PROVE  Times(point)' = Times(point)
  <2>1. point \in Subs /\ layers[Top][point] = 0
        BY <1>5 DEF Points, Bare
  <2>2. ASSUME NEW a, NEW b
        PROVE  <<a, b>> \in MountsOf(point)' <=> <<a, b>> \in MountsOf(point)
    <3>1. <<a, b>> \in MountsOf(point)' <=>
              a \in DOMAIN layers' /\ b \in 1..layers'[a][point]
          BY MountWillBe
    <3>2. <<a, b>> \in MountsOf(point) <=> a \in DOMAIN layers /\ b \in 1..layers[a][point]
          BY MountIs
    <3>3. CASE a = Top
          BY <1>1, <1>2, <2>1, <3>1, <3>2, <3>3
    <3>4. CASE a # Top
      <4>1. a \in DOMAIN layers' <=> a \in DOMAIN layers
            BY <1>1, <1>2, <3>4
      <4> QED BY <1>2, <3>1, <3>2, <4>1
    <3> QED BY <3>3, <3>4
  <2>3. \A e \in MountsOf(point)' : \E a, b : e = <<a, b>>
        BY MountWillBe
  <2>4. \A e \in MountsOf(point) : \E a, b : e = <<a, b>>
        BY MountIs
  <2>5. MountsOf(point)' = MountsOf(point)
    <3>1. ASSUME NEW e \in MountsOf(point)
          PROVE  e \in MountsOf(point)'
      <4>1. PICK a, b : e = <<a, b>>
            BY <2>4
      <4>2. <<a, b>> \in MountsOf(point)'
            BY <2>2, <4>1
      <4> QED BY <4>1, <4>2
    <3>2. ASSUME NEW e \in MountsOf(point)'
          PROVE  e \in MountsOf(point)
      <4>1. PICK a, b : e = <<a, b>>
            BY <2>3
      <4>2. <<a, b>> \in MountsOf(point)
            BY <2>2, <4>1
      <4> QED BY <4>1, <4>2
    <3> QED BY <3>1, <3>2
  <2> QED BY <1>5, <2>5 DEF Times
<1> QED BY <1>3, <1>4, <1>5

\* What one umount does to the mounts and to what is left of the pass.
LEMMA UmountTakes ==
    ASSUME LayersType, todo \in [Instances -> [Points -> Nat]], NEW i \in Instances,
           Umount(i)
    PROVE  /\ Top' \in {Top, Top - 1} /\ (TopInUse => Top' = Top)
           /\ layers # <<Bare>>
           /\ \A point \in Points : Times(point)' \in Int /\ Times(point)' <= Times(point)
           /\ \A j \in Instances : j # i => todo'[j] = todo[j]
           /\ \A point \in Points :
                  Times(point) <= todo[i][point] => Times(point)' <= todo'[i][point]
<1>1. PICK point \in Points :
          /\ Takes(i, point)
          /\ \/ /\ point \in Subs /\ layers[Top][point] > 0
                /\ SetTop(point, layers[Top][point] - 1)
             \/ /\ point = "base"
                /\ Mounted /\ layers[Top] = Bare /\ ~TopInUse
                /\ layers' = SubSeq(layers, 1, Top - 1)
      BY DEF Umount
<1>2. /\ \A j \in Instances : j # i => todo'[j] = todo[j]
      /\ todo'[i] = [todo[i] EXCEPT ![point] = @ - 1]
      /\ todo[i] \in [Points -> Nat]
      BY <1>1 DEF Takes
<1>3. \A p \in Points : Times(p) \in Nat
      BY TimesType
<1>4. /\ Top \in Nat /\ Top' \in {Top, Top - 1} /\ (TopInUse => Top' = Top)
      /\ Times(point)' = Times(point) - 1
      /\ \A p \in Points : p # point => Times(p)' = Times(p)
  <2>1. CASE /\ point \in Subs /\ layers[Top][point] > 0
             /\ SetTop(point, layers[Top][point] - 1)
        BY <2>1, SubUnmounted DEF Top, LayersType
  <2>2. CASE /\ point = "base"
             /\ Mounted /\ layers[Top] = Bare /\ ~TopInUse
             /\ layers' = SubSeq(layers, 1, Top - 1)
        BY <2>2, BaseUnmounted DEF Top, LayersType
  <2> QED BY <1>1, <2>1, <2>2
<1>5. layers # <<Bare>>
  <2>1. SUFFICES ASSUME layers = <<Bare>>
                 PROVE  FALSE
        OBVIOUS
  <2>2. Top = 1 /\ layers[1] = Bare
        BY <2>1 DEF Top
  <2> QED BY <1>1, <2>2 DEF Mounted, Bare
<1>7. \A p \in Points : Times(p) <= todo[i][p] => Times(p)' <= todo'[i][p]
      BY <1>2, <1>3, <1>4
<1>8. \A p \in Points : Times(p)' \in Int /\ Times(p)' <= Times(p)
      BY <1>3, <1>4
<1> QED BY <1>2, <1>4, <1>5, <1>7, <1>8

\* When nothing is in the mount table the directory is bare.
LEMMA NothingMounted ==
    ASSUME LayersType, \A point \in Points : Times(point) <= 0
    PROVE  layers = <<Bare>>
<1>1. Top \in Nat \ {0} /\ DOMAIN layers = 1..Top /\ layers \in Seq([Subs -> Nat])
      BY DEF LayersType, Top
<1>2. Top = 1
  <2>1. Times("base") <= 0 /\ Times("base") = Top - 1
        BY DEF Points, Times
  <2> QED BY <1>1, <2>1
<1>3. ASSUME NEW sub \in Subs
      PROVE  layers[1][sub] = 0
  <2>1. IsFiniteSet(MountsOf(sub)) /\ sub # "base" /\ Times(sub) \in Nat /\ Times(sub) <= 0
        BY TimesType, MountsAssumption DEF Points, Subs
  <2>2. Cardinality(MountsOf(sub)) = 0
        BY <2>1 DEF Times
  <2>3. MountsOf(sub) = {}
        BY <2>1, <2>2, FS_EmptySet
  <2>4. layers[1][sub] \in Nat /\ 1 \in DOMAIN layers
        BY <1>1, <1>2
  <2>5. <<1, 1>> \notin MountsOf(sub)
        BY <2>3
  <2> QED BY <2>4, <2>5, MountIs
<1>4. layers[1] = Bare
  <2>1. layers[1] \in [Subs -> Nat]
        BY <1>1, <1>2
  <2> QED BY <1>3, <2>1 DEF Bare
<1> QED BY <1>1, <1>2, <1>4 DEF Top

\* A script that moves on, neither into a session nor out of one.
LEMMA PlacedMoves ==
    ASSUME MountsInv, Placed, NEW i \in Instances, NEW step, Goto(i, step),
           pc[i] # "session", step # "session", UNCHANGED <<inside, orphan>>,
           Top' \in Nat, Top' >= Top,
           asking' \ {i} \subseteq asking, failed' \ {i} \subseteq failed,
           i \in asking' => step \in Unmounting \cup {"done", "lost"},
           i \in failed' => step \in {"umount", "lost"}
    PROVE  Placed'
<1>1. /\ pc'[i] = step /\ \A j \in Instances : j # i => pc'[j] = pc[j]
      /\ asking \subseteq Instances /\ failed \subseteq Instances
      /\ Top \in Nat
      BY DEF Goto, MountsInv, MountsTypeOK, Top
<1>2. 2..Top \subseteq 2..Top'
      BY <1>1
<1> QED BY <1>1, <1>2 DEF Placed

\* A script that has been running a session and ends it.
LEMMA PlacedLeaves ==
    ASSUME MountsInv, Placed, NEW i \in Instances, pc[i] = "session", Leave(i),
           inside' = [inside EXCEPT ![i] = 0],
           orphan' \in {orphan, [orphan EXCEPT ![i] = inside[i]]},
           UNCHANGED <<layers, asking, failed>>
    PROVE  Placed'
<1>1. /\ pc'[i] = "usage" /\ \A j \in Instances : j # i => pc'[j] = pc[j]
      /\ inside'[i] = 0 /\ \A j \in Instances : j # i => inside'[j] = inside[j]
      /\ \A j \in Instances : orphan'[j] \in {orphan[j], inside[j]}
      /\ asking \subseteq Instances /\ failed \subseteq Instances
      BY DEF Leave, Goto, MountsInv, MountsTypeOK
<1>2. Top' = Top
      BY DEF Top
<1>3. i \notin asking /\ i \notin failed
      BY DEF Placed, Unmounting, InPass
<1> QED BY <1>1, <1>2, <1>3 DEF Placed, Unmounting, InPass

\* Every step keeps scripts and processes in their places.
LEMMA PlacedKept ==
    ASSUME MountsInv, Placed, NEW i \in Instances,
           \/ Begin(i) \/ Enter(i) \/ EndSession(i) \/ EndLingering(i)
           \/ BeginUnmount(i) \/ Unmount(i) \/ Interrupt(i)
    PROVE  Placed'
<1>1. /\ LayersType /\ Top \in Nat /\ asking \subseteq Instances /\ failed \subseteq Instances
      /\ pc \in [Instances -> Steps] /\ inside \in [Instances -> Nat]
      /\ orphan \in [Instances -> Nat] /\ todo \in [Instances -> [Points -> Nat]]
      BY DEF MountsInv, MountsTypeOK, LayersType, Top
<1>2. /\ i \in asking => pc[i] \in Unmounting \cup {"done", "lost"}
      /\ i \in failed => pc[i] \in {"umount", "lost"}
      BY DEF Placed
<1>3. UNCHANGED layers => Top' \in Nat /\ Top' >= Top
      BY <1>1 DEF Top
<1> USE DEF mountVars, enterVars, unmountVars
<1>4. CASE Begin(i)
      BY <1>1, <1>2, <1>3, <1>4, PlacedMoves DEF Begin, Unmounting, InPass
<1>5. CASE CheckMounted(i) \/ Prepare(i) \/ CheckFirstRun(i)
  <2>1. \E step \in {"prepare", "bind", "firstrun", "usage", "target"} : Goto(i, step)
        BY <1>5 DEF CheckMounted, Prepare, CheckFirstRun
  <2>2. pc[i] \in Mounting /\ UNCHANGED <<layers, inside, orphan, asking, failed>>
        BY <1>5 DEF CheckMounted, Prepare, CheckFirstRun, Mounting
  <2> QED BY <1>1, <1>2, <1>3, <2>1, <2>2, PlacedMoves DEF Mounting, Unmounting, InPass
<1>6. CASE Bind(i)
  <2>1. Top' = Top + 1
        BY <1>1, <1>6 DEF Bind, Top, LayersType
  <2>2. /\ UNCHANGED <<inside, orphan, asking, failed>> /\ pc[i] = "bind"
        /\ Goto(i, "prepare") /\ Top' \in Nat /\ Top' >= Top
        BY <1>1, <1>6, <2>1 DEF Bind
  <2> QED BY <1>2, <2>2, PlacedMoves DEF Unmounting, InPass
<1>7. CASE CheckTarget(i)
  <2>1. UNCHANGED <<layers, inside, orphan, asking, failed>> /\ pc[i] = "target"
        BY <1>7 DEF CheckTarget
  <2>2. \E step \in {"start", "mount", "target"} : Goto(i, step)
        BY <1>1, <1>7 DEF CheckTarget, Goto
  <2> QED BY <1>1, <1>2, <1>3, <2>1, <2>2, PlacedMoves DEF Unmounting, InPass
<1>8. CASE MountTarget(i)
  <2>1. Top' = Top
        BY <1>1, <1>8 DEF MountTarget, SetTop, Top, LayersType
  <2>2. /\ UNCHANGED <<inside, orphan, asking, failed>> /\ pc[i] = "mount"
        /\ Goto(i, "target") /\ Top' \in Nat /\ Top' >= Top
        BY <1>1, <1>8, <2>1 DEF MountTarget
  <2> QED BY <1>2, <2>2, PlacedMoves DEF Unmounting, InPass
<1>9. CASE StartSession(i)
  <2>1. CASE Mounted
    <3>1. /\ pc'[i] = "session" /\ \A j \in Instances : j # i => pc'[j] = pc[j]
          /\ inside'[i] = Top /\ \A j \in Instances : j # i => inside'[j] = inside[j]
          /\ UNCHANGED <<layers, orphan, asking, failed>> /\ pc[i] = "start"
          BY <1>1, <1>9, <2>1 DEF StartSession, Goto
    <3>2. Top' = Top /\ Top \in 2..Top
          BY <1>1, <2>1, <3>1 DEF Mounted, Top
    <3>3. i \notin asking /\ i \notin failed
          BY <1>2, <3>1 DEF Unmounting, InPass
    <3>4. \A j \in Instances : inside'[j] # 0 <=> pc'[j] = "session"
          BY <3>1, <3>2 DEF Placed
    <3>5. \A j \in Instances : {inside'[j], orphan'[j]} \subseteq {0} \cup 2..Top'
          BY <3>1, <3>2 DEF Placed
    <3>6. /\ \A j \in asking' : pc'[j] \in Unmounting \cup {"done", "lost"}
          /\ \A j \in failed' : pc'[j] \in {"umount", "lost"}
          BY <1>1, <3>1, <3>3 DEF Placed
    <3> QED BY <3>4, <3>5, <3>6 DEF Placed
  <2>2. CASE ~Mounted
        BY <1>1, <1>2, <1>3, <1>9, <2>2, PlacedMoves
        DEF StartSession, Leave, Unmounting, InPass
  <2> QED BY <2>1, <2>2
<1>10. CASE EndSession(i) \/ EndLingering(i)
       BY <1>10, PlacedLeaves DEF EndSession, EndLingering
<1>11. CASE BeginUnmount(i)
       BY <1>1, <1>2, <1>3, <1>11, PlacedMoves DEF BeginUnmount, Unmounting, InPass
<1>12. CASE CheckUsage(i) \/ ListMounts(i) \/ Wait(i) \/ Decline(i)
  <2>1. \E step \in {"list", "done", "umount", "usage"} : Goto(i, step)
        BY <1>12 DEF CheckUsage, ListMounts, Wait, Decline
  <2>2. pc[i] \in Unmounting \ {"umount"}
        /\ UNCHANGED <<layers, inside, orphan, asking, failed>>
        BY <1>12 DEF CheckUsage, ListMounts, Wait, Decline, Unmounting, InPass
  <2> QED BY <1>1, <1>2, <1>3, <2>1, <2>2, PlacedMoves DEF Unmounting, InPass
<1>13. CASE Umount(i)
  <2>1. /\ Top' \in {Top, Top - 1} /\ (TopInUse => Top' = Top)
        /\ UNCHANGED <<pc, inside, orphan, asking, failed>>
        BY <1>1, <1>13, UmountTakes DEF Umount
  <2>2. ASSUME NEW j \in Instances
        PROVE  {inside[j], orphan[j]} \subseteq {0} \cup 2..Top'
    <3>1. inside[j] \in {0} \cup 2..Top /\ orphan[j] \in {0} \cup 2..Top
          BY DEF Placed
    <3>2. CASE Top' = Top
          BY <3>1, <3>2
    <3>3. CASE Top' = Top - 1 /\ ~TopInUse
      <4>1. Top # inside[j] /\ Top # orphan[j]
            BY <3>3 DEF TopInUse
      <4>2. Top \in Nat
            BY <1>1
      <4>3. \A n \in {0} \cup 2..Top : Top # n => n \in {0} \cup 2..(Top - 1)
            BY <4>2
      <4> QED BY <3>1, <3>3, <4>1, <4>3
    <3> QED BY <2>1, <3>2, <3>3
  <2> QED BY <2>1, <2>2 DEF Placed
<1>14. CASE UmountFails(i) \/ EndPass(i)
  <2>1. \E step \in {"failed", "done", "umount"} : Goto(i, step) /\ (i \in failed' => step = "umount")
        BY <1>1, <1>14 DEF UmountFails, EndPass, Goto
  <2>2. /\ pc[i] = "umount" /\ UNCHANGED <<layers, inside, orphan, asking>>
        /\ failed' \ {i} \subseteq failed
        BY <1>14 DEF UmountFails, EndPass
  <2> QED BY <1>1, <1>2, <1>3, <2>1, <2>2, PlacedMoves DEF Unmounting, InPass
<1>15. CASE Kill(i)
  <2>1. PICK dead \in SUBSET (Sessions \cup Orphans) :
            /\ inside' = [j \in Instances |-> IF j \in dead THEN 0 ELSE inside[j]]
            /\ orphan' = [j \in Instances |-> IF j \in dead THEN 0 ELSE orphan[j]]
            /\ pc' = [j \in Instances |->
                         IF j = i \/ (j \in dead /\ pc[j] = "session")
                         THEN "usage" ELSE pc[j]]
        BY <1>15 DEF Kill
  <2>2. /\ asking' \subseteq asking /\ UNCHANGED <<layers, failed>> /\ pc[i] = "failed"
        BY <1>15 DEF Kill, Answered
  <2>3. Top' = Top
        BY <2>2 DEF Top
  <2>4. \A j \in Instances : inside'[j] # 0 <=> pc'[j] = "session"
        BY <2>1, <2>2 DEF Placed
  <2>5. \A j \in Instances : {inside'[j], orphan'[j]} \subseteq {0} \cup 2..Top'
        BY <2>1, <2>3 DEF Placed
  <2>6. /\ \A j \in asking' : pc'[j] \in Unmounting \cup {"done", "lost"}
        /\ \A j \in failed' : pc'[j] \in {"umount", "lost"}
        BY <1>1, <2>1, <2>2 DEF Placed, Unmounting, InPass
  <2> QED BY <2>4, <2>5, <2>6 DEF Placed
<1>16. CASE Interrupt(i)
  <2>1. /\ UNCHANGED <<layers, inside, orphan, asking, failed>> /\ pc[i] # "session"
        /\ \/ Goto(i, "lost")
           \/ pc[i] \in Mounting /\ Goto(i, "usage")
        BY <1>16 DEF Interrupt, Leave, Mounting, Unmounting, InPass
  <2> QED BY <1>1, <1>2, <1>3, <2>1, PlacedMoves DEF Mounting, Unmounting, InPass
<1> HIDE DEF mountVars, enterVars, unmountVars
<1> QED BY <1>4, <1>5, <1>6, <1>7, <1>8, <1>9, <1>10, <1>11, <1>12, <1>13, <1>14, <1>15,
           <1>16 DEF Enter, Unmount

\* An instance that mounts, or whose session ends, will read the mount table.
LEMMA EntererWillList ==
    ASSUME MountsInv, Placed, NEW i \in Instances,
           \/ Begin(i) \/ Enter(i) \/ EndSession(i) \/ EndLingering(i) \/ Interrupt(i)
    PROVE  Attended'
<1>1. /\ pc \in [Instances -> Steps] /\ asking' = asking
      BY DEF MountsInv, MountsTypeOK, Begin, Enter, EndSession, EndLingering, Interrupt,
             unmountVars, CheckMounted, Bind, Prepare, CheckFirstRun, CheckTarget,
             MountTarget, StartSession
<1>2. pc'[i] \in Mounting \cup {"session", "usage", "lost"}
      BY <1>1
      DEF Begin, Enter, EndSession, EndLingering, Interrupt, CheckMounted, Bind, Prepare,
          CheckFirstRun, CheckTarget, MountTarget, StartSession, Leave, Goto, Mounting
<1>3. pc[i] \in {"idle", "session"} \cup Mounting \/ pc'[i] = "lost"
      BY <1>1
      DEF Begin, Enter, EndSession, EndLingering, Interrupt, CheckMounted, Bind, Prepare,
          CheckFirstRun, CheckTarget, MountTarget, StartSession, Leave, Goto, Mounting
<1>4. i \in asking => pc'[i] = "lost"
      BY <1>3 DEF Placed, Mounting, Unmounting, InPass
<1>5. pc'[i] = "lost" \/ WillList(i)'
      BY <1>1, <1>2, <1>4 DEF WillList
<1> QED BY <1>5 DEF Attended

\* What an unmounter does leaves the others as attentive as they were.
LEMMA OthersAttend ==
    ASSUME MountsInv, Placed, NEW i \in Instances, Unmount(i) \/ BeginUnmount(i),
           NEW j \in Instances, j # i, pc[j] = "lost" \/ WillList(j) \/ Clears(j)
    PROVE  Attended'
<1>1. /\ LayersType /\ todo \in [Instances -> [Points -> Nat]]
      /\ pc \in [Instances -> Steps]
      BY DEF MountsInv, MountsTypeOK, LayersType
<1>2. (j \in asking' => j \in asking) /\ (j \in failed' <=> j \in failed)
      /\ todo'[j] = todo[j]
  <2>1. CASE Umount(i)
        BY <1>1, <2>1, UmountTakes DEF Umount
  <2>2. CASE UmountFails(i)
        BY <1>1, <2>2 DEF UmountFails, Takes
  <2>3. CASE Kill(i)
        BY <2>3 DEF Kill, Answered
  <2>4. CASE CheckUsage(i) \/ Wait(i) \/ Decline(i)
        BY <2>4 DEF CheckUsage, Wait, Decline, unmountVars
  <2>5. CASE ListMounts(i)
        BY <1>1, <2>5 DEF ListMounts
  <2>6. CASE EndPass(i)
        BY <2>6 DEF EndPass
  <2>7. CASE BeginUnmount(i)
        BY <2>7 DEF BeginUnmount
  <2> QED BY <2>1, <2>2, <2>3, <2>4, <2>5, <2>6, <2>7 DEF Unmount
<1>3. pc'[j] = pc[j] \/ (pc[j] = "session" /\ pc'[j] = "usage")
      BY <1>1
      DEF Unmount, BeginUnmount, CheckUsage, ListMounts, Umount, UmountFails, EndPass,
          Wait, Kill, Decline, Goto
<1>4. \A point \in Points : Times(point)' \in Int /\ Times(point)' <= Times(point)
  <2>1. CASE Umount(i)
        BY <1>1, <2>1, UmountTakes
  <2>2. CASE UNCHANGED layers
    <3>1. \A point \in Points : Times(point) \in Nat /\ Times(point)' = Times(point)
          BY <1>1, <2>2, TimesType DEF Times, Top, MountsOf
    <3> QED BY <3>1
  <2> QED BY <2>1, <2>2
          DEF Unmount, BeginUnmount, CheckUsage, ListMounts, UmountFails, EndPass, Wait,
              Kill, Decline, mountVars
<1>5. CASE pc[j] = "lost"
      BY <1>3, <1>5 DEF Attended
<1>6. CASE WillList(j)
  <2>1. WillList(j)'
        BY <1>2, <1>3, <1>6 DEF WillList
  <2> QED BY <2>1 DEF Attended
<1>7. CASE Clears(j)
  <2>1. \A point \in Points : Times(point) \in Nat /\ todo[j][point] \in Nat
        BY <1>1, TimesType
  <2>2. \A point \in Points : Times(point)' <= todo'[j][point]
        BY <1>2, <1>4, <1>7, <2>1 DEF Clears
  <2>3. Clears(j)'
        BY <1>2, <1>3, <1>7, <2>2 DEF Clears
  <2> QED BY <2>3 DEF Attended
<1> QED BY <1>5, <1>6, <1>7

\* A bare directory stays so.
LEMMA BareStays ==
    ASSUME MountsInv, NEW i \in Instances, Unmount(i) \/ BeginUnmount(i),
           layers = <<Bare>>
    PROVE  Attended'
<1>1. ~Umount(i)
      BY UmountTakes DEF MountsInv, MountsTypeOK, LayersType
<1>2. layers' = layers
      BY <1>1
      DEF Unmount, BeginUnmount, CheckUsage, ListMounts, UmountFails, EndPass, Wait, Kill,
          Decline, mountVars
<1> QED BY <1>2 DEF Attended

\* An instance that attends goes on to, or leaves the directory bare, or finds a
\* session that will.
LEMMA SelfAttends ==
    ASSUME MountsInv, Placed, NEW i \in Instances, Unmount(i), WillList(i) \/ Clears(i)
    PROVE  Attended'
<1>1. /\ LayersType /\ todo \in [Instances -> [Points -> Nat]]
      /\ pc \in [Instances -> Steps] /\ i \notin asking
      BY DEF MountsInv, MountsTypeOK, LayersType, WillList, Clears
<1> SUFFICES WillList(i)' \/ Clears(i)' \/ Attended'
    BY DEF Attended
<1>2. CASE CheckUsage(i)
  <2>1. CASE Sessions = {}
        BY <1>1, <1>2, <2>1 DEF CheckUsage, Goto, WillList, unmountVars
  <2>2. CASE Sessions # {}
    <3>1. PICK j \in Instances : inside[j] # 0
          BY <2>2 DEF Sessions
    <3>2. pc[j] = "session" /\ j # i /\ j \notin asking
          BY <1>2, <3>1 DEF Placed, CheckUsage, Unmounting, InPass
    <3>3. WillList(j)
          BY <3>2 DEF WillList
    <3> QED BY <3>2, <3>3, OthersAttend
  <2> QED BY <2>1, <2>2
<1>3. CASE ListMounts(i)
  <2>1. /\ pc'[i] = "umount" /\ UNCHANGED <<asking, failed, layers>>
        /\ todo'[i] = [point \in Points |-> Times(point)]
        BY <1>1, <1>3 DEF ListMounts, Goto, mountVars
  <2>2. i \notin failed
        BY <1>3 DEF ListMounts, Placed
  <2>3. \A point \in Points : Times(point) \in Nat /\ Times(point)' = Times(point)
        BY <1>1, <2>1, TimesType DEF Times, Top, MountsOf
  <2>4. \A point \in Points : Times(point)' <= todo'[i][point]
        BY <2>1, <2>3
  <2> QED BY <1>1, <2>1, <2>2, <2>4 DEF Clears
<1>4. CASE Umount(i)
  <2>1. /\ UNCHANGED <<pc, asking, failed>>
        /\ \A point \in Points :
               Times(point) <= todo[i][point] => Times(point)' <= todo'[i][point]
        BY <1>1, <1>4, UmountTakes DEF Umount
  <2>2. CASE WillList(i)
        BY <2>1, <2>2 DEF WillList
  <2>3. CASE Clears(i)
        BY <2>1, <2>3 DEF Clears
  <2> QED BY <2>2, <2>3
<1>5. CASE UmountFails(i)
      BY <1>1, <1>5 DEF UmountFails, WillList
<1>6. CASE EndPass(i)
  <2>1. CASE i \in failed
        BY <1>1, <1>6, <2>1 DEF EndPass, Goto, WillList
  <2>2. CASE i \notin failed
    <3>1. Clears(i)
          BY <1>6, <2>2 DEF EndPass, WillList, Mounting
    <3>2. \A point \in Points : Times(point) <= 0
          BY <1>6, <3>1 DEF EndPass, Clears, NoMounts
    <3>3. layers = <<Bare>>
          BY <1>1, <3>2, NothingMounted
    <3> QED BY <3>3, BareStays
  <2> QED BY <2>1, <2>2
<1>7. CASE Wait(i)
      BY <1>1, <1>7 DEF Wait, Goto, WillList
<1>8. CASE Kill(i)
  <2>1. pc'[i] = "usage" /\ asking' \subseteq asking
        BY <1>1, <1>8 DEF Kill, Answered
  <2> QED BY <1>1, <2>1 DEF WillList
<1>9. CASE Decline(i)
      BY <1>1, <1>9 DEF Decline
<1> QED BY <1>2, <1>3, <1>4, <1>5, <1>6, <1>7, <1>8, <1>9 DEF Unmount

\* Every step keeps somebody attending to what is mounted.
LEMMA AttendedKept ==
    ASSUME MountsInv, Placed, Attended, NEW i \in Instances,
           \/ Begin(i) \/ Enter(i) \/ EndSession(i) \/ EndLingering(i)
           \/ BeginUnmount(i) \/ Unmount(i) \/ Interrupt(i)
    PROVE  Attended'
<1>1. CASE \/ Begin(i) \/ Enter(i) \/ EndSession(i) \/ EndLingering(i) \/ Interrupt(i)
      BY <1>1, EntererWillList
<1>2. CASE BeginUnmount(i) \/ Unmount(i)
  <2>1. CASE layers = <<Bare>>
        BY <1>2, <2>1, BareStays
  <2>2. ASSUME NEW j \in Instances, pc[j] = "lost" \/ WillList(j) \/ Clears(j)
        PROVE  Attended'
    <3>1. CASE j # i
          BY <1>2, <2>2, <3>1, OthersAttend
    <3>2. CASE j = i
      <4>1. pc[i] # "lost"
            BY <1>2
            DEF BeginUnmount, Unmount, CheckUsage, ListMounts, Umount, UmountFails,
                EndPass, Wait, Kill, Decline
      <4>2. ~BeginUnmount(i)
            BY <2>2, <3>2, <4>1 DEF BeginUnmount, WillList, Clears, Mounting
      <4> QED BY <1>2, <2>2, <3>2, <4>1, <4>2, SelfAttends
    <3> QED BY <3>1, <3>2
  <2> QED BY <2>1, <2>2 DEF Attended
<1> QED BY <1>1, <1>2

LEMMA CleanInit == Init => CleanInv
<1> SUFFICES ASSUME Init PROVE CleanInv
    OBVIOUS
<1>1. Placed /\ Attended
      BY DEF Init, Placed, Attended
<1> QED BY <1>1, MountsInit DEF CleanInv

LEMMA CleanNext == ASSUME CleanInv, [Next]_vars PROVE CleanInv'
<1>1. MountsInv'
      BY NextKeeps DEF CleanInv
<1>2. CASE UNCHANGED vars
  <2>1. UNCHANGED <<layers, pc, inside, orphan, asking, failed, todo>>
        BY <1>2 DEF vars, mountVars, unmountVars
  <2>2. Top' = Top /\ \A point \in Points : Times(point)' = Times(point)
        BY <2>1 DEF Times, Top, MountsOf
  <2>3. \A i \in Instances : (WillList(i) => WillList(i)') /\ (Clears(i) => Clears(i)')
        BY <2>1, <2>2 DEF WillList, Clears
  <2> QED BY <1>1, <2>1, <2>2, <2>3 DEF CleanInv, Placed, Attended
<1>3. CASE Next
      BY <1>1, <1>3, PlacedKept, AttendedKept DEF Next, CleanInv
<1> QED BY <1>2, <1>3

\* As long as something is mounted, an instance has been interrupted outside its
\* trap or will unmount it: by reading the mount table again, or in a pass that
\* has every mount on its list (enter-chroot:193, unmount-chroot:187-302).
THEOREM MountsAttended == Spec => []CleanInv
<1>1. CleanInv /\ [Next]_vars => CleanInv'
      BY CleanNext
<1> QED BY <1>1, CleanInit, PTL DEF Spec

\* "Auto-unmount everything below and including the chroot upon exit"
\* (enter-chroot:193), for any number of instances, submounts and tries.
THEOREM MountsCleanAtEnd == Spec => []CleanAtEnd
<1>1. ASSUME CleanInv, \A i \in Instances : pc[i] \in {"idle", "done"}
      PROVE  layers = <<Bare>> /\ Sessions = {} /\ Orphans = {}
  <2>1. Placed /\ layers = <<Bare>>
        BY <1>1 DEF CleanInv, Attended, WillList, Clears, Mounting
  <2>2. Top = 1
        BY <2>1 DEF Top
  <2>3. \A i \in Instances : inside[i] = 0 /\ orphan[i] = 0
        BY <2>1, <2>2 DEF Placed
  <2> QED BY <2>1, <2>3 DEF Sessions, Orphans
<1>2. CleanInv => CleanAtEnd
      BY <1>1 DEF CleanAtEnd
<1> QED BY <1>2, MountsAttended, PTL
=============================================================================
