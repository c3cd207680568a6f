------------------------ MODULE WindowInputDelivery -------------------------
(***************************************************************************)
(* Theorems about the input frames on their way from a window to the X     *)
(* server: what they leave down when they arrive, and where they click.    *)
(***************************************************************************)
EXTENDS WindowInputProofs, SequenceTheorems

\* Before the version is exchanged a module has moved and held nothing that
\* counts, and sent nothing; without the focus it knows of no key held down.
Unconnected ==
    /\ sock \notin {"open", "closing"} => ~connected
    /\ sock \in {"none", "connecting", "waiting"} =>
           pos = 0 /\ pending = FALSE /\ held = {}
    /\ sock = "open" /\ line = "live" /\ ~connected =>
           fpc = "version" /\ toFb = <<>> /\ xdown = {}
    /\ ~focus => held = {}

\* Why something may be down in X: as in NoStuckKey, but Search only while the
\* module believes it has pressed it.
Excused(k) ==
    \/ k \in held /\ k # Super
    \/ k = Super /\ search = "down"
    \/ k = Left /\ focus /\ touchId \in touching
    \/ k \in lost

Releases ==
    connected /\ sock = "open" /\ line = "live" =>
        \A k \in AllCodes : DownAfter(k) => Excused(k)

\* Where the pointer is when the frames before the i-th of a queue are handled.
PointerAt(queue, i, before, p) ==
    \/ before = p /\ \A j \in DOMAIN queue : j < i => queue[j].t # "M"
    \/ \E j \in DOMAIN queue :
           /\ j < i /\ queue[j].t = "M" /\ queue[j].at = p
           /\ \A l \in DOMAIN queue : j < l /\ l < i => queue[l].t # "M"

EndsAt(queue, before, p) == PointerAt(queue, Len(queue) + 1, before, p)

\* Each click of a queue finds the pointer where it was made.
Lands(queue, before) ==
    \A i \in DOMAIN queue :
        queue[i].t = "C" /\ queue[i].at # 0 => PointerAt(queue, i, before, queue[i].at)

Aimed == Lands(toFb, xpos)

\* A module with no move to send has sent the last one.
Followed ==
    sock = "open" /\ line = "live" /\ ~pending /\ pos # 0 =>
        connected /\ EndsAt(toFb, xpos, pos)

Delivery == Unconnected /\ Releases /\ Aimed /\ Followed

\* The inductive invariant of what arrives.
DeliveryInv == InputInv /\ Delivery

----------------------------------------------------------------------------
(* Queues.                                                                  *)

\* Two queues, one after the other.
LEMMA Concat ==
    ASSUME NEW S, NEW s \in Seq(S), NEW t \in Seq(S)
    PROVE  /\ s \o t \in Seq(S) /\ Len(s) \in Nat /\ Len(t) \in Nat
           /\ Len(s \o t) = Len(s) + Len(t)
           /\ DOMAIN s = 1..Len(s) /\ DOMAIN t = 1..Len(t)
           /\ DOMAIN (s \o t) = 1..Len(s) + Len(t)
           /\ \A i \in DOMAIN s : i \in DOMAIN (s \o t) /\ (s \o t)[i] = s[i]
           /\ \A i \in DOMAIN t : /\ Len(s) + i \in DOMAIN (s \o t)
                                  /\ (s \o t)[Len(s) + i] = t[i]
           /\ \A i \in DOMAIN (s \o t) :
                  \/ i \in DOMAIN s /\ (s \o t)[i] = s[i]
                  \/ i - Len(s) \in DOMAIN t /\ (s \o t)[i] = t[i - Len(s)]
<1>1. /\ Len(s) \in Nat /\ Len(t) \in Nat
      /\ DOMAIN s = 1..Len(s) /\ DOMAIN t = 1..Len(t)
      OBVIOUS
<1>2. /\ s \o t \in Seq(S) /\ Len(s \o t) = Len(s) + Len(t)
      /\ \A i \in 1..Len(s) + Len(t) :
             (s \o t)[i] = IF i <= Len(s) THEN s[i] ELSE t[i - Len(s)]
      BY ConcatProperties
<1> DEFINE u == s \o t
<1>3. DOMAIN u = 1..Len(s) + Len(t)
      BY <1>2
<1>4. \A i \in 1..Len(s) + Len(t) : u[i] = IF i <= Len(s) THEN s[i] ELSE t[i - Len(s)]
      BY <1>2
<1> HIDE DEF u
<1>5. \A i \in DOMAIN s : i \in DOMAIN u /\ u[i] = s[i]
      BY <1>1, <1>3, <1>4
<1>6. \A i \in DOMAIN t : Len(s) + i \in DOMAIN u /\ u[Len(s) + i] = t[i]
      BY <1>1, <1>3, <1>4
<1>7. \A i \in DOMAIN u : \/ i \in DOMAIN s /\ u[i] = s[i]
                          \/ i - Len(s) \in DOMAIN t /\ u[i] = t[i - Len(s)]
      BY <1>1, <1>3, <1>4
<1> QED BY <1>1, <1>2, <1>3, <1>5, <1>6, <1>7 DEF u

\* What decides in one queue after another.
LEMMA ConcatPresses ==
    ASSUME NEW S, NEW s \in Seq(S), NEW t \in Seq(S), NEW k
    PROVE  /\ Silent(s \o t, k) => Silent(s, k) /\ Silent(t, k)
           /\ Presses(s \o t, k) => Presses(t, k) \/ (Presses(s, k) /\ Silent(t, k))
<1> DEFINE u == s \o t
<1>1. /\ Len(s) \in Nat /\ DOMAIN s = 1..Len(s) /\ DOMAIN t = 1..Len(t)
      /\ \A i \in DOMAIN s : i \in DOMAIN u /\ u[i] = s[i]
      /\ \A i \in DOMAIN t : Len(s) + i \in DOMAIN u /\ u[Len(s) + i] = t[i]
      /\ \A i \in DOMAIN u : \/ i \in DOMAIN s /\ u[i] = s[i]
                             \/ i - Len(s) \in DOMAIN t /\ u[i] = t[i - Len(s)]
      /\ DOMAIN u \subseteq Int
      BY Concat
<1> HIDE DEF u
<1>2. Silent(u, k) => Silent(s, k) /\ Silent(t, k)
      BY <1>1 DEF Silent
<1>3. ASSUME Presses(u, k)
      PROVE  Presses(t, k) \/ (Presses(s, k) /\ Silent(t, k))
  <2>1. PICK i \in DOMAIN u :
            /\ Decides(u[i], k) /\ u[i].t # "Q" /\ u[i].down
            /\ \A j \in DOMAIN u : j > i => ~Decides(u[j], k)
        BY <1>3 DEF Presses
  <2>2. CASE i \in DOMAIN s /\ u[i] = s[i]
    <3>1. \A j \in DOMAIN s : j > i => ~Decides(s[j], k)
          BY <1>1, <2>1
    <3>2. \A j \in DOMAIN t : ~Decides(t[j], k)
          BY <1>1, <2>1, <2>2
    <3> QED BY <2>1, <2>2, <3>1, <3>2 DEF Presses, Silent
  <2>3. CASE i - Len(s) \in DOMAIN t /\ u[i] = t[i - Len(s)]
    <3>1. \A j \in DOMAIN t : j > i - Len(s) => ~Decides(t[j], k)
          BY <1>1, <2>1, <2>3
    <3> QED BY <2>1, <2>3, <3>1 DEF Presses
  <2> QED BY <1>1, <2>1, <2>2, <2>3
<1> QED BY <1>2, <1>3 DEF u

\* A queue of one frame, or of none.
LEMMA OnePresses ==
    ASSUME NEW S, NEW x \in S, NEW c, NEW k
    PROVE  /\ Presses(<<x>>, k) => Decides(x, k) /\ x.t # "Q" /\ x.down
           /\ Silent(<<x>>, k) => ~Decides(x, k)
           /\ ~Decides(x, k) => Silent(<<x>>, k)
           /\ Silent(<<>>, k) /\ ~Presses(<<>>, k)
<1>1. DOMAIN <<x>> = {1} /\ <<x>>[1] = x
      OBVIOUS
<1>2. DOMAIN <<>> = {}
      OBVIOUS
<1> DEFINE q == <<x>>
<1>3. /\ Presses(q, k) => Decides(x, k) /\ x.t # "Q" /\ x.down
      /\ Silent(q, k) => ~Decides(x, k)
      /\ ~Decides(x, k) => Silent(q, k)
  <2> HIDE DEF q
  <2>1. DOMAIN q = {1} /\ q[1] = x
        BY <1>1 DEF q
  <2> QED BY <2>1 DEF Presses, Silent
<1>4. Silent(<<>>, k) /\ ~Presses(<<>>, k)
      BY <1>2 DEF Presses, Silent
<1> QED BY <1>3, <1>4

\* What has been handled first decided first.
LEMMA TailPresses ==
    ASSUME NEW S, NEW q \in Seq(S), q # <<>>, NEW k
    PROVE  /\ Silent(Tail(q), k) /\ ~Decides(Head(q), k) => Silent(q, k)
           /\ /\ Silent(Tail(q), k) /\ Decides(Head(q), k)
              /\ Head(q).t # "Q" /\ Head(q).down
              => Presses(q, k)
           /\ Presses(Tail(q), k) => Presses(q, k)
<1> DEFINE r == Tail(q)
           h == Head(q)
<1>1. /\ Len(q) \in Nat \ {0} /\ DOMAIN q = 1..Len(q) /\ h = q[1]
      /\ DOMAIN r = 1..Len(q) - 1
      OBVIOUS
<1>2. \A i \in 1..Len(q) - 1 : r[i] = q[i + 1]
      OBVIOUS
<1> HIDE DEF r, h
<1>3. \A i \in DOMAIN q : \/ i = 1 /\ q[i] = h
                          \/ i - 1 \in DOMAIN r /\ q[i] = r[i - 1]
      BY <1>1, <1>2
<1>4. \A i \in DOMAIN r : i + 1 \in DOMAIN q /\ q[i + 1] = r[i]
      BY <1>1, <1>2
<1>5. Silent(r, k) /\ ~Decides(h, k) => Silent(q, k)
      BY <1>3 DEF Silent
<1>6. ASSUME Silent(r, k), Decides(h, k), h.t # "Q", h.down
      PROVE  Presses(q, k)
  <2>1. \A j \in DOMAIN q : j > 1 => ~Decides(q[j], k)
        BY <1>3, <1>6 DEF Silent
  <2>2. 1 \in DOMAIN q /\ q[1] = h
        BY <1>1
  <2> QED BY <1>6, <2>1, <2>2 DEF Presses
<1>7. ASSUME Presses(r, k)
      PROVE  Presses(q, k)
  <2>1. PICK i \in DOMAIN r :
            /\ Decides(r[i], k) /\ r[i].t # "Q" /\ r[i].down
            /\ \A j \in DOMAIN r : j > i => ~Decides(r[j], k)
        BY <1>7 DEF Presses
  <2>2. \A j \in DOMAIN q : j > i + 1 => ~Decides(q[j], k)
        BY <1>1, <1>3, <2>1
  <2> QED BY <1>4, <2>1, <2>2 DEF Presses
<1> QED BY <1>5, <1>6, <1>7 DEF r, h

\* Frames that follow others, without moves and with clicks where those end.
LEMMA ConcatLands ==
    ASSUME NEW S, NEW s \in Seq(S), NEW t \in Seq(S), NEW before, NEW p,
           \A i \in DOMAIN t : t[i].t # "M" /\ (t[i].t = "C" => t[i].at = p),
           Lands(s, before), p # 0 => EndsAt(s, before, p)
    PROVE  /\ Lands(s \o t, before)
           /\ p # 0 => EndsAt(s \o t, before, p)
<1> DEFINE u == s \o t
<1>1. /\ Len(s) \in Nat /\ Len(t) \in Nat /\ DOMAIN s = 1..Len(s) /\ DOMAIN t = 1..Len(t)
      /\ DOMAIN u = 1..Len(s) + Len(t) /\ Len(u) = Len(s) + Len(t)
      /\ \A i \in DOMAIN s : i \in DOMAIN u /\ u[i] = s[i]
      /\ \A i \in DOMAIN u : \/ i \in DOMAIN s /\ u[i] = s[i]
                             \/ i - Len(s) \in DOMAIN t /\ u[i] = t[i - Len(s)]
      BY Concat
<1> HIDE DEF u
<1>2. ASSUME NEW i \in 1..Len(s) + 1, NEW at, PointerAt(s, i, before, at)
      PROVE  PointerAt(u, i, before, at)
  <2>1. CASE before = at /\ \A j \in DOMAIN s : j < i => s[j].t # "M"
    <3>1. \A j \in DOMAIN u : j < i => j \in DOMAIN s /\ u[j] = s[j]
          BY <1>1
    <3> QED BY <2>1, <3>1 DEF PointerAt
  <2>2. ASSUME NEW j \in DOMAIN s, j < i, s[j].t = "M", s[j].at = at,
               \A l \in DOMAIN s : j < l /\ l < i => s[l].t # "M"
        PROVE  PointerAt(u, i, before, at)
    <3>1. \A l \in DOMAIN u : l < i => l \in DOMAIN s /\ u[l] = s[l]
          BY <1>1
    <3> QED BY <1>1, <2>2, <3>1 DEF PointerAt
  <2> QED BY <1>2, <2>1, <2>2 DEF PointerAt
<1>3. ASSUME NEW i \in Len(s) + 1..Len(u) + 1, p # 0
      PROVE  PointerAt(u, i, before, p)
  <2>1. PointerAt(s, Len(s) + 1, before, p)
        BY <1>3 DEF EndsAt
  <2>2. \A l \in DOMAIN u : \/ l \in DOMAIN s /\ l < Len(s) + 1 /\ u[l] = s[l]
                            \/ u[l].t # "M"
        BY <1>1
  <2>3. CASE before = p /\ \A j \in DOMAIN s : j < Len(s) + 1 => s[j].t # "M"
        BY <2>2, <2>3 DEF PointerAt
  <2>4. ASSUME NEW j \in DOMAIN s, s[j].t = "M", s[j].at = p,
               \A l \in DOMAIN s : j < l /\ l < Len(s) + 1 => s[l].t # "M"
        PROVE  PointerAt(u, i, before, p)
    <3>1. j \in DOMAIN u /\ u[j] = s[j] /\ j < i
          BY <1>1
    <3> QED BY <2>2, <2>4, <3>1 DEF PointerAt
  <2> QED BY <2>1, <2>3, <2>4 DEF PointerAt
<1>4. Lands(u, before)
  <2> SUFFICES ASSUME NEW i \in DOMAIN u, u[i].t = "C", u[i].at # 0
               PROVE  PointerAt(u, i, before, u[i].at)
      BY DEF Lands
  <2>1. CASE i \in DOMAIN s /\ u[i] = s[i]
        BY <1>1, <1>2, <2>1 DEF Lands
  <2>2. CASE i \notin DOMAIN s
    <3>1. i \in Len(s) + 1..Len(u) + 1 /\ u[i].at = p
          BY <1>1, <2>2
    <3> QED BY <1>3, <3>1
  <2> QED BY <1>1, <2>1, <2>2
<1>5. p # 0 => EndsAt(u, before, p)
  <2>1. Len(u) + 1 \in Len(s) + 1..Len(u) + 1
        BY <1>1
  <2> QED BY <1>3, <2>1 DEF EndsAt
<1> QED BY <1>4, <1>5 DEF u

\* Frames that are neither moves nor clicks change nothing about those.
LEMMA QuietLands ==
    ASSUME NEW S, NEW s \in Seq(S), NEW t \in Seq(S), NEW before, Lands(s, before),
           \A i \in DOMAIN t : t[i].t # "M" /\ t[i].t # "C"
    PROVE  /\ Lands(s \o t, before)
           /\ \A p : p # 0 /\ EndsAt(s, before, p) => EndsAt(s \o t, before, p)
<1>1. Lands(s \o t, before)
      BY ConcatLands
<1>2. ASSUME NEW p, p # 0, EndsAt(s, before, p)
      PROVE  EndsAt(s \o t, before, p)
      BY <1>2, ConcatLands
<1> QED BY <1>1, <1>2

\* A move after others.
LEMMA MoveLands ==
    ASSUME NEW S, NEW s \in Seq(S), NEW m \in S, m.t = "M", NEW before, Lands(s, before)
    PROVE  Lands(s \o <<m>>, before) /\ EndsAt(s \o <<m>>, before, m.at)
<1> DEFINE u == s \o <<m>>
<1>1. /\ Len(s) \in Nat /\ DOMAIN s = 1..Len(s)
      /\ DOMAIN u = 1..Len(s) + 1 /\ Len(u) = Len(s) + 1
      /\ \A i \in DOMAIN s : i \in DOMAIN u /\ u[i] = s[i]
      /\ u[Len(s) + 1] = m
  <2>1. <<m>> \in Seq(S) /\ Len(<<m>>) = 1 /\ 1 \in DOMAIN <<m>> /\ <<m>>[1] = m
        OBVIOUS
  <2> QED BY <2>1, Concat
<1> HIDE DEF u
<1>2. EndsAt(u, before, m.at)
      BY <1>1 DEF EndsAt, PointerAt
<1>3. ASSUME NEW i \in DOMAIN u, u[i].t = "C", u[i].at # 0
      PROVE  PointerAt(u, i, before, u[i].at)
  <2>1. i \in DOMAIN s /\ u[i] = s[i]
        BY <1>1, <1>3
  <2>2. \A l \in DOMAIN u : l < i => l \in DOMAIN s /\ u[l] = s[l]
        BY <1>1, <2>1
  <2>3. PointerAt(s, i, before, u[i].at)
        BY <1>3, <2>1 DEF Lands
  <2>4. CASE before = u[i].at /\ \A j \in DOMAIN s : j < i => s[j].t # "M"
        BY <2>2, <2>4 DEF PointerAt
  <2>5. ASSUME NEW j \in DOMAIN s, j < i, s[j].t = "M", s[j].at = u[i].at,
               \A l \in DOMAIN s : j < l /\ l < i => s[l].t # "M"
        PROVE  PointerAt(u, i, before, u[i].at)
        BY <1>1, <2>2, <2>5 DEF PointerAt
  <2> QED BY <2>3, <2>4, <2>5 DEF PointerAt
<1> QED BY <1>2, <1>3 DEF u, Lands

\* What is left when the first frame has been handled.
LEMMA TailLands ==
    ASSUME NEW S, NEW q \in Seq(S), q # <<>>, NEW before, NEW p, NEW after,
           after = IF Head(q).t = "M" THEN Head(q).at ELSE before
    PROVE  /\ Lands(q, before) => Lands(Tail(q), after)
           /\ EndsAt(q, before, p) => EndsAt(Tail(q), after, p)
<1> DEFINE r == Tail(q)
           h == Head(q)
<1>1. /\ Len(q) \in Nat \ {0} /\ DOMAIN q = 1..Len(q) /\ h = q[1]
      /\ DOMAIN r = 1..Len(q) - 1 /\ Len(r) = Len(q) - 1
      OBVIOUS
<1>2. \A i \in 1..Len(q) - 1 : r[i] = q[i + 1]
      OBVIOUS
<1> HIDE DEF r
<1>3. ASSUME NEW i \in 1..Len(q), NEW at, PointerAt(q, i + 1, before, at)
      PROVE  PointerAt(r, i, after, at)
  <2>1. CASE before = at /\ \A j \in DOMAIN q : j < i + 1 => q[j].t # "M"
    <3>1. after = at
          BY <1>1, <2>1
    <3>2. \A j \in DOMAIN r : j < i => r[j].t # "M"
          BY <1>1, <1>2, <2>1
    <3> QED BY <3>1, <3>2 DEF PointerAt
  <2>2. ASSUME NEW j \in DOMAIN q, j < i + 1, q[j].t = "M", q[j].at = at,
               \A l \in DOMAIN q : j < l /\ l < i + 1 => q[l].t # "M"
        PROVE  PointerAt(r, i, after, at)
    <3>1. \A l \in DOMAIN r : j - 1 < l /\ l < i => r[l].t # "M"
          BY <1>1, <1>2, <2>2
    <3>2. CASE j = 1
      <4>1. after = at
            BY <1>1, <2>2, <3>2
      <4>2. \A l \in DOMAIN r : l < i => r[l].t # "M"
            BY <1>1, <3>1, <3>2
      <4> QED BY <4>1, <4>2 DEF PointerAt
    <3>3. CASE j # 1
      <4>1. j - 1 \in DOMAIN r /\ r[j - 1] = q[j] /\ j - 1 < i
            BY <1>1, <1>2, <2>2, <3>3
      <4> QED BY <2>2, <3>1, <4>1 DEF PointerAt
    <3> QED BY <3>2, <3>3
  <2> QED BY <1>3, <2>1, <2>2 DEF PointerAt
<1>4. ASSUME Lands(q, before), NEW i \in DOMAIN r, r[i].t = "C", r[i].at # 0
      PROVE  PointerAt(r, i, after, r[i].at)
  <2>1. i + 1 \in DOMAIN q /\ q[i + 1] = r[i] /\ i \in 1..Len(q)
        BY <1>1, <1>2
  <2>2. PointerAt(q, i + 1, before, r[i].at)
        BY <1>4, <2>1 DEF Lands
  <2> QED BY <1>3, <2>1, <2>2
<1>5. EndsAt(q, before, p) => EndsAt(r, after, p)
  <2>1. Len(q) \in 1..Len(q) /\ Len(r) + 1 = Len(q)
        BY <1>1
  <2> QED BY <1>3, <2>1 DEF EndsAt
<1> QED BY <1>4, <1>5 DEF Lands, r

----------------------------------------------------------------------------
(* What a handler of the window sends.                                      *)

\* The frames of the module, and what they decide.
LEMMA Frames ==
    /\ \A j, d : /\ Key(j, d).t = "K" /\ Key(j, d).down = d
                 /\ \A k : Decides(Key(j, d), k) <=> j = k
    /\ \A j, d, p : /\ Click(j, d, p).t = "C" /\ Click(j, d, p).down = d
                    /\ Click(j, d, p).at = p
                    /\ \A k : Decides(Click(j, d, p), k) <=> j = k
    /\ Ask.t = "ask" /\ VersionOk.t = "VOK" /\ CloseFrame.t = "close" /\ Quit.t = "Q"
    /\ \A k : ~Decides(Ask, k) /\ ~Decides(VersionOk, k) /\ Decides(Quit, k)
BY DEF Key, Click, Ask, VersionOk, CloseFrame, Quit, Decides

\* Clicks where the window has the mouse, and nothing that moves it.
Steady(msgs, p) ==
    \A i \in DOMAIN msgs : msgs[i].t # "M" /\ (msgs[i].t = "C" => msgs[i].at = p)

\* Without a connection nothing is sent.
LEMMA SendsAtOff ==
    ASSUME ~connected, NEW p, NEW pend \in BOOLEAN, NEW msgs, SendsAt(p, pend, msgs)
    PROVE  toFb' = toFb /\ pending' = pend
BY DEF SendsAt, Sends

\* With one, a move that is pending goes first, and decides nothing about keys.
LEMMA SendsAtOn ==
    ASSUME InputTypeOK, connected, sock = "open", line = "live",
           NEW p \in Points \cup {0}, NEW pend \in BOOLEAN, NEW msgs \in Seq(ToFbMsgs),
           SendsAt(p, pend, msgs)
    PROVE  /\ pending' = FALSE
           /\ \E q \in Seq(ToFbMsgs) :
                  /\ toFb' = q \o msgs
                  /\ \A k : /\ Silent(q, k) => Silent(toFb, k)
                            /\ Presses(q, k) => Presses(toFb, k)
                  /\ Aimed => Lands(q, xpos)
                  /\ Aimed /\ (pend \/ EndsAt(toFb, xpos, p)) => EndsAt(q, xpos, p)
<1> DEFINE move == [t |-> "M", at |-> p]
<1>1. toFb \in Seq(ToFbMsgs)
      BY DEF InputTypeOK, SocketTypeOK
<1>2. pending' = FALSE
      BY DEF SendsAt
<1>3. CASE pend
  <2>1. toFb' = toFb \o (<<move>> \o msgs)
        BY <1>3 DEF SendsAt, Sends
  <2>2. move \in ToFbMsgs /\ move.t = "M" /\ move.at = p
        BY DEF ToFbMsgs, MoveMsgs
  <2> HIDE DEF move
  <2>3. <<move>> \in Seq(ToFbMsgs)
        BY <2>2
  <2>4. toFb' = (toFb \o <<move>>) \o msgs
        BY <1>1, <2>1, <2>3, ConcatAssociative
  <2>5. toFb \o <<move>> \in Seq(ToFbMsgs)
        BY <1>1, <2>3, Concat
  <2>6. \A k : ~Decides(move, k)
        BY <2>2 DEF Decides
  <2>7. \A k : ~Presses(<<move>>, k)
        BY <2>2, <2>6, OnePresses
  <2>8. \A k : /\ Silent(toFb \o <<move>>, k) => Silent(toFb, k)
               /\ Presses(toFb \o <<move>>, k) => Presses(toFb, k)
        BY <1>1, <2>3, <2>7, ConcatPresses
  <2>9. Aimed => Lands(toFb \o <<move>>, xpos) /\ EndsAt(toFb \o <<move>>, xpos, p)
        BY <1>1, <2>2, MoveLands DEF Aimed
  <2> QED BY <1>2, <2>4, <2>5, <2>8, <2>9
<1>4. CASE ~pend
  <2>1. toFb' = toFb \o (<<>> \o msgs)
        BY <1>4 DEF SendsAt, Sends
  <2>2. toFb' = toFb \o msgs
        BY <2>1, ConcatEmptySeq
  <2> QED BY <1>1, <1>2, <1>4, <2>2 DEF Aimed
<1> QED BY <1>3, <1>4

\* So what is down in the end is what the frames decide, or was down before.
LEMMA SendsAtDown ==
    ASSUME InputTypeOK, connected, sock = "open", line = "live",
           NEW p \in Points \cup {0}, NEW pend \in BOOLEAN, NEW msgs \in Seq(ToFbMsgs),
           SendsAt(p, pend, msgs), xdown' = xdown, NEW k, DownAfter(k)'
    PROVE  Presses(msgs, k) \/ (Silent(msgs, k) /\ DownAfter(k))
<1>1. PICK q \in Seq(ToFbMsgs) :
          /\ toFb' = q \o msgs
          /\ Silent(q, k) => Silent(toFb, k)
          /\ Presses(q, k) => Presses(toFb, k)
      BY SendsAtOn
<1>2. (k \in xdown /\ Silent(q \o msgs, k)) \/ Presses(q \o msgs, k)
      BY <1>1 DEF DownAfter
<1> QED BY <1>1, <1>2, ConcatPresses DEF DownAfter

\* And the clicks among them land.
LEMMA SendsAtLands ==
    ASSUME InputTypeOK, Aimed, Followed, sock = "open", line = "live",
           NEW p \in Points \cup {0}, NEW pend \in BOOLEAN, pend \/ (~pending /\ pos = p),
           NEW msgs \in Seq(ToFbMsgs), Steady(msgs, p), SendsAt(p, pend, msgs),
           UNCHANGED <<sock, line, connected, xpos>>, pos' = p
    PROVE  Aimed' /\ Followed'
<1>1. CASE ~connected
  <2>1. toFb' = toFb /\ pending' = pend
        BY <1>1, SendsAtOff
  <2> QED BY <1>1, <2>1 DEF Aimed, Followed
<1>2. CASE connected
  <2>1. PICK q \in Seq(ToFbMsgs) :
            /\ toFb' = q \o msgs
            /\ Lands(q, xpos)
            /\ pend \/ EndsAt(toFb, xpos, p) => EndsAt(q, xpos, p)
        BY <1>2, SendsAtOn
  <2>2. p # 0 => EndsAt(q, xpos, p)
        BY <2>1 DEF Followed
  <2>3. Lands(q \o msgs, xpos) /\ (p # 0 => EndsAt(q \o msgs, xpos, p))
        BY <2>1, <2>2, ConcatLands DEF Steady
  <2> QED BY <1>2, <2>1, <2>3 DEF Aimed, Followed
<1> QED BY <1>1, <1>2

\* A frame about the Search key may go before others.
LEMMA SearchFirst ==
    ASSUME NEW c, NEW down \in BOOLEAN, NEW rest \in Seq(ToFbMsgs), NEW p,
           Steady(rest, p)
    PROVE  LET msgs == (IF c THEN <<Key(Super, down)>> ELSE <<>>) \o rest IN
           /\ msgs \in Seq(ToFbMsgs) /\ Steady(msgs, p)
           /\ \A k : /\ Presses(msgs, k) =>
                            \/ Presses(rest, k)
                            \/ c /\ down /\ k = Super /\ Silent(rest, k)
                     /\ Silent(msgs, k) => Silent(rest, k) /\ ~(c /\ k = Super)
<1> DEFINE msgs == (IF c THEN <<Key(Super, down)>> ELSE <<>>) \o rest
<1> SUFFICES /\ msgs \in Seq(ToFbMsgs) /\ Steady(msgs, p)
             /\ \A k : /\ Presses(msgs, k) =>
                              \/ Presses(rest, k)
                              \/ c /\ down /\ k = Super /\ Silent(rest, k)
                       /\ Silent(msgs, k) => Silent(rest, k) /\ ~(c /\ k = Super)
    OBVIOUS
<1>0. /\ c => msgs = <<Key(Super, down)>> \o rest
      /\ ~c => msgs = <<>> \o rest
      OBVIOUS
<1> HIDE DEF msgs
<1>1. CASE ~c
  <2>1. msgs = rest
        BY <1>0, <1>1, ConcatEmptySeq
  <2> QED BY <1>1, <2>1
<1>2. CASE c
  <2> DEFINE key == Key(Super, down)
  <2>1. key \in ToFbMsgs /\ key.t = "K" /\ key.down = down
        /\ \A k : Decides(key, k) <=> k = Super
        BY KeyType, CodesType, Frames
  <2> HIDE DEF key
  <2>2. msgs = <<key>> \o rest
        BY <1>0, <1>2 DEF key
  <2>3. <<key>> \in Seq(ToFbMsgs) /\ DOMAIN <<key>> = {1} /\ <<key>>[1] = key
        BY <2>1
  <2>4. Steady(msgs, p)
    <3>1. \A i \in DOMAIN (<<key>> \o rest) :
              \/ (<<key>> \o rest)[i] = key
              \/ \E j \in DOMAIN rest : (<<key>> \o rest)[i] = rest[j]
          BY <2>3, Concat
    <3> QED BY <2>1, <2>2, <3>1 DEF Steady
  <2>5. ASSUME NEW k
        PROVE  /\ Presses(msgs, k) => \/ Presses(rest, k)
                                      \/ down /\ k = Super /\ Silent(rest, k)
               /\ Silent(msgs, k) => Silent(rest, k) /\ k # Super
    <3>1. /\ Presses(<<key>>, k) => Decides(key, k) /\ key.down
          /\ Silent(<<key>>, k) => ~Decides(key, k)
          BY <2>1, OnePresses
    <3>2. \A s, t \in Seq(ToFbMsgs) :
              /\ Silent(s \o t, k) => Silent(s, k) /\ Silent(t, k)
              /\ Presses(s \o t, k) => Presses(t, k) \/ (Presses(s, k) /\ Silent(t, k))
          BY ConcatPresses
    <3>3. /\ Silent(msgs, k) => Silent(<<key>>, k) /\ Silent(rest, k)
          /\ Presses(msgs, k) => Presses(rest, k) \/ (Presses(<<key>>, k) /\ Silent(rest, k))
          BY <2>2, <2>3, <3>2
    <3> QED BY <2>1, <3>1, <3>3
  <2>6. msgs \in Seq(ToFbMsgs)
        BY <2>2, <2>3, Concat
  <2> QED BY <1>2, <2>4, <2>5, <2>6
<1> QED BY <1>1, <1>2

\* A handler that sends frames, after one for the Search key or not.
LEMMA HandlerSends ==
    ASSUME InputTypeOK, Aimed, Followed, sock = "open", line = "live",
           NEW p \in Points \cup {0}, NEW pend \in BOOLEAN, pend \/ (~pending /\ pos = p),
           NEW c, NEW down \in BOOLEAN, NEW rest \in Seq(ToFbMsgs), Steady(rest, p),
           SendsAt(p, pend, (IF c THEN <<Key(Super, down)>> ELSE <<>>) \o rest),
           UNCHANGED <<sock, line, connected, xpos, xdown>>, pos' = p
    PROVE  /\ Aimed' /\ Followed' /\ (~connected => toFb' = toFb)
           /\ \A k : connected /\ DownAfter(k)' =>
                  \/ Presses(rest, k)
                  \/ /\ Silent(rest, k)
                     /\ \/ c /\ down /\ k = Super
                        \/ ~(c /\ k = Super) /\ DownAfter(k)
<1> DEFINE msgs == (IF c THEN <<Key(Super, down)>> ELSE <<>>) \o rest
<1>1. SendsAt(p, pend, msgs)
      OBVIOUS
<1>2. /\ msgs \in Seq(ToFbMsgs) /\ Steady(msgs, p)
      /\ \A k : /\ Presses(msgs, k) => \/ Presses(rest, k)
                                       \/ c /\ down /\ k = Super /\ Silent(rest, k)
                /\ Silent(msgs, k) => Silent(rest, k) /\ ~(c /\ k = Super)
      BY SearchFirst
<1> HIDE DEF msgs
<1>3. Aimed' /\ Followed'
      BY <1>1, <1>2, SendsAtLands
<1>4. ~connected => toFb' = toFb
      BY <1>1, SendsAtOff
<1>5. ASSUME NEW k, connected, DownAfter(k)'
      PROVE  Presses(msgs, k) \/ (Silent(msgs, k) /\ DownAfter(k))
      BY <1>1, <1>2, <1>5, SendsAtDown
<1> QED BY <1>2, <1>3, <1>4, <1>5

\* One that sends a single frame after it.
LEMMA OneFrameSent ==
    ASSUME InputTypeOK, Aimed, Followed, sock = "open", line = "live",
           NEW p \in Points \cup {0}, NEW pend \in BOOLEAN, pend \/ (~pending /\ pos = p),
           NEW c, NEW down \in BOOLEAN,
           NEW x \in ToFbMsgs, x.t # "M", x.t = "C" => x.at = p,
           SendsAt(p, pend, (IF c THEN <<Key(Super, down)>> ELSE <<>>) \o <<x>>),
           UNCHANGED <<sock, line, connected, xpos, xdown>>, pos' = p
    PROVE  /\ Aimed' /\ Followed' /\ (~connected => toFb' = toFb)
           /\ \A k : connected /\ DownAfter(k)' =>
                  \/ Decides(x, k) /\ x.down
                  \/ /\ ~Decides(x, k)
                     /\ \/ c /\ down /\ k = Super
                        \/ ~(c /\ k = Super) /\ DownAfter(k)
<1>1. <<x>> \in Seq(ToFbMsgs) /\ DOMAIN <<x>> = {1} /\ <<x>>[1] = x
      OBVIOUS
<1>2. Steady(<<x>>, p)
      BY <1>1, Zenon DEF Steady
<1>3. \A k : /\ Presses(<<x>>, k) => Decides(x, k) /\ x.down
             /\ Silent(<<x>>, k) => ~Decides(x, k)
      BY OnePresses
<1>4. /\ Aimed' /\ Followed' /\ (~connected => toFb' = toFb)
      /\ \A k : connected /\ DownAfter(k)' =>
             \/ Presses(<<x>>, k)
             \/ /\ Silent(<<x>>, k)
                /\ \/ c /\ down /\ k = Super
                   \/ ~(c /\ k = Super) /\ DownAfter(k)
      BY <1>1, <1>2, HandlerSends
<1> QED BY <1>3, <1>4

\* A key that goes down or up: what it does to itself and to Search.
LEMMA KeyDelivers ==
    ASSUME InputTypeOK, Aimed, Followed, sock = "open", line = "live",
           NEW k \in Typed, NEW down \in BOOLEAN, KeyEvent(k, down), UNCHANGED xVars
    PROVE  /\ Aimed' /\ Followed' /\ (~connected => toFb' = toFb)
           /\ \A j : connected /\ DownAfter(j)' =>
                  \/ j = k /\ down
                  \/ j = Super /\ search' = "down"
                  \/ j # k /\ j # Super /\ DownAfter(j)
                  \/ j = Super /\ search # "down" /\ DownAfter(j)
<1>1. /\ Key(k, down) \in ToFbMsgs /\ Key(k, down).t = "K" /\ Key(k, down).down = down
      /\ \A j : Decides(Key(k, down), j) <=> k = j
      BY KeyType, CodesType, Frames
<1>2. pos \in Points \cup {0} /\ pending \in BOOLEAN
      BY DEF InputTypeOK
<1>3. UNCHANGED <<sock, line, connected, pos, xpos, xdown>>
      BY DEF KeyEvent, SockRest, xVars
<1>4. k # Super
      BY InputAssumption
<1>5. ASSUME NEW c, NEW d \in BOOLEAN,
             SendsAt(pos, pending,
                     (IF c THEN <<Key(Super, d)>> ELSE <<>>) \o <<Key(k, down)>>)
      PROVE  /\ Aimed' /\ Followed' /\ (~connected => toFb' = toFb)
             /\ \A j : connected /\ DownAfter(j)' =>
                    \/ j = k /\ down
                    \/ /\ j # k
                       /\ \/ c /\ d /\ j = Super
                          \/ ~(c /\ j = Super) /\ DownAfter(j)
  <2> DEFINE x == Key(k, down)
  <2> HIDE DEF x
  <2>1. /\ x \in ToFbMsgs /\ x.t = "K" /\ x.down = down
        /\ \A j : Decides(x, j) <=> k = j
        BY <1>1 DEF x
  <2>2. SendsAt(pos, pending, (IF c THEN <<Key(Super, d)>> ELSE <<>>) \o <<x>>)
        BY <1>5 DEF x
  <2> QED BY <1>2, <1>3, <2>1, <2>2, OneFrameSent
<1>6. CASE k \in Letters
  <2> DEFINE c == down /\ search \in {"upfirst", "up"}
  <2>1. /\ SendsAt(pos, pending,
                   (IF c THEN <<Key(Super, TRUE)>> ELSE <<>>) \o <<Key(k, down)>>)
        /\ search' = IF c THEN "down" ELSE search
        BY <1>6 DEF KeyEvent
  <2> HIDE DEF c
  <2> QED BY <1>4, <1>5, <2>1
<1>7. CASE k \notin Letters
  <2> DEFINE c == search = "down"
  <2>1. SendsAt(pos, pending,
                (IF c THEN <<Key(Super, FALSE)>> ELSE <<>>) \o <<Key(k, down)>>)
        BY <1>7 DEF KeyEvent
  <2>2. c <=> search = "down"
        OBVIOUS
  <2> HIDE DEF c
  <2> QED BY <1>4, <1>5, <2>1, <2>2
<1> QED BY <1>6, <1>7

\* A click of a button at p, where the window has the mouse from now on.
LEMMA ClickDelivers ==
    ASSUME InputTypeOK, Aimed, Followed, sock = "open", line = "live",
           NEW b \in AllCodes, b # Super, NEW down \in BOOLEAN,
           NEW p \in Points, SendClick(b, <<down>>, p, Moved(p)),
           UNCHANGED <<sock, line, connected, xVars>>, pos' = p
    PROVE  /\ Aimed' /\ Followed' /\ (~connected => toFb' = toFb)
           /\ search = "down" => search' = "down"
           /\ \A j : connected /\ DownAfter(j)' =>
                  \/ j = b /\ down
                  \/ j # b /\ j = Super /\ search' = "down"
                  \/ j # b /\ DownAfter(j)
<1> DEFINE x == Click(b, down, p)
           c == search \in {"upfirst", "up"} /\ <<down>>[1]
<1>1. /\ x \in ToFbMsgs /\ x.t = "C" /\ x.down = down /\ x.at = p
      /\ \A j : Decides(x, j) <=> b = j
  <2>1. x \in ToFbMsgs
        BY DEF Click, ToFbMsgs, ClickMsgs
  <2> QED BY <2>1, Frames
<1>2. /\ SendsAt(p, Moved(p), (IF c THEN <<Key(Super, TRUE)>> ELSE <<>>) \o <<x>>)
      /\ search' = IF c THEN "down" ELSE search
  <2>1. DOMAIN <<down>> = {1} /\ <<down>>[1] = down
        OBVIOUS
  <2>2. [i \in DOMAIN <<down>> |-> Click(b, <<down>>[i], p)] = <<x>>
        BY <2>1
  <2> QED BY <2>2 DEF SendClick
<1> HIDE DEF x, c
<1>3. Moved(p) \in BOOLEAN /\ (Moved(p) \/ (~pending /\ pos = p))
      BY DEF Moved, InputTypeOK
<1>4. UNCHANGED <<xpos, xdown>>
      BY DEF xVars
<1>5. ASSUME NEW pend \in BOOLEAN, pend \/ (~pending /\ pos = p), NEW d \in BOOLEAN,
             SendsAt(p, pend, (IF c THEN <<Key(Super, d)>> ELSE <<>>) \o <<x>>)
      PROVE  /\ Aimed' /\ Followed' /\ (~connected => toFb' = toFb)
             /\ \A j : connected /\ DownAfter(j)' =>
                    \/ j = b /\ down
                    \/ /\ j # b
                       /\ \/ c /\ d /\ j = Super
                          \/ ~(c /\ j = Super) /\ DownAfter(j)
      BY <1>1, <1>4, <1>5, OneFrameSent
<1>6. /\ Aimed' /\ Followed' /\ (~connected => toFb' = toFb)
      /\ \A j : connected /\ DownAfter(j)' =>
             \/ j = b /\ down
             \/ /\ j # b
                /\ \/ c /\ j = Super
                   \/ ~(c /\ j = Super) /\ DownAfter(j)
      BY <1>2, <1>3, <1>5
<1> QED BY <1>2, <1>6

\* What two clicks of a button send.
LEMMA TwoClicks ==
    \A b, d, e, p, s : s = <<d, e>> =>
        [i \in DOMAIN s |-> Click(b, s[i], p)] = <<Click(b, d, p), Click(b, e, p)>>
<1> SUFFICES ASSUME NEW b, NEW d, NEW e, NEW p
             PROVE  [i \in DOMAIN <<d, e>> |-> Click(b, <<d, e>>[i], p)]
                        = <<Click(b, d, p), Click(b, e, p)>>
    OBVIOUS
<1> DEFINE s == <<d, e>>
           f == [i \in DOMAIN s |-> Click(b, s[i], p)]
           x == Click(b, d, p)
           y == Click(b, e, p)
<1>1. DOMAIN s = 1..2 /\ s[1] = d /\ s[2] = e
      OBVIOUS
<1> HIDE DEF s
<1>2. DOMAIN f = 1..2
      BY <1>1
<1>3. 1 \in DOMAIN s /\ 2 \in DOMAIN s
      BY <1>1
<1>4. f[1] = x
      BY <1>1, <1>3, Zenon
<1>5. f[2] = y
      BY <1>1, <1>3, Zenon
<1>6. f = [i \in 1..2 |-> f[i]]
      BY <1>1, Zenon
<1> HIDE DEF f, x, y
<1>7. f = <<x, y>>
      BY <1>4, <1>5, <1>6
<1> QED BY <1>7 DEF f, x, y, s

\* The wheel clicks twice, and leaves it up.
LEMMA WheelDelivers ==
    ASSUME InputTypeOK, Aimed, Followed, WheelTurn
    PROVE  /\ Aimed' /\ Followed' /\ (~connected => toFb' = toFb)
           /\ search = "down" => search' = "down"
           /\ \A j : connected /\ DownAfter(j)' =>
                  j # Wheel /\ ((j = Super /\ search' = "down") \/ DownAfter(j))
<1> DEFINE x == Click(Wheel, TRUE, pos)
           y == Click(Wheel, FALSE, pos)
           c == search \in {"upfirst", "up"} /\ <<TRUE, FALSE>>[1]
<1>1. /\ sock = "open" /\ line = "live" /\ UNCHANGED <<sock, line, connected, pos, xVars>>
      /\ SendClick(Wheel, <<TRUE, FALSE>>, pos, pending)
      /\ pos \in Points \cup {0} /\ pending \in BOOLEAN
      BY DEF WheelTurn, Attentive, SockRest, InputTypeOK
<1>2. /\ x \in ToFbMsgs /\ x.t = "C" /\ x.at = pos
      /\ y \in ToFbMsgs /\ y.t = "C" /\ y.at = pos /\ ~y.down
      /\ \A j : (Decides(x, j) <=> Wheel = j) /\ (Decides(y, j) <=> Wheel = j)
  <2>1. x \in ToFbMsgs /\ y \in ToFbMsgs
        BY <1>1, CodesType DEF Click, ToFbMsgs, ClickMsgs
  <2> QED BY <2>1 DEF Click, Decides
<1>3. /\ SendsAt(pos, pending, (IF c THEN <<Key(Super, TRUE)>> ELSE <<>>) \o <<x, y>>)
      /\ search' = IF c THEN "down" ELSE search
  <2> DEFINE downs == <<TRUE, FALSE>>
  <2>1. DOMAIN downs = 1..2 /\ downs[1] = TRUE /\ downs[2] = FALSE
        OBVIOUS
  <2>2. SendClick(Wheel, downs, pos, pending)
        BY <1>1
  <2>3. c <=> search \in {"upfirst", "up"} /\ downs[1]
        OBVIOUS
  <2> HIDE DEF downs, c
  <2>4. [i \in DOMAIN downs |-> Click(Wheel, downs[i], pos)] = <<x, y>>
    <3> DEFINE on == TRUE
               off == FALSE
    <3> HIDE DEF on, off
    <3>1. downs = <<on, off>>
          BY DEF downs, on, off
    <3>2. [i \in DOMAIN downs |-> Click(Wheel, downs[i], pos)]
              = <<Click(Wheel, on, pos), Click(Wheel, off, pos)>>
          BY <3>1, TwoClicks
    <3> QED BY <3>2, Zenon DEF on, off
  <2> QED BY <2>2, <2>3, <2>4 DEF SendClick
<1> HIDE DEF x, y, c
<1> DEFINE rest == <<x, y>>
<1>4. rest \in Seq(ToFbMsgs) /\ DOMAIN rest = {1, 2} /\ rest[1] = x /\ rest[2] = y
      BY <1>2
<1>5. SendsAt(pos, pending, (IF c THEN <<Key(Super, TRUE)>> ELSE <<>>) \o rest)
      BY <1>3
<1> HIDE DEF rest
<1>6. Steady(rest, pos)
      BY <1>2, <1>4 DEF Steady
<1>7. \A j : ~Presses(rest, j) /\ (Silent(rest, j) => j # Wheel)
      BY <1>2, <1>4 DEF Presses, Silent
<1>8. ASSUME NEW d \in BOOLEAN,
             SendsAt(pos, pending, (IF c THEN <<Key(Super, d)>> ELSE <<>>) \o rest)
      PROVE  /\ Aimed' /\ Followed' /\ (~connected => toFb' = toFb)
             /\ \A j : connected /\ DownAfter(j)' =>
                    \/ Presses(rest, j)
                    \/ /\ Silent(rest, j)
                       /\ \/ c /\ d /\ j = Super
                          \/ ~(c /\ j = Super) /\ DownAfter(j)
  <2>1. UNCHANGED <<xpos, xdown>>
        BY <1>1 DEF xVars
  <2> QED BY <1>1, <1>4, <1>6, <1>8, <2>1, HandlerSends
<1>9. /\ Aimed' /\ Followed' /\ (~connected => toFb' = toFb)
      /\ \A j : connected /\ DownAfter(j)' =>
             \/ Presses(rest, j)
             \/ /\ Silent(rest, j)
                /\ \/ c /\ j = Super
                   \/ ~(c /\ j = Super) /\ DownAfter(j)
      BY <1>5, <1>8
<1> QED BY <1>3, <1>7, <1>9

\* Nothing in the frames, the server and X: what is down stays excused.
LEMMA NothingSent ==
    ASSUME UNCHANGED <<toFb, xdown>>
    PROVE  \A k : DownAfter(k)' => DownAfter(k)
BY DEF DownAfter

\* The frame for the loss of the focus decides everything.
LEMMA QuitSent ==
    ASSUME InputTypeOK, Aimed, Followed, sock = "open", line = "live", Sends(<<Quit>>),
           UNCHANGED <<sock, line, connected, pos, pending, xpos>>
    PROVE  /\ Aimed' /\ Followed' /\ (~connected => toFb' = toFb)
           /\ \A k : connected => ~DownAfter(k)'
<1>1. toFb \in Seq(ToFbMsgs) /\ Quit \in ToFbMsgs /\ <<Quit>> \in Seq(ToFbMsgs)
      BY DEF InputTypeOK, SocketTypeOK, ToFbMsgs
<1>2. CASE ~connected
  <2>1. toFb' = toFb
        BY <1>2 DEF Sends
  <2> QED BY <1>2, <2>1 DEF Aimed, Followed
<1>3. CASE connected
  <2> DEFINE t == <<Quit>>
  <2>1. toFb' = toFb \o t
        BY <1>3 DEF Sends
  <2>2. t \in Seq(ToFbMsgs) /\ DOMAIN t = {1} /\ t[1] = Quit /\ Quit.t = "Q"
        BY <1>1, Frames
  <2> HIDE DEF t
  <2>3. \A i \in DOMAIN t : t[i].t # "M" /\ t[i].t # "C"
        BY <2>2
  <2>4. /\ Lands(toFb \o t, xpos)
        /\ \A p : p # 0 /\ EndsAt(toFb, xpos, p) => EndsAt(toFb \o t, xpos, p)
        BY <1>1, <2>2, <2>3, QuietLands DEF Aimed
  <2>5. Aimed' /\ Followed'
        BY <1>3, <2>1, <2>4 DEF Aimed, Followed
  <2>6. \A k : ~Silent(t, k) /\ ~Presses(t, k)
        BY <2>2 DEF Silent, Presses, Decides
  <2>7. \A k : ~Silent(toFb \o t, k) /\ ~Presses(toFb \o t, k)
        BY <1>1, <2>2, <2>6, ConcatPresses
  <2> QED BY <1>3, <2>1, <2>5, <2>7 DEF DownAfter
<1> QED BY <1>2, <1>3

\* The Search key released.
LEMMA SearchUpDelivers ==
    ASSUME InputTypeOK, Aimed, Followed, sock = "open", line = "live", SearchUp
    PROVE  /\ Aimed' /\ Followed' /\ (~connected => toFb' = toFb)
           /\ \A j : connected /\ DownAfter(j)' =>
                  DownAfter(j) /\ (j = Super => search # "down")
<1> DEFINE x == Key(Super, FALSE)
<1>1. /\ x \in ToFbMsgs /\ x.t = "K" /\ ~x.down
      /\ \A j : Decides(x, j) <=> Super = j
  <2>1. x \in ToFbMsgs
        BY KeyType, CodesType
  <2> QED BY <2>1 DEF Key, Decides
<1>2. pos \in Points \cup {0} /\ pending \in BOOLEAN
      BY DEF InputTypeOK
<1>3. UNCHANGED <<sock, line, connected, pos, xpos, xdown>>
      BY DEF SearchUp, SockRest, xVars
<1>4. ASSUME NEW c,
             SendsAt(pos, pending, (IF c THEN <<Key(Super, TRUE)>> ELSE <<>>) \o <<x>>)
      PROVE  /\ Aimed' /\ Followed' /\ (~connected => toFb' = toFb)
             /\ \A j : connected /\ DownAfter(j)' => j # Super /\ DownAfter(j)
  <2> HIDE DEF x
  <2>1. \A d \in BOOLEAN :
            SendsAt(pos, pending, (IF c THEN <<Key(Super, d)>> ELSE <<>>) \o <<x>>) =>
                /\ Aimed' /\ Followed' /\ (~connected => toFb' = toFb)
                /\ \A j : connected /\ DownAfter(j)' => j # Super /\ DownAfter(j)
        BY <1>1, <1>2, <1>3, OneFrameSent
  <2> QED BY <1>4, <2>1
<1>5. CASE search = "upfirst"
  <2>1. SendsAt(pos, pending, <<Key(Super, TRUE), x>>)
        BY <1>5 DEF SearchUp
  <2> HIDE DEF x
  <2>2. <<Key(Super, TRUE), x>> = <<Key(Super, TRUE)>> \o <<x>>
    <3> DEFINE y == Key(Super, TRUE)
    <3> HIDE DEF y
    <3>1. <<y, x>> = <<y>> \o <<x>>
          OBVIOUS
    <3> QED BY <3>1 DEF y
  <2>3. SendsAt(pos, pending, (IF TRUE THEN <<Key(Super, TRUE)>> ELSE <<>>) \o <<x>>)
        BY <2>1, <2>2
  <2> QED BY <1>4, <1>5, <2>3 DEF x
<1>6. CASE search = "down"
  <2>1. SendsAt(pos, pending, <<x>>)
        BY <1>6 DEF SearchUp
  <2> HIDE DEF x
  <2>2. <<x>> = <<>> \o <<x>>
        OBVIOUS
  <2>3. SendsAt(pos, pending, (IF FALSE THEN <<Key(Super, TRUE)>> ELSE <<>>) \o <<x>>)
        BY <2>1, <2>2
  <2> QED BY <1>4, <2>3 DEF x
<1>7. CASE search \notin {"upfirst", "down"}
  <2>1. UNCHANGED <<toFb, pending>>
        BY <1>7 DEF SearchUp
  <2>2. Aimed' /\ Followed'
        BY <1>3, <2>1 DEF Aimed, Followed
  <2>3. \A j : DownAfter(j)' => DownAfter(j)
        BY <1>3, <2>1 DEF DownAfter
  <2> QED BY <1>7, <2>1, <2>2, <2>3
<1> QED BY <1>5, <1>6, <1>7

\* Every step of the user keeps what will be down excused, and the clicks aimed.
LEMMA UserDelivers ==
    ASSUME InputTypeOK, Delivery, UserStep
    PROVE  Delivery'
<1>1. /\ Unconnected /\ Releases /\ Aimed /\ Followed
      BY DEF Delivery
<1>2. /\ UNCHANGED <<sock, connected, line, fpc, xVars>>
      BY UserType
<1>3. InputTypeOK'
      BY UserType
<1>4. ASSUME Attentive, ~connected => toFb' = toFb, ~focus' => held' = {}
      PROVE  Unconnected'
      BY <1>1, <1>2, <1>4 DEF Unconnected, Attentive, xVars
<1>5. Attentive => sock = "open" /\ line = "live"
      BY DEF Attentive
<1>6. ~focus => held = {}
      BY <1>1 DEF Unconnected
<1>7. Super # Left /\ Wheel # Super /\ Wheel # Left
      BY InputAssumption DEF UserKeys
<1>8. ASSUME Attentive,
             \A k \in AllCodes : connected /\ DownAfter(k)' =>
                 ((DownAfter(k) => Excused(k)) => Excused(k)')
      PROVE  Releases'
      BY <1>1, <1>2, <1>5, <1>8 DEF Releases
<1>10. ASSUME NEW k \in Typed, KeyDown(k) \/ KeyUp(k)
       PROVE  Delivery'
  <2>1. PICK down \in BOOLEAN :
            /\ KeyEvent(k, down)
            /\ held' = IF down THEN held \cup {k} ELSE held \ {k}
        BY <1>10 DEF KeyDown, KeyUp
  <2>2. /\ Attentive /\ focus /\ k # Super /\ k # Left
        /\ UNCHANGED <<focus, touching, touchId, lost>>
        BY <1>10, InputAssumption DEF KeyDown, KeyUp, KeyEvent
  <2>3. /\ Aimed' /\ Followed' /\ (~connected => toFb' = toFb)
        /\ \A j : connected /\ DownAfter(j)' =>
               \/ j = k /\ down
               \/ j = Super /\ search' = "down"
               \/ j # k /\ j # Super /\ DownAfter(j)
               \/ j = Super /\ search # "down" /\ DownAfter(j)
        BY <1>1, <1>2, <1>5, <2>1, <2>2, KeyDelivers
  <2>4. Releases'
        BY <1>8, <2>1, <2>2, <2>3 DEF Excused
  <2>5. Unconnected'
        BY <1>4, <2>2, <2>3
  <2> QED BY <2>3, <2>4, <2>5 DEF Delivery
<1>11. CASE SearchDown
  <2>1. /\ Attentive /\ focus' = focus /\ held' = held \cup {Super}
        /\ UNCHANGED <<toFb, pos, pending, touching, touchId>>
        /\ search = "down" /\ connected => Super \in lost'
        /\ lost \subseteq lost' /\ focus
        BY <1>11 DEF SearchDown, LoseTrack, socketVars
  <2>2. Unconnected'
        BY <1>4, <2>1
  <2>3. Releases'
        BY <1>2, <1>8, <2>1, NothingSent DEF Excused, xVars
  <2>4. Aimed' /\ Followed'
        BY <1>1, <1>2, <2>1 DEF Aimed, Followed, xVars
  <2> QED BY <2>2, <2>3, <2>4 DEF Delivery
<1>12. CASE SearchUp
  <2>1. /\ Attentive /\ focus' = focus /\ held' = held \ {Super} /\ focus
        /\ UNCHANGED <<pos, touching, touchId, lost>>
        BY <1>12 DEF SearchUp
  <2>2. /\ Aimed' /\ Followed' /\ (~connected => toFb' = toFb)
        /\ \A j : connected /\ DownAfter(j)' =>
               DownAfter(j) /\ (j = Super => search # "down")
        BY <1>1, <1>5, <1>12, <2>1, SearchUpDelivers
  <2>3. Unconnected'
        BY <1>4, <2>1, <2>2
  <2>4. Releases'
        BY <1>7, <1>8, <2>1, <2>2 DEF Excused
  <2> QED BY <2>2, <2>3, <2>4 DEF Delivery
<1>13. ASSUME NEW p \in Points, MouseMove(p) \/ \E f \in Fingers : TouchMove(f, p)
       PROVE  Delivery'
  <2>1. /\ Attentive /\ pending' = TRUE
        /\ UNCHANGED <<toFb, focus, held, search, touching, touchId, lost>>
        BY <1>13 DEF MouseMove, TouchMove, socketVars
  <2>2. Unconnected'
        BY <1>4, <1>6, <2>1
  <2>3. Releases'
        BY <1>2, <1>8, <2>1, NothingSent DEF Excused, xVars
  <2>4. Aimed' /\ Followed'
        BY <1>1, <1>2, <2>1 DEF Aimed, Followed, xVars
  <2> QED BY <2>2, <2>3, <2>4 DEF Delivery
<1>14. ASSUME NEW p \in Points, NEW down \in BOOLEAN, MouseButton(p, down)
       PROVE  Delivery'
  <2>1. /\ Attentive /\ focus' = focus /\ focus /\ pos' = p
        /\ SendClick(Left, <<down>>, p, Moved(p))
        /\ held' = IF down THEN held \cup {Left} ELSE held \ {Left}
        /\ UNCHANGED <<touching, touchId, lost>>
        BY <1>14 DEF MouseButton
  <2>2. /\ Aimed' /\ Followed' /\ (~connected => toFb' = toFb)
        /\ search = "down" => search' = "down"
        /\ \A j : connected /\ DownAfter(j)' =>
               \/ j = Left /\ down
               \/ j # Left /\ j = Super /\ search' = "down"
               \/ j # Left /\ DownAfter(j)
        BY <1>1, <1>2, <1>5, <1>7, <2>1, CodesType, ClickDelivers
  <2>3. Unconnected'
        BY <1>4, <2>1, <2>2
  <2>4. Releases'
        BY <1>7, <1>8, <2>1, <2>2 DEF Excused
  <2> QED BY <2>2, <2>3, <2>4 DEF Delivery
<1>15. CASE WheelTurn
  <2>1. /\ Attentive
        /\ UNCHANGED <<focus, held, pos, touching, touchId, lost>>
        BY <1>15 DEF WheelTurn
  <2>2. /\ Aimed' /\ Followed' /\ (~connected => toFb' = toFb)
        /\ search = "down" => search' = "down"
        /\ \A j : connected /\ DownAfter(j)' =>
               j # Wheel /\ ((j = Super /\ search' = "down") \/ DownAfter(j))
        BY <1>1, <1>15, WheelDelivers
  <2>3. Unconnected'
        BY <1>4, <1>6, <2>1, <2>2
  <2>4. Releases'
        BY <1>7, <1>8, <2>1, <2>2 DEF Excused
  <2> QED BY <2>2, <2>3, <2>4 DEF Delivery
<1>16. ASSUME NEW p \in Points, NEW fs \in SUBSET Fingers, TouchStart(fs, p)
       PROVE  Delivery'
  <2>1. /\ Attentive /\ focus' = focus /\ focus /\ fs # {}
        /\ touching' = touching \cup fs
        /\ UNCHANGED <<held, lost>>
        BY <1>16 DEF TouchStart
  <2>2. CASE touchId' \in fs
    <3>1. pos' = p /\ SendClick(Left, <<TRUE>>, p, Moved(p))
          BY <1>16, <2>2 DEF TouchStart
    <3>2. \A down \in BOOLEAN : SendClick(Left, <<down>>, p, Moved(p)) =>
              /\ Aimed' /\ Followed' /\ (~connected => toFb' = toFb)
              /\ search = "down" => search' = "down"
              /\ \A j : connected /\ DownAfter(j)' =>
                     \/ j = Left /\ down
                     \/ j # Left /\ j = Super /\ search' = "down"
                     \/ j # Left /\ DownAfter(j)
          BY <1>1, <1>2, <1>5, <1>7, <2>1, <3>1, CodesType, ClickDelivers
    <3>3. /\ Aimed' /\ Followed' /\ (~connected => toFb' = toFb)
          /\ search = "down" => search' = "down"
          /\ \A j : connected /\ DownAfter(j)' =>
                 \/ j = Left
                 \/ j # Left /\ j = Super /\ search' = "down"
                 \/ j # Left /\ DownAfter(j)
          BY <3>1, <3>2
    <3>4. Unconnected'
          BY <1>4, <2>1, <3>3
    <3>5. Releases'
          BY <1>7, <1>8, <2>1, <2>2, <3>3 DEF Excused
    <3> QED BY <3>3, <3>4, <3>5 DEF Delivery
  <2>3. CASE touchId' \notin fs
    <3>1. touchId' = touchId /\ UNCHANGED <<toFb, pending, pos, search>>
          BY <1>16, <2>1, <2>3 DEF TouchStart
    <3>2. Unconnected'
          BY <1>4, <2>1, <3>1
    <3>3. Releases'
          BY <1>2, <1>8, <2>1, <3>1, NothingSent DEF Excused, xVars
    <3>4. Aimed' /\ Followed'
          BY <1>1, <1>2, <3>1 DEF Aimed, Followed, xVars
    <3> QED BY <3>2, <3>3, <3>4 DEF Delivery
  <2> QED BY <2>2, <2>3
<1>17. ASSUME NEW p \in Points, NEW f \in Fingers, TouchEnd(f, p)
       PROVE  Delivery'
  <2>1. /\ Attentive /\ focus' = focus /\ touching' = touching \ {f}
        /\ UNCHANGED <<held, touchId, lost>>
        BY <1>17 DEF TouchEnd
  <2>2. CASE f = touchId
    <3>1. pos' = p /\ SendClick(Left, <<FALSE>>, p, Moved(p))
          BY <1>17, <2>2 DEF TouchEnd
    <3>2. \A down \in BOOLEAN : SendClick(Left, <<down>>, p, Moved(p)) =>
              /\ Aimed' /\ Followed' /\ (~connected => toFb' = toFb)
              /\ search = "down" => search' = "down"
              /\ \A j : connected /\ DownAfter(j)' =>
                     \/ j = Left /\ down
                     \/ j # Left /\ j = Super /\ search' = "down"
                     \/ j # Left /\ DownAfter(j)
          BY <1>1, <1>2, <1>5, <1>7, <2>1, <3>1, CodesType, ClickDelivers
    <3>3. /\ Aimed' /\ Followed' /\ (~connected => toFb' = toFb)
          /\ search = "down" => search' = "down"
          /\ \A j : connected /\ DownAfter(j)' =>
                 j # Left /\ ((j = Super /\ search' = "down") \/ DownAfter(j))
          BY <3>1, <3>2
    <3>4. Unconnected'
          BY <1>4, <1>6, <2>1, <3>3
    <3>5. Releases'
          BY <1>7, <1>8, <2>1, <3>3 DEF Excused
    <3> QED BY <3>3, <3>4, <3>5 DEF Delivery
  <2>3. CASE f # touchId
    <3>1. UNCHANGED <<toFb, pending, pos, search>>
          BY <1>17, <2>3 DEF TouchEnd
    <3>2. Unconnected'
          BY <1>4, <1>6, <2>1, <3>1
    <3>3. Releases'
          BY <1>2, <1>8, <2>1, <2>3, <3>1, NothingSent DEF Excused, xVars
    <3>4. Aimed' /\ Followed'
          BY <1>1, <1>2, <3>1 DEF Aimed, Followed, xVars
    <3> QED BY <3>2, <3>3, <3>4 DEF Delivery
  <2> QED BY <2>2, <2>3
<1>18. CASE Blur
  <2>1. /\ Attentive /\ Sends(<<Quit>>) /\ held' = {}
        /\ UNCHANGED <<pos, pending>>
        BY <1>18 DEF Blur
  <2>2. /\ Aimed' /\ Followed' /\ (~connected => toFb' = toFb)
        /\ \A k : connected => ~DownAfter(k)'
        BY <1>1, <1>2, <1>5, <2>1, QuitSent DEF xVars
  <2>3. Unconnected'
        BY <1>4, <2>1, <2>2
  <2>4. Releases'
        BY <1>8, <2>1, <2>2
  <2> QED BY <2>2, <2>3, <2>4 DEF Delivery
<1>19. CASE Focus
  <2>1. /\ Attentive /\ focus' = TRUE /\ ~focus
        /\ UNCHANGED <<toFb, pos, pending, search, touching, touchId, lost>>
        BY <1>19 DEF Focus, socketVars
  <2>2. Unconnected'
        BY <1>4, <2>1
  <2>3. Releases'
        BY <1>2, <1>6, <1>8, <2>1, NothingSent DEF Excused, xVars
  <2>4. Aimed' /\ Followed'
        BY <1>1, <1>2, <2>1 DEF Aimed, Followed, xVars
  <2> QED BY <2>2, <2>3, <2>4 DEF Delivery
<1>20. CASE TouchCancel
  <2>1. /\ UNCHANGED <<toFb, focus, held, search, pos, pending, touchId>>
        /\ lost' = IF connected THEN lost \cup {Left} ELSE lost
        BY <1>20 DEF TouchCancel, LoseTrack, socketVars
  <2>2. Unconnected'
        BY <1>1, <1>2, <2>1 DEF Unconnected, xVars
  <2>3. Releases'
        BY <1>1, <1>2, <2>1, NothingSent DEF Releases, Excused, xVars
  <2>4. Aimed' /\ Followed'
        BY <1>1, <1>2, <2>1 DEF Aimed, Followed, xVars
  <2> QED BY <2>2, <2>3, <2>4 DEF Delivery
<1> QED BY <1>10, <1>11, <1>12, <1>13, <1>14, <1>15, <1>16, <1>17, <1>18, <1>19,
          <1>20 DEF UserStep

----------------------------------------------------------------------------
(* The module and the connection.                                           *)

\* Frames about neither keys, clicks nor moves.
LEMMA QuietSent ==
    ASSUME InputTypeOK, Aimed, NEW t \in Seq(ToFbMsgs),
           \A i \in DOMAIN t : t[i].t \in {"ask", "VOK", "close"},
           toFb' = toFb \o t, UNCHANGED <<xpos, xdown>>
    PROVE  /\ Aimed' /\ \A k : DownAfter(k)' => DownAfter(k)
           /\ \A p : p # 0 /\ EndsAt(toFb, xpos, p) => EndsAt(toFb, xpos, p)'
<1>1. toFb \in Seq(ToFbMsgs)
      BY DEF InputTypeOK, SocketTypeOK
<1>2. /\ Lands(toFb \o t, xpos)
      /\ \A p : p # 0 /\ EndsAt(toFb, xpos, p) => EndsAt(toFb \o t, xpos, p)
      BY <1>1, QuietLands DEF Aimed
<1>3. \A k : ~Presses(t, k)
      BY DEF Presses, Decides
<1>4. \A k : /\ Silent(toFb \o t, k) => Silent(toFb, k)
             /\ Presses(toFb \o t, k) => Presses(toFb, k)
      BY <1>1, <1>3, ConcatPresses
<1> QED BY <1>2, <1>4 DEF Aimed, DownAfter

\* The frame that closes the connection of the module.
LEMMA CloseDelivers ==
    ASSUME InputTypeOK, Delivery, SocketClose, UNCHANGED <<kiwiVars, xVars>>
    PROVE  Delivery'
<1>1. sock' = "closing" /\ connected' = connected /\ Sends(<<CloseFrame>>)
      BY DEF SocketClose
<1>2. Aimed'
  <2> DEFINE t == <<CloseFrame>>
  <2>1. t \in Seq(ToFbMsgs) /\ DOMAIN t = {1} /\ t[1] = CloseFrame
        BY FramesType
  <2>2. toFb' = toFb \o t \/ toFb' = toFb
        BY <1>1 DEF Sends
  <2> HIDE DEF t
  <2>3. \A i \in DOMAIN t : t[i].t \in {"ask", "VOK", "close"}
        BY <2>1, Frames
  <2>4. CASE toFb' = toFb \o t
        BY <2>1, <2>3, <2>4, QuietSent DEF Delivery, xVars
  <2>5. CASE toFb' = toFb
        BY <2>5 DEF Delivery, Aimed, xVars
  <2> QED BY <2>2, <2>4, <2>5
<1> QED BY <1>1, <1>2 DEF Delivery, Unconnected, Releases, Followed, kiwiVars

\* The version of the server arrives, and its answer leaves.
LEMMA VersionDelivers ==
    ASSUME InputTypeOK, Delivery, ReceiveVersion
    PROVE  Delivery'
<1>1. /\ sock = "open" /\ connected' = TRUE
      /\ UNCHANGED <<sock, line, fpc, kiwiVars, xVars>>
      /\ toFb' = IF line = "live" THEN toFb \o <<VersionOk, Ask>> ELSE toFb
      BY DEF ReceiveVersion
<1>2. Unconnected'
      BY <1>1 DEF Delivery, Unconnected, kiwiVars
<1>3. CASE line = "live"
  <2> DEFINE t == <<VersionOk, Ask>>
  <2>1. t \in Seq(ToFbMsgs) /\ DOMAIN t = {1, 2} /\ t[1] = VersionOk /\ t[2] = Ask
    <3>1. VersionOk \in ToFbMsgs /\ Ask \in ToFbMsgs
          BY FramesType
    <3> QED BY <3>1, ShortSequences
  <2>2. toFb' = toFb \o t
        BY <1>1, <1>3
  <2> HIDE DEF t
  <2>3. \A i \in DOMAIN t : t[i].t \in {"ask", "VOK", "close"}
        BY <2>1, Frames
  <2>4. /\ Aimed' /\ \A k : DownAfter(k)' => DownAfter(k)
        /\ \A p : p # 0 /\ EndsAt(toFb, xpos, p) => EndsAt(toFb, xpos, p)'
        BY <1>1, <2>1, <2>2, <2>3, QuietSent DEF Delivery, xVars
  <2>5. Followed'
        BY <1>1, <1>3, <2>4 DEF Delivery, Followed, kiwiVars
  <2>6. Releases'
    <3>1. CASE connected
          BY <1>1, <1>3, <2>4, <3>1 DEF Delivery, Releases, Excused, kiwiVars
    <3>2. CASE ~connected
      <4>1. toFb = <<>> /\ xdown = {}
            BY <1>1, <1>3, <3>2 DEF Delivery, Unconnected
      <4>2. DOMAIN toFb = {}
            BY <4>1
      <4>3. \A k : ~DownAfter(k)
            BY <4>1, <4>2 DEF DownAfter, Presses
      <4> QED BY <2>4, <4>3 DEF Releases
    <3> QED BY <3>1, <3>2
  <2> QED BY <1>2, <2>4, <2>5, <2>6 DEF Delivery
<1>4. CASE line # "live"
      BY <1>1, <1>2, <1>4 DEF Delivery, Releases, Followed, Aimed, kiwiVars, xVars
<1> QED BY <1>3, <1>4

\* A request, which may flush the position of the mouse.
LEMMA AskDelivers ==
    ASSUME InputTypeOK, Delivery, AskServer
    PROVE  Delivery'
<1> DEFINE t == <<Ask>>
<1>1. /\ Attentive /\ connected
      /\ SendsAt(pos, pending, t) \/ (Sends(t) /\ UNCHANGED pending)
      /\ UNCHANGED <<sock, line, fpc, connected, focus, held, search, pos, touching,
                     touchId, lost, xVars>>
      BY DEF AskServer, SockRest
<1>2. sock = "open" /\ line = "live" /\ pos \in Points \cup {0} /\ pending \in BOOLEAN
      BY <1>1 DEF Attentive, InputTypeOK
<1>3. t \in Seq(ToFbMsgs) /\ DOMAIN t = {1} /\ t[1] = Ask
      BY FramesType
<1> HIDE DEF t
<1>4. \A i \in DOMAIN t : t[i].t \in {"ask", "VOK", "close"}
      BY <1>3, Frames
<1>5. Steady(t, pos) /\ \A k : ~Presses(t, k)
      BY <1>4 DEF Steady, Presses, Decides
<1>6. UNCHANGED <<xdown, xpos>>
      BY <1>1 DEF xVars
<1>7. Aimed' /\ Followed' /\ \A k : DownAfter(k)' => DownAfter(k)
  <2>1. CASE SendsAt(pos, pending, t)
    <3>1. Aimed' /\ Followed'
          BY <1>1, <1>2, <1>3, <1>5, <1>6, <2>1, SendsAtLands DEF Delivery
    <3>2. ASSUME NEW k, DownAfter(k)'
          PROVE  DownAfter(k)
          BY <1>1, <1>2, <1>3, <1>5, <1>6, <2>1, <3>2, SendsAtDown
    <3> QED BY <3>1, <3>2
  <2>2. CASE Sends(t) /\ UNCHANGED pending
    <3>1. toFb' = toFb \o t
          BY <1>1, <1>2, <2>2 DEF Sends
    <3>2. /\ Aimed' /\ \A k : DownAfter(k)' => DownAfter(k)
          /\ \A p : p # 0 /\ EndsAt(toFb, xpos, p) => EndsAt(toFb, xpos, p)'
          BY <1>3, <1>4, <1>6, <3>1, QuietSent DEF Delivery
    <3> QED BY <1>1, <1>2, <2>2, <3>2 DEF Delivery, Followed
  <2> QED BY <1>1, <2>1, <2>2
<1>8. Releases'
      BY <1>1, <1>2, <1>7 DEF Delivery, Releases, Excused
<1>9. Unconnected'
      BY <1>1, <1>2 DEF Delivery, Unconnected
<1> QED BY <1>7, <1>8, <1>9 DEF Delivery

\* Every step of the module keeps the rest of the invariant.
LEMMA KiwiDelivers ==
    ASSUME InputTypeOK, Delivery, KiwiStep
    PROVE  Delivery'
<1> USE DEF Delivery
<1>1. CASE OpenWindow /\ NewModule /\ UNCHANGED xVars
      BY <1>1 DEF OpenWindow, NewModule, xVars, Unconnected, Releases, Aimed, Followed
<1>2. CASE ConnectFails /\ UNCHANGED <<kiwiVars, xVars>>
      BY <1>2 DEF ConnectFails, kiwiVars, xVars, Unconnected, Releases, Aimed, Followed
<1>3. CASE ConnectAgain /\ UNCHANGED <<kiwiVars, xVars>>
      BY <1>3 DEF ConnectAgain, kiwiVars, xVars, Unconnected, Releases, Aimed, Followed
<1>4. CASE ReceiveInit /\ UNCHANGED <<kiwiVars, xVars>>
  <2>1. CASE SocketClose
        BY <1>4, <2>1, CloseDelivers
  <2>2. CASE UNCHANGED <<sock, retry, connected, fpc, line, announced, toFb>>
        BY <1>4, <2>2
        DEF kiwiVars, xVars, Unconnected, Releases, Excused, DownAfter, Aimed, Followed
  <2> QED BY <1>4, <2>1, <2>2 DEF ReceiveInit
<1>5. CASE ReceiveError /\ UNCHANGED <<kiwiVars, xVars>>
      BY <1>5, CloseDelivers DEF ReceiveError
<1>6. CASE OnSocketClosed /\ UNCHANGED <<kiwiVars, xVars>>
      BY <1>6
      DEF OnSocketClosed, kiwiVars, xVars, Unconnected, Releases, Aimed, Followed
<1>7. CASE CloseWindow /\ ModuleGone /\ UNCHANGED xVars
      BY <1>7
      DEF CloseWindow, ModuleGone, xVars, Unconnected, Releases, Aimed, Followed
<1>8. CASE ReceiveVersion
      BY <1>8, VersionDelivers
<1>9. CASE AskServer
      BY <1>9, AskDelivers
<1> QED BY <1>1, <1>2, <1>3, <1>4, <1>5, <1>6, <1>7, <1>8, <1>9, Zenon DEF KiwiStep

----------------------------------------------------------------------------
(* The server.                                                              *)

\* A frame has been handled, and what it says about keys is in X.
Handled ==
    /\ UNCHANGED <<kiwiVars, sock, connected>>
    /\ line' = "live" => line = "live"
    /\ toFb # <<>> /\ toFb' = Tail(toFb)
    /\ xpos' = IF Head(toFb).t = "M" THEN Head(toFb).at ELSE xpos
    /\ \A k \in xdown' :
           \/ k \in xdown /\ ~Decides(Head(toFb), k)
           \/ Decides(Head(toFb), k) /\ Head(toFb).t # "Q" /\ Head(toFb).down

\* Such a step keeps the rest of the invariant: before the version there is none.
LEMMA HandledDelivers ==
    ASSUME InputTypeOK, Delivery, Handled
    PROVE  Delivery'
<1>1. toFb \in Seq(ToFbMsgs)
      BY DEF InputTypeOK, SocketTypeOK
<1>2. /\ Unconnected /\ Releases /\ Aimed /\ Followed
      /\ UNCHANGED <<kiwiVars, sock, connected>> /\ (line' = "live" => line = "live")
      /\ toFb # <<>> /\ toFb' = Tail(toFb)
      BY DEF Delivery, Handled
<1>3. /\ Lands(toFb, xpos) => Lands(Tail(toFb), xpos')
      /\ \A p : EndsAt(toFb, xpos, p) => EndsAt(Tail(toFb), xpos', p)
      BY <1>1, <1>2, TailLands DEF Handled
<1>4. Aimed' /\ Followed'
      BY <1>2, <1>3 DEF Aimed, Followed, kiwiVars
<1>5. ASSUME NEW k, DownAfter(k)'
      PROVE  DownAfter(k)
  <2>1. (k \in xdown' /\ Silent(Tail(toFb), k)) \/ Presses(Tail(toFb), k)
        BY <1>2, <1>5 DEF DownAfter
  <2>2. /\ Silent(Tail(toFb), k) /\ ~Decides(Head(toFb), k) => Silent(toFb, k)
        /\ /\ Silent(Tail(toFb), k) /\ Decides(Head(toFb), k)
           /\ Head(toFb).t # "Q" /\ Head(toFb).down
           => Presses(toFb, k)
        /\ Presses(Tail(toFb), k) => Presses(toFb, k)
        BY <1>1, <1>2, TailPresses
  <2> QED BY <2>1, <2>2 DEF Handled, DownAfter
<1>6. Releases'
      BY <1>2, <1>5 DEF Releases, Excused, kiwiVars
<1>7. Unconnected'
      BY <1>2 DEF Unconnected, kiwiVars
<1> QED BY <1>4, <1>6, <1>7 DEF Delivery

\* The server dies or closes the connection: nothing is on its way any more.
LEMMA GoneDelivers ==
    ASSUME Delivery, toFb' = <<>>, line' = "none", UNCHANGED <<kiwiVars, sock, connected>>
    PROVE  Delivery'
<1>1. DOMAIN toFb' = {}
      OBVIOUS
<1>2. Aimed'
      BY <1>1 DEF Aimed, Lands
<1> QED BY <1>2 DEF Delivery, Unconnected, Releases, Followed, kiwiVars

\* A write to the window after a frame has been handled.
LEMMA WritesDelivers ==
    ASSUME InputTypeOK, Delivery, NEW frames, NEW next,
           toFb # <<>>, Writes(frames, next, Tail(toFb)),
           Head(toFb).t \in {"VOK", "ask"}, UNCHANGED <<kiwiVars, xVars>>
    PROVE  Delivery'
<1>1. CASE line = "reset"
  <2>1. Dies("killed")
        BY <1>1 DEF Writes
  <2> QED BY <2>1, GoneDelivers DEF Dies
<1>2. CASE line # "reset"
  <2>1. /\ toFb' = Tail(toFb) /\ UNCHANGED <<sock, connected>>
        /\ line' = IF line = "gone" THEN "reset" ELSE line
        BY <1>2 DEF Writes
  <2>2. \A k : ~Decides(Head(toFb), k)
        BY DEF Decides
  <2> QED BY <2>1, <2>2, HandledDelivers DEF Handled, xVars
<1> QED BY <1>1, <1>2

\* Every step of the server keeps the rest of the invariant.
LEMMA ServerDelivers ==
    ASSUME InputInv, Delivery, ServerStep
    PROVE  Delivery'
<1>1. InputTypeOK
      BY DEF InputInv
<1>2. CASE ReadVersion /\ UNCHANGED <<kiwiVars, xVars>>
  <2>1. toFb # <<>> /\ Head(toFb) = VersionOk /\ Writes(<<InitInfo>>, "serve", Tail(toFb))
        BY <1>2 DEF ReadVersion
  <2>2. Head(toFb).t = "VOK"
        BY <2>1, Frames
  <2> QED BY <1>1, <1>2, <2>1, <2>2, WritesDelivers
<1>3. CASE ReadVersionFails /\ UNCHANGED <<kiwiVars, xVars>>
      BY <1>3
      DEF ReadVersionFails, Delivery, Unconnected, Releases, Aimed, Followed, kiwiVars,
          xVars
<1>4. CASE CloseKilled /\ UNCHANGED <<kiwiVars, xVars>>
      BY <1>4, GoneDelivers DEF CloseKilled, Dies
<1>5. CASE FbKey
  <2> DEFINE h == Head(toFb)
  <2>1. /\ toFb # <<>> /\ h.t \in {"K", "C"} /\ h.k \in AllCodes /\ h.down \in BOOLEAN
        /\ UNCHANGED <<kiwiVars, xpos>>
        /\ IF h.down THEN Press(h.k) ELSE Release(h.k)
        BY <1>1, <1>5, KeyRequestType DEF FbKey, Request
  <2>2. \A k : Decides(h, k) <=> h.k = k
        BY <2>1 DEF Decides
  <2> HIDE DEF h
  <2>3. CASE h.down /\ Serving
    <3>1. xdown' = xdown \cup {h.k}
          BY <2>1, <2>3 DEF Press
    <3>2. Handled
          BY <2>1, <2>2, <2>3, <3>1 DEF Handled, Serving, h
    <3> QED BY <1>1, <3>2, HandledDelivers
  <2>4. CASE ~h.down
    <3>1. xdown' = xdown \ {h.k} /\ Serving
          BY <2>1, <2>4 DEF Release
    <3>2. Handled
          BY <2>1, <2>2, <2>4, <3>1 DEF Handled, Serving, h
    <3> QED BY <1>1, <3>2, HandledDelivers
  <2>5. CASE h.down /\ Dies("full")
        BY <2>1, <2>5, GoneDelivers DEF Dies
  <2> QED BY <2>1, <2>3, <2>4, <2>5 DEF Press
<1>6. CASE FbMove
  <2>1. /\ toFb # <<>> /\ Head(toFb).t = "M" /\ xpos' = Head(toFb).at /\ Serving
        /\ UNCHANGED <<kiwiVars, xdown>>
        BY <1>6 DEF FbMove, Request
  <2>2. \A k : ~Decides(Head(toFb), k)
        BY <2>1 DEF Decides
  <2>3. Handled
        BY <2>1, <2>2 DEF Handled, Serving
  <2> QED BY <1>1, <2>3, HandledDelivers
<1>7. CASE FbQuit
  <2>1. /\ fpc = "serve" /\ toFb # <<>> /\ Head(toFb).t = "Q" /\ ReleaseAll /\ Serving
        /\ UNCHANGED <<kiwiVars, xpos>>
        BY <1>7 DEF FbQuit, Request
  <2>2. xdown' = {}
        BY <2>1, ReleaseAllClean DEF Dead
  <2>3. Handled
        BY <2>1, <2>2 DEF Handled, Serving
  <2> QED BY <1>1, <2>3, HandledDelivers
<1>8. CASE FbAsk
  <2>1. /\ toFb # <<>> /\ Head(toFb).t = "ask" /\ UNCHANGED <<kiwiVars, xVars>>
        /\ Writes(<<>>, "serve", Tail(toFb)) \/ Dies("aborted")
        BY <1>8 DEF FbAsk, Request
  <2>2. CASE Dies("aborted")
        BY <2>1, <2>2, GoneDelivers DEF Dies
  <2> QED BY <1>1, <2>1, <2>2, WritesDelivers
<1>9. CASE FbEnd
      BY <1>9, GoneDelivers DEF FbEnd, EndOfConnection
<1> QED BY <1>2, <1>3, <1>4, <1>5, <1>6, <1>7, <1>8, <1>9, Zenon DEF ServerStep

\* The server takes a new window: nothing of the last one is left.
LEMMA AcceptDelivers ==
    ASSUME InputInv, Delivery, Accept \/ AcceptFails, UNCHANGED <<kiwiVars, xVars>>
    PROVE  Delivery'
<1>1. CASE Accept
  <2>1. xdown = {} /\ fpc' = "version" /\ toFb' = <<>> /\ sock = "connecting"
        /\ sock' = "open" /\ connected' = connected
        BY <1>1 DEF Accept, InputInv, CleanBetweenWindows
  <2>2. ~connected /\ pos = 0 /\ (~focus => held = {})
        BY <2>1 DEF Delivery, Unconnected
  <2>3. DOMAIN toFb' = {}
        BY <2>1
  <2>4. Aimed'
        BY <2>3 DEF Aimed, Lands
  <2> QED BY <2>1, <2>2, <2>4
          DEF Delivery, Unconnected, Releases, Followed, kiwiVars, xVars
<1>2. CASE AcceptFails
      BY <1>2
      DEF AcceptFails, Delivery, Unconnected, Releases, Excused, DownAfter, Aimed,
          Followed, kiwiVars, xVars
<1> QED BY <1>1, <1>2

----------------------------------------------------------------------------
(* The invariant.                                                           *)

\* It holds at first: there is no window.
LEMMA DeliveryInit == Init => DeliveryInv
<1> SUFFICES ASSUME Init
             PROVE  DeliveryInv
    OBVIOUS
<1>1. DOMAIN toFb = {}
      BY DEF Init, SocketInit
<1>2. Aimed
      BY <1>1 DEF Aimed, Lands
<1>3. Unconnected /\ Releases /\ Followed
      BY DEF Init, SocketInit, Unconnected, Releases, Followed
<1> QED BY <1>2, <1>3, InputInitInv DEF DeliveryInv, Delivery

\* Every step keeps it.
LEMMA DeliveryStep ==
    ASSUME DeliveryInv, [Next]_vars
    PROVE  DeliveryInv'
<1>1. InputInv /\ InputTypeOK /\ Delivery
      BY DEF DeliveryInv, InputInv
<1>2. CASE Next
  <2>1. InputInv'
        BY <1>1, <1>2, InputStepInv
  <2>2. Delivery'
        BY <1>1, <1>2, UserDelivers, KiwiDelivers, ServerDelivers, AcceptDelivers, Zenon
        DEF Next
  <2> QED BY <2>1, <2>2 DEF DeliveryInv
<1>3. CASE UNCHANGED vars
  <2>1. InputTypeOK'
        BY <1>1, <1>3 DEF vars, socketVars, kiwiVars, xVars, InputTypeOK, SocketTypeOK
  <2>2. InputInv'
        BY <1>1, <1>3, <2>1
        DEF vars, socketVars, xVars, InputInv, RetriesLeft, Distinct, Codes,
            CleanBetweenWindows, TableSuffices
  <2>3. Delivery'
        BY <1>1, <1>3
        DEF vars, socketVars, kiwiVars, xVars, Delivery, Unconnected, Releases, Excused,
            DownAfter, Aimed, Followed
  <2> QED BY <2>2, <2>3 DEF DeliveryInv
<1> QED BY <1>2, <1>3

\* What the frames on their way do when they arrive, as an invariant: what will be
\* down then is excused, and every click will find the pointer where it was made.
THEOREM DeliveryInvariant == Spec => []DeliveryInv
<1>1. DeliveryInv /\ [Next]_vars => DeliveryInv'
      BY DeliveryStep
<1> QED BY <1>1, DeliveryInit, PTL DEF Spec

\* No key is stuck in X, whatever is pressed, repeated, flushed and lost from view
\* on the way to the server (kiwi.cc:526-561, 1066-1074, fbserver.c:49-98).
THEOREM InputNoStuckKey == Spec => []NoStuckKey
<1>1. DeliveryInv => NoStuckKey
      BY DEF DeliveryInv, Delivery, Releases, Excused, NoStuckKey
<1> QED BY <1>1, DeliveryInvariant, PTL

\* A click that has arrived first finds the pointer in X where the window had the
\* mouse (kiwi.cc:454-475).
LEMMA ClickLands ==
    ASSUME DeliveryInv, Request("C"), Head(toFb).at # 0
    PROVE  xpos = Head(toFb).at
<1>1. toFb \in Seq(ToFbMsgs) /\ toFb # <<>> /\ Lands(toFb, xpos)
      BY DEF DeliveryInv, InputInv, InputTypeOK, SocketTypeOK, Request, Delivery, Aimed
<1>2. 1 \in DOMAIN toFb /\ Head(toFb) = toFb[1] /\ DOMAIN toFb \subseteq Nat \ {0}
      BY <1>1
<1>3. PointerAt(toFb, 1, xpos, Head(toFb).at)
      BY <1>1, <1>2 DEF Lands, Request
<1>4. ~ \E j \in DOMAIN toFb : j < 1
      BY <1>2
<1> QED BY <1>3, <1>4 DEF PointerAt

\* A click happens where the mouse of the window was when the user clicked
\* (kiwi.cc:454-475).
THEOREM InputClicksLand == Spec => ClicksLand
<1>1. DeliveryInv => ((Request("C") /\ toFb' = Tail(toFb) /\ Head(toFb).at # 0)
                          => xpos = Head(toFb).at)
      BY ClickLands
<1>2. Spec => [][(Request("C") /\ toFb' = Tail(toFb) /\ Head(toFb).at # 0)
                     => xpos = Head(toFb).at]_vars
      BY <1>1, DeliveryInvariant, PTL
<1> QED BY <1>2 DEF ClicksLand
=============================================================================
