--------------------------- MODULE WindowFramesInv ---------------------------
(***************************************************************************)
(* The inductive invariant behind the properties of WindowFrames: what     *)
(* holds of the connection, of the frame that is on its way, of the memory *)
(* it is copied through, and of news about the picture and the cursor.     *)
(***************************************************************************)
EXTENDS WindowFrames

\* The connection: the two ends agree on whether there is one, and the version is
\* exchanged before anything else.
Connected ==
    /\ sock \in {"connecting", "waiting"} => retry < MaxRetry
    /\ sock \notin {"open", "closing"} => ~connected
    /\ sock = "closing" => connected
    /\ sock # "open" => toKiwi = <<>>
    /\ line = "live" => sock \in {"open", "closing"} /\ fpc \in {"version", "serve", "grab"}
    /\ sock = "open" /\ fpc \notin Dead => line = "live"
    /\ fpc = "accept" => line = "none"
    /\ line = "live" /\ fpc \in {"serve", "grab"} => connected

Exchange ==
    /\ sock = "open" /\ ~connected =>
           line = "live" /\ fpc = "version" /\ toKiwi = <<Version>> /\ toFb = <<>>
    /\ sock = "open" /\ connected => \A i \in DOMAIN toKiwi : toKiwi[i].t # "V"
    /\ sock = "open" /\ line = "live" => \A i \in DOMAIN toFb : toFb[i].t # "close"

\* A module that is not connected yet asks for nothing, and owes its window a
\* complete picture.
Fresh ==
    /\ sock = "none" \/ (sock \in {"connecting", "waiting", "open"} /\ ~connected)
           => flying = FALSE /\ timers = {} /\ flush = "none"
    /\ sock \in {"connecting", "waiting", "open"} /\ ~connected => force = TRUE
    /\ sock \in {"connecting", "waiting", "open"} => view \in Sizes /\ size \in Sizes

\* One frame at a time: asked for, or being flushed.
Flow ==
    line = "live" =>
        /\ Asked <= (IF flying THEN 1 ELSE 0)
        /\ flush # "none" => flying /\ Asked = 0
        /\ sock = "open" /\ connected =>
               /\ flying => Asked = 1 \/ flush # "none"
               /\ fps > Hidden => flying \/ "current" \in timers

\* It is asked for with the buffer the module has now.
Buffers ==
    line = "live" =>
        /\ \A i \in DOMAIN toFb : toFb[i].t = "S" => toFb[i].image = img
        /\ fpc = "grab" => req.image = img
        /\ connected => img.addr \in Addrs /\ bufs[img.addr] = img.size

\* A mapping of a buffer that is still there is of the whole of it.
Mappings ==
    \A i \in {0, 1} :
        cache[i].map = "live" => /\ cache[i].addr \in Addrs
                                 /\ cache[i].size = bufs[cache[i].addr]

Answered(reply) == reply.t = "S" /\ reply.updated

\* What the server has copied is what the window is going to show.
Copies ==
    line = "live" =>
        /\ fpc = "grab" \/ flush # "none" => shmimg.size = img.size
        /\ \A i \in DOMAIN toKiwi :
               Answered(toKiwi[i]) => shmimg.size = img.size
        /\ \A i \in DOMAIN toKiwi :
               Answered(toKiwi[i]) /\ ~toKiwi[i].failed => pix[img.addr] = shmimg.content
        /\ flush = "pending" => pix[img.addr] \in {0, shmimg.content}

\* The copy in the server is never older than what the window has shown.
Ages ==
    /\ content \in 1..MaxContent
    /\ shmimg.content <= content /\ newest <= content
    /\ shmimg.content = 0 \/ newest <= shmimg.content

Carries(msg) == msg.t \in {"S", "P"}

\* The news of a queue is of cursor c only, and the last of it is.
Only(queue, c) ==
    \A i \in DOMAIN queue : Carries(queue[i]) => queue[i].cursor \in {0, c}
Tells(queue, c) ==
    \E i \in DOMAIN queue :
        /\ Carries(queue[i]) /\ queue[i].cursor = c
        /\ \A j \in DOMAIN queue :
               j > i /\ Carries(queue[j]) => queue[j].cursor \in {0, c}

\* The latest cursor is the last the window will hear of.
CursorNews ==
    /\ fpc = "grab" /\ req.cursor # 0 /\ ~moved => req.cursor = cursor
    /\ sock = "open" /\ line = "live" /\ ~moved /\ ~untold =>
           \/ fpc = "grab" /\ req.cursor # 0
           \/ \E i \in DOMAIN toFb : toFb[i].t = "P"
           \/ Tells(toKiwi, cursor)
           \/ kcursor = cursor /\ Only(toKiwi, cursor)

\* The latest picture is shown, and no frame on its way replaces it; or it is
\* still on its way.
Settled == flush # "pending" /\ \A i \in DOMAIN toKiwi : ~Answered(toKiwi[i])

Due ==
    \/ shown = content /\ Settled
    \/ damaged \/ mapped \/ force \/ fpc = "grab"
    \/ img.size # shmimg.size
    \/ img.size > root
    \/ \E i \in DOMAIN toFb : toFb[i].t = "S" /\ toFb[i].refresh
    \/ \E i \in DOMAIN toKiwi :
           \/ toKiwi[i].t = "R"
           \/ Answered(toKiwi[i]) /\ (pix[img.addr] = content \/ toKiwi[i].failed)
    \/ flush = "pending" /\ pix[img.addr] = content
    \/ flush = "void" \/ context = "null"

UpdateDue == Live => Due

\* The inductive invariant behind the properties of the frames: whatever is on its
\* way between the module, the server and the screen (kiwi.cc:282-321, 909-1004,
\* fbserver.c:356-450).
FramesInv ==
    /\ FramesTypeOK
    /\ Connected /\ Exchange /\ Fresh
    /\ Flow /\ Buffers /\ Mappings /\ Copies /\ Ages
    /\ CursorNews
    /\ UpdateDue
=============================================================================
