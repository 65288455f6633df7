------------------------------ MODULE Agreement ------------------------------
(***************************************************************************)
(* The followers of a group run the handshake, each in one of the three     *)
(* languages, and the reference server proposes a convention to them.       *)
(***************************************************************************)
EXTENDS Request, Handshake

CONSTANT Groups   \* the groups whose followers run the handshake

GroupMember == [class : {"P", "O", "A"}, space : Seq(Conventions), actions : Seq(DOMAIN Likelihood)]

ASSUME GroupsAssumption == Groups \subseteq Seq(GroupMember)

HandshakeRequests == [to : {"handshake"}, group : Groups]

Followers(g) == {i \in DOMAIN g : g[i].class = "P"}

\* Each follower runs the handshake, in one of the three languages.
Handshakes(g) ==
    [i \in Followers(g) |->
        [reference  |-> runHandshake(i, g),
         typescript |-> runThreeTierHandshake(i, g),
         python     |-> run_three_tier_handshake(i, g)]]

Agree ==
    /\ request.to = "handshake" /\ answer = None
    /\ answer' = [to |-> "handshake", by |-> Handshakes(request.group),
                  proposed |-> propose(request.group)]
    /\ UNCHANGED request

AgreementSpec == request \in HandshakeRequests /\ answer = None /\ [][Agree]_vars

-----------------------------------------------------------------------------
(* Properties *)

\* What a follower may come to commit to, by the language it is written in.
Outcomes(i, l) ==
    IF l = "python" THEN answer.by[i].python
    ELSE {answer.by[i].reference, answer.by[i].typescript}

Committed(outcomes) == {o.convention : o \in outcomes}

MayAbort(i) == \E l \in Languages : Abort \in Outcomes(i, l)

Published(g) == UNION {Space(i, g) : i \in Followers(g)}

\* Convention c is common to all followers, as language l has it.
IsCommon(c, l, g) ==
    \A i \in Followers(g) : \E d \in Space(i, g) : Form[l][d] = Form[l][c]

IsFirst(c, l, g) ==
    /\ c \in Published(g) /\ IsCommon(c, l, g)
    /\ \A d \in Published(g) : IsCommon(d, l, g) => Form[l][c] =< Form[l][d]

\* The languages tell the published conventions apart, and order them, alike.
ReadAlike(g) ==
    \A c, d \in Published(g) :
        Form["javascript"][c] =< Form["javascript"][d] <=> Form["python"][c] =< Form["python"][d]

\* If the followers publish a common convention, and the first such does not cost
\* the observed members too much, all of them commit to it - whoever they are, in
\* both JavaScript ports and in Python, if the languages tell what is published apart
\* and order it alike, and else in each language for itself -, and it is what the
\* server proposes (three-tier.js, aht.ts, aht.py, POST /oap/aht/convention/propose).
\* Or all of them abort.
FollowersAgree ==
    Answered("handshake") =>
        LET g == request.group
        IN  /\ \A i, j \in Followers(g), l \in Languages :
                   MayAbort(i) => Outcomes(j, l) = {Abort}
            /\ \A c \in Published(g), l, m \in Languages :
                   IsFirst(c, l, g) /\ (l = m \/ ReadAlike(g)) =>
                       /\ m = "javascript" => answer.proposed = Form[m][c]
                       /\ \A i \in Followers(g) :
                              ~MayAbort(i) /\ Tolerable(Form[m][c], i, g) =>
                                  Committed(Outcomes(i, m)) = {Form[m][c]}

\* Adversaries, as long as they are fewer than a third, do not sway a follower: it
\* commits to what it would have committed to without them, whatever the order of the
\* members (three-tier.js, the trimming of the largest regrets).
AdversariesPowerless ==
    Answered("handshake") =>
        LET g      == request.group
            honest == SetToSeq({k \in DOMAIN g : g[k].class # "A"})
            alone  == [k \in DOMAIN honest |-> g[honest[k]]]
        IN  \A k \in DOMAIN honest :
                honest[k] \in Followers(g) /\ ~MayAbort(honest[k]) =>
                    /\ answer.by[honest[k]].reference.convention
                           = runHandshake(k, alone).convention
                    /\ Committed(answer.by[honest[k]].python)
                           = Committed(run_three_tier_handshake(k, alone))

=============================================================================
