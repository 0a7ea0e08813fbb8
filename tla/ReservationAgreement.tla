------------------------- MODULE ReservationAgreement -------------------------
(***************************************************************************)
(* CoordinatedReservationAgreement (src/coordination_reservation.cpp): proof *)
(* that the publishers of several deployments signed one plan, made from the *)
(* rotating publication histories of the publishers and replayed later, and  *)
(* the rounds of agreements that an application accepts one after the other. *)
(*                                                                           *)
(* RotatingHistory shows that a history only grows.  Here it is a chain of   *)
(* publications and a number of trust bundles; a publication is named by the *)
(* chain that it ends, as its id covers its parent's.  A history may have a  *)
(* copy that went its own way, and callers may be given either branch.       *)
(***************************************************************************)
EXTENDS ServiceTrust, Sequences

CONSTANTS
    Deployments,
    Publishers,         \* <<publisher service, stream>>, each with one history
    Branches,           \* copies of a history
    Plans,              \* continuous fleet occupancy bundles
    Separated,          \* plans certified separated, without conflicts
    Horizon,            \* <<first, last>> tick that the trajectories of a plan cover
    Program,            \* bound: [plan, from, through] that publishers sign, in order
    Copied,             \* publishers whose history has a copy
    Rotations,          \* Rotations[u]: the tables of keys that u goes through
    MaxRounds           \* bound: rounds that are accepted

VARIABLES
    chain,      \* chain[u][b]: publications of a branch of u's history
    bundles,    \* bundles[u][b]: how many of Rotations[u] it has seen
    candidate,  \* the agreement made last, or NoAgreement
    accepted    \* the agreements that the application accepted, in order

vars == <<chain, bundles, candidate, accepted>>

NoAgreement == [round |-> 0]
Ticks == UNION {Program[n].from..Program[n].through : n \in 1..Len(Program)}
LastOf(s) == s[Len(s)]
IsPrefixOf(s, t) == Len(s) <= Len(t) /\ SubSeq(t, 1, Len(s)) = s
Within(tick, publication) == publication.from <= tick /\ tick <= publication.through

(* history.verify(): verify_continuous_fleet_occupancy_publication() under   *)
(* the bundle that the publication names.                                    *)
VerifiedAt(u, head, tick) ==
    LET publication == LastOf(head) IN
    /\ Within(tick, publication)
    /\ TrustedAt(publication.key, Rotations[u][publication.bundle][publication.key], Len(head))

-----------------------------------------------------------------------------
(* Mutant of Participates: keys are judged by the history's current trust. *)
ParticipatesNow(u, b, head, trust, tick) ==
    /\ head # <<>> /\ IsPrefixOf(head, chain[u][b])
    /\ trust \in 1..bundles[u][b]
    /\ Within(tick, LastOf(head))
    /\ TrustedAt(LastOf(head).key, Rotations[u][bundles[u][b]][LastOf(head).key], Len(head))

(* make_participant(): publication head and trust head are in the history,   *)
(* the publication's bundle is not after the trust head, and it verifies.    *)
Participates(u, b, head, trust, tick) ==
    /\ head # <<>> /\ IsPrefixOf(head, chain[u][b])
    /\ trust \in 1..bundles[u][b]
    /\ LastOf(head).bundle <= trust
    /\ VerifiedAt(u, head, tick)

(* CoordinatedReservationAgreement::valid(), of what is not its identity. *)
ValidAgreement(a) ==
    /\ a.round >= 1
    /\ a.from <= a.tick /\ a.tick <= a.through
    /\ \A d, e \in Deployments : d # e => a.publisher[d] # a.publisher[e]
    /\ \A d \in Deployments :
          /\ LastOf(a.head[d]).plan = a.plan
          /\ Within(a.tick, LastOf(a.head[d]))

(* assemble_agreement(): the window is what the windows have in common. *)
Agreement(round, parent, tick, plan, publisher, head, trust) ==
    LET froms == {LastOf(head[d]).from : d \in Deployments}
        throughs == {LastOf(head[d]).through : d \in Deployments}
    IN [round |-> round, parent |-> parent, tick |-> tick, plan |-> plan,
        from |-> CHOOSE n \in froms : \A m \in froms : m <= n,
        through |-> CHOOSE n \in throughs : \A m \in throughs : n <= m,
        publisher |-> publisher, head |-> head, trust |-> trust]

(* verify_coordinated_reservation_agreement() with branch[d] of the history  *)
(* that the caller maps deployment d to: every participant is made again,    *)
(* at the heads that the agreement names.                                    *)
Verifies(a, branch) ==
    /\ ValidAgreement(a)
    /\ a.plan \in Separated
    /\ \A d \in Deployments :
          /\ Participates(a.publisher[d], branch[d], a.head[d], a.trust[d], a.tick)
          /\ LastOf(a.head[d]).plan = a.plan

(* verify_stored_participant(): deployment d's statement in a stands in the   *)
(* history that is given for it now.                                         *)
Stands(a, d, branch) ==
    /\ Participates(a.publisher[d], branch[d], a.head[d], a.trust[d], a.tick)
    /\ LastOf(a.head[d]).plan = a.plan

(* verify_coordinated_reservation_successor(): the next round of the same    *)
(* members, all of them with a later publication in the given history, which *)
(* has both.                                                                 *)
Succeeds(a, b, branch) ==
    /\ ValidAgreement(a) /\ ValidAgreement(b)
    /\ b.round = a.round + 1 /\ b.parent = a
    /\ b.tick >= a.tick
    /\ b.publisher = a.publisher
    /\ \A d \in Deployments :
          /\ Len(b.head[d]) > Len(a.head[d])
          /\ Stands(a, d, branch) /\ Stands(b, d, branch)
          /\ a.trust[d] <= b.trust[d]

-----------------------------------------------------------------------------
Init ==
    /\ chain = [u \in Publishers |-> [b \in Branches |-> <<>>]]
    /\ bundles = [u \in Publishers |-> [b \in Branches |-> 1]]
    /\ candidate = NoAgreement
    /\ accepted = <<>>

(* sign_continuous_fleet_occupancy_publication() and publish(): a key of the *)
(* current bundle signs, for a window that the trajectories cover.           *)
Publish(u, b, key) ==
    LET n == Len(chain[u][b]) + 1
        content == Program[n]
        publication == [plan |-> content.plan, from |-> content.from,
                        through |-> content.through, key |-> key, bundle |-> bundles[u][b]]
    IN /\ n <= Len(Program)
       /\ chain[u][b] = <<>> => \A c \in Branches : chain[u][c] = <<>>
       /\ Horizon[content.plan][1] <= content.from /\ content.through <= Horizon[content.plan][2]
       /\ TrustedAt(key, Rotations[u][bundles[u][b]][key], n)
       /\ chain' = [chain EXCEPT ![u][b] = Append(@, publication)]
       /\ UNCHANGED <<bundles, candidate, accepted>>

RotateTrust(u, b) ==
    /\ chain[u][b] # <<>>
    /\ bundles[u][b] < Len(Rotations[u])
    /\ bundles' = [bundles EXCEPT ![u][b] = @ + 1]
    /\ UNCHANGED <<chain, candidate, accepted>>

(* External: the operator copies a history, which may then diverge. *)
CopyHistory(u, b, c) ==
    /\ u \in Copied
    /\ chain[u][b] # <<>>
    /\ chain[u][c] = <<>>
    /\ chain' = [chain EXCEPT ![u][c] = chain[u][b]]
    /\ bundles' = [bundles EXCEPT ![u][c] = bundles[u][b]]
    /\ UNCHANGED <<candidate, accepted>>

(* make_coordinated_reservation_agreement(): the participants are made from  *)
(* the current heads of the histories that are passed for the deployments.   *)
Make(round, parent, tick, plan, publisher, branch) ==
    LET head == [d \in Deployments |-> chain[publisher[d]][branch[d]]]
        trust == [d \in Deployments |-> bundles[publisher[d]][branch[d]]]
        a == Agreement(round, parent, tick, plan, publisher, head, trust)
    IN /\ candidate = NoAgreement
       /\ plan \in Separated
       /\ Cardinality(Deployments) >= 2
       /\ round = 1 <=> parent = NoAgreement
       /\ \A d \in Deployments :
             /\ Participates(publisher[d], branch[d], head[d], trust[d], tick)
             /\ LastOf(head[d]).plan = plan
       /\ ValidAgreement(a)
       /\ candidate' = a
       /\ UNCHANGED <<chain, bundles, accepted>>

(* The application pins the agreement that it accepts: a first round that    *)
(* replays, then successors that do.                                         *)
Accept(branch) ==
    /\ candidate # NoAgreement
    /\ Len(accepted) < MaxRounds
    /\ Verifies(candidate, branch)
    /\ IF accepted = <<>> THEN candidate.round = 1
       ELSE Succeeds(LastOf(accepted), candidate, branch)
    /\ accepted' = Append(accepted, candidate)
    /\ candidate' = NoAgreement
    /\ UNCHANGED <<chain, bundles>>

Next ==
    \/ \E u \in Publishers, b \in Branches :
          \/ \E key \in Keys : Publish(u, b, key)
          \/ RotateTrust(u, b)
          \/ \E c \in Branches : CopyHistory(u, b, c)
    \/ \E branch \in [Deployments -> Branches] :
          \/ \E tick \in Ticks, plan \in Plans, publisher \in [Deployments -> Publishers],
                parent \in {NoAgreement} \cup {accepted[i] : i \in 1..Len(accepted)} :
                Make(parent.round + 1, parent, tick, plan, publisher, branch)
          \/ Accept(branch)

Spec == Init /\ [][Next]_vars

-----------------------------------------------------------------------------
(* verify_coordinated_reservation_agreement(): an agreement that was made,   *)
(* accepted or not, replays for ever with the histories that it was made     *)
(* from, however far they have advanced and whatever became of the keys      *)
(* (docs/coordinated-reservation-agreements.md:52-54).                       *)
AgreementsReplay ==
    \A a \in {accepted[i] : i \in 1..Len(accepted)} \cup ({candidate} \ {NoAgreement}) :
        \E branch \in [Deployments -> Branches] : Verifies(a, branch)

(* verify_coordinated_reservation_successor(): over any number of rounds,    *)
(* each of them checked against whichever branch its caller had, a member's  *)
(* publications continue one another; no round rests on a publication of an  *)
(* earlier round or of a fork beside it                                      *)
(* (docs/coordinated-reservation-agreements.md:67-73).                       *)
RoundsExtend ==
    \A i, j \in 1..Len(accepted) : i < j =>
        \A d \in Deployments :
            /\ accepted[j].publisher[d] = accepted[i].publisher[d]
            /\ IsPrefixOf(accepted[i].head[d], accepted[j].head[d])
            /\ accepted[i].head[d] # accepted[j].head[d]
            /\ accepted[i].trust[d] <= accepted[j].trust[d]
=============================================================================
