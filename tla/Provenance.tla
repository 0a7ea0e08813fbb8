------------------------------ MODULE Provenance ------------------------------
(***************************************************************************)
(* src/provenance.cpp: attesters sign a chain of statements about one        *)
(* hardware key, time sources sign chains of assertions about it, and a      *)
(* replay of such a bundle says whether the key's provenance is satisfied    *)
(* and how fresh it is.                                                      *)
(*                                                                           *)
(* Statements and assertions are bound to one exact trust bundle.  An id is  *)
(* a digest of the whole content, parent included, so a parent is modelled   *)
(* by the set that holds the statement it names, {} for none.  Who presents  *)
(* a bundle picks any of what was signed.  Saving one is SafeReplace.        *)
(***************************************************************************)
EXTENDS ServiceTrust, Sequences, FiniteSetsExt

CONSTANTS
    Rotations,          \* the tables of keys that the trust history goes through
    Scopes,             \* HardwareAttestationScope
    RequiredScopes,     \* of the hardware policy, and so on
    Adapters, AllowedAdapters,      \* adapter and vendor of a statement
    AllowedAuthorities,
    MinimumStatements, DistinctAttesters, MaximumChain,
    AllowedSources,     \* of the freshness policy, and so on
    MinimumSources, DistinctSources, MaximumAssertions,
    MaxAge, MaxSkew, MaxUncertainty,
    Truthful,           \* time sources whose clock is right within what they sign
    Limit,              \* 2^64 - 1
    MaxTime,            \* bound: time
    Subjects,           \* bound: keys that are attested
    MaxStatements, MaxAssertions    \* bounds: signed

VARIABLES
    head,               \* bundles in the trust history
    time,               \* of the truthful sources and of who replays
    statements,         \* HardwareKeyAttestationStatement
    assertions          \* ExternalTimeAssertion, and when it was signed

vars == <<head, time, statements, assertions>>

Bundles == 1..Len(Rotations)
NoParent == {}

(* active_publication_key() *)
MayPublish(key, n) ==
    TrustedAt(key, Rotations[n][key], n) /\ Rotations[n][key].state = "active"

(* saturating_add() *)
Plus(a, b) == IF b > Limit - a THEN Limit ELSE a + b
Minus(a, b) == IF a >= b THEN a - b ELSE 0

(* Numbers 1.. without a gap, each naming the one before as its parent. *)
Contiguous(chain) ==
    /\ {c.sequence : c \in chain} = 1..Cardinality(chain)
    /\ \A c \in chain : c.parent = {d \in chain : d.sequence = c.sequence - 1}

(* adapter_allowed(), authority_allowed(), contains_scope() *)
InHardwarePolicy(s) ==
    /\ s.adapter \in AllowedAdapters
    /\ s.key \in AllowedAuthorities
    /\ RequiredScopes \subseteq s.scopes

(* replay_hardware_key_provenance(), up to its report.  A verified statement *)
(* is one that was signed, under the bundle it is replayed with.             *)
HardwareReplays(chain, subject, n) ==
    /\ Cardinality(chain) <= MaximumChain
    /\ \A s \in chain :
          /\ s.bundle = n /\ MayPublish(s.key, n)
          /\ s.subject = subject
          /\ InHardwarePolicy(s)
    /\ Contiguous(chain)

Attesters(chain) ==
    IF DistinctAttesters THEN {ServiceOf[s.key] : s \in chain} ELSE {s.key : s \in chain}

HardwareStatus(chain) ==
    IF /\ Cardinality(chain) >= MinimumStatements
       /\ DistinctAttesters => Cardinality(Attesters(chain)) >= MinimumStatements
    THEN "satisfied" ELSE "incomplete"

ChainOf(source, set) == {a \in set : a.key = source}

(* The time of a source never goes back. *)
Monotonic(chain) == \A a, b \in chain : a.sequence < b.sequence => a.asserted <= b.asserted

(* evaluate_external_time_freshness(), up to its report *)
FreshnessEvaluates(set, subject, n) ==
    /\ Cardinality(set) <= MaximumAssertions
    /\ \A a \in set :
          /\ a.bundle = n /\ MayPublish(a.key, n)
          /\ a.subject = subject
          /\ a.uncertainty <= MaxUncertainty
          /\ a.key \in AllowedSources
    /\ \A a \in set : Contiguous(ChainOf(a.key, set)) /\ Monotonic(ChainOf(a.key, set))

(* chain.back() of every source *)
Latest(set) == {a \in set : \A b \in ChainOf(a.key, set) : b.sequence <= a.sequence}

SourceCount(set) ==
    Cardinality(IF DistinctSources THEN {ServiceOf[a.key] : a \in Latest(set)} ELSE Latest(set))

Lower(set) == Max({Minus(a.asserted, a.uncertainty) : a \in Latest(set)})
Upper(set) == Min({Plus(a.asserted, a.uncertainty) : a \in Latest(set)})

(* Mutant of FreshnessStatus: the freshest source speaks for all. *)
FreshnessOfFreshest(set, at) ==
    IF SourceCount(set) < MinimumSources THEN "incomplete"
    ELSE IF Lower(set) > Upper(set) THEN "inconsistent"
    ELSE IF Lower(set) > Plus(at, MaxSkew) THEN "future"
    ELSE IF Plus(Max({Plus(a.asserted, a.uncertainty) : a \in Latest(set)}), MaxAge) < at THEN "stale"
    ELSE "fresh"

(* The report's status: the intervals of all sources must meet, and what     *)
(* they have in common must not lie too far from the time of evaluation.     *)
FreshnessStatus(set, at) ==
    IF SourceCount(set) < MinimumSources THEN "incomplete"
    ELSE IF Lower(set) > Upper(set) THEN "inconsistent"
    ELSE IF Lower(set) > Plus(at, MaxSkew) THEN "future"
    ELSE IF Plus(Upper(set), MaxAge) < at THEN "stale"
    ELSE "fresh"

-----------------------------------------------------------------------------
Init ==
    /\ head = 1
    /\ time = 0
    /\ statements = {} /\ assertions = {}

(* External: the trust history gets its next bundle. *)
RotateTrust ==
    /\ head < Len(Rotations)
    /\ head' = head + 1
    /\ UNCHANGED <<time, statements, assertions>>

(* External *)
Tick ==
    /\ time < MaxTime
    /\ time' = time + 1
    /\ UNCHANGED <<head, statements, assertions>>

Parents(sequence, signed) ==
    IF sequence = 1 THEN {NoParent} ELSE {{s} : s \in signed}

(* sign_hardware_key_attestation_statement(): the signer's inputs are its    *)
(* own; nothing ties the sequence to the parent before a replay.             *)
SignStatement(key, n, subject, sequence, parent, adapter, scopes) ==
    /\ Cardinality(statements) < MaxStatements
    /\ MayPublish(key, n)
    /\ statements' = statements \cup
          {[key |-> key, bundle |-> n, subject |-> subject, sequence |-> sequence,
            parent |-> parent, adapter |-> adapter, scopes |-> scopes]}
    /\ UNCHANGED <<head, time, assertions>>

(* sign_external_time_assertion() *)
SignAssertion(key, n, subject, sequence, parent, asserted, uncertainty) ==
    /\ Cardinality(assertions) < MaxAssertions
    /\ MayPublish(key, n)
    /\ key \in Truthful => asserted - uncertainty <= time /\ time <= asserted + uncertainty
    /\ assertions' = assertions \cup
          {[key |-> key, bundle |-> n, subject |-> subject, sequence |-> sequence, parent |-> parent,
            asserted |-> asserted, uncertainty |-> uncertainty, signed |-> time]}
    /\ UNCHANGED <<head, time, statements>>

Next ==
    \/ RotateTrust
    \/ Tick
    \/ \E key \in Keys, subject \in Subjects, n \in 1..head :
          \/ \E sequence \in 1..MaxStatements :
                \E parent \in Parents(sequence, statements), adapter \in Adapters,
                   scopes \in SUBSET Scopes :
                   SignStatement(key, n, subject, sequence, parent, adapter, scopes)
          \/ \E sequence \in 1..MaxAssertions :
                \E parent \in Parents(sequence, assertions), asserted \in 0..MaxTime,
                   uncertainty \in 0..MaxUncertainty :
                   SignAssertion(key, n, subject, sequence, parent, asserted, uncertainty)

Spec == Init /\ [][Next]_vars

(* VerifiableProvenanceBundle::create(), replay_verifiable_provenance() and   *)
(* VerifiableProvenanceAuditReport::ready(), for what was presented now.     *)
Ready(subject, n, chain, set) ==
    /\ HardwareReplays(chain, subject, n)
    /\ FreshnessEvaluates(set, subject, n)
    /\ HardwareStatus(chain) = "satisfied"
    /\ FreshnessStatus(set, time) = "fresh"

-----------------------------------------------------------------------------
(* replay_verifiable_provenance(): whichever of the signed statements and    *)
(* assertions are presented, and with some sources lying about the time, a   *)
(* bundle is ready only if enough services vouched for this very key and     *)
(* every truthful source in it spoke recently: nobody makes it look fresh by *)
(* leaving out later assertions or by adding a source with another clock.    *)
ReadyIsRecent ==
    \A subject \in Subjects, n \in 1..head,
       chain \in SUBSET statements, set \in SUBSET assertions :
        Ready(subject, n, chain, set) =>
            /\ DistinctAttesters =>
                  Cardinality({ServiceOf[s.key] : s \in {t \in statements : t.subject = subject}})
                      >= MinimumStatements
            /\ \A a \in Latest(set) :
                  a.key \in Truthful => time <= a.signed + MaxAge + 2 * a.uncertainty
=============================================================================
