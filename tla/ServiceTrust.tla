---------------------------- MODULE ServiceTrust ----------------------------
(***************************************************************************)
(* The pure part of src/identity.cpp: what a service key may be used for,    *)
(* how a bundle of keys may change from one sequence number to the next, and *)
(* which signatures authorise the change.                                    *)
(*                                                                           *)
(* A key's id commits to its service, public key, first sequence and         *)
(* permissions, so these are functions of the key.  What a bundle adds is an *)
(* entry per key: its state and the last sequence it is valid through (0 for *)
(* no bound).  A signature is modelled by the key that made it: a key signs  *)
(* what its holder means to sign.                                            *)
(***************************************************************************)
EXTENDS Naturals, FiniteSets

CONSTANTS
    Keys,           \* service keys
    ServiceOf,      \* the service a key belongs to
    ValidFrom,      \* valid_from_sequence of a key
    MayRotate,      \* keys with allow_rotate
    Quorum,         \* rotation_policy.minimum_signatures
    Distinct        \* rotation_policy.require_distinct_services

ASSUME ValidFromAssumption == ValidFrom \in [Keys -> Nat \ {0}]
ASSUME PolicyAssumption == Quorum \in Nat \ {0} /\ Distinct \in BOOLEAN

KeyStates == {"pending", "active", "retired", "revoked"}
Absent == [state |-> "absent", through |-> 0]
Entries == [state : KeyStates \cup {"absent"}, through : Nat]

(* valid_service_public_key() *)
ValidEntry(k, e) ==
    /\ e.state \in KeyStates
    /\ e.through = 0 \/ e.through >= ValidFrom[k]
    /\ e.state = "retired" => e.through # 0

(* ServiceTrustBundle::valid(); a bundle's table gives each key its entry. *)
ValidTable(t) ==
    /\ \E k \in Keys : t[k] # Absent
    /\ \A k \in Keys : t[k] # Absent => ValidEntry(k, t[k])

StateTransitions ==
    {<<"pending", "pending">>, <<"pending", "active">>, <<"pending", "revoked">>,
     <<"active", "active">>, <<"active", "retired">>, <<"active", "revoked">>,
     <<"retired", "retired">>, <<"retired", "revoked">>, <<"revoked", "revoked">>}

(* Mutant of ValidRotation: a fixed upper bound may be moved. *)
ValidRotationUnbounded(old, new) == <<old.state, new.state>> \in StateTransitions

(* validate_rotation(): the state only moves on, a fixed bound stays. *)
ValidRotation(old, new) ==
    /\ <<old.state, new.state>> \in StateTransitions
    /\ old.through # 0 => new.through = old.through

(* validate_service_trust_bundle_rotation(): no key disappears. *)
ValidSuccessor(t, u) ==
    /\ ValidTable(u)
    /\ \A k \in Keys : t[k] # Absent => ValidRotation(t[k], u[k])

InWindow(k, e, n) == ValidFrom[k] <= n /\ (e.through = 0 \/ n <= e.through)

(* rotation_key_is_authorized(), and the test of a checkpoint's signer. *)
MaySign(k, e, n) == e.state = "active" /\ k \in MayRotate /\ InWindow(k, e, n)

(* assemble_service_trust_bundle_authorizations(),                           *)
(* assemble_service_trust_checkpoint(): every signer may sign under table t  *)
(* at sequence n, and together they meet the policy.                         *)
Approves(signers, t, n) ==
    /\ \A k \in signers : MaySign(k, t[k], n)
    /\ Cardinality(signers) >= Quorum
    /\ Distinct => Cardinality({ServiceOf[k] : k \in signers}) >= Quorum

(* trusted_service_public_key(): the key's uses are accepted at sequence n. *)
TrustedAt(k, e, n) == e.state \in {"active", "retired"} /\ InWindow(k, e, n)
=============================================================================
