--------------------------- MODULE ArtifactTransfer ---------------------------
(***************************************************************************)
(* src/remote.cpp and src/remote_persistence.cpp: exchanges with a remote    *)
(* artifact service, checked against the safety memory of the client, and    *)
(* the journal of the exchanges that passed.  Transport is not part of the   *)
(* code: messages may be lost, repeated, delayed and put together wrongly,   *)
(* so every message that was ever sent stays available.                      *)
(*                                                                           *)
(* An id is a hash of what it names and is modelled by that; the id of a     *)
(* safety memory, which covers its whole history, by the number of changes.  *)
(***************************************************************************)
EXTENDS Naturals, Sequences, SafeReplace

CONSTANTS
    Contents,       \* bytes, each named by its digest
    Policies,       \* what authentication requests may ask for
    ServiceKeys,    \* HMAC keys of services
    TrustedKey,     \* the key that the client expects
    MaxChanges,     \* bound: changes of the safety memory
    MaxRequests,    \* bound: requests prepared
    MaxSequence,    \* bound: the service's sequence numbers
    MaxRecords      \* maximum_records of append() and load()

VARIABLES
    memory,         \* the artifact's entry after each change of the memory
    requests,       \* every request that was sent
    responses,      \* every response that was made
    attestations,   \* every attestation that was made
    journal,        \* the client's ArtifactTransferJournal
    saved           \* the journal of the last save() that succeeded

exchange == <<memory, requests, responses, attestations>>
vars == <<exchange, journal, saved, disk, saver>>

Operations == {"fetch", "publish"}
Now == Len(memory)
Entry == memory[Now]

Unsigned == [key |-> "none"]

Init ==
    /\ \E c \in Contents : memory = <<[generation |-> 1, state |-> "active", digest |-> c]>>
    /\ requests = {}
    /\ responses = {}
    /\ attestations = {}
    /\ journal = <<>>
    /\ saved = <<>>
    /\ SaverInit

(* External: the catalogue moves on.  The artifact becomes stale or, when it *)
(* is registered again, active, in a new generation.                         *)
MemoryChanges(state, c) ==
    /\ Now <= MaxChanges
    /\ memory' = Append(memory, [generation |-> Entry.generation + 1, state |-> state, digest |-> c])
    /\ UNCHANGED <<requests, responses, attestations, journal, saved, disk, saver>>

(* prepare_artifact_fetch(), prepare_artifact_publish(): the artifact is     *)
(* active; what is to be published are its registered bytes.                 *)
Prepare(operation, c, policy) ==
    /\ Cardinality(requests) < MaxRequests
    /\ Entry.state = "active"
    /\ operation = "publish" => c = Entry.digest
    /\ requests' = requests \cup
          {[operation |-> operation, sequence |-> Cardinality(requests) + 1, memory |-> Now,
            entry |-> Entry, policy |-> policy]}
    /\ UNCHANGED <<memory, responses, attestations, journal, saved, disk, saver>>

(* make_artifact_fetch_response(), make_artifact_publish_receipt(): the      *)
(* service answers a request, as often as it arrives, with bytes of the      *)
(* digest that it names.                                                     *)
Respond(request, c, sequence) ==
    /\ c = request.entry.digest
    /\ responses' = responses \cup {[request |-> request, digest |-> c, sequence |-> sequence]}
    /\ UNCHANGED <<memory, requests, attestations, journal, saved, disk, saver>>

(* authenticate_artifact_fetch_response(),                                   *)
(* authenticate_artifact_publish_receipt()                                   *)
Authenticate(response, key) ==
    /\ attestations' = attestations \cup
          {[operation |-> response.request.operation, response |-> response, key |-> key]}
    /\ UNCHANGED <<memory, requests, responses, journal, saved, disk, saver>>

-----------------------------------------------------------------------------
(* verify_request_artifact(): nothing in the memory has changed since. *)
StillCurrent(request) ==
    /\ request.memory = Now
    /\ Entry.state = "active"
    /\ Entry = request.entry

(* verify_authentication(),                                                  *)
(* validate_artifact_transfer_attestation_binding(): one attestation for the *)
(* complete exchange by the expected key, or none and no key at all.         *)
Authentic(request, response, attestation) ==
    IF request.policy = "none" THEN attestation = Unsigned
    ELSE /\ attestation # Unsigned
         /\ attestation.operation = request.operation
         /\ attestation.response = response
         /\ attestation.key = TrustedKey

(* Mutant of Verified: the response is to some request for the same bytes. *)
VerifiedByBytes(request, response, attestation, c) ==
    /\ StillCurrent(request)
    /\ response.digest = request.entry.digest
    /\ c = response.digest
    /\ Authentic(request, response, attestation)

(* finalize_verified_artifact_fetch(): the bytes are those of the artifact. *)
FetchAnswered(request, response, c) ==
    /\ request.operation = "fetch" /\ response.request = request
    /\ c = response.digest /\ c = request.entry.digest

(* finalize_verified_artifact_publish(): the receipt is for what the client  *)
(* asked to publish and still has.                                           *)
PublishAnswered(request, response, c) ==
    /\ request.operation = "publish" /\ response.request = request
    /\ c = request.entry.digest /\ response.digest = request.entry.digest

(* verify_artifact_fetch(), verify_artifact_publish() of what the transport  *)
(* delivers: a response, an attestation and bytes.                           *)
Verified(request, response, attestation, c) ==
    /\ StillCurrent(request)
    /\ FetchAnswered(request, response, c) \/ PublishAnswered(request, response, c)
    /\ Authentic(request, response, attestation)

(* append(): the transfer that was verified becomes the record after the     *)
(* head that the caller expects.                                             *)
Journal(request, response, attestation, c) ==
    /\ Verified(request, response, attestation, c)
    /\ Len(journal) < MaxRecords
    /\ journal' = Append(journal, [request |-> request, response |-> response,
                                   authentication |-> request.policy])
    /\ UNCHANGED <<exchange, saved, disk, saver>>

Save(overwrite) ==
    /\ StartSave(journal, overwrite)
    /\ UNCHANGED <<exchange, journal, saved>>

SaveProceeds ==
    /\ \/ MoveAside
       \/ MoveInPlace
       \/ SaveFails
       \/ \E restored \in BOOLEAN : MoveInPlaceFails(restored)
    /\ UNCHANGED <<exchange, journal, saved>>

SaveSucceeds ==
    /\ \E removed \in BOOLEAN : FinishSave(removed)
    /\ saved' = saving
    /\ UNCHANGED <<exchange, journal>>

(* The client dies, and its journal object with it; it starts again from     *)
(* what load() finds, or with an empty journal.                              *)
Restart ==
    /\ journal' = IF destination = Absent THEN <<>> ELSE destination
    /\ SaverDies
    /\ UNCHANGED <<exchange, saved>>

Exchange ==
    \/ \E state \in {"active", "stale"}, c \in Contents : MemoryChanges(state, c)
    \/ \E operation \in Operations, c \in Contents, policy \in Policies :
          Prepare(operation, c, policy)
    \/ \E request \in requests, c \in Contents, n \in 1..MaxSequence : Respond(request, c, n)
    \/ \E response \in responses, key \in ServiceKeys : Authenticate(response, key)
    \/ \E request \in requests, response \in responses,
          attestation \in attestations \cup {Unsigned}, c \in Contents :
          Journal(request, response, attestation, c)

Keep ==
    \/ \E overwrite \in BOOLEAN : Save(overwrite)
    \/ SaveProceeds
    \/ SaveSucceeds
    \/ Restart

Next == Exchange \/ Keep

Spec == Init /\ [][Next]_vars

-----------------------------------------------------------------------------
(* verify_artifact_fetch(), verify_artifact_publish(): whatever the          *)
(* transport lost, repeated or mixed up, a journalled transfer is an         *)
(* exchange that happened: the client asked for it, the service answered     *)
(* that very request with the bytes that were registered and active in the   *)
(* memory it names, and attested the answer if the request asked for that    *)
(* (docs/remote-artifact-service.md:80-92).                                  *)
TransfersHappened ==
    \A i \in 1..Len(journal) :
        LET t == journal[i] IN
        /\ t.request \in requests
        /\ t.response \in responses /\ t.response.request = t.request
        /\ memory[t.request.memory] = t.request.entry
        /\ t.request.entry.state = "active"
        /\ t.response.digest = t.request.entry.digest
        /\ t.authentication # "none" =>
              [operation |-> t.request.operation, response |-> t.response,
               key |-> TrustedKey] \in attestations

(* save(): while it replaces a journal, and if it fails or dies anywhere, a  *)
(* complete copy of the journal that was saved last is under its name or     *)
(* beside it.                                                                *)
SavedIsKept ==
    saved # <<>> => saved \in {destination} \cup aside
=============================================================================
