------------------------------ MODULE PolicyGate ------------------------------
(***************************************************************************)
(* LearningPolicySafetyGate and PolicyFeedbackDatabase (src/policy.cpp): a   *)
(* learned policy proposes actions, the gate refuses those that its metadata *)
(* rules out, asks the RuntimeShield about the others, selects one and       *)
(* leaves a feedback record of each, which a database admits only if its     *)
(* label agrees with its evidence.  CalibratedPolicySafetyGate               *)
(* (src/calibration.cpp) first lowers each confidence to what the outcomes   *)
(* in a calibration profile support.                                         *)
(*                                                                           *)
(* A proposal's identity is its action and its metadata, a record's is all   *)
(* that it says.  The metadata's age and latency are within the limits of    *)
(* the options or not: "late".  Confidences and calibration errors are        *)
(* fractions of Scale.                                                       *)
(***************************************************************************)
EXTENDS RuntimeShield

CONSTANTS
    Proposals,          \* [request, confidence, uncertainty, late]
    MinimumConfidence,
    MaximumUncertainty,
    Modes,              \* selection_mode
    MaxBatch,           \* bound: proposals of a batch
    MaxRecords,         \* maximum_records
    Scale,              \* bound: confidences are 0..Scale
    ProfileInputs,      \* the bins of a profile: [lower, upper, mean, samples, successes]
    LowerBound(_, _),   \* wilson_lower_bound(), rounded down
    MinimumTotalSamples,
    MinimumBinSamples,
    MaximumExpectedError,
    MaximumBinError

VARIABLES
    report,             \* the last PolicyBatchReport
    database            \* PolicyFeedbackDatabase::records()

gateVars == <<report, database>>

NoReport == [mode |-> "none", raw |-> <<>>, decisions |-> <<>>, selected |-> 0]
Batches == UNION {[1..n -> Proposals] : n \in 1..MaxBatch}

(* rejected_by_policy(): the first test that fails; "" if none does. *)
RejectedByPolicy(p) ==
    CASE p.confidence < MinimumConfidence -> "ConfidenceBelowMinimum"
      [] p.confidence >= MinimumConfidence /\ p.uncertainty > MaximumUncertainty -> "UncertaintyExceeded"
      [] p.confidence >= MinimumConfidence /\ p.uncertainty <= MaximumUncertainty /\ p.late -> "TooLate"
      [] OTHER -> ""

GateDecision(p, reason, outcome) ==
    [proposal |-> p, eligible |-> RejectedByPolicy(p) = "", reason |-> reason,
     shield |-> outcome, evidence |-> IF outcome \in {"accept", "repair"} THEN "CertifiedConnectivity" ELSE "Unknown"]
None == "none"

(* The shield's verdict on each request, from each start. *)
Verdicts ==
    [atlas \in Atlases |-> [current \in Starts |-> [request \in {p.request : p \in Proposals} |->
        {d.outcome : d \in Checked(atlas, current, request)}]]]

(* What check_proposals() may decide of one proposal. *)
Decided(atlas, current, p) ==
    IF RejectedByPolicy(p) # "" THEN {GateDecision(p, RejectedByPolicy(p), None)}
    ELSE {GateDecision(p, "Shield", outcome) : outcome \in Verdicts[atlas][current][p.request]}

Selectable(d) == d.shield \in {"accept", "repair"}

(* Mutant of Preferred: the selection mode decides before the shield does. *)
PreferredByMode(d, e, mode) ==
    CASE mode = "HighestConfidence" ->
            \/ d.proposal.confidence > e.proposal.confidence
            \/ /\ d.proposal.confidence = e.proposal.confidence
               /\ d.proposal.uncertainty < e.proposal.uncertainty
      [] mode = "LowestUncertainty" ->
            \/ d.proposal.uncertainty < e.proposal.uncertainty
            \/ /\ d.proposal.uncertainty = e.proposal.uncertainty
               /\ d.proposal.confidence > e.proposal.confidence
      [] OTHER -> FALSE

(* preferred_candidate() of a later decision d over the incumbent e: what    *)
(* the shield accepts before what it repairs, and then by the mode.          *)
Preferred(d, e, mode) ==
    IF d.shield # e.shield THEN d.shield = "accept" ELSE PreferredByMode(d, e, mode)

(* The scan over the decisions; 0 if none can be selected. *)
Selected(decided, mode) ==
    LET best[k \in 0..Len(decided)] ==
            IF k = 0 THEN 0
            ELSE IF ~Selectable(decided[k]) THEN best[k - 1]
            ELSE IF best[k - 1] = 0 \/ Preferred(decided[k], decided[best[k - 1]], mode) THEN k
            ELSE best[k - 1]
    IN best[Len(decided)]

(* feedback_label() *)
FeedbackLabel(d, selected) ==
    IF ~d.eligible THEN "PolicyRejected"
    ELSE IF ~Selectable(d) THEN "ShieldRejected"
    ELSE IF ~selected THEN "EligibleNotSelected"
    ELSE IF d.shield = "accept" THEN "SelectedAccepted" ELSE "SelectedRepaired"

(* make_feedback() *)
Feedback(d, selected) ==
    [decision |-> d, label |-> FeedbackLabel(d, selected), shield |-> d.shield, evidence |-> d.evidence]
Records(r) == [k \in DOMAIN r.decisions |-> Feedback(r.decisions[k], k = r.selected)]

(* validate_policy_feedback_record() *)
RecordValid(record) ==
    /\ record.label = "PolicyRejected" => record.shield = None /\ record.evidence = "Unknown"
    /\ record.label = "ShieldRejected" => record.shield # None
    /\ record.label \in {"SelectedAccepted", "SelectedRepaired", "EligibleNotSelected"} =>
           record.shield # None /\ record.evidence = "CertifiedConnectivity"

-----------------------------------------------------------------------------
(* PolicyCalibrationProfile::create(): the bins follow one another from 0 to *)
(* Scale, and each has samples and its mean within it.                       *)
ProfileValid(bins) ==
    /\ bins # <<>>
    /\ bins[1].lower = 0 /\ bins[Len(bins)].upper = Scale
    /\ \A k \in DOMAIN bins :
          /\ k > 1 => bins[k].lower = bins[k - 1].upper
          /\ k < Len(bins) => bins[k].upper < Scale
          /\ bins[k].lower < bins[k].upper
          /\ bins[k].lower <= bins[k].mean
          /\ bins[k].mean < bins[k].upper \/ (k = Len(bins) /\ bins[k].mean = Scale)
          /\ bins[k].samples > 0 /\ bins[k].successes <= bins[k].samples
Profiles == {bins \in ProfileInputs : ProfileValid(bins)}

(* The bin has the confidence; an end that two bins share belongs to the     *)
(* upper one.                                                                *)
InBin(bins, k, confidence) ==
    /\ bins[k].lower <= confidence
    /\ confidence < bins[k].upper \/ (k = Len(bins) /\ confidence = bins[k].upper)

(* lookup(): the first bin that has the confidence. *)
Lookup(bins, confidence) ==
    CHOOSE k \in DOMAIN bins :
        InBin(bins, k, confidence) /\ \A j \in 1..(k - 1) : ~InBin(bins, j, confidence)

(* The profile's quality: its samples and calibration errors. *)
BinError(bin) == Abs(bin.mean * bin.samples - Scale * bin.successes)
Adequate(bins) ==
    LET total(F(_)) == FoldFunction(LAMBDA bin, n : n + F(bin), 0, bins)
        samples == total(LAMBDA bin : bin.samples)
    IN /\ samples >= MinimumTotalSamples
       /\ total(BinError) <= MaximumExpectedError * samples
       /\ \A k \in DOMAIN bins : BinError(bins[k]) <= MaximumBinError * bins[k].samples
AdequateProfiles == {bins \in Profiles : Adequate(bins)}

(* The proposal with the confidence that the gate goes by. *)
Effective(bins, p) ==
    LET bin == bins[Lookup(bins, p.confidence)] IN
    [p EXCEPT !.confidence = MinOf(p.confidence, LowerBound(bin.successes, bin.samples))]

-----------------------------------------------------------------------------
GateInit == report = NoReport /\ database = <<>>

(* check_proposals(): a batch with one proposal twice is refused, and one    *)
(* internal error of the shield loses the batch.                             *)
Checks(atlas, current, raw, batch, mode) ==
    /\ IsInjective(batch)
    /\ \E decided \in [DOMAIN batch -> UNION {Decided(atlas, current, batch[k]) : k \in DOMAIN batch}] :
          /\ \A k \in DOMAIN batch :
                decided[k] \in Decided(atlas, current, batch[k]) /\ decided[k].shield # "error"
          /\ report' = [mode |-> mode, raw |-> raw, decisions |-> decided, selected |-> Selected(decided, mode)]
    /\ UNCHANGED database
CheckProposals(atlas, current, batch, mode) == Checks(atlas, current, batch, batch, mode)

(* CalibratedPolicySafetyGate::check_proposals(): one proposal whose bin has *)
(* too few samples loses the batch; two that calibration makes one are       *)
(* refused by the gate.                                                      *)
CheckCalibrated(bins, atlas, current, batch, mode) ==
    /\ IsInjective(batch)
    /\ \A k \in DOMAIN batch : bins[Lookup(bins, batch[k].confidence)].samples >= MinimumBinSamples
    /\ Checks(atlas, current, batch, [k \in DOMAIN batch |-> Effective(bins, batch[k])], mode)

(* PolicyFeedbackDatabase::append(): all records or none. *)
MayAppend(records) ==
    /\ Len(database) + Len(records) <= MaxRecords
    /\ \A k \in DOMAIN records : RecordValid(records[k])
    /\ IsInjective(database \o records)

AppendFeedback ==
    /\ report # NoReport
    /\ MayAppend(Records(report))
    /\ database' = database \o Records(report)
    /\ UNCHANGED report

(* The caller is done with the report. *)
Forget == report # NoReport /\ report' = NoReport /\ UNCHANGED database

(* One batch is looked at after the other. *)
GateNext(starts) ==
    \/ /\ report = NoReport
       /\ \E current \in starts, batch \in Batches, mode \in Modes :
             CheckProposals(monitor.atlas, current, batch, mode)
    \/ AppendFeedback
    \/ Forget

CalibratedNext(starts) ==
    \/ /\ report = NoReport
       /\ \E bins \in AdequateProfiles, current \in starts, batch \in Batches, mode \in Modes :
             CheckCalibrated(bins, monitor.atlas, current, batch, mode)
    \/ Forget

(* Candidates that the options rank before d: accepted ones before repaired  *)
(* ones, then by the mode's first and second criterion, then the earlier.    *)
Criterion(d, mode) ==
    CASE mode = "InputOrder" -> <<0, 0>>
      [] mode = "HighestConfidence" -> <<-d.proposal.confidence, d.proposal.uncertainty>>
      [] mode = "LowestUncertainty" -> <<d.proposal.uncertainty, -d.proposal.confidence>>
Rank(decided, k, mode) ==
    <<IF decided[k].shield = "accept" THEN 0 ELSE 1>> \o Criterion(decided[k], mode) \o <<k>>
Before(a, b) ==
    \E n \in DOMAIN a : a[n] < b[n] /\ \A i \in 1..(n - 1) : a[i] = b[i]

(* lookup(): a valid profile has one bin for each confidence, the ends of    *)
(* bins included, and never fails to answer.                                 *)
ProfilesCover ==
    \A bins \in Profiles, confidence \in 0..Scale :
        Cardinality({k \in DOMAIN bins : InBin(bins, k, confidence)}) = 1

(* CalibratedPolicySafetyGate: calibration opens nothing.  What passes was   *)
(* eligible on the confidence that the policy claimed.                       *)
CalibrationIsConservative ==
    \A k \in DOMAIN report.decisions :
        /\ report.decisions[k].eligible => RejectedByPolicy(report.raw[k]) = ""
        /\ report.decisions[k].proposal.confidence <= report.raw[k].confidence

(* check_proposals(): whatever the order of the proposals, the selected one  *)
(* is the best of those that the shield lets pass, one is selected if any    *)
(* passes, and every feedback record of the batch is one that the database   *)
(* and the loader of a saved database take.                                  *)
GateIsSound ==
    /\ LET decided == report.decisions
           candidates == {k \in DOMAIN decided : Selectable(decided[k])}
       IN IF candidates = {} THEN report.selected = 0
          ELSE /\ report.selected \in candidates
               /\ \A k \in candidates \ {report.selected} :
                     Before(Rank(decided, report.selected, report.mode), Rank(decided, k, report.mode))
    /\ \A k \in DOMAIN report.decisions : RecordValid(Records(report)[k])
=============================================================================
