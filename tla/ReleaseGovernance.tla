-------------------------- MODULE ReleaseGovernance --------------------------
(***************************************************************************)
(* shared/policy/release_validation.py, release_certification.py and       *)
(* release_schemas.py: what a release must show before it is published,    *)
(* certified and activated, and how a vendor correction is classified.     *)
(*                                                                         *)
(* Identifiers, hashes and timestamps are abstracted to whether the        *)
(* evaluator finds them; texts and rendering are left out.                 *)
(*                                                                         *)
(* Then lifecycle_compatibility.py and lifecycle_specs.py: a candidate     *)
(* vector of domain versions against the approved one.  A subject is       *)
(* checked again and again, each time against the vector that is           *)
(* certified; drift that is answered as a certification boundary is        *)
(* certified, which makes the candidate the next baseline.                 *)
(***************************************************************************)
EXTENDS LifecycleMachines, FiniteSets

CONSTANTS
  ValidationRequests,   \* the submissions evaluated, by kind
  Publications,
  Certifications,
  Bindings,
  NotSubmitted          \* nothing evaluated yet

----------------------------------------------------------------------------
(* What each class of finding calls for, and so the tiers below. *)
FindingSeverity ==
  [structural_schema_failure |-> "quarantine_required",
   session_misalignment |-> "quarantine_required",
   gaps |-> "blocked_pending_remediation",
   price_anomaly |-> "blocked_pending_remediation",
   duplicate_or_out_of_order |-> "quarantine_required",
   suspicious_zero_or_locked |-> "blocked_pending_remediation",
   event_window_sensitivity |-> "conditional"]
FindingClasses == DOMAIN FindingSeverity
HardBlockFindings ==
  {"structural_schema_failure", "session_misalignment", "duplicate_or_out_of_order"}
DegradedFindings == {"gaps", "price_anomaly", "suspicious_zero_or_locked"}

(* Counts per class of finding, and what became of the source records. *)
ValidationRequest ==
  [counts : [FindingClasses -> -1..2], destructiveRewrite : BOOLEAN,
   sourceTruthPreserved : BOOLEAN, failingRecordsPreserved : BOOLEAN]

Findings(r) == {f \in FindingClasses : r.counts[f] > 0}

(* One mask per class of finding. *)
SidecarMasks(r) ==
  {[class |-> f, affected |-> r.counts[f], severity |-> FindingSeverity[f],
    preserves |-> r.failingRecordsPreserved] : f \in Findings(r)}

ReleaseVerdict(status, tier, certification, masks) ==
  [status |-> status, tier |-> tier, certification |-> certification, masks |-> masks]

(* evaluate_release_validation *)
EvaluateReleaseValidation(r) ==
  FirstClosed(
    <<Gate(\E f \in FindingClasses : r.counts[f] < 0,
           ReleaseVerdict("invalid", "quarantined", "suspect", {})),
      Gate(r.destructiveRewrite \/ ~r.sourceTruthPreserved,
           ReleaseVerdict("violation", "quarantined", "suspect", {})),
      Gate(Findings(r) # {} /\ ~r.failingRecordsPreserved,
           ReleaseVerdict("violation", "quarantined", "suspect", SidecarMasks(r))),
      Gate(Findings(r) = {}, ReleaseVerdict("pass", "reference", "certifiable", {})),
      Gate(Findings(r) \cap HardBlockFindings # {},
           ReleaseVerdict("violation", "quarantined", "suspect", SidecarMasks(r))),
      Gate(Findings(r) \cap DegradedFindings # {},
           ReleaseVerdict("review", "degraded", "blocked", SidecarMasks(r)))>>,
    ReleaseVerdict("review", "sensitive", "conditional", SidecarMasks(r)))

----------------------------------------------------------------------------
(* describe_release_lifecycle_state: what a state lets new work do, and what
   it does to the artifacts that depend on the release. *)
ReleaseSemantics(state) ==
  CASE state = "ACTIVE" -> [posture |-> "promotable", dependents |-> "none", reproducible |-> TRUE]
    [] state = "SUPERSEDED" ->
         [posture |-> "reproducible_only", dependents |-> "freeze_existing_references", reproducible |-> TRUE]
    [] state = "QUARANTINED" ->
         [posture |-> "blocked", dependents |-> "block_new_experiments", reproducible |-> TRUE]
    [] state = "REVOKED" ->
         [posture |-> "suspect", dependents |-> "mark_dependents_suspect", reproducible |-> TRUE]
    [] OTHER ->
         [posture |-> "not_promotable", dependents |-> "none",
          reproducible |-> state \in {"STAGING", "CERTIFIED", "APPROVED"}]

(* evaluate_release_lifecycle_transition: on top of the catalog, a release is
   superseded only with its reproducibility stamp. *)
EvaluateReleaseTransition(m, from, to, stamped) ==
  LET outcome == EvaluateTransition(m, from, to)
  IN  FirstClosed(
        <<Gate(outcome = "UNKNOWN_STATE",
               [status |-> "invalid", dependents |-> "mark_dependents_suspect"]),
          Gate(outcome # "TRANSITION_ALLOWED",
               [status |-> "invalid", dependents |-> ReleaseSemantics(to).dependents]),
          Gate(to = "SUPERSEDED" /\ ~stamped,
               [status |-> "violation", dependents |-> ReleaseSemantics(to).dependents])>>,
        [status |-> "pass", dependents |-> ReleaseSemantics(to).dependents])

----------------------------------------------------------------------------
ReleaseFields ==
  [dataset_release |->
     {"release_id", "raw_input_hashes", "reference_version_hashes", "observation_cutoff_utc",
      "validation_rules_version", "catalog_version", "protocol_versions", "vendor_revision_watermark",
      "correction_horizon", "certification_report_hash", "policy_bundle_hash", "lifecycle_state"},
   analytic_release |->
     {"release_id", "dataset_release_id", "feature_version", "analytic_series_version",
      "feature_block_manifests", "feature_availability_contracts", "artifact_root_hash", "lifecycle_state"},
   data_profile_release |->
     {"release_id", "source_feeds", "venue_dataset_ids", "schema_selection_rules",
      "timestamp_precedence_rule", "bar_construction_rules", "session_anchor_rule",
      "trade_quote_precedence_rule", "zero_volume_bar_policy", "late_print_policy",
      "correction_policy", "gap_policy", "forward_fill_policy", "symbology_mapping_rules",
      "live_historical_parity_expectations", "lifecycle_state"}]

(* The payload of a release: its kind, its version ("none" when it is not an
   integer), the fields it fills, and those whose content is empty or
   malformed. *)
Publication ==
  [kind : STRING, version : {"none", "old", "supported"}, filled : SUBSET STRING, malformed : SUBSET STRING]

(* The fields whose content is looked at, by kind. *)
FieldsWellFormed(p) ==
  p.malformed \cap
    (CASE p.kind = "dataset_release" -> {"observation_cutoff_utc", "protocol_versions"}
       [] p.kind = "analytic_release" -> {"feature_block_manifests", "feature_availability_contracts"}
       [] p.kind = "data_profile_release" -> {"source_feeds", "venue_dataset_ids", "live_historical_parity_expectations"})
    = {}

EvaluateReleaseCompatibility(p) ==
  FirstClosed(<<Gate(p.kind \notin DOMAIN ReleaseFields, "UNKNOWN_KIND"),
                Gate(p.version = "none", "VERSION_MISSING"),
                Gate(p.version # "supported", "VERSION_UNSUPPORTED")>>, "VERSION_SUPPORTED")

(* _build_publication_report *)
EvaluatePublication(p) ==
  FirstClosed(
    <<Gate(EvaluateReleaseCompatibility(p) # "VERSION_SUPPORTED", EvaluateReleaseCompatibility(p)),
      Gate(p.kind \in DOMAIN ReleaseFields /\ ~(ReleaseFields[p.kind] \subseteq p.filled), "MISSING_FIELDS"),
      Gate(p.kind \in DOMAIN ReleaseFields /\ ~FieldsWellFormed(p), "FIELD_VALIDATION_FAILED")>>,
    "PUBLISHABLE")

(* validate_promotable_surface_binding *)
EvaluateSurfaceBinding(requested, approved, mutableSemantics) ==
  FirstClosed(<<Gate(requested = {}, "BINDING_MISSING"),
                Gate(mutableSemantics # {}, "MUTABLE_FEED_SEMANTICS"),
                Gate(~(requested \subseteq approved), "NOT_APPROVED")>>,
              "BINDING_ALLOWED")

(* What is asked of a surface: the data it requests, the approved, and the
   mutable semantics found in the request. *)
SurfaceBinding == [requested : SUBSET STRING, approved : SUBSET STRING, mutableSemantics : SUBSET STRING]

CertificationRecord ==
  [versionSupported : BOOLEAN, kind : STRING, evidenceComplete : BOOLEAN, canaryRequired : BOOLEAN,
   canaryEvidence : SUBSET STRING, state : {"draft", "certified", "approved", "published", "superseded", "revoked"}]

ASSUME SubmissionAssumption ==
  /\ ValidationRequests \subseteq ValidationRequest
  /\ Publications \subseteq Publication /\ Certifications \subseteq CertificationRecord
  /\ Bindings \subseteq SurfaceBinding

(* validate_release_certification *)
EvaluateCertification(c) ==
  FirstClosed(
    <<Gate(~c.versionSupported, "VERSION_UNSUPPORTED"),
      Gate(c.kind \notin DOMAIN ReleaseFields, "UNKNOWN_RELEASE_KIND"),
      Gate(~c.evidenceComplete, "MISSING_REQUIRED_EVIDENCE"),
      Gate(c.canaryRequired /\ c.canaryEvidence = {}, "CANARY_EVIDENCE_REQUIRED"),
      Gate(c.state \notin {"certified", "approved", "published"}, "RELEASE_NOT_USABLE_STATE")>>,
    "USABLE")

(* The actions on dependents that an impact class admits. *)
AllowedActions ==
  [none |-> {"retain", "annotate"}, diagnostic_only |-> {"annotate", "retain"},
   recert_required |-> {"recertify", "supersede"}, suspect |-> {"quarantine", "supersede"}]

(* evaluate_release_correction: e.updates are the actions the event asks of
   its dependents, per dependent. *)
CorrectionGates(e) ==
  LET actions == {e.updates[d] : d \in DOMAIN e.updates}
  IN  <<Gate(~e.versionSupported, "VERSION_UNSUPPORTED"),
        Gate(~e.fieldsComplete \/ DOMAIN e.updates = {}, "MISSING_REQUIRED_FIELDS"),
        Gate(e.kind # "dataset_release", "UNSUPPORTED_RELEASE_KIND"),
        Gate(~e.watermarkMoved, "WATERMARK_UNCHANGED"),
        Gate(~e.priorReproducible, "REPRODUCIBILITY_NOT_PRESERVED"),
        Gate(~(actions \subseteq AllowedActions[e.impact]), "POLICY_ACTION_MISMATCH"),
        Gate("supersede" \in actions /\ ~e.namesSuccessor, "SUPERSESSION_REQUIRES_RELEASE_ID")>>
EvaluateCorrection(e) == FirstClosed(CorrectionGates(e), "POLICY_CLASSIFIED")

----------------------------------------------------------------------------
(* What a submission is answered, by its kind. *)
AnswerTo(kind, r) ==
  CASE kind = "validation" -> EvaluateReleaseValidation(r).certification
    [] kind = "publication" -> EvaluatePublication(r)
    [] kind = "certification" -> EvaluateCertification(r)
    [] kind = "binding" -> EvaluateSurfaceBinding(r.requested, r.approved, r.mutableSemantics)

VARIABLE submission   \* the submission last evaluated and its answer

SubmissionInit == submission = NotSubmitted

Submit(kind, r) ==
  /\ submission = NotSubmitted
  /\ submission' = [kind |-> kind, request |-> r, answer |-> AnswerTo(kind, r)]

SubmissionNext ==
  \/ \E r \in ValidationRequests : Submit("validation", r)
  \/ \E r \in Publications : Submit("publication", r)
  \/ \E r \in Certifications : Submit("certification", r)
  \/ \E r \in Bindings : Submit("binding", r)
SubmissionSpec == SubmissionInit /\ [][SubmissionNext]_submission

(* The same submission with less to show for it. *)
Weaker(kind, r) ==
  CASE kind = "validation" ->
         {[r EXCEPT !.counts[f] = @ + 1] : f \in {g \in FindingClasses : r.counts[g] >= 0}}
    [] kind = "publication" -> {[r EXCEPT !.filled = @ \ {f}] : f \in r.filled}
           \cup {[r EXCEPT !.malformed = r.filled]}
    [] kind = "certification" ->
         {[r EXCEPT !.canaryEvidence = {}], [r EXCEPT !.evidenceComplete = FALSE], [r EXCEPT !.state = "revoked"]}
    [] kind = "binding" -> {[r EXCEPT !.approved = {}], [r EXCEPT !.mutableSemantics = {"latest"}]}

HarshnessOf(answer) ==
  CASE answer \in {"certifiable", "PUBLISHABLE", "USABLE", "BINDING_ALLOWED"} -> 0
    [] answer = "conditional" -> 1
    [] answer = "blocked" -> 2
    [] OTHER -> 3

(* Less evidence never earns a better answer: one more finding of any class, a
   field left out, canary evidence withdrawn or a release no longer approved. *)
WeakerEvidenceNeverHelps ==
  submission # NotSubmitted =>
    \A r \in Weaker(submission.kind, submission.request) :
      HarshnessOf(AnswerTo(submission.kind, r)) >= HarshnessOf(submission.answer)

----------------------------------------------------------------------------
CONSTANTS
  Vectors,        \* version vectors: [CompatibilityDomains -> versions]
  Declarations,   \* sets of domains a request may declare as affected
  Blank           \* a version that was left out

Matrix == "compatibility_matrix_version"

(* The domains whose change calls for recertification: all but the matrix. *)
RecertifiedDomains == CompatibilityDomains \ {Matrix}

Changed(baseline, candidate) == {d \in CompatibilityDomains : baseline[d] # candidate[d]}

(* Faulty variant: the matrix alone is compared with the declaration. *)
ComparesTheMatrix(m, baseline, candidate, declared, active) ==
  LET changed == Changed(baseline, candidate)
  IN  FirstClosed(<<Gate(Matrix \in changed /\ Matrix \notin declared, "UNDECLARED_DRIFT"),
                    Gate(changed # {}, "DRIFT_REQUIRES_RECERTIFICATION")>>, "CONFIRMED")

(* evaluate_compatibility *)
CompatibilityGates(m, baseline, candidate, declared, active) ==
  LET changed == Changed(baseline, candidate)
  IN  <<Gate(m \notin DOMAIN Machines, "UNKNOWN_MACHINE"),
        Gate(~(declared \subseteq CompatibilityDomains), "UNKNOWN_DOMAIN"),
        Gate(\E d \in CompatibilityDomains : Blank \in {baseline[d], candidate[d]}, "FIELDS_MISSING"),
        Gate(changed # {} /\ Matrix \notin changed, "MATRIX_NOT_BUMPED"),
        Gate(~(changed \subseteq declared), "UNDECLARED_DRIFT"),
        Gate(active /\ changed # {}, "ACTIVE_SESSION_CHANGE"),
        Gate(changed \cap RecertifiedDomains # {}, "DRIFT_REQUIRES_RECERTIFICATION"),
        Gate(changed # {}, "MATRIX_CHANGED")>>
EvaluateCompatibility(m, baseline, candidate, declared, active) ==
  FirstClosed(CompatibilityGates(m, baseline, candidate, declared, active), "CONFIRMED")

(* evaluate_compatibility_binding: whether a context binds what it must. *)
EvaluateCompatibilityBinding(required, provided) ==
  FirstClosed(
    <<Gate(~(DOMAIN provided \subseteq CompatibilityDomains), "DOMAIN_UNKNOWN"),
      Gate(~(required \subseteq DOMAIN provided), "DOMAIN_MISSING"),
      Gate(\E d \in required : provided[d] = Blank, "DOMAIN_VALUE_MISSING")>>,
    "DOMAINS_BOUND")

----------------------------------------------------------------------------
VARIABLES
  vector,     \* [first: the vector first approved, certified: the one now]
  declaredEver   \* the domains declared by the drift certified so far

compatibilityVars == <<vector, declaredEver>>

FullVectors == {v \in Vectors : \A d \in CompatibilityDomains : v[d] # Blank}

CompatibilityInit ==
  /\ \E v \in FullVectors : vector = [first |-> v, certified |-> v]
  /\ declaredEver = {}

CheckCandidate(m, candidate, declared, active) ==
  LET verdict == EvaluateCompatibility(m, vector.certified, candidate, declared, active)
  IN  /\ verdict \in {"DRIFT_REQUIRES_RECERTIFICATION", "MATRIX_CHANGED"}
      /\ EvaluateCompatibilityBinding(CompatibilityDomains, candidate) = "DOMAINS_BOUND"
      /\ vector' = [vector EXCEPT !.certified = candidate]
      /\ declaredEver' = declaredEver \cup declared

CompatibilityNext ==
  \E m \in DOMAIN Machines, candidate \in Vectors, declared \in Declarations, active \in BOOLEAN :
    CheckCandidate(m, candidate, declared, active)

CompatibilitySpec == CompatibilityInit /\ [][CompatibilityNext]_compatibilityVars

(* However many migrations a subject goes through, it only ever differs from
   the vector first approved in domains somebody declared, and each migration
   came with a new matrix version. *)
DriftIsDeclared ==
  [][/\ Changed(vector'.first, vector'.certified) \subseteq declaredEver'
     /\ vector'.certified[Matrix] # vector.certified[Matrix]]_compatibilityVars
=============================================================================
