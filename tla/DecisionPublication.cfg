CONSTANTS
    Reviews = {r1, r2}
    Claims = {c1, c2}
    Ids = {e1, e2}
    Sources = {s1, s2, s3, s4}
    Allowed = {s1, s2, s3}
    Moved = {s3}
    Required = {e1}
    None = None
SPECIFICATION PublicationSpec
INVARIANT ProofsNameARealRecord
INVARIANT OlderReviewsDoNotComeBack
INVARIANT ProvedEvidenceIsAdmissible
CHECK_DEADLOCK FALSE
