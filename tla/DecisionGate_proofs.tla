--------------------------- MODULE DecisionGate_proofs ---------------------------
(***************************************************************************)
(* What a decision promises, for any claims and evidence and any number of *)
(* deviations.                                                             *)
(*                                                                         *)
(* The decision is a function of the bundle, so an invariant need only say *)
(* what bundles a review can hand in.  The gate never compares a receipt   *)
(* with the one the runtime issues; it tests fields one by one, and the    *)
(* tests add up to the comparison only because of what the runtime puts    *)
(* in: an invocation is the reviewer's own or one that is taken, evidence  *)
(* is bound as it was when it was acquired, and a capture, once copied, is *)
(* there twice until an admission is lost.                                 *)
(***************************************************************************)
EXTENDS GateProperties, FiniteSetTheorems, TLAPS

AssuranceProfiles == { Profiles[i] : i \in DOMAIN Profiles }

IsBundle(b) ==
    b = [claim |-> b.claim, items |-> b.items, admissions |-> b.admissions,
         receipts |-> b.receipts, findings |-> b.findings, frames |-> b.frames,
         obligations |-> b.obligations, runtimeKey |-> b.runtimeKey,
         evidenceKey |-> b.evidenceKey, witness |-> b.witness]

\* A receipt of r: bound to the evidence as acquired, and naming an invocation and a model
\* response of its own or those of the scope reviewer.
GoodReceipt(r, x) ==
    /\ x = [status |-> x.status, signed |-> x.signed, claim |-> x.claim, ev |-> x.ev,
            findings |-> x.findings, artifacts |-> x.artifacts, prompt |-> x.prompt,
            context |-> x.context, invocation |-> x.invocation, invoked |-> x.invoked,
            modelBound |-> x.modelBound, response |-> x.response, output |-> x.output]
    /\ x.signed \in BOOLEAN
    /\ x.modelBound \in BOOLEAN
    /\ x.ev = [e \in Evidence |-> 0]
    /\ x.invocation \in { r, "scope" }
    /\ x.response \in { r, "scope" }
    /\ x.status = "SUCCESS" => x.output # ""

ReceiptsFollow(b) ==
    /\ DOMAIN b.receipts \subseteq RequiredReviewers(b.claim.profile)
    /\ \A r \in DOMAIN b.receipts : GoodReceipt(r, b.receipts[r])

GoodAdmission(x) ==
    /\ x = [version |-> x.version, capture |-> x.capture, signed |-> x.signed,
            origin |-> x.origin, status |-> x.status]
    /\ x.signed \in BOOLEAN

\* A capture that was copied is there twice, until an admission is lost.
CapturesFollow(adm) ==
    \/ DOMAIN adm # Evidence
    \/ \E d, e \in DOMAIN adm : d # e /\ adm[d].capture = adm[e].capture
    \/ \A e \in DOMAIN adm : adm[e].capture = e

AdmissionsFollow(adm) ==
    /\ DOMAIN adm \subseteq Evidence
    /\ \A e \in DOMAIN adm : GoodAdmission(adm[e])
    /\ CapturesFollow(adm)

WorkFollows(b) ==
    /\ \A x \in b.frames :
          /\ x = [by |-> x.by, atom |-> x.atom, reading |-> x.reading]
          /\ x.reading \in { "plain", "other", "UNKNOWN" }
    /\ \A r \in FrameReviewers, a \in b.claim.atoms : IsFiniteSet(FramesBy(b, r, a))
    /\ \A d \in Due(b) : IsFiniteSet(Filed(b, d))

Reviewed(b) ==
    /\ IsBundle(b)
    /\ b.claim \in Claims
    /\ \A f \in b.findings : f.type \in Reports
    /\ ReceiptsFollow(b)
    /\ AdmissionsFollow(b.admissions)
    /\ WorkFollows(b)

GateInv ==
    /\ Reviewed(bundle)
    /\ Decided => decision = Decide(bundle)

-----------------------------------------------------------------------------
(* The profiles are ranked.                                                *)
LEMMA Ranks ==
    /\ \A p \in AssuranceProfiles : Rank(p) \in 1..13 /\ Profiles[Rank(p)] = p
    /\ Rank("CORROBORATED") = 2 /\ Rank("FORTIFIED") = 3 /\ Rank("MODEL_BOUND") = 4
    /\ Rank("SEMANTIC_FORTIFIED") = 5 /\ Rank("REPRESENTATION_FORTIFIED") = 6
<1>1. DOMAIN Profiles = 1..13
  BY DEF Profiles
<1>2. \A p \in AssuranceProfiles : Rank(p) \in 1..13 /\ Profiles[Rank(p)] = p
  BY <1>1 DEF Rank, AssuranceProfiles
<1>3. /\ "CORROBORATED" \in AssuranceProfiles /\ "FORTIFIED" \in AssuranceProfiles
      /\ "MODEL_BOUND" \in AssuranceProfiles /\ "SEMANTIC_FORTIFIED" \in AssuranceProfiles
      /\ "REPRESENTATION_FORTIFIED" \in AssuranceProfiles
  <2>1. /\ Profiles[2] = "CORROBORATED" /\ Profiles[3] = "FORTIFIED"
        /\ Profiles[4] = "MODEL_BOUND" /\ Profiles[5] = "SEMANTIC_FORTIFIED"
        /\ Profiles[6] = "REPRESENTATION_FORTIFIED"
    BY DEF Profiles
  <2> QED BY <1>1, <2>1 DEF AssuranceProfiles
<1>4. \A i \in 1..13 : /\ Profiles[i] = "CORROBORATED" => i = 2
                       /\ Profiles[i] = "FORTIFIED" => i = 3
                       /\ Profiles[i] = "MODEL_BOUND" => i = 4
                       /\ Profiles[i] = "SEMANTIC_FORTIFIED" => i = 5
                       /\ Profiles[i] = "REPRESENTATION_FORTIFIED" => i = 6
  BY DEF Profiles
<1> QED BY <1>2, <1>3, <1>4

-----------------------------------------------------------------------------
(* What becomes of the parts of a bundle when it changes.                  *)

LEMMA NamesAreNamed ==
    \A p : \A r \in RequiredReviewers(p) : r \in BaseReviewers \cup SemanticReviewers /\ r # ""
BY DEF RequiredReviewers, BaseReviewers, SemanticReviewers

LEMMA ReceiptRewritten ==
    ASSUME NEW r, NEW x, GoodReceipt(r, x), NEW fs, NEW ws,
           NEW out, x.status = "SUCCESS" => out # ""
    PROVE  GoodReceipt(r, [x EXCEPT !.findings = fs, !.artifacts = ws, !.output = out])
<1>1. PICK y : y = [x EXCEPT !.findings = fs]
  OBVIOUS
<1>2. PICK z : z = [y EXCEPT !.artifacts = ws]
  OBVIOUS
<1>3. GoodReceipt(r, y) /\ y.status = x.status
  BY <1>1 DEF GoodReceipt
<1>4. GoodReceipt(r, z) /\ z.status = x.status
  BY <1>2, <1>3 DEF GoodReceipt
<1>5. GoodReceipt(r, [z EXCEPT !.output = out])
  <2>1. PICK w : w = [z EXCEPT !.output = out]
    OBVIOUS
  <2>2. w.status = "SUCCESS" => w.output # ""
    BY <1>4, <2>1 DEF GoodReceipt
  <2>3. GoodReceipt(r, w)
    BY <1>4, <2>1, <2>2 DEF GoodReceipt
  <2> QED BY <2>1, <2>3
<1>6. [x EXCEPT !.findings = fs, !.artifacts = ws, !.output = out] = [z EXCEPT !.output = out]
  BY <1>1, <1>2
<1> QED BY <1>5, <1>6

\* A receipt that covers something else is still one of its reviewer.
LEMMA Rebound ==
    ASSUME NEW b, IsBundle(b), ReceiptsFollow(b), NEW r \in DOMAIN b.receipts
    PROVE  /\ IsBundle(Rebind(b, r))
           /\ ReceiptsFollow(Rebind(b, r))
           /\ Rebind(b, r).claim = b.claim
           /\ Rebind(b, r).admissions = b.admissions
           /\ Rebind(b, r).findings = b.findings
           /\ Rebind(b, r).frames = b.frames
           /\ Rebind(b, r).obligations = b.obligations
<1> DEFINE was == b.receipts[r]
           now == [was EXCEPT !.findings = ReportedBy(b, r), !.artifacts = ArtifactsOf(b, r),
                              !.output = IF was.status = "SUCCESS" THEN r ELSE ""]
<1>1. Rebind(b, r) = [b EXCEPT !.receipts = [b.receipts EXCEPT ![r] = now]]
  BY DEF Rebind, IsBundle, ReceiptsFollow, GoodReceipt
<1>2. GoodReceipt(r, was) /\ r # ""
  BY NamesAreNamed DEF ReceiptsFollow
<1>3. GoodReceipt(r, now)
  BY <1>2, ReceiptRewritten
<1> HIDE DEF now
<1>4. /\ IsBundle(Rebind(b, r))
      /\ Rebind(b, r).receipts = [b.receipts EXCEPT ![r] = now]
      /\ Rebind(b, r).claim = b.claim
      /\ Rebind(b, r).admissions = b.admissions
      /\ Rebind(b, r).findings = b.findings
      /\ Rebind(b, r).frames = b.frames
      /\ Rebind(b, r).obligations = b.obligations
  BY <1>1 DEF IsBundle
<1> QED BY <1>3, <1>4 DEF ReceiptsFollow

LEMMA ReceiptsKept ==
    ASSUME NEW b, NEW c, ReceiptsFollow(b), c.claim = b.claim, c.receipts = b.receipts
    PROVE  ReceiptsFollow(c)
BY DEF ReceiptsFollow

\* What is owed depends on the atoms and on what they cite.
LEMMA DueFromClaim ==
    \A b, c : c.claim.atoms = b.claim.atoms /\ c.claim.cites = b.claim.cites => Due(c) = Due(b)
<1>1. ASSUME NEW b, NEW c, c.claim.atoms = b.claim.atoms, c.claim.cites = b.claim.cites
      PROVE  Due(c) = Due(b)
  <2>1. UNION { c.claim.cites[a] : a \in c.claim.atoms }
            = UNION { b.claim.cites[a] : a \in b.claim.atoms }
    BY <1>1
  <2> QED BY <1>1, <2>1 DEF Due
<1> QED BY <1>1

\* Work products stay countable when finitely many are added and any are taken away.
LEMMA WorkKept ==
    ASSUME NEW b, NEW c, WorkFollows(b), c.claim = b.claim,
           NEW fs, IsFiniteSet(fs), c.frames \subseteq b.frames \cup fs,
           \A x \in fs : /\ x = [by |-> x.by, atom |-> x.atom, reading |-> x.reading]
                         /\ x.reading \in { "plain", "other", "UNKNOWN" },
           NEW os, IsFiniteSet(os), c.obligations \subseteq b.obligations \cup os
    PROVE  WorkFollows(c)
<1>1. ASSUME NEW r \in FrameReviewers, NEW a \in c.claim.atoms
      PROVE  IsFiniteSet(FramesBy(c, r, a))
  <2>1. IsFiniteSet(FramesBy(b, r, a))
    BY <1>1 DEF WorkFollows
  <2>2. IsFiniteSet(FramesBy(b, r, a) \cup fs)
    BY <2>1, FS_Union
  <2>3. FramesBy(c, r, a) \in SUBSET (FramesBy(b, r, a) \cup fs)
    BY DEF FramesBy
  <2> QED BY <2>2, <2>3, FS_Subset
<1>2. ASSUME NEW d \in Due(c)
      PROVE  IsFiniteSet(Filed(c, d))
  <2>1. d \in Due(b)
    <3>1. Due(c) = Due(b)
      BY DueFromClaim
    <3> QED BY <3>1, <1>2
  <2>2. IsFiniteSet(Filed(b, d))
    BY <2>1 DEF WorkFollows
  <2>3. IsFiniteSet(Filed(b, d) \cup os)
    BY <2>2, FS_Union
  <2>4. Filed(c, d) \in SUBSET (Filed(b, d) \cup os)
    BY DEF Filed
  <2> QED BY <2>3, <2>4, FS_Subset
<1>3. \A x \in c.frames : /\ x = [by |-> x.by, atom |-> x.atom, reading |-> x.reading]
                          /\ x.reading \in { "plain", "other", "UNKNOWN" }
  BY DEF WorkFollows
<1> QED BY <1>1, <1>2, <1>3 DEF WorkFollows
-----------------------------------------------------------------------------
(* What a review can hand in, deviation by deviation.                      *)

\* A reviewer hands in other findings, frames or obligations, under a receipt for them.
LEMMA HandsIn ==
    ASSUME NEW b, Reviewed(b), NEW r \in DOMAIN b.receipts,
           NEW c, IsBundle(c), c.claim = b.claim, c.admissions = b.admissions,
           ReceiptsFollow(c), DOMAIN c.receipts = DOMAIN b.receipts,
           \A f \in c.findings : f.type \in Reports, WorkFollows(c)
    PROVE  Reviewed(Rebind(c, r))
<1> DEFINE d == Rebind(c, r)
<1>1. /\ IsBundle(d) /\ ReceiptsFollow(d) /\ d.claim = c.claim /\ d.admissions = c.admissions
      /\ d.findings = c.findings /\ d.frames = c.frames /\ d.obligations = c.obligations
  BY Rebound
<1> HIDE DEF d
<1>2. AdmissionsFollow(d.admissions)
  BY <1>1 DEF Reviewed
<1>3. WorkFollows(d)
  BY <1>1, WorkKept, FS_EmptySet
<1>4. Reviewed(d)
  BY <1>1, <1>2, <1>3 DEF Reviewed
<1> QED BY <1>4 DEF d

LEMMA ReviewerReportsKeeps ==
    ASSUME Reviewed(bundle), NEW r \in Received(bundle), NEW t \in Reports, NEW es,
           ReviewerReports(r, t, es)
    PROVE  Reviewed(bundle')
<1>1. PICK sev : bundle' = Rebind([bundle EXCEPT !.findings = @ \cup { Finding(r, t, sev, es) }], r)
  BY DEF ReviewerReports, Deviate
<1>2. PICK b : b = bundle
  OBVIOUS
<1>3. PICK c : c = [b EXCEPT !.findings = @ \cup { Finding(r, t, sev, es) }]
  OBVIOUS
<1>4. /\ IsBundle(c) /\ c.claim = b.claim /\ c.admissions = b.admissions
      /\ c.receipts = b.receipts /\ c.frames = b.frames /\ c.obligations = b.obligations
      /\ c.findings = b.findings \cup { Finding(r, t, sev, es) }
  BY <1>2, <1>3 DEF Reviewed, IsBundle
<1>5. Reviewed(b) /\ r \in DOMAIN b.receipts
  BY <1>2 DEF Received
<1>6. ReceiptsFollow(c) /\ WorkFollows(c)
  BY <1>4, <1>5, ReceiptsKept, WorkKept, FS_EmptySet DEF Reviewed
<1>7. \A f \in c.findings : f.type \in Reports
  BY <1>4, <1>5 DEF Reviewed, Finding
<1>8. Reviewed(Rebind(c, r))
  BY <1>4, <1>5, <1>6, <1>7, HandsIn
<1> QED BY <1>1, <1>2, <1>3, <1>8

\* r hands in other frames or other obligations: some of the old, finitely many new.
LEMMA WorkIsHandedIn ==
    ASSUME NEW b, Reviewed(b), NEW r \in DOMAIN b.receipts,
           NEW fs, IsFiniteSet(fs),
           \A x \in fs : /\ x = [by |-> x.by, atom |-> x.atom, reading |-> x.reading]
                         /\ x.reading \in { "plain", "other", "UNKNOWN" },
           NEW frames, frames \subseteq b.frames \cup fs,
           NEW os, IsFiniteSet(os), NEW obligations, obligations \subseteq b.obligations \cup os,
           NEW c, c = [b EXCEPT !.frames = frames] \/ c = [b EXCEPT !.obligations = obligations]
    PROVE  Reviewed(Rebind(c, r))
<1>1. /\ IsBundle(c) /\ c.claim = b.claim /\ c.admissions = b.admissions
      /\ c.receipts = b.receipts /\ c.findings = b.findings
      /\ c.frames \in { b.frames, frames } /\ c.obligations \in { b.obligations, obligations }
  BY DEF Reviewed, IsBundle
<1>2. ReceiptsFollow(c)
  BY <1>1, ReceiptsKept DEF Reviewed
<1>3. WorkFollows(c)
  <2>1. c.frames \subseteq b.frames \cup fs /\ c.obligations \subseteq b.obligations \cup os
    BY <1>1
  <2> QED BY <1>1, <2>1, WorkKept DEF Reviewed
<1>4. \A f \in c.findings : f.type \in Reports
  BY <1>1 DEF Reviewed
<1> QED BY <1>1, <1>2, <1>3, <1>4, HandsIn

LEMMA PairsAreFinite == \A x, y : IsFiniteSet({ x, y })
<1>1. ASSUME NEW x, NEW y PROVE IsFiniteSet({ x, y })
  <2>1. IsFiniteSet({ x })
    BY FS_Singleton
  <2>2. IsFiniteSet({ x } \cup { y })
    BY <2>1, FS_AddElement
  <2>3. { x, y } = { x } \cup { y }
    OBVIOUS
  <2> QED BY <2>2, <2>3
<1> QED BY <1>1

LEMMA FrameDeviatesKeeps ==
    ASSUME Reviewed(bundle), NEW r \in Received(bundle), NEW a, FrameDeviates(r, a)
    PROVE  Reviewed(bundle')
<1> DEFINE read(x) == [by |-> r, atom |-> a, reading |-> x]
           new == { read("other"), read("UNKNOWN") }
<1>1. PICK own : own = FramesBy(bundle, r, a)
  OBVIOUS
<1>2. PICK fs \in { {}, { read("other") }, { read("UNKNOWN") }, own \cup { read("other") } } :
        bundle' = Rebind([bundle EXCEPT !.frames = (@ \ own) \cup fs], r)
  BY <1>1 DEF FrameDeviates, Deviate
<1>3. PICK b : b = bundle
  OBVIOUS
<1>4. Reviewed(b) /\ r \in DOMAIN b.receipts
  BY <1>3 DEF Received
<1>5. IsFiniteSet(new)
  BY PairsAreFinite
<1>6. \A x \in new : /\ x = [by |-> x.by, atom |-> x.atom, reading |-> x.reading]
                     /\ x.reading \in { "plain", "other", "UNKNOWN" }
  OBVIOUS
<1>7. (b.frames \ own) \cup fs \subseteq b.frames \cup new
  BY <1>1, <1>3 DEF FramesBy
<1> HIDE DEF new
<1>8. PICK frames : frames = (b.frames \ own) \cup fs
  OBVIOUS
<1>9. Reviewed(Rebind([b EXCEPT !.frames = frames], r))
  BY <1>4, <1>5, <1>6, <1>7, <1>8, FS_EmptySet, WorkIsHandedIn
<1> QED BY <1>2, <1>3, <1>8, <1>9
\* Only so many obligations fail as were filed.
LEMMA FailedAreFinite ==
    ASSUME NEW filed, IsFiniteSet(filed)
    PROVE  IsFiniteSet({ [x EXCEPT !.result = "UNRESOLVED"] : x \in filed })
<1> DEFINE failed == { [x EXCEPT !.result = "UNRESOLVED"] : x \in filed }
           fail == [x \in filed |-> [x EXCEPT !.result = "UNRESOLVED"]]
<1>1. fail \in Surjection(filed, failed)
  BY DEF Surjection
<1> HIDE DEF fail, failed
<1>2. IsFiniteSet(failed)
  BY <1>1, FS_Surjection
<1> QED BY <1>2 DEF failed

LEMMA ObligationDeviatesKeeps ==
    ASSUME Reviewed(bundle), NEW d \in Due(bundle), ObligationOwner[d[1]] \in Received(bundle),
           ObligationDeviates(d)
    PROVE  Reviewed(bundle')
<1>1. PICK filed : filed = Filed(bundle, d)
  OBVIOUS
<1>2. PICK failed : failed = { [x EXCEPT !.result = "UNRESOLVED"] : x \in filed }
  OBVIOUS
<1>3. PICK os \in { {}, failed } :
        bundle' = Rebind([bundle EXCEPT !.obligations = (@ \ filed) \cup os],
                         ObligationOwner[d[1]])
  BY <1>1, <1>2 DEF ObligationDeviates, Deviate
<1>4. PICK b : b = bundle
  OBVIOUS
<1>5. PICK r : r = ObligationOwner[d[1]]
  OBVIOUS
<1>6. Reviewed(b) /\ r \in DOMAIN b.receipts /\ IsFiniteSet(filed)
  BY <1>1, <1>4, <1>5 DEF Received, Reviewed, WorkFollows
<1>7. IsFiniteSet(os)
  BY <1>2, <1>3, <1>6, FailedAreFinite, FS_EmptySet
<1>8. PICK obligations : obligations = (b.obligations \ filed) \cup os
  OBVIOUS
<1>9. obligations \subseteq b.obligations \cup os
  BY <1>8
<1>10. Reviewed(Rebind([b EXCEPT !.obligations = obligations], r))
  BY <1>6, <1>7, <1>9, FS_EmptySet, WorkIsHandedIn
<1> QED BY <1>3, <1>4, <1>5, <1>8, <1>10

LEMMA StrayArtifactKeeps ==
    ASSUME Reviewed(bundle), NEW r \in Received(bundle), NEW a, StrayArtifact(r, a)
    PROVE  Reviewed(bundle')
<1>1. PICK b : b = bundle
  OBVIOUS
<1>2. Reviewed(b) /\ r \in DOMAIN b.receipts
  BY <1>1 DEF Received
<1>3. CASE bundle' = Rebind([bundle EXCEPT !.frames = @ \cup
                               { [by |-> r, atom |-> a, reading |-> "plain"] }], r)
  <2>1. PICK fs : fs = { [by |-> r, atom |-> a, reading |-> "plain"] }
    OBVIOUS
  <2>2. PICK frames : frames = b.frames \cup fs
    OBVIOUS
  <2>3. /\ IsFiniteSet(fs)
        /\ \A x \in fs : /\ x = [by |-> x.by, atom |-> x.atom, reading |-> x.reading]
                         /\ x.reading \in { "plain", "other", "UNKNOWN" }
    <3>1. IsFiniteSet(fs)
      BY <2>1, FS_Singleton
    <3> QED BY <2>1, <3>1
  <2>4. Reviewed(Rebind([b EXCEPT !.frames = frames], r))
    BY <1>2, <2>2, <2>3, FS_EmptySet, WorkIsHandedIn
  <2> QED BY <1>1, <1>3, <2>1, <2>2, <2>4
<1>4. ASSUME NEW t, bundle' = Rebind([bundle EXCEPT !.obligations = @ \cup
                       { [by |-> r, type |-> t, atom |-> a, ev |-> "", refs |-> {},
                          result |-> "UNRESOLVED"] }], r)
      PROVE  Reviewed(bundle')
  <2>1. PICK os : os = { [by |-> r, type |-> t, atom |-> a, ev |-> "", refs |-> {},
                          result |-> "UNRESOLVED"] }
    OBVIOUS
  <2>2. PICK obligations : obligations = b.obligations \cup os
    OBVIOUS
  <2>3. IsFiniteSet(os)
    BY <2>1, FS_Singleton
  <2>4. Reviewed(Rebind([b EXCEPT !.obligations = obligations], r))
    BY <1>2, <2>2, <2>3, FS_EmptySet, WorkIsHandedIn
  <2> QED BY <1>1, <1>4, <2>1, <2>2, <2>4
<1> QED BY <1>3, <1>4 DEF StrayArtifact, Deviate

\* What a failed reviewer had handed in goes with its success.
LEMMA ReviewerFailsKeeps ==
    ASSUME Reviewed(bundle), NEW r \in Received(bundle), ReviewerFails(r)
    PROVE  Reviewed(bundle')
<1>1. PICK b : b = bundle
  OBVIOUS
<1>2. PICK s \in { "FAILED", "TIMEOUT", "LOOP_DETECTED" } :
        bundle' = Rebind([b EXCEPT !.findings = { f \in @ : f.by # r },
                                   !.frames = { x \in @ : x.by # r },
                                   !.obligations = { x \in @ : x.by # r },
                                   !.receipts[r].status = s], r)
  BY <1>1 DEF ReviewerFails, Deviate
<1>3. PICK fs : fs = { f \in b.findings : f.by # r }
  OBVIOUS
<1>4. PICK ws : ws = { x \in b.frames : x.by # r }
  OBVIOUS
<1>5. PICK os : os = { x \in b.obligations : x.by # r }
  OBVIOUS
<1>6. PICK rs : rs = [b.receipts EXCEPT ![r].status = s]
  OBVIOUS
<1>7. PICK c : c = [b EXCEPT !.findings = fs, !.frames = ws, !.obligations = os, !.receipts = rs]
  OBVIOUS
<1>8. Reviewed(b) /\ r \in DOMAIN b.receipts
  BY <1>1 DEF Received
<1>9. c = [b EXCEPT !.findings = { f \in @ : f.by # r },
                    !.frames = { x \in @ : x.by # r },
                    !.obligations = { x \in @ : x.by # r },
                    !.receipts[r].status = s]
  BY <1>3, <1>4, <1>5, <1>6, <1>7, <1>8 DEF Reviewed, IsBundle
<1>10. /\ IsBundle(c) /\ c.claim = b.claim /\ c.admissions = b.admissions /\ c.receipts = rs
       /\ c.findings = fs /\ c.frames = ws /\ c.obligations = os
  BY <1>7, <1>8 DEF Reviewed, IsBundle
<1>11. ReceiptsFollow(c) /\ DOMAIN c.receipts = DOMAIN b.receipts
  <2>1. GoodReceipt(r, b.receipts[r])
    BY <1>8 DEF Reviewed, ReceiptsFollow
  <2>2. GoodReceipt(r, [b.receipts[r] EXCEPT !.status = s])
    <3>1. PICK x : x = b.receipts[r]
      OBVIOUS
    <3>2. PICK y : y = [x EXCEPT !.status = s]
      OBVIOUS
    <3>3. y.status # "SUCCESS"
      BY <1>2, <2>1, <3>1, <3>2 DEF GoodReceipt
    <3>4. GoodReceipt(r, y)
      BY <2>1, <3>1, <3>2, <3>3 DEF GoodReceipt
    <3> QED BY <3>1, <3>2, <3>4
  <2>3. rs = [b.receipts EXCEPT ![r] = [b.receipts[r] EXCEPT !.status = s]]
    BY <1>6
  <2> QED BY <1>8, <1>10, <2>2, <2>3 DEF Reviewed, ReceiptsFollow
<1>12. WorkFollows(c)
  <2>1. ws \subseteq b.frames /\ os \subseteq b.obligations
    BY <1>4, <1>5
  <2> QED BY <1>8, <1>10, <2>1, WorkKept, FS_EmptySet DEF Reviewed
<1>13. \A f \in c.findings : f.type \in Reports
  BY <1>3, <1>8, <1>10 DEF Reviewed
<1>14. Reviewed(Rebind(c, r))
  BY <1>8, <1>10, <1>11, <1>12, <1>13, HandsIn
<1> QED BY <1>2, <1>9, <1>14
\* Receipts are lost, or replaced by other receipts of the same reviewers.
LEMMA ReceiptsReplaced ==
    ASSUME NEW b, Reviewed(b), NEW rs, DOMAIN rs \subseteq DOMAIN b.receipts,
           \A r \in DOMAIN rs : GoodReceipt(r, rs[r])
    PROVE  Reviewed([b EXCEPT !.receipts = rs])
<1>1. PICK c : c = [b EXCEPT !.receipts = rs]
  OBVIOUS
<1>2. /\ IsBundle(c) /\ c.claim = b.claim /\ c.admissions = b.admissions /\ c.receipts = rs
      /\ c.findings = b.findings /\ c.frames = b.frames /\ c.obligations = b.obligations
  BY <1>1 DEF Reviewed, IsBundle
<1>3. ReceiptsFollow(c)
  BY <1>2 DEF Reviewed, ReceiptsFollow
<1>4. AdmissionsFollow(c.admissions)
  BY <1>2 DEF Reviewed
<1>5. WorkFollows(c)
  BY <1>2, WorkKept, FS_EmptySet DEF Reviewed
<1>6. Reviewed(c)
  BY <1>2, <1>3, <1>4, <1>5 DEF Reviewed
<1> QED BY <1>1, <1>6

LEMMA ReceiptLostKeeps ==
    ASSUME Reviewed(bundle), NEW r \in Received(bundle), ReceiptLost(r)
    PROVE  Reviewed(bundle')
<1>1. PICK b : b = bundle
  OBVIOUS
<1>2. PICK rs : rs = [s \in Received(b) \ {r} |-> b.receipts[s]]
  OBVIOUS
<1>3. bundle' = [b EXCEPT !.receipts = rs]
  BY <1>1, <1>2 DEF ReceiptLost, Deviate, Reviewed, IsBundle
<1>4. Reviewed([b EXCEPT !.receipts = rs])
  <2>1. DOMAIN rs \subseteq DOMAIN b.receipts
    BY <1>2 DEF Received
  <2>2. \A s \in DOMAIN rs : GoodReceipt(s, rs[s])
    BY <1>1, <1>2 DEF Received, Reviewed, ReceiptsFollow
  <2> QED BY <1>1, <2>1, <2>2, ReceiptsReplaced
<1> QED BY <1>3, <1>4

LEMMA ReceiptDeviatesKeeps ==
    ASSUME Reviewed(bundle), NEW r \in Received(bundle), ReceiptDeviates(r)
    PROVE  Reviewed(bundle')
<1>1. PICK b : b = bundle
  OBVIOUS
<1>2. PICK was : was = bundle.receipts[r]
  OBVIOUS
<1>3. GoodReceipt(r, was) /\ r \in DOMAIN b.receipts
  BY <1>1, <1>2 DEF Received, Reviewed, ReceiptsFollow
<1>4. PICK now \in { [was EXCEPT !.signed = FALSE], [was EXCEPT !.context = "SHARED"],
                     [was EXCEPT !.prompt = "previous", !.invoked[3] = "previous"],
                     [was EXCEPT !.claim = 1, !.invoked[1] = 1],
                     [was EXCEPT !.invocation = "scope"],
                     [was EXCEPT !.modelBound = FALSE], [was EXCEPT !.response = "scope"] } :
        bundle' = [bundle EXCEPT !.receipts[r] = now]
  BY Zenon, <1>2 DEF ReceiptDeviates, Deviate
<1>5. GoodReceipt(r, now)
  <2>1. CASE now = [was EXCEPT !.signed = FALSE]
    BY <1>3, <2>1 DEF GoodReceipt
  <2>2. CASE now = [was EXCEPT !.context = "SHARED"]
    BY <1>3, <2>2 DEF GoodReceipt
  <2>3. CASE now = [was EXCEPT !.prompt = "previous", !.invoked[3] = "previous"]
    <3>1. PICK i : i = [was.invoked EXCEPT ![3] = "previous"]
      OBVIOUS
    <3>2. PICK x : x = [was EXCEPT !.prompt = "previous"]
      OBVIOUS
    <3>3. GoodReceipt(r, x) /\ x.invoked = was.invoked
      BY <1>3, <3>2 DEF GoodReceipt
    <3>4. now = [x EXCEPT !.invoked = i]
      BY <1>3, <2>3, <3>1, <3>2, <3>3 DEF GoodReceipt
    <3> QED BY <3>3, <3>4 DEF GoodReceipt
  <2>4. CASE now = [was EXCEPT !.claim = 1, !.invoked[1] = 1]
    <3>1. PICK i : i = [was.invoked EXCEPT ![1] = 1]
      OBVIOUS
    <3>2. PICK x : x = [was EXCEPT !.claim = 1]
      OBVIOUS
    <3>3. GoodReceipt(r, x) /\ x.invoked = was.invoked
      BY <1>3, <3>2 DEF GoodReceipt
    <3>4. now = [x EXCEPT !.invoked = i]
      BY <1>3, <2>4, <3>1, <3>2, <3>3 DEF GoodReceipt
    <3> QED BY <3>3, <3>4 DEF GoodReceipt
  <2>5. CASE now = [was EXCEPT !.invocation = "scope"]
    BY <1>3, <2>5 DEF GoodReceipt
  <2>6. CASE now = [was EXCEPT !.modelBound = FALSE]
    BY <1>3, <2>6 DEF GoodReceipt
  <2>7. CASE now = [was EXCEPT !.response = "scope"]
    BY <1>3, <2>7 DEF GoodReceipt
  <2> QED BY <1>4, <2>1, <2>2, <2>3, <2>4, <2>5, <2>6, <2>7
<1>6. PICK rs : rs = [b.receipts EXCEPT ![r] = now]
  OBVIOUS
<1>7. DOMAIN rs = DOMAIN b.receipts /\ \A s \in DOMAIN rs : GoodReceipt(s, rs[s])
  BY <1>1, <1>3, <1>5, <1>6 DEF Reviewed, ReceiptsFollow
<1>8. Reviewed([b EXCEPT !.receipts = rs])
  BY <1>1, <1>7, ReceiptsReplaced
<1>9. bundle' = [b EXCEPT !.receipts = rs]
  BY <1>1, <1>4, <1>6
<1> QED BY <1>8, <1>9

LEMMA SameOutputKeeps ==
    ASSUME Reviewed(bundle), NEW qs, SameOutput(qs)
    PROVE  Reviewed(bundle')
<1>1. PICK b : b = bundle
  OBVIOUS
<1>2. PICK same : same = { r \in qs \cap Received(b) : b.receipts[r].status = "SUCCESS" }
  OBVIOUS
<1>3. PICK rs : rs = [r \in Received(b) |-> IF r \in same
                                            THEN [b.receipts[r] EXCEPT !.output = "same"]
                                            ELSE b.receipts[r]]
  OBVIOUS
<1>4. bundle' = [b EXCEPT !.receipts = rs]
  BY <1>1, <1>2, <1>3 DEF SameOutput, Deviate
<1>5. ASSUME NEW r \in DOMAIN rs
      PROVE  GoodReceipt(r, rs[r])
  <2>1. PICK x : x = b.receipts[r]
    OBVIOUS
  <2>2. GoodReceipt(r, x)
    BY <1>1, <1>3, <2>1 DEF Received, Reviewed, ReceiptsFollow
  <2>3. GoodReceipt(r, [x EXCEPT !.output = "same"])
    <3>1. PICK y : y = [x EXCEPT !.output = "same"]
      OBVIOUS
    <3>2. y.output # ""
      BY <2>2, <3>1 DEF GoodReceipt
    <3>3. GoodReceipt(r, y)
      BY <2>2, <3>1, <3>2 DEF GoodReceipt
    <3> QED BY <3>1, <3>3
  <2> QED BY <1>3, <2>1, <2>2, <2>3
<1>6. Reviewed([b EXCEPT !.receipts = rs])
  BY <1>1, <1>3, <1>5, ReceiptsReplaced DEF Received
<1> QED BY <1>4, <1>6
\* Changes that touch neither the claim nor what the reviewers and the acquisition left.
LEMMA RestReplaced ==
    ASSUME NEW b, Reviewed(b), NEW c, IsBundle(c), c.claim = b.claim,
           c.admissions = b.admissions, c.receipts = b.receipts, c.findings = b.findings,
           c.frames = b.frames, c.obligations = b.obligations
    PROVE  Reviewed(c)
<1>1. ReceiptsFollow(c) /\ AdmissionsFollow(c.admissions)
  BY ReceiptsKept DEF Reviewed
<1>2. WorkFollows(c)
  BY WorkKept, FS_EmptySet DEF Reviewed
<1> QED BY <1>1, <1>2 DEF Reviewed

LEMMA FieldReplaced ==
    ASSUME NEW b, Reviewed(b), NEW v, NEW c,
           \/ c = [b EXCEPT !.items = v]
           \/ c = [b EXCEPT !.witness = v]
           \/ c = [b EXCEPT !.runtimeKey = v]
           \/ c = [b EXCEPT !.evidenceKey = v]
    PROVE  Reviewed(c)
<1>1. /\ IsBundle(c) /\ c.claim = b.claim /\ c.admissions = b.admissions
      /\ c.receipts = b.receipts /\ c.findings = b.findings
      /\ c.frames = b.frames /\ c.obligations = b.obligations
  BY DEF Reviewed, IsBundle
<1> QED BY <1>1, RestReplaced

LEMMA WitnessLayerFailsKeeps ==
    ASSUME Reviewed(bundle), NEW l, WitnessLayerFails(l)
    PROVE  Reviewed(bundle')
<1>1. \E v : bundle' = [bundle EXCEPT !.witness = v]
  BY DEF WitnessLayerFails, Deviate
<1> QED BY <1>1, FieldReplaced

LEMMA EvidenceKeeps ==
    ASSUME Reviewed(bundle), NEW e, EvidenceChanges(e) \/ EvidenceDropped(e) \/ EvidenceIsPoor(e)
    PROVE  Reviewed(bundle')
<1>1. \E v : bundle' = [bundle EXCEPT !.items = v]
  BY DEF EvidenceChanges, EvidenceDropped, EvidenceIsPoor, Deviate
<1> QED BY <1>1, FieldReplaced

LEMMA KeyUnavailableKeeps ==
    ASSUME Reviewed(bundle), KeyUnavailable
    PROVE  Reviewed(bundle')
<1>1. \/ bundle' = [bundle EXCEPT !.runtimeKey = FALSE]
      \/ bundle' = [bundle EXCEPT !.evidenceKey = FALSE]
  BY DEF KeyUnavailable, Deviate
<1> QED BY <1>1, FieldReplaced

LEMMA AdmissionsReplaced ==
    ASSUME NEW b, Reviewed(b), NEW as, AdmissionsFollow(as)
    PROVE  Reviewed([b EXCEPT !.admissions = as])
<1>1. PICK c : c = [b EXCEPT !.admissions = as]
  OBVIOUS
<1>2. /\ IsBundle(c) /\ c.claim = b.claim /\ c.admissions = as
      /\ c.receipts = b.receipts /\ c.findings = b.findings
      /\ c.frames = b.frames /\ c.obligations = b.obligations
  BY <1>1 DEF Reviewed, IsBundle
<1>3. ReceiptsFollow(c)
  BY <1>2, ReceiptsKept DEF Reviewed
<1>4. AdmissionsFollow(c.admissions)
  BY <1>2
<1>5. WorkFollows(c)
  BY <1>2, WorkKept, FS_EmptySet DEF Reviewed
<1>6. Reviewed(c)
  BY <1>2, <1>3, <1>4, <1>5 DEF Reviewed
<1> QED BY <1>1, <1>6

\* An admission that is lost stays lost, a copied capture is there twice, and the other
\* changes leave the captures alone.
LEMMA AdmissionDeviatesKeeps ==
    ASSUME Reviewed(bundle), NEW e, AdmissionDeviates(e)
    PROVE  Reviewed(bundle')
<1>1. PICK b : b = bundle
  OBVIOUS
<1>2. PICK adm : adm = b.admissions
  OBVIOUS
<1>3. Reviewed(b) /\ AdmissionsFollow(adm)
  BY <1>1, <1>2 DEF Reviewed
<1>4. CASE bundle' = [bundle EXCEPT !.admissions = [d \in DOMAIN @ \ {e} |-> @[d]]]
  <2>1. PICK as : as = [d \in DOMAIN adm \ {e} |-> adm[d]]
    OBVIOUS
  <2>2. bundle' = [b EXCEPT !.admissions = as]
    BY <1>1, <1>2, <1>4, <2>1
  <2>3. AdmissionsFollow(as)
    <3>1. DOMAIN as = DOMAIN adm \ {e} /\ \A d \in DOMAIN as : as[d] = adm[d]
      BY <2>1
    <3>2. DOMAIN as \subseteq Evidence /\ \A d \in DOMAIN as : GoodAdmission(as[d])
      BY <1>3, <3>1 DEF AdmissionsFollow
    <3>3. CapturesFollow(as)
      <4>1. CASE e \in DOMAIN adm
        BY <1>3, <3>1, <4>1 DEF AdmissionsFollow, CapturesFollow
      <4>2. CASE e \notin DOMAIN adm
        BY <1>3, <3>1, <4>2 DEF AdmissionsFollow, CapturesFollow
      <4> QED BY <4>1, <4>2
    <3> QED BY <3>2, <3>3 DEF AdmissionsFollow
  <2> QED BY <1>3, <2>2, <2>3, AdmissionsReplaced
<1>5. ASSUME e \in DOMAIN adm,
             NEW x, GoodAdmission(x),
             \/ x.capture = adm[e].capture
             \/ \E d \in DOMAIN adm : d # e /\ x.capture = adm[d].capture,
             bundle' = [b EXCEPT !.admissions = [adm EXCEPT ![e] = x]]
      PROVE  Reviewed(bundle')
  <2>1. PICK as : as = [adm EXCEPT ![e] = x]
    OBVIOUS
  <2>2. DOMAIN as = DOMAIN adm /\ as[e] = x /\ \A d \in DOMAIN as \ {e} : as[d] = adm[d]
    BY <1>5, <2>1
  <2>3. AdmissionsFollow(as)
    <3>1. DOMAIN as \subseteq Evidence
      BY <1>3, <2>2 DEF AdmissionsFollow
    <3>2. \A d \in DOMAIN as : GoodAdmission(as[d])
      BY <1>3, <1>5, <2>2 DEF AdmissionsFollow
    <3>3. CASE x.capture = adm[e].capture
      <4>1. \A d \in DOMAIN as : as[d].capture = adm[d].capture
        BY <2>2, <3>3
      <4>2. CapturesFollow(as)
        BY <1>3, <2>2, <4>1 DEF AdmissionsFollow, CapturesFollow
      <4> QED BY <3>1, <3>2, <4>2 DEF AdmissionsFollow
    <3>4. CASE \E d \in DOMAIN adm : d # e /\ x.capture = adm[d].capture
      <4>1. \E d, f \in DOMAIN as : d # f /\ as[d].capture = as[f].capture
        BY <1>5, <2>2, <3>4
      <4> QED BY <3>1, <3>2, <4>1 DEF AdmissionsFollow, CapturesFollow
    <3> QED BY <1>5, <3>3, <3>4
  <2> QED BY <1>3, <1>5, <2>1, <2>3, AdmissionsReplaced
<1>6. ASSUME e \in DOMAIN adm
      PROVE  GoodAdmission(adm[e])
  BY <1>3, <1>6 DEF AdmissionsFollow
<1>7. CASE e \in DOMAIN adm /\ bundle' = [bundle EXCEPT !.admissions[e].signed = FALSE]
  <2>1. PICK x : x = [adm[e] EXCEPT !.signed = FALSE]
    OBVIOUS
  <2>2. bundle' = [b EXCEPT !.admissions = [adm EXCEPT ![e] = x]]
    BY <1>1, <1>2, <1>7, <2>1
  <2>3. GoodAdmission(x) /\ x.capture = adm[e].capture
    BY <1>6, <1>7, <2>1 DEF GoodAdmission
  <2> QED BY <1>5, <1>7, <2>2, <2>3
<1>8. CASE e \in DOMAIN adm /\ bundle' = [bundle EXCEPT !.admissions[e].status = "FAILED"]
  <2>1. PICK x : x = [adm[e] EXCEPT !.status = "FAILED"]
    OBVIOUS
  <2>2. bundle' = [b EXCEPT !.admissions = [adm EXCEPT ![e] = x]]
    BY <1>1, <1>2, <1>8, <2>1
  <2>3. GoodAdmission(x) /\ x.capture = adm[e].capture
    BY <1>6, <1>8, <2>1 DEF GoodAdmission
  <2> QED BY <1>5, <1>8, <2>2, <2>3
<1>9. ASSUME e \in DOMAIN adm, NEW d \in DOMAIN adm,
             bundle' = [bundle EXCEPT !.admissions[e].capture = bundle.admissions[d].capture]
      PROVE  Reviewed(bundle')
  <2>1. PICK x : x = [adm[e] EXCEPT !.capture = adm[d].capture]
    OBVIOUS
  <2>2. bundle' = [b EXCEPT !.admissions = [adm EXCEPT ![e] = x]]
    BY <1>1, <1>2, <1>9, <2>1
  <2>3. GoodAdmission(x) /\ x.capture = adm[d].capture
    BY <1>6, <1>9, <2>1 DEF GoodAdmission
  <2>4. \/ x.capture = adm[e].capture
        \/ \E f \in DOMAIN adm : f # e /\ x.capture = adm[f].capture
    BY <2>3
  <2> QED BY <1>5, <1>9, <2>2, <2>3, <2>4
<1> QED BY <1>1, <1>2, <1>4, <1>7, <1>8, <1>9 DEF AdmissionDeviates, Deviate
-----------------------------------------------------------------------------
(* The clean review, and the invariant.                                    *)

LEMMA CleanWork ==
    ASSUME NEW b, NEW c, b.claim = c, b.frames = CleanFrames(c),
           \A x \in b.obligations : \E d : x = CleanObligation(d)
    PROVE  WorkFollows(b)
<1>1. ASSUME NEW x \in b.frames
      PROVE  /\ x = [by |-> x.by, atom |-> x.atom, reading |-> "plain"]
             /\ x = [by |-> x.by, atom |-> x.atom, reading |-> x.reading]
             /\ x.reading = "plain"
  <2>1. PICK r \in FrameReviewers, a \in c.atoms : x = [by |-> r, atom |-> a, reading |-> "plain"]
    BY DEF CleanFrames
  <2> QED BY <2>1
<1>2. ASSUME NEW r \in FrameReviewers, NEW a \in b.claim.atoms
      PROVE  IsFiniteSet(FramesBy(b, r, a))
  <2>1. FramesBy(b, r, a) \in SUBSET { [by |-> r, atom |-> a, reading |-> "plain"] }
    BY <1>1 DEF FramesBy
  <2>2. IsFiniteSet({ [by |-> r, atom |-> a, reading |-> "plain"] })
    BY FS_Singleton
  <2> QED BY <2>1, <2>2, FS_Subset
<1>3. ASSUME NEW d \in Due(b)
      PROVE  IsFiniteSet(Filed(b, d))
  <2>1. ASSUME NEW x \in Filed(b, d)
        PROVE  x = CleanObligation(d)
    <3>1. x \in b.obligations /\ x.type = d[1] /\ x.atom = d[2] /\ x.ev = d[3]
      BY DEF Filed
    <3>2. PICK f : x = CleanObligation(f)
      BY <3>1
    <3>3. x = [by |-> ObligationOwner[f[1]], type |-> f[1], atom |-> f[2], ev |-> f[3],
               refs |-> {}, result |-> CHOOSE y \in Discharging[f[1]] : TRUE]
      BY <3>2 DEF CleanObligation
    <3>4. f[1] = d[1] /\ f[2] = d[2] /\ f[3] = d[3]
      BY <3>1, <3>3
    <3> QED BY <3>3, <3>4 DEF CleanObligation
  <2>2. Filed(b, d) \in SUBSET { CleanObligation(d) }
    BY <2>1
  <2>3. IsFiniteSet({ CleanObligation(d) })
    BY FS_Singleton
  <2> QED BY <2>2, <2>3, FS_Subset
<1> QED BY <1>1, <1>2, <1>3 DEF WorkFollows

LEMMA CleanIsReviewed ==
    ASSUME NEW c \in Claims, NEW k, k = CleanBundle(c)
    PROVE  /\ Reviewed(k) /\ k.claim = c
           /\ k.items = [e \in Evidence |-> [version |-> 0, group |-> Group[e], source |-> e,
                                             origin |-> Origin[e], flagged |-> FALSE]]
           /\ \A x \in k.obligations : \E d : x = CleanObligation(d)
           /\ \A r \in DOMAIN k.receipts :
                 /\ k.receipts[r].findings = ReportedBy(k, r)
                 /\ k.receipts[r].artifacts = ArtifactsOf(k, r)
                 /\ k.receipts[r].output = r
                 /\ k.receipts[r].claim = c.version
                 /\ k.receipts[r].invoked = << c.version, [e \in Evidence |-> 0], "current" >>
<1>1. PICK b :
        b = [ claim |-> c,
              items |-> [e \in Evidence |-> [version |-> 0, group |-> Group[e], source |-> e,
                                             origin |-> Origin[e], flagged |-> FALSE]],
              admissions |-> [e \in Evidence |-> [version |-> 0, capture |-> e, signed |-> TRUE,
                                                  origin |-> Origin[e], status |-> "CAPTURED"]],
              receipts |-> << >>, findings |-> {}, frames |-> {}, obligations |-> {},
              runtimeKey |-> TRUE, evidenceKey |-> TRUE, witness |-> << >> ]
  OBVIOUS
<1>2. PICK os : os = IF RequiresObligations(c.profile) THEN { CleanObligation(d) : d \in Due(b) } ELSE {}
  OBVIOUS
<1>3. PICK fs : fs = CleanFrames(c)
  OBVIOUS
<1>4. PICK w : w = [b EXCEPT !.frames = fs, !.obligations = os]
  OBVIOUS
<1>5. PICK rs : rs = [r \in RequiredReviewers(c.profile) |-> Issued(w, r)]
  OBVIOUS
<1>6. PICK clean : clean = [w EXCEPT !.receipts = rs]
  OBVIOUS
<1>7. CleanBundle(c) = clean
  <2>1. CleanBundle(c) =
          Review([b EXCEPT !.frames = CleanFrames(c),
                           !.obligations = IF RequiresObligations(c.profile)
                                           THEN { CleanObligation(d) : d \in Due(b) } ELSE {}],
                 RequiredReviewers(c.profile))
    BY Zenon, <1>1 DEF CleanBundle
  <2>2. CleanBundle(c) = Review(w, RequiredReviewers(c.profile))
    BY Zenon, <1>2, <1>3, <1>4, <2>1
  <2>3. Review(w, RequiredReviewers(c.profile)) = [w EXCEPT !.receipts = rs]
    BY Zenon, <1>5 DEF Review
  <2> QED BY <1>6, <2>2, <2>3
<1>8. /\ w.claim = c /\ w.items = b.items /\ w.admissions = b.admissions /\ w.findings = {}
      /\ w.frames = fs /\ w.obligations = os /\ IsBundle(w)
  BY <1>1, <1>4 DEF IsBundle
<1>9. /\ clean.claim = c /\ clean.items = b.items /\ clean.admissions = b.admissions
      /\ clean.findings = {} /\ clean.receipts = rs
      /\ clean.frames = fs /\ clean.obligations = os /\ IsBundle(clean)
  BY <1>6, <1>8 DEF IsBundle
<1>10. ReceiptsFollow(clean)
  <2>1. Versions(w) = [e \in Evidence |-> 0]
    BY <1>1, <1>8 DEF Versions, Universe
  <2>2. ASSUME NEW r \in RequiredReviewers(c.profile)
        PROVE  GoodReceipt(r, Issued(w, r))
    <3>1. r # ""
      BY ONLY <2>2, NamesAreNamed
    <3>2. PICK fr, wr : fr = ReportedBy(w, r) /\ wr = ArtifactsOf(w, r)
      OBVIOUS
    <3>3. PICK v, inv : v = [e \in Evidence |-> 0] /\ inv = << w.claim.version, v, "current" >>
      OBVIOUS
    <3>4. PICK x : x = [status |-> "SUCCESS", signed |-> TRUE, claim |-> w.claim.version,
                        ev |-> v, findings |-> fr, artifacts |-> wr, prompt |-> "current",
                        context |-> "ISOLATED", invocation |-> r, invoked |-> inv,
                        modelBound |-> TRUE, response |-> r, output |-> r]
      OBVIOUS
    <3>5. Issued(w, r) = x
      BY <2>1, <3>2, <3>3, <3>4 DEF Issued
    <3>6. GoodReceipt(r, x)
      BY ONLY <3>1, <3>3, <3>4 DEF GoodReceipt
    <3> QED BY <3>5, <3>6
  <2> QED BY <1>5, <1>9, <2>2 DEF ReceiptsFollow
<1>11. AdmissionsFollow(clean.admissions)
  <2>1. PICK adm : adm = clean.admissions
    OBVIOUS
  <2>2. adm = [e \in Evidence |-> [version |-> 0, capture |-> e, signed |-> TRUE,
                                   origin |-> Origin[e], status |-> "CAPTURED"]]
    BY <1>1, <1>9, <2>1
  <2>3. AdmissionsFollow(adm)
    BY <2>2 DEF AdmissionsFollow, CapturesFollow, GoodAdmission
  <2> QED BY <2>1, <2>3
<1>12. WorkFollows(clean)
  BY <1>2, <1>3, <1>9, CleanWork
<1>13. Reviewed(clean)
  BY <1>9, <1>10, <1>11, <1>12 DEF Reviewed
<1>14. \A x \in clean.obligations : \E d : x = CleanObligation(d)
  BY <1>2, <1>9
<1>15. ASSUME NEW r \in DOMAIN clean.receipts
       PROVE  /\ clean.receipts[r].findings = ReportedBy(clean, r)
              /\ clean.receipts[r].artifacts = ArtifactsOf(clean, r)
              /\ clean.receipts[r].output = r
              /\ clean.receipts[r].claim = c.version
              /\ clean.receipts[r].invoked = << c.version, [e \in Evidence |-> 0], "current" >>
  <2>1. clean.receipts[r] = Issued(w, r)
    BY <1>5, <1>9, <1>15
  <2>2. ReportedBy(clean, r) = ReportedBy(w, r) /\ ArtifactsOf(clean, r) = ArtifactsOf(w, r)
    BY <1>8, <1>9 DEF ReportedBy, ArtifactsOf
  <2>3. Versions(w) = [e \in Evidence |-> 0]
    BY <1>1, <1>8 DEF Versions, Universe
  <2> QED BY <1>8, <2>1, <2>2, <2>3 DEF Issued
<1>16. k = clean
  BY <1>7
<1>17. /\ k.claim = c
       /\ k.items = [e \in Evidence |-> [version |-> 0, group |-> Group[e], source |-> e,
                                         origin |-> Origin[e], flagged |-> FALSE]]
  BY <1>1, <1>9, <1>16
<1> QED BY <1>13, <1>14, <1>15, <1>16, <1>17

LEMMA GateInvInit == Init => GateInv
<1> SUFFICES ASSUME Init PROVE GateInv
  OBVIOUS
<1>1. PICK c \in Claims : bundle = CleanBundle(c)
  BY DEF Init
<1>2. Reviewed(bundle)
  BY <1>1, CleanIsReviewed
<1> QED BY <1>2 DEF Init, GateInv, Decided

LEMMA GateInvStep == GateInv /\ [Next]_vars => GateInv'
<1> SUFFICES ASSUME GateInv, [Next]_vars PROVE GateInv'
  OBVIOUS
<1>1. Reviewed(bundle)
  BY DEF GateInv
<1>2. ASSUME Reviewed(bundle'), NEW b, Deviate(b)
      PROVE  GateInv'
  BY <1>2 DEF Deviate, GateInv, Decided
<1>3. CASE \E r \in Reporters \cap Received(bundle), t \in Reports, es \in References :
              ReviewerReports(r, t, es)
  <2>1. PICK r \in Received(bundle), t \in Reports, es \in References : ReviewerReports(r, t, es)
    BY <1>3
  <2>2. Reviewed(bundle')
    BY <1>1, <2>1, ReviewerReportsKeeps
  <2> QED BY <1>2, <2>1, <2>2 DEF ReviewerReports
<1>4. CASE WorkProductDeviates
  <2>1. ASSUME NEW r \in Received(bundle), NEW a, FrameDeviates(r, a)
        PROVE  GateInv'
    <3>1. Reviewed(bundle')
      BY <1>1, <2>1, FrameDeviatesKeeps
    <3> QED BY <1>2, <2>1, <3>1 DEF FrameDeviates
  <2>2. ASSUME NEW r \in Received(bundle), NEW a, StrayArtifact(r, a)
        PROVE  GateInv'
    <3>1. Reviewed(bundle')
      BY <1>1, <2>2, StrayArtifactKeeps
    <3> QED BY <1>2, <2>2, <3>1 DEF StrayArtifact
  <2>3. ASSUME NEW d \in Due(bundle), ObligationOwner[d[1]] \in Received(bundle),
               ObligationDeviates(d)
        PROVE  GateInv'
    <3>1. Reviewed(bundle')
      BY <1>1, <2>3, ObligationDeviatesKeeps
    <3> QED BY <1>2, <2>3, <3>1 DEF ObligationDeviates
  <2> QED BY <1>4, <2>1, <2>2, <2>3 DEF WorkProductDeviates
<1>5. ASSUME NEW r \in Received(bundle), ReviewerFails(r) \/ ReceiptLost(r) \/ ReceiptDeviates(r)
      PROVE  GateInv'
  <2>1. Reviewed(bundle')
    BY <1>1, <1>5, ReviewerFailsKeeps, ReceiptLostKeeps, ReceiptDeviatesKeeps
  <2> QED BY <1>2, <1>5, <2>1 DEF ReviewerFails, ReceiptLost, ReceiptDeviates
<1>6. ASSUME NEW qs, SameOutput(qs)
      PROVE  GateInv'
  <2>1. Reviewed(bundle')
    BY <1>1, <1>6, SameOutputKeeps
  <2> QED BY <1>2, <1>6, <2>1 DEF SameOutput
<1>7. ASSUME NEW l, WitnessLayerFails(l)
      PROVE  GateInv'
  <2>1. Reviewed(bundle')
    BY <1>1, <1>7, WitnessLayerFailsKeeps
  <2> QED BY <1>2, <1>7, <2>1 DEF WitnessLayerFails
<1>8. ASSUME NEW e, EvidenceChanges(e) \/ EvidenceDropped(e) \/ EvidenceIsPoor(e)
      PROVE  GateInv'
  <2>1. Reviewed(bundle')
    BY <1>1, <1>8, EvidenceKeeps
  <2> QED BY <1>2, <1>8, <2>1 DEF EvidenceChanges, EvidenceDropped, EvidenceIsPoor
<1>9. ASSUME NEW e, AdmissionDeviates(e)
      PROVE  GateInv'
  <2>1. Reviewed(bundle')
    BY <1>1, <1>9, AdmissionDeviatesKeeps
  <2> QED BY <1>2, <1>9, <2>1 DEF AdmissionDeviates
<1>10. CASE KeyUnavailable
  <2>1. Reviewed(bundle')
    BY <1>1, <1>10, KeyUnavailableKeeps
  <2> QED BY <1>2, <1>10, <2>1 DEF KeyUnavailable
<1>11. CASE RunGate
  BY <1>1, <1>11 DEF RunGate, GateInv
<1>12. CASE UNCHANGED vars
  BY <1>12 DEF vars, GateInv, Decided
<1> QED
  BY <1>3, <1>4, <1>5, <1>6, <1>7, <1>8, <1>9, <1>10, <1>11, <1>12 DEF Next

(* For any claims and evidence and any number of deviations, a bundle is   *)
(* what a review can hand in, and a decision is the one of its bundle,     *)
(* which no longer changes (integrity.py, decide).                         *)
THEOREM GateCorrect == Spec => []GateInv
BY GateInvInit, GateInvStep, PTL DEF Spec
-----------------------------------------------------------------------------
(* What it means that none of the failures that block salvage, or that     *)
(* count as a hard risk, is there.                                         *)

NoHardFailure(b) == GlobalBlockers(b) \cap HardUsefulnessBlockers = {}

LEMMA NoFailure ==
    ASSUME NEW b, NoHardFailure(b)
    PROVE  /\ ~AdmissionHold(b)
           /\ b.runtimeKey
           /\ RequiredReviewers(b.claim.profile) \subseteq Received(b)
           /\ \A r \in Received(b) :
                 /\ b.receipts[r].signed
                 /\ b.receipts[r].status = "SUCCESS"
                 /\ b.receipts[r].context = "ISOLATED"
                 /\ b.receipts[r].prompt = "current"
                 /\ b.receipts[r].invoked = << b.claim.version, Versions(b), "current" >>
                 /\ b.receipts[r].findings = ReportedBy(b, r)
                 /\ b.receipts[r].artifacts = ArtifactsOf(b, r)
           /\ ~UnboundModel(b)
           /\ ~DuplicateResponses(b)
           /\ \A r, s \in Received(b) :
                 b.receipts[r].invocation = b.receipts[s].invocation => r = s
           /\ ~BindingMismatch(b)
           /\ LayerHolds(b) = {}
<1>1. PICK fs : fs = Failures(b)
  OBVIOUS
<1>2. \A n \in DOMAIN fs \cap HardUsefulnessBlockers : ~fs[n]
  BY <1>1 DEF NoHardFailure, GlobalBlockers
<1>3. ~ (AdmissionHold(b))
  BY <1>1, <1>2 DEF Failures, HardUsefulnessBlockers, Having
<1>4. b.runtimeKey
  <2>1. fs.RUNTIME_KEY_UNAVAILABLE = (~b.runtimeKey)
    BY <1>1 DEF Failures
  <2>2. "RUNTIME_KEY_UNAVAILABLE" \in DOMAIN fs \cap HardUsefulnessBlockers
    BY <1>1 DEF Failures, HardUsefulnessBlockers
  <2>3. ~fs["RUNTIME_KEY_UNAVAILABLE"]
    BY <1>2, <2>2
  <2> QED BY <2>1, <2>3
<1>5. RequiredReviewers(b.claim.profile) \subseteq Received(b)
  <2>1. fs.MISSING_REQUIRED_REVIEWER = (~(RequiredReviewers(b.claim.profile) \subseteq Received(b)))
    BY <1>1 DEF Failures
  <2>2. "MISSING_REQUIRED_REVIEWER" \in DOMAIN fs \cap HardUsefulnessBlockers
    BY <1>1 DEF Failures, HardUsefulnessBlockers
  <2>3. ~fs["MISSING_REQUIRED_REVIEWER"]
    BY <1>2, <2>2
  <2> QED BY <2>1, <2>3
<1>6. ~ (\E r \in Received(b) : ~(b.runtimeKey /\ b.receipts[r].signed))
  BY <1>1, <1>2 DEF Failures, HardUsefulnessBlockers, Having
<1>7. ~ (\E r \in Received(b) : b.receipts[r].status # "SUCCESS")
  BY <1>1, <1>2 DEF Failures, HardUsefulnessBlockers, Having
<1>8. ~ (\E r \in Received(b) : b.receipts[r].context # "ISOLATED")
  BY <1>1, <1>2 DEF Failures, HardUsefulnessBlockers, Having
<1>9. ~ (\E r \in Received(b) : b.receipts[r].prompt # "current")
  BY <1>1, <1>2 DEF Failures, HardUsefulnessBlockers, Having
<1>10. ~ (\E r \in Received(b) :
              b.receipts[r].invoked # << b.claim.version, Versions(b), "current" >>)
  BY <1>1, <1>2 DEF Failures, HardUsefulnessBlockers, Having
<1>11. ~ (UnboundModel(b))
  BY <1>1, <1>2 DEF Failures, HardUsefulnessBlockers, Having
<1>12. ~ (DuplicateResponses(b))
  BY <1>1, <1>2 DEF Failures, HardUsefulnessBlockers, Having
<1>13. ~ (\E r, s \in Received(b) :
              r # s /\ b.receipts[r].invocation = b.receipts[s].invocation)
  BY <1>1, <1>2 DEF Failures, HardUsefulnessBlockers, Having
<1>14. ~ (BindingMismatch(b))
  BY <1>1, <1>2 DEF Failures, HardUsefulnessBlockers, Having
<1>15. ~ (\E r \in Received(b) : b.receipts[r].findings # ReportedBy(b, r))
  BY <1>1, <1>2 DEF Failures, HardUsefulnessBlockers, Having
<1>16. ~ (\E r \in Received(b) : b.receipts[r].artifacts # ArtifactsOf(b, r))
  BY <1>1, <1>2 DEF Failures, HardUsefulnessBlockers, Having
<1>17. LayerHolds(b) = {}
  <2>1. fs.WITNESS_LAYER_HOLD = (LayerHolds(b) # {})
    BY <1>1 DEF Failures
  <2>2. "WITNESS_LAYER_HOLD" \in DOMAIN fs \cap HardUsefulnessBlockers
    BY <1>1 DEF Failures, HardUsefulnessBlockers
  <2>3. ~fs["WITNESS_LAYER_HOLD"]
    BY <1>2, <2>2
  <2> QED BY <2>1, <2>3
<1> QED
  BY <1>3, <1>4, <1>5, <1>6, <1>7, <1>8, <1>9, <1>10, <1>11, <1>12, <1>13, <1>14, <1>15, <1>16, <1>17

(* The tests of single fields add up to the receipt the runtime issues.    *)
LEMMA NoFailureIsIntact ==
    ASSUME NEW b, Reviewed(b), NoHardFailure(b)
    PROVE  Intact(b)
<1>1. Received(b) = RequiredReviewers(b.claim.profile) /\ "scope" \in Received(b)
  BY NoFailure DEF Reviewed, ReceiptsFollow, Received, RequiredReviewers, BaseReviewers
<1>2. ASSUME NEW r \in Received(b)
      PROVE  Issued(b, r) =
               IF RequiresModelBinding(b.claim.profile) THEN [b.receipts[r] EXCEPT !.output = r]
               ELSE [[b.receipts[r] EXCEPT !.output = r]
                        EXCEPT !.modelBound = TRUE, !.response = r]
  <2>1. PICK x : x = b.receipts[r]
    OBVIOUS
  <2>2. PICK s : s = b.receipts["scope"]
    OBVIOUS
  <2>3. GoodReceipt(r, x) /\ GoodReceipt("scope", s)
    BY <1>1, <2>1, <2>2 DEF Reviewed, ReceiptsFollow, Received
  <2>4. x.invocation = r
    <3>1. s.invocation = "scope" /\ x.invocation \in { r, "scope" }
      BY <2>3 DEF GoodReceipt
    <3> QED BY <1>1, <2>1, <2>2, <3>1, NoFailure
  <2>5. /\ x.status = "SUCCESS" /\ x.signed /\ x.context = "ISOLATED" /\ x.prompt = "current"
        /\ x.invoked = << b.claim.version, Versions(b), "current" >>
        /\ x.findings = ReportedBy(b, r) /\ x.artifacts = ArtifactsOf(b, r)
    BY <2>1, NoFailure
  <2>6. x.claim = b.claim.version /\ x.ev = Versions(b)
    BY <1>1, <2>1, <2>5, NoFailure DEF BindingMismatch, Counted
  <2>7. ASSUME RequiresModelBinding(b.claim.profile)
        PROVE  x.modelBound /\ x.response = r
    <3>1. x.modelBound
      BY <1>1, <2>1, <2>7, NoFailure DEF UnboundModel, Counted
    <3>2. s.response = "scope" /\ x.response \in { r, "scope" } /\ r # ""
      BY <1>1, <2>3, NamesAreNamed DEF GoodReceipt
    <3>3. x.response = s.response => r = "scope"
      BY <1>1, <2>1, <2>2, <2>7, <3>2, NoFailure DEF DuplicateResponses
    <3> QED BY <3>1, <3>2, <3>3
  <2>8. PICK vs, fs, ws, inv : /\ vs = Versions(b) /\ fs = ReportedBy(b, r)
                               /\ ws = ArtifactsOf(b, r)
                               /\ inv = << b.claim.version, Versions(b), "current" >>
    OBVIOUS
  <2>9. PICK y : y = [x EXCEPT !.output = r]
    OBVIOUS
  <2>10. y = [status |-> "SUCCESS", signed |-> TRUE, claim |-> b.claim.version, ev |-> vs,
              findings |-> fs, artifacts |-> ws, prompt |-> "current", context |-> "ISOLATED",
              invocation |-> r, invoked |-> inv, modelBound |-> x.modelBound,
              response |-> x.response, output |-> r]
    BY <2>3, <2>4, <2>5, <2>6, <2>8, <2>9 DEF GoodReceipt
  <2>11. Issued(b, r) =
             [status |-> "SUCCESS", signed |-> TRUE, claim |-> b.claim.version, ev |-> vs,
              findings |-> fs, artifacts |-> ws, prompt |-> "current", context |-> "ISOLATED",
              invocation |-> r, invoked |-> inv, modelBound |-> TRUE,
              response |-> r, output |-> r]
    BY <2>8 DEF Issued
  <2>12. CASE RequiresModelBinding(b.claim.profile)
    <3>1. x.modelBound = TRUE /\ x.response = r
      BY <2>3, <2>7, <2>12 DEF GoodReceipt
    <3>2. Issued(b, r) = y
      BY <2>10, <2>11, <3>1
    <3> QED BY <2>1, <2>9, <2>12, <3>2
  <2>13. CASE ~RequiresModelBinding(b.claim.profile)
    <3>1. [y EXCEPT !.modelBound = TRUE, !.response = r] = Issued(b, r)
      <4>1. PICK z : z = [y EXCEPT !.modelBound = TRUE]
        OBVIOUS
      <4>2. [y EXCEPT !.modelBound = TRUE, !.response = r] = [z EXCEPT !.response = r]
        BY <4>1
      <4>3. [z EXCEPT !.response = r] = Issued(b, r)
        <5>1. z = [status |-> "SUCCESS", signed |-> TRUE, claim |-> b.claim.version, ev |-> vs,
                   findings |-> fs, artifacts |-> ws, prompt |-> "current",
                   context |-> "ISOLATED", invocation |-> r, invoked |-> inv,
                   modelBound |-> TRUE, response |-> x.response, output |-> r]
          BY <2>10, <4>1
        <5>2. PICK u : u = [z EXCEPT !.response = r]
          OBVIOUS
        <5>3. u = [status |-> "SUCCESS", signed |-> TRUE, claim |-> b.claim.version, ev |-> vs,
                   findings |-> fs, artifacts |-> ws, prompt |-> "current",
                   context |-> "ISOLATED", invocation |-> r, invoked |-> inv,
                   modelBound |-> TRUE, response |-> r, output |-> r]
          BY ONLY <5>1, <5>2
        <5> QED BY <2>11, <5>2, <5>3
      <4> QED BY <4>2, <4>3
    <3> QED BY <2>1, <2>9, <2>13, <3>1
  <2> QED BY <2>12, <2>13
<1> QED BY <1>1, <1>2, NoFailure DEF Intact

\* The evidence of an intact review is all the evidence that was acquired.
LEMMA IntactUniverse ==
    ASSUME NEW b, Reviewed(b), NoHardFailure(b)
    PROVE  Universe(b) = Evidence
<1>1. "scope" \in Received(b) /\ "scope" \in Counted(b)
  BY NoFailure DEF RequiredReviewers, BaseReviewers, Counted
<1>2. b.receipts["scope"].ev = [e \in Evidence |-> 0]
  BY <1>1 DEF Reviewed, ReceiptsFollow, Received, GoodReceipt
<1>3. b.receipts["scope"].ev = Versions(b)
  BY <1>1, NoFailure DEF BindingMismatch
<1>4. DOMAIN Versions(b) = Universe(b)
  BY DEF Versions
<1> QED BY <1>2, <1>3, <1>4

LEMMA NoFailureIsAdmitted ==
    ASSUME NEW b, Reviewed(b), NoHardFailure(b), RequiresAdmission(b.claim.profile)
    PROVE  Admitted(b)
<1>1. /\ b.evidenceKey
      /\ DOMAIN b.admissions \subseteq Universe(b)
      /\ ReusedCaptures(b) = {}
      /\ \A e \in Universe(b) : AdmissionStatus(b, e) = "CAPTURED"
  BY NoFailure DEF AdmissionHold
<1>2. Universe(b) = Evidence
  BY IntactUniverse
<1>3. ASSUME NEW e \in Universe(b)
      PROVE  /\ e \in DOMAIN b.admissions
             /\ b.admissions[e].signed
             /\ b.admissions[e].version = b.items[e].version
             /\ b.admissions[e].origin = b.items[e].origin
             /\ b.admissions[e].status = "CAPTURED"
  <2>1. AdmissionStatus(b, e) = "CAPTURED"
    BY <1>1, <1>3
  <2> QED BY <2>1 DEF AdmissionStatus
<1>4. DOMAIN b.admissions = Universe(b)
  BY <1>1, <1>3
<1>5. \A e \in Universe(b) : b.admissions[e].capture = e
  <2>1. ~ \E d, e \in DOMAIN b.admissions :
            d # e /\ b.admissions[d].capture = b.admissions[e].capture
    BY <1>1, <1>4 DEF ReusedCaptures
  <2> QED BY <1>2, <1>4, <2>1 DEF Reviewed, AdmissionsFollow, CapturesFollow
<1>6. ASSUME NEW e \in Universe(b)
      PROVE  b.admissions[e] =
               [version |-> b.items[e].version, capture |-> e, signed |-> TRUE,
                origin |-> b.items[e].origin, status |-> "CAPTURED"]
  <2>1. PICK x : x = b.admissions[e]
    OBVIOUS
  <2>2. GoodAdmission(x)
    BY <1>4, <2>1 DEF Reviewed, AdmissionsFollow
  <2>3. /\ x.signed = TRUE /\ x.version = b.items[e].version /\ x.origin = b.items[e].origin
        /\ x.status = "CAPTURED" /\ x.capture = e
    BY <1>3, <1>5, <2>1, <2>2 DEF GoodAdmission
  <2>4. x = [version |-> b.items[e].version, capture |-> e, signed |-> TRUE,
             origin |-> b.items[e].origin, status |-> "CAPTURED"]
    BY <2>2, <2>3 DEF GoodAdmission
  <2> QED BY <2>1, <2>4
<1> QED BY <1>1, <1>4, <1>6 DEF Admitted
-----------------------------------------------------------------------------
(* Verdicts.                                                               *)

LEMMA Verdicts ==
    ASSUME NEW b
    PROVE  /\ Decide(b).verdict = VerdictOf(b)
           /\ Decide(b).verdict = "PASS" => ~StructuralHold(b) /\ AllFindings(b) = {}
           /\ Decide(b).verdict = "REJECT" => ~StructuralHold(b) /\ CriticalFabrication(b)
<1>1. Decide(b).verdict = VerdictOf(b)
  BY DEF Decide
<1> QED BY <1>1 DEF VerdictOf

LEMMA NoBlockers ==
    ASSUME NEW b, GlobalBlockers(b) = {}
    PROVE  NoHardFailure(b) /\ ~CorrelatedOutput(b)
<1>1. PICK fs : fs = Failures(b)
  OBVIOUS
<1>2. fs.CORRELATED_MODEL_OUTPUT = CorrelatedOutput(b) /\ "CORRELATED_MODEL_OUTPUT" \in DOMAIN fs
  BY <1>1 DEF Failures
<1>3. ~fs["CORRELATED_MODEL_OUTPUT"]
  BY <1>1, <1>2 DEF GlobalBlockers
<1> QED BY <1>2, <1>3 DEF NoHardFailure

(* A claim is rejected on the word of the evidence reviewer in an intact   *)
(* review only, for any claims and any number of deviations: the verdict   *)
(* of decide asks that nothing holds the claim before it rejects it        *)
(* (integrity.py, VerdictOf).                                              *)
THEOREM RejectionsAreAlwaysTrusted == Spec => []RejectIsTrusted
<1>1. GateInv => RejectIsTrusted
  <2> SUFFICES ASSUME GateInv, Decided, decision.verdict = "REJECT"
               PROVE  /\ Intact(bundle)
                      /\ \E f \in bundle.findings :
                            /\ f.by = "evidence" /\ f.type = "FABRICATION"
                            /\ f \in bundle.receipts["evidence"].findings
    BY DEF RejectIsTrusted
  <2>1. Reviewed(bundle) /\ ~StructuralHold(bundle) /\ CriticalFabrication(bundle)
    BY Verdicts DEF GateInv
  <2>2. NoHardFailure(bundle)
    BY <2>1, NoBlockers DEF StructuralHold
  <2>3. Intact(bundle)
    BY <2>1, <2>2, NoFailureIsIntact
  <2>4. "evidence" \in Received(bundle)
    BY <2>2, NoFailure DEF RequiredReviewers, BaseReviewers
  <2>5. bundle.receipts["evidence"].findings = ReportedBy(bundle, "evidence")
    BY <2>2, <2>4, NoFailure
  <2> QED BY <2>1, <2>3, <2>5 DEF CriticalFabrication, ReportedBy
<1> QED BY <1>1, GateCorrect, PTL

-----------------------------------------------------------------------------
(* Sources.                                                                *)

LEMMA ProfileIsRanked == \A b : Reviewed(b) => b.claim.profile \in AssuranceProfiles
BY ClaimsAssumption DEF Reviewed, AssuranceProfiles

\* The profiles are cumulative.
LEMMA ProfilesAreCumulative ==
    ASSUME NEW p \in AssuranceProfiles
    PROVE  /\ RequiresAdmission(p) => RequiredGroups(p) = 2
           /\ RequiresModelBinding(p) => RequiresAdmission(p)
           /\ RequiresObligations(p) => RequiresModelBinding(p) /\ RequiresAdmission(p)
BY Ranks DEF RequiresAdmission, RequiredGroups, RequiresModelBinding, RequiresObligations, AtLeast

LEMMA TwoOf ==
    ASSUME NEW S, ~(Cardinality(S) < 2)
    PROVE  \E x, y \in S : x # y
<1>1. ASSUME ~ \E x, y \in S : x # y
      PROVE  FALSE
  <2>1. CASE S = {}
    BY <2>1, FS_EmptySet
  <2>2. CASE S # {}
    <3>1. PICK x : x \in S
      BY <2>2
    <3>2. S = {x}
      BY <1>1, <3>1
    <3> QED BY <3>2, FS_Singleton
  <2> QED BY <2>1, <2>2
<1> QED BY <1>1

(* Two groups and two origins give one pair that differs in both.          *)
LEMMA TwoSources ==
    ASSUME NEW b, NEW a, ~AtomHold(b, a), RequiredGroups(b.claim.profile) = 2,
           RequiresAdmission(b.claim.profile), Admitted(b)
    PROVE  WellSourced(b, a)
<1>1. PICK es : es = b.claim.cites[a]
  OBVIOUS
<1>2. /\ es \subseteq b.claim.evidence /\ es \subseteq Universe(b)
      /\ NoProvenance(b, a) = {} /\ ~DiversityGap(b, a) /\ ~OriginGap(b, a)
  BY <1>1 DEF AtomHold
<1>3. Available(b, a) = es
  BY <1>1, <1>2 DEF Available
<1>4. \A e \in es : b.items[e].group # ""
  BY <1>2, <1>3 DEF NoProvenance
<1>5. PICK d, e \in es : b.items[d].group # b.items[e].group
  <2>1. ~(Cardinality(Groups(b, a)) < 2)
    BY <1>2 DEF DiversityGap
  <2>2. \E x, y \in Groups(b, a) : x # y
    BY <2>1, TwoOf
  <2> QED BY <1>3, <2>2 DEF Groups
<1>6. PICK f, g \in es : b.items[f].origin # b.items[g].origin
  <2>1. ~(Cardinality(TrustedOrigins(b, es)) < 2)
    BY <1>1, <1>2 DEF OriginGap
  <2>2. \E x, y \in TrustedOrigins(b, es) : x # y
    BY <2>1, TwoOf
  <2>3. \A x \in TrustedOrigins(b, es) : \E h \in es : x = b.items[h].origin
    <3>1. ASSUME NEW x \in TrustedOrigins(b, es)
          PROVE  \E h \in es : x = b.items[h].origin
      <4>1. PICK h \in es \cap Universe(b) : x = b.admissions[h].origin
        BY DEF TrustedOrigins
      <4>2. b.admissions[h].origin = b.items[h].origin
        <5>1. b.admissions[h] = [version |-> b.items[h].version, capture |-> h, signed |-> TRUE,
                                 origin |-> b.items[h].origin, status |-> "CAPTURED"]
          BY <4>1 DEF Admitted
        <5> QED BY <5>1
      <4> QED BY <4>1, <4>2
    <3> QED BY <3>1
  <2> QED BY <2>2, <2>3
<1>7. \E x, y \in es : b.items[x].group # b.items[y].group /\ b.items[x].origin # b.items[y].origin
  BY <1>5, <1>6
<1>8. PICK x, y \in es : b.items[x].group # b.items[y].group /\ b.items[x].origin # b.items[y].origin
  BY <1>7
<1>9. "" \notin { b.items[x].group, b.items[y].group }
  BY <1>4, <1>8
<1> QED BY <1>1, <1>2, <1>8, <1>9 DEF WellSourced
-----------------------------------------------------------------------------
(* Readings and outputs.                                                   *)

\* An atom that is neither in dispute nor short of a work product is read alike by every
\* frame reviewer, and what is owed for it is discharged.
LEMMA ReadAlike ==
    ASSUME NEW b, Reviewed(b), NEW a \in b.claim.atoms, ~Disagreement(b, a),
           \A r \in FrameReviewers : Cardinality(FramesBy(b, r, a)) = 1,
           \A d \in Due(b) : d[2] = a =>
               /\ Cardinality(Filed(b, d)) = 1
               /\ ~ \A x \in Filed(b, d) : x.result \notin Discharging[d[1]]
    PROVE  WellRead(b, a)
<1>1. ASSUME NEW r \in FrameReviewers
      PROVE  \E x \in b.frames : FramesBy(b, r, a) = {x} /\ x.by = r /\ x.atom = a
  <2>1. IsFiniteSet(FramesBy(b, r, a))
    BY DEF Reviewed, WorkFollows
  <2>2. \E x : FramesBy(b, r, a) = {x}
    BY <2>1, FS_Singleton
  <2>3. FramesBy(b, r, a) = { x \in b.frames : x.by = r /\ x.atom = a }
    BY DEF FramesBy
  <2> QED BY <2>2, <2>3
<1>2. PICK readings : readings = { x.reading : x \in { y \in b.frames : /\ y.atom = a
                                                                       /\ y.by \in FrameReviewers } }
  OBVIOUS
<1>3. Cardinality(readings) = 1 /\ "UNKNOWN" \notin readings
  BY <1>2 DEF Disagreement
<1>4. PICK x : readings = {x}
  <2>1. \E fr : FramesBy(b, "decomposer", a) = {fr} /\ fr \in b.frames /\ fr.by = "decomposer" /\ fr.atom = a
    BY <1>1 DEF FrameReviewers
  <2>2. readings # {}
    BY <1>2, <2>1 DEF FrameReviewers
  <2>3. PICK d \in b.frames, e \in b.frames, c \in b.frames :
            /\ FramesBy(b, "decomposer", a) = {d} /\ FramesBy(b, "entailment", a) = {e}
            /\ FramesBy(b, "counterexample", a) = {c}
    BY <1>1 DEF FrameReviewers
  <2>4. readings \subseteq { d.reading, e.reading } \cup { c.reading }
    BY <1>2, <2>3 DEF FrameReviewers, FramesBy
  <2>5. IsFiniteSet(readings)
    <3>1. IsFiniteSet({ d.reading, e.reading })
      BY PairsAreFinite
    <3>2. IsFiniteSet({ d.reading, e.reading } \cup { c.reading })
      BY <3>1, FS_AddElement
    <3> QED BY <2>4, <3>2, FS_Subset
  <2> QED BY <1>3, <2>5, FS_Singleton
<1>5. x \in { "plain", "other" }
  <2>1. x \in readings /\ x # "UNKNOWN"
    BY <1>3, <1>4
  <2>2. PICK y \in b.frames : x = y.reading
    BY <1>2, <2>1
  <2> QED BY <2>1, <2>2 DEF Reviewed, WorkFollows
<1>6. ASSUME NEW r \in FrameReviewers
      PROVE  FramesBy(b, r, a) = { [by |-> r, atom |-> a, reading |-> x] }
  <2>1. PICK y \in b.frames : FramesBy(b, r, a) = {y} /\ y.by = r /\ y.atom = a
    BY <1>1
  <2>2. y.reading = x
    BY <1>2, <1>4, <2>1
  <2>3. y = [by |-> y.by, atom |-> y.atom, reading |-> y.reading]
    BY DEF Reviewed, WorkFollows
  <2>4. y = [by |-> r, atom |-> a, reading |-> x]
    BY <2>1, <2>2, <2>3
  <2> QED BY <2>1, <2>4
<1>7. ASSUME NEW d \in Due(b), d[2] = a
      PROVE  \E y \in b.obligations : Filed(b, d) = {y} /\ y.result \in Discharging[d[1]]
  <2>1. IsFiniteSet(Filed(b, d))
    BY DEF Reviewed, WorkFollows
  <2>2. PICK y : Filed(b, d) = {y}
    BY <1>7, <2>1, FS_Singleton
  <2>3. y \in b.obligations
    BY <2>2 DEF Filed
  <2> QED BY <1>7, <2>2, <2>3
<1> QED BY <1>5, <1>6, <1>7 DEF WellRead

LEMMA NothingOpenIsRead ==
    ASSUME NEW b, Reviewed(b), RequiresObligations(b.claim.profile), ~ObligationHold(b),
           NEW a \in b.claim.atoms
    PROVE  WellRead(b, a)
<1>1. /\ { c \in b.claim.atoms : Disagreement(b, c) } = {}
      /\ MissingObligations(b) = {}
      /\ FailedObligations(b) = {}
  BY DEF ObligationHold, Obligations
<1>2. ~Disagreement(b, a)
  BY <1>1
<1>3. \A r \in FrameReviewers : Cardinality(FramesBy(b, r, a)) = 1
  <2>1. ASSUME NEW r \in FrameReviewers, Cardinality(FramesBy(b, r, a)) # 1
        PROVE  FALSE
    <3>1. << r, a >> \in { q \in FrameReviewers \X b.claim.atoms :
                             Cardinality(FramesBy(b, q[1], q[2])) # 1 }
      BY <2>1
    <3>2. << "frame", << r, a >>[1], << r, a >>[2] >> \in MissingObligations(b)
      BY <3>1 DEF MissingObligations
    <3> QED BY <1>1, <3>2
  <2> QED BY <2>1
<1>4. \A d \in Due(b) : Cardinality(Filed(b, d)) = 1
  BY <1>1 DEF MissingObligations
<1>5. \A d \in Due(b) : ~ \A x \in Filed(b, d) : x.result \notin Discharging[d[1]]
  BY <1>1, <1>4 DEF FailedObligations
<1> QED BY <1>2, <1>3, <1>4, <1>5, ReadAlike

LEMMA ReviewersAreFinite == \A p : IsFiniteSet(RequiredReviewers(p))
<1>1. PICK all : all = BaseReviewers \cup SemanticReviewers
  OBVIOUS
<1>2. PICK name : name = << "decomposer", "evidence", "challenger", "scope", "security",
                            "entailment", "counterexample" >>
  OBVIOUS
<1>3. PICK n \in Int : n = 7
  OBVIOUS
<1>4. IsFiniteSet(all)
  <2>1. name \in [1..n -> all]
    BY <1>1, <1>2, <1>3 DEF BaseReviewers, SemanticReviewers
  <2>2. \A r \in all : \E i \in 1..n : name[i] = r
    BY <1>1, <1>2, <1>3 DEF BaseReviewers, SemanticReviewers
  <2>3. name \in Surjection(1..n, all)
    BY <2>1, <2>2 DEF Surjection
  <2>4. IsFiniteSet(1..n)
    BY FS_Interval
  <2> QED BY <2>3, <2>4, FS_Surjection
<1>5. \A p : RequiredReviewers(p) \in SUBSET all
  BY <1>1 DEF RequiredReviewers
<1> QED BY <1>4, <1>5, FS_Subset

\* Outputs that are not all the same are more than one.
LEMMA OutputsDiffer ==
    ASSUME NEW b, Reviewed(b), NoHardFailure(b), RequiresModelBinding(b.claim.profile),
           ~CorrelatedOutput(b)
    PROVE  Cardinality({ b.receipts[r].output : r \in Received(b) }) > 1
<1>1. Received(b) = RequiredReviewers(b.claim.profile) /\ "scope" \in Received(b)
  BY NoFailure DEF Reviewed, ReceiptsFollow, Received, RequiredReviewers, BaseReviewers
<1>2. \A r \in Received(b) : b.receipts[r].status = "SUCCESS" /\ b.receipts[r].output # ""
  BY NoFailure DEF Reviewed, ReceiptsFollow, GoodReceipt, Received
<1>3. PICK outputs : outputs = { b.receipts[r].output : r \in Received(b) }
  OBVIOUS
<1>4. Cardinality(outputs) # 1
  <2>1. { r \in Counted(b) : b.receipts[r].status = "SUCCESS" /\ b.receipts[r].output # "" }
          = Received(b)
    BY <1>1, <1>2 DEF Counted
  <2> QED BY <1>1, <1>3, <2>1 DEF CorrelatedOutput
<1>5. IsFiniteSet(outputs)
  <2>1. PICK out : out = [r \in Received(b) |-> b.receipts[r].output]
    OBVIOUS
  <2>2. out \in Surjection(Received(b), outputs)
    BY <1>3, <2>1 DEF Surjection
  <2> QED BY <1>1, <2>2, ReviewersAreFinite, FS_Surjection
<1>6. outputs # {}
  BY <1>1, <1>3
<1>7. Cardinality(outputs) \in Nat /\ Cardinality(outputs) # 0
  BY <1>5, <1>6, FS_CardinalityType, FS_EmptySet
<1> QED BY <1>3, <1>4, <1>7
-----------------------------------------------------------------------------
(* A pass is earned, for any claims and evidence and any number of         *)
(* deviations: the review is the untouched review of this very bundle,     *)
(* nobody found anything, and evidence, sources, outputs and readings are  *)
(* what the profile asks for (integrity.py, decide).                       *)
THEOREM PassIsAlwaysEarned == Spec => []PassIsEarned
<1>1. GateInv => PassIsEarned
  <2> SUFFICES ASSUME GateInv, Decided, decision.verdict = "PASS"
               PROVE  PassIsEarned
    BY DEF PassIsEarned
  <2>1. PICK b : b = bundle
    OBVIOUS
  <2>2. PICK p : p = b.claim.profile
    OBVIOUS
  <2>3. Reviewed(b) /\ ~StructuralHold(b) /\ AllFindings(b) = {}
    BY <2>1, Verdicts DEF GateInv
  <2>4. /\ ~AtomicHold(b) /\ ~ObligationHold(b)
        /\ NoHardFailure(b) /\ ~CorrelatedOutput(b)
    BY <2>3, NoBlockers DEF StructuralHold
  <2>5. Intact(b)
    BY <2>3, <2>4, NoFailureIsIntact
  <2>6. b.findings = {}
    BY <2>3 DEF AllFindings
  <2>7. \A e \in Universe(b) : ~b.items[e].flagged
    <3>1. ScanFindings(b) = {}
      BY <2>3 DEF AllFindings
    <3> QED BY <3>1 DEF ScanFindings
  <2>8. p \in AssuranceProfiles
    BY <2>2, <2>3, ProfileIsRanked
  <2>9. ASSUME RequiresAdmission(p)
        PROVE  Admitted(b) /\ \A a \in b.claim.atoms : WellSourced(b, a)
    <3>1. Admitted(b)
      BY <2>2, <2>3, <2>4, <2>9, NoFailureIsAdmitted
    <3>2. \A a \in b.claim.atoms : ~AtomHold(b, a)
      BY <2>4 DEF AtomicHold, HeldAtoms
    <3>3. RequiredGroups(p) = 2
      BY <2>8, <2>9, ProfilesAreCumulative
    <3> QED BY <2>2, <2>9, <3>1, <3>2, <3>3, TwoSources
  <2>10. ASSUME RequiresModelBinding(p)
         PROVE  Cardinality({ b.receipts[r].output : r \in Received(b) }) > 1
    BY <2>2, <2>3, <2>4, <2>10, OutputsDiffer
  <2>11. ASSUME RequiresObligations(p)
         PROVE  \A a \in b.claim.atoms : WellRead(b, a)
    BY <2>2, <2>3, <2>4, <2>11, NothingOpenIsRead
  <2> QED BY <2>1, <2>2, <2>5, <2>6, <2>7, <2>9, <2>10, <2>11 DEF PassIsEarned
<1> QED BY <1>1, GateCorrect, PTL

-----------------------------------------------------------------------------
(* What is saved out of a held claim.                                      *)

\* The case distinction of the assessment, for the decision of a bundle.
LEMMA Assessments ==
    ASSUME NEW b, NEW u, u = Decide(b).usefulness
    PROVE  LET v == Decide(b).verdict
               k == b.claim
               fs == AllFindings(b)
               o == Obligations(b)
               blockers == GlobalBlockers(b) \cup ContentBlockers(k, fs, o)
               onAtoms == AtomBlockers(k, fs, HeldAtoms(b), o)
           IN  /\ v = "HOLD" => \/ u.status = "HARD_HOLD" /\ u.promotable = {}
                                   /\ blockers \subseteq u.blockers
                                \/ /\ u.status = "SCOPED_SALVAGE" /\ blockers = {}
                                   /\ SalvageEligible(k, k.profile)
                                   /\ \A a \in u.promotable : a \in k.atoms /\ onAtoms[a] = {}
               /\ v # "HOLD" => u.status # "SCOPED_SALVAGE"
<1> DEFINE v == Decide(b).verdict
           k == b.claim
           fs == AllFindings(b)
           o == Obligations(b)
           blockers == GlobalBlockers(b) \cup ContentBlockers(k, fs, o)
           onAtoms == AtomBlockers(k, fs, HeldAtoms(b), o)
<1>1. u = AssessDecisionUsefulness(k, k.profile, v, fs, HeldAtoms(b), o, GlobalBlockers(b))
  BY DEF Decide
<1>2. v \in { "PASS", "REJECT", "HOLD" }
  BY DEF Decide, VerdictOf
<1>3. PICK held : held = { a \in k.atoms : onAtoms[a] # {} }
  OBVIOUS
<1>4. CASE v = "HOLD"
  <2>1. u = IF blockers # {} \/ ~SalvageEligible(k, k.profile)
            THEN Assessment("HARD_HOLD", {}, k,
                    blockers \cup IF SalvageEligible(k, k.profile) THEN {}
                                  ELSE { "PROFILE_NOT_ATOM_SALVAGE_ELIGIBLE" })
            ELSE IF held = {} \/ held = k.atoms
            THEN Assessment("HARD_HOLD", {}, k, { "NO_SAFE_LOCALIZED_SPLIT" })
            ELSE Assessment("SCOPED_SALVAGE", k.atoms \ held, k, {})
    BY <1>1, <1>3, <1>4 DEF AssessDecisionUsefulness
  <2> HIDE DEF k, fs, o, onAtoms, blockers
  <2>2. \/ u.status = "HARD_HOLD" /\ u.promotable = {} /\ blockers \subseteq u.blockers
        \/ /\ u.status = "SCOPED_SALVAGE" /\ blockers = {} /\ SalvageEligible(k, k.profile)
           /\ u.promotable = k.atoms \ held
    BY <2>1 DEF Assessment
  <2>3. \A a \in k.atoms \ held : onAtoms[a] = {}
    BY <1>3
  <2> QED BY <1>4, <2>2, <2>3 DEF k, fs, o, onAtoms, blockers
<1>5. CASE v = "PASS"
  BY <1>1, <1>5 DEF AssessDecisionUsefulness, Assessment
<1>6. CASE v = "REJECT"
  BY <1>1, <1>6 DEF AssessDecisionUsefulness, Assessment
<1> QED BY <1>2, <1>4, <1>5, <1>6
LEMMA SalvageIsIntact ==
    ASSUME NEW b, Reviewed(b), Decide(b).usefulness.status = "SCOPED_SALVAGE"
    PROVE  /\ Decide(b).verdict = "HOLD"
           /\ GlobalBlockers(b) = {} /\ NoHardFailure(b)
           /\ Intact(b) /\ Admitted(b) /\ LayerHolds(b) = {}
           /\ RequiresAdmission(b.claim.profile) /\ RequiresObligations(b.claim.profile)
<1>1. /\ Decide(b).verdict = "HOLD"
      /\ GlobalBlockers(b) = {}
      /\ SalvageEligible(b.claim, b.claim.profile)
  BY Assessments
<1>2. NoHardFailure(b)
  BY <1>1, NoBlockers
<1>3. RequiresAdmission(b.claim.profile) /\ RequiresObligations(b.claim.profile)
  <2>1. RequiresObligations(b.claim.profile)
    BY <1>1 DEF SalvageEligible, RequiresObligations
  <2> QED BY <2>1, ProfileIsRanked, ProfilesAreCumulative
<1> QED BY <1>1, <1>2, <1>3, NoFailure, NoFailureIsIntact, NoFailureIsAdmitted

(* Nothing is saved out of a claim whose review or acquisition is not      *)
(* intact, for any claims and any number of deviations: every failure of   *)
(* either is in the list that assess_decision_usefulness is handed         *)
(* (integrity.py, GlobalBlockers).                                         *)
THEOREM SalvageAlwaysNeedsIntegrity == Spec => []SalvageNeedsIntegrity
<1>1. GateInv => SalvageNeedsIntegrity
  <2> SUFFICES ASSUME GateInv, Decided, decision.usefulness.status = "SCOPED_SALVAGE"
               PROVE  Intact(bundle) /\ Admitted(bundle) /\ LayerHolds(bundle) = {}
    BY DEF SalvageNeedsIntegrity
  <2>1. Reviewed(bundle) /\ Decide(bundle).usefulness.status = "SCOPED_SALVAGE"
    BY DEF GateInv
  <2> QED BY <2>1, SalvageIsIntact
<1> QED BY <1>1, GateCorrect, PTL

\* No token of the work products of a is charged to another atom, as long as no atom is
\* called like a reviewer.
LEMMA TokensNameTheirAtom ==
    ASSUME NEW a, NEW atoms, a \in atoms, atoms \cap FrameReviewers = {}
    PROVE  /\ \A r \in FrameReviewers : a \in AtomOfToken(<< "frame", r, a >>, atoms)
           /\ \A d : d[2] = a => a \in AtomOfToken(Token(d), atoms)
<1>1. ASSUME NEW t, NEW n \in {2, 3}, Len(t) \in {2, 3}, n <= Len(t), t[n] = a,
             \A i \in 2 .. n - 1 : t[i] \notin atoms
      PROVE  a \in AtomOfToken(t, atoms)
  <2>1. PICK hits : hits = { i \in 2..Len(t) : t[i] \in atoms }
    OBVIOUS
  <2>2. n \in hits /\ \A i \in hits : n <= i /\ i \in Int
    BY <1>1, <2>1
  <2>3. Min(hits) = n
    <3>1. PICK m : m = CHOOSE x \in hits : \A y \in hits : x <= y
      OBVIOUS
    <3>2. m \in hits /\ \A y \in hits : m <= y
      BY <2>2, <3>1
    <3>3. m = n
      BY <1>1, <2>2, <3>2
    <3> QED BY <3>1, <3>3 DEF Min
  <2> QED BY <1>1, <2>1, <2>2, <2>3 DEF AtomOfToken
<1>2. ASSUME NEW r \in FrameReviewers
      PROVE  a \in AtomOfToken(<< "frame", r, a >>, atoms)
  <2>1. PICK t : t = << "frame", r, a >>
    OBVIOUS
  <2>2. Len(t) = 3 /\ t[2] = r /\ t[3] = a
    BY <2>1
  <2>3. \A i \in 2 .. 3 - 1 : t[i] \notin atoms
    BY <2>2
  <2> QED BY <1>1, <2>1, <2>2, <2>3
<1>3. ASSUME NEW d, d[2] = a
      PROVE  a \in AtomOfToken(Token(d), atoms)
  <2>1. PICK t : t = Token(d)
    OBVIOUS
  <2>2. Len(t) \in {2, 3} /\ t[2] = a
    BY <1>3, <2>1 DEF Token
  <2>3. \A i \in 2 .. 2 - 1 : t[i] \notin atoms
    OBVIOUS
  <2> QED BY <1>1, <2>1, <2>2, <2>3
<1> QED BY <1>2, <1>3
\* What it means that an atom has no blockers.
LEMMA NoAtomBlockers ==
    ASSUME NEW k, NEW fs, NEW hs, NEW o, NEW a \in k.atoms,
           AtomBlockers(k, fs, hs, o)[a] = {}
    PROVE  /\ a \notin hs /\ a \notin o.mismatch
           /\ \A t \in o.missing \cup o.failed : a \notin AtomOfToken(t, k.atoms)
           /\ \A f \in fs : Localized(k, f) => \A e \in f.ev : a \notin CitedBy(k, e)
<1>1. PICK s1, s2, s3, s4, s5 :
        /\ s1 = { "ATOM_ASSURANCE_HOLD" : h \in hs \cap {a} }
        /\ s2 = { "REPRESENTATION_DISAGREEMENT" : h \in o.mismatch \cap {a} }
        /\ s3 = { "SEMANTIC_OBLIGATION_MISSING" :
                    t \in { u \in o.missing : a \in AtomOfToken(u, k.atoms) } }
        /\ s4 = { "SEMANTIC_OBLIGATION_FAILED" :
                    t \in { u \in o.failed : a \in AtomOfToken(u, k.atoms) } }
        /\ s5 = { f.type : f \in { g \in fs : /\ Localized(k, g)
                                             /\ \E e \in g.ev : a \in CitedBy(k, e) } }
  OBVIOUS
<1>2. AtomBlockers(k, fs, hs, o)[a] = s1 \cup s2 \cup s3 \cup s4 \cup s5
  BY Zenon, <1>1 DEF AtomBlockers
<1>3. s1 = {} /\ s2 = {} /\ s3 = {} /\ s4 = {} /\ s5 = {}
  BY <1>2
<1>4. a \notin hs /\ a \notin o.mismatch
  BY <1>1, <1>3
<1>5. \A t \in o.missing : a \notin AtomOfToken(t, k.atoms)
  BY <1>1, <1>3
<1>6. \A t \in o.failed : a \notin AtomOfToken(t, k.atoms)
  BY <1>1, <1>3
<1>7. \A f \in fs : Localized(k, f) => \A e \in f.ev : a \notin CitedBy(k, e)
  BY <1>1, <1>3
<1> QED BY <1>4, <1>5, <1>6, <1>7

(* An atom saved out of a held claim is well sourced, well read and        *)
(* unchallenged itself (assess_decision_usefulness), for any claims whose  *)
(* atoms are not called like a reviewer, and reviewers that do not report  *)
(* by hand what the gate itself reports of work products: without the      *)
(* second hypothesis the property fails, as a finding of the project says. *)
THEOREM SalvagedAtomsAreAlwaysClear ==
    ASSUME \A c \in Claims : c.atoms \cap FrameReviewers = {},
           Reports \cap SemanticSummaries = {}
    PROVE  Spec => []SalvagedAtomsAreClear
<1>1. GateInv => SalvagedAtomsAreClear
  <2> SUFFICES ASSUME GateInv, Decided, decision.verdict = "HOLD",
                      NEW a \in decision.usefulness.promotable
               PROVE  WellSourced(bundle, a) /\ WellRead(bundle, a) /\ Unchallenged(bundle, a)
    BY DEF SalvagedAtomsAreClear
  <2>1. PICK b : b = bundle
    OBVIOUS
  <2>2. PICK k, fs, hs, o : /\ k = b.claim /\ fs = AllFindings(b)
                            /\ hs = HeldAtoms(b) /\ o = Obligations(b)
    OBVIOUS
  <2>3. PICK u : u = Decide(b).usefulness
    OBVIOUS
  <2>4. Reviewed(b) /\ Decide(b).verdict = "HOLD" /\ a \in u.promotable
    BY <2>1, <2>3 DEF GateInv
  <2>5. /\ u.status = "SCOPED_SALVAGE" /\ a \in k.atoms
        /\ ContentBlockers(k, fs, o) = {} /\ AtomBlockers(k, fs, hs, o)[a] = {}
    BY <2>2, <2>3, <2>4, Assessments
  <2>6. /\ NoHardFailure(b) /\ Admitted(b)
        /\ RequiresAdmission(k.profile) /\ RequiresObligations(k.profile)
    BY <2>2, <2>3, <2>4, <2>5, SalvageIsIntact
  <2>7. /\ a \notin hs /\ a \notin o.mismatch
        /\ \A t \in o.missing \cup o.failed : a \notin AtomOfToken(t, k.atoms)
        /\ \A f \in fs : Localized(k, f) => \A e \in f.ev : a \notin CitedBy(k, e)
    BY <2>5, NoAtomBlockers
  <2>8. WellSourced(b, a)
    <3>1. ~AtomHold(b, a)
      BY <2>2, <2>5, <2>7 DEF HeldAtoms
    <3>2. RequiredGroups(k.profile) = 2
      BY <2>2, <2>4, <2>6, ProfileIsRanked, ProfilesAreCumulative
    <3> QED BY <2>2, <2>6, <3>1, <3>2, TwoSources
  <2>9. WellRead(b, a)
    <3>1. k.atoms \cap FrameReviewers = {}
      BY <2>2, <2>4 DEF Reviewed
    <3>2. /\ \A r \in FrameReviewers : a \in AtomOfToken(<< "frame", r, a >>, k.atoms)
          /\ \A d : d[2] = a => a \in AtomOfToken(Token(d), k.atoms)
      BY <2>5, <3>1, TokensNameTheirAtom
    <3>3. /\ o.mismatch = { c \in k.atoms : Disagreement(b, c) }
          /\ o.missing = MissingObligations(b)
          /\ o.failed = FailedObligations(b)
      BY <2>2, <2>6 DEF Obligations
    <3>4. ~Disagreement(b, a)
      BY <2>5, <2>7, <3>3
    <3>5. ASSUME NEW r \in FrameReviewers, Cardinality(FramesBy(b, r, a)) # 1
          PROVE  FALSE
      <4>1. << r, a >> \in { q \in FrameReviewers \X b.claim.atoms :
                               Cardinality(FramesBy(b, q[1], q[2])) # 1 }
        BY <2>2, <2>5, <3>5
      <4>2. << "frame", << r, a >>[1], << r, a >>[2] >> \in MissingObligations(b)
        BY <4>1 DEF MissingObligations
      <4>3. << "frame", r, a >> \in o.missing
        BY <3>3, <4>2
      <4> QED BY <2>7, <3>2, <4>3
    <3>6. ASSUME NEW d \in Due(b), d[2] = a
          PROVE  /\ Cardinality(Filed(b, d)) = 1
                 /\ ~ \A x \in Filed(b, d) : x.result \notin Discharging[d[1]]
      <4>1. a \in AtomOfToken(Token(d), k.atoms)
        BY <3>2, <3>6
      <4>2. Cardinality(Filed(b, d)) # 1 => Token(d) \in o.missing
        BY <3>3 DEF MissingObligations
      <4>3. Cardinality(Filed(b, d)) = 1
        BY <2>7, <4>1, <4>2
      <4>4. (\A x \in Filed(b, d) : x.result \notin Discharging[d[1]]) => Token(d) \in o.failed
        BY <3>3, <4>3 DEF FailedObligations
      <4> QED BY <2>7, <4>1, <4>3, <4>4
    <3> QED BY <2>2, <2>4, <2>5, <3>4, <3>5, <3>6, ReadAlike
  <2>10. Unchallenged(b, a)
    <3>1. ASSUME NEW f \in b.findings, f.ev = {} \/ f.ev \cap k.cites[a] # {}
          PROVE  FALSE
      <4>1. f \in fs
        BY <2>2 DEF AllFindings
      <4>2. f.type \notin SemanticSummaries
        BY <2>4 DEF Reviewed
      <4>3. Localized(k, f)
        <5>1. PICK open : open = { g \in fs : g.type \notin SemanticSummaries /\ ~Localized(k, g) }
          OBVIOUS
        <5>2. { (IF g.type \in Localizable THEN "UNLOCALIZED_" ELSE "GLOBAL_") \o g.type : g \in open } = {}
          BY Zenon, <2>5, <5>1 DEF ContentBlockers
        <5>3. open = {}
          BY Zenon, <5>2
        <5> QED BY <4>1, <4>2, <5>1, <5>3
      <4>4. f.ev # {}
        BY <4>3 DEF Localized
      <4>5. PICK e \in f.ev : e \in k.cites[a]
        BY <3>1, <4>4
      <4>6. a \in CitedBy(k, e)
        BY <2>5, <4>5 DEF CitedBy
      <4> QED BY <2>7, <4>1, <4>3, <4>5, <4>6
    <3> QED BY <2>2, <3>1 DEF Unchallenged
  <2> QED BY <2>1, <2>8, <2>9, <2>10
<1> QED BY <1>1, GateCorrect, PTL

-----------------------------------------------------------------------------
(* Relaxations.                                                            *)

LEMMA RelaxedIsSoft ==
    ASSUME NEW fs, NEW u, NEW q,
           ShadowPolicyWouldPromote(AssessDecisionCalibration("HOLD", fs, u), q)
    PROVE  u.blockers \cap HardUsefulnessBlockers = {}
<1>1. PICK types, debts : /\ types = { f.type : f \in fs }
                          /\ debts = EvidenceDebt \cup SemanticDebt \cup ClaimConflict
  OBVIOUS
<1>2. PICK hard : hard = (types \ debts) \cup (u.blockers \cap HardUsefulnessBlockers)
  OBVIOUS
<1>3. PICK classes : classes = [evidence |-> types \cap EvidenceDebt,
                                semantic |-> types \cap SemanticDebt,
                                conflict |-> types \cap ClaimConflict, hard |-> hard]
  OBVIOUS
<1>4. PICK active : active = { c \in DOMAIN classes : classes[c] # {} }
  OBVIOUS
<1>5. AssessDecisionCalibration("HOLD", fs, u) =
        CASE active \subseteq { "hard" } -> "HARD_INTEGRITY_HOLD"
          [] active = { "conflict" } -> "CLAIM_CONFLICT_HOLD"
          [] active = { "evidence" } -> "EVIDENCE_DEBT_HOLD"
          [] active = { "semantic" } -> "SEMANTIC_DEBT_HOLD"
          [] OTHER -> "MIXED_HOLD"
  BY <1>1, <1>2, <1>3, <1>4 DEF AssessDecisionCalibration
<1>6. active = { "evidence" } \/ active = { "semantic" }
  BY <1>5 DEF ShadowPolicyWouldPromote
<1>7. hard # {} => "hard" \in active
  BY <1>3, <1>4
<1> QED BY <1>2, <1>6, <1>7

(* No simulated relaxation of the debt policies releases a claim whose     *)
(* review or acquisition is not intact, for any claims and any number of   *)
(* deviations (dependency_ancestry.py, shadow_policy_would_promote).       *)
THEOREM RelaxationAlwaysSparesIntegrity == Spec => []RelaxationSparesIntegrity
<1>1. GateInv => RelaxationSparesIntegrity
  <2> SUFFICES ASSUME GateInv, Decided, decision.verdict = "HOLD",
                      NEW q, ShadowPolicyWouldPromote(decision.calibration, q)
               PROVE  /\ Intact(bundle)
                      /\ RequiresAdmission(bundle.claim.profile) => Admitted(bundle)
    BY DEF RelaxationSparesIntegrity
  <2>1. PICK b : b = bundle
    OBVIOUS
  <2>2. PICK u : u = Decide(b).usefulness
    OBVIOUS
  <2>3. Reviewed(b) /\ Decide(b).verdict = "HOLD"
    BY <2>1 DEF GateInv
  <2>4. Decide(b).calibration = AssessDecisionCalibration("HOLD", AllFindings(b), u)
    <3>1. Decide(b).calibration = AssessDecisionCalibration(VerdictOf(b), AllFindings(b), u)
      BY <2>2 DEF Decide
    <3> QED BY <2>3, <3>1, Verdicts
  <2>5. u.blockers \cap HardUsefulnessBlockers = {}
    BY <2>1, <2>4, RelaxedIsSoft DEF GateInv
  <2>6. GlobalBlockers(b) = {} \/ GlobalBlockers(b) \subseteq u.blockers
    BY <2>2, <2>3, Assessments
  <2>7. NoHardFailure(b)
    BY <2>5, <2>6 DEF NoHardFailure
  <2> QED BY <2>1, <2>3, <2>7, NoFailureIsIntact, NoFailureIsAdmitted
<1> QED BY <1>1, GateCorrect, PTL
-----------------------------------------------------------------------------
(* Profiles.                                                               *)

\* What a profile asks for, every higher one asks for.
LEMMA AsksForLess ==
    ASSUME NEW p \in AssuranceProfiles, NEW q \in AssuranceProfiles, Rank(q) <= Rank(p)
    PROVE  /\ RequiredReviewers(q) \subseteq RequiredReviewers(p)
           /\ RequiredGroups(q) \in {1, RequiredGroups(p)} /\ RequiredGroups(p) \in {1, 2}
           /\ RequiresAdmission(q) => RequiresAdmission(p)
           /\ RequiresModelBinding(q) => RequiresModelBinding(p)
           /\ RequiresObligations(q) => RequiresObligations(p)
           /\ AtLeast(q, "SEMANTIC_FORTIFIED") => AtLeast(p, "SEMANTIC_FORTIFIED")
<1>1. Rank(p) \in Int /\ Rank(q) \in Int
  BY Ranks
<1>2. \A x \in { "CORROBORATED", "FORTIFIED", "MODEL_BOUND", "SEMANTIC_FORTIFIED",
                 "REPRESENTATION_FORTIFIED" } : AtLeast(q, x) => AtLeast(p, x)
  BY <1>1, Ranks DEF AtLeast
<1> QED BY <1>2 DEF RequiredReviewers, RequiredGroups, RequiresAdmission,
                    RequiresModelBinding, RequiresObligations

LEMMA LayersOfLess ==
    ASSUME NEW p \in AssuranceProfiles, NEW q \in AssuranceProfiles, Rank(q) <= Rank(p),
           q # "EXTERNAL_WITNESS_FORTIFIED", NEW l \in WitnessLayers, LayerApplies(q, l)
    PROVE  LayerApplies(p, l)
<1>1. PICK t : t = LayerProfile[l]
  OBVIOUS
<1>2. t \in AssuranceProfiles
  <2>1. DOMAIN Profiles = 1..13
    BY DEF Profiles
  <2>2. t \in { Profiles[7], Profiles[8], Profiles[9], Profiles[10], Profiles[11], Profiles[12],
                Profiles[13] }
    BY <1>1 DEF Profiles, LayerProfile, WitnessLayers
  <2> QED BY <2>1, <2>2 DEF AssuranceProfiles
<1>3. Rank(p) \in Int /\ Rank(q) \in Int /\ Rank(t) \in Int
  BY <1>2, Ranks
<1>4. l # "EXTERNAL_WITNESS"
  BY DEF LayerApplies, LayerProfile
<1> QED BY <1>1, <1>3, <1>4 DEF LayerApplies, AtLeast

\* An atom is not held for a lower profile: one group is asked for where there are two.
LEMMA HeldForLess ==
    ASSUME NEW b, Reviewed(b), Universe(b) = Evidence,
           NEW q \in AssuranceProfiles, Rank(q) <= Rank(b.claim.profile),
           NEW c, c.claim.profile = q, c.claim.cites = b.claim.cites,
           c.claim.evidence = b.claim.evidence, c.items = b.items, c.admissions = b.admissions,
           c.evidenceKey = b.evidenceKey,
           NEW a, ~AtomHold(b, a)
    PROVE  ~AtomHold(c, a)
<1>1. PICK p \in AssuranceProfiles : p = b.claim.profile
  BY ProfileIsRanked
<1>2. /\ Universe(c) = Universe(b) /\ Available(c, a) = Available(b, a)
      /\ Groups(c, a) = Groups(b, a) /\ Sources(c, a) = Sources(b, a)
      /\ NoProvenance(c, a) = NoProvenance(b, a)
  BY DEF Universe, Available, Groups, Sources, NoProvenance
<1>3. ~DiversityGap(c, a)
  <2>1. IsFiniteSet(Available(b, a))
    BY EvidenceAssumption, FS_Subset DEF Available
  <2>2. PICK gs, ss : /\ gs = { b.items[e].group : e \in Available(b, a) }
                      /\ ss = { b.items[e].source : e \in Available(b, a) }
    OBVIOUS
  <2>3. IsFiniteSet(gs) /\ IsFiniteSet(ss)
    <3>1. PICK g : g = [e \in Available(b, a) |-> b.items[e].group]
      OBVIOUS
    <3>2. PICK s : s = [e \in Available(b, a) |-> b.items[e].source]
      OBVIOUS
    <3>3. g \in Surjection(Available(b, a), gs) /\ s \in Surjection(Available(b, a), ss)
      BY <2>2, <3>1, <3>2 DEF Surjection
    <3> QED BY <2>1, <3>3, FS_Surjection
  <2>4. Cardinality(Groups(b, a)) \in Nat /\ Cardinality(Sources(b, a)) \in Nat
    <3>1. Groups(b, a) \in SUBSET gs /\ Sources(b, a) = ss
      BY <2>2 DEF Groups, Sources
    <3> QED BY <2>3, <3>1, FS_Subset, FS_CardinalityType
  <2>5. ~DiversityGap(b, a)
    BY DEF AtomHold
  <2>6. RequiredGroups(q) \in {1, RequiredGroups(p)} /\ RequiredGroups(p) \in {1, 2}
    BY <1>1, AsksForLess
  <2> QED BY <1>1, <1>2, <2>4, <2>5, <2>6 DEF DiversityGap
<1>4. ~OriginGap(c, a)
  <2>1. CASE ~RequiresAdmission(q)
    BY <2>1 DEF OriginGap
  <2>2. CASE RequiresAdmission(q)
    <3>1. RequiresAdmission(p)
      BY <1>1, <2>2, AsksForLess
    <3>2. \A e : AdmissionStatus(c, e) = AdmissionStatus(b, e)
      BY DEF AdmissionStatus
    <3>3. TrustedOrigins(c, c.claim.cites[a]) = TrustedOrigins(b, b.claim.cites[a])
      BY <1>1, <1>2, <2>2, <3>1, <3>2 DEF TrustedOrigins
    <3> QED BY <1>1, <3>1, <3>3 DEF OriginGap, AtomHold
  <2> QED BY <2>1, <2>2
<1> QED BY <1>2, <1>3, <1>4 DEF AtomHold
\* A bundle under another profile.
LEMMA OtherProfile ==
    ASSUME NEW b, Reviewed(b), NEW q, NEW c, c = WithProfile(b, q)
    PROVE  /\ c.claim.profile = q /\ c.claim.version = b.claim.version
           /\ c.claim.atoms = b.claim.atoms /\ c.claim.cites = b.claim.cites
           /\ c.claim.says = b.claim.says /\ c.claim.evidence = b.claim.evidence
           /\ c.items = b.items /\ c.admissions = b.admissions /\ c.receipts = b.receipts
           /\ c.findings = b.findings /\ c.frames = b.frames /\ c.obligations = b.obligations
           /\ c.runtimeKey = b.runtimeKey /\ c.evidenceKey = b.evidenceKey
           /\ c.witness = b.witness
<1>1. PICK k : k = b.claim
  OBVIOUS
<1>2. k = [profile |-> k.profile, version |-> k.version, atoms |-> k.atoms,
           cites |-> k.cites, says |-> k.says, evidence |-> k.evidence]
  BY <1>1, ClaimsAssumption DEF Reviewed
<1>3. PICK n : n = [k EXCEPT !.profile = q]
  OBVIOUS
<1>4. /\ n.profile = q /\ n.version = k.version /\ n.atoms = k.atoms /\ n.cites = k.cites
      /\ n.says = k.says /\ n.evidence = k.evidence
  BY <1>2, <1>3
<1>5. c = [b EXCEPT !.claim = n]
  BY <1>1, <1>3 DEF WithProfile
<1>6. /\ c.claim = n
      /\ c.items = b.items /\ c.admissions = b.admissions /\ c.receipts = b.receipts
      /\ c.findings = b.findings /\ c.frames = b.frames /\ c.obligations = b.obligations
      /\ c.runtimeKey = b.runtimeKey /\ c.evidenceKey = b.evidenceKey
      /\ c.witness = b.witness
  BY <1>5 DEF Reviewed, IsBundle
<1> QED BY <1>1, <1>4, <1>6

\* What fails under a lower profile fails under a higher one, but for the correlation of
\* outputs and the external witness.
LEMMA FailsForLess ==
    ASSUME NEW b, Reviewed(b), NEW q \in AssuranceProfiles, Rank(q) <= Rank(b.claim.profile),
           q # "EXTERNAL_WITNESS_FORTIFIED", NEW c, c = WithProfile(b, q),
           ~CorrelatedOutput(c), GlobalBlockers(b) = {}
    PROVE  GlobalBlockers(c) = {}
<1> USE OtherProfile
<1>1. PICK p \in AssuranceProfiles : p = b.claim.profile
  BY ProfileIsRanked
<1>2. PICK fb, fc : fb = Failures(b) /\ fc = Failures(c)
  OBVIOUS
<1>3. /\ RequiredReviewers(q) \subseteq RequiredReviewers(p)
      /\ RequiresAdmission(q) => RequiresAdmission(p)
      /\ RequiresModelBinding(q) => RequiresModelBinding(p)
      /\ AtLeast(q, "SEMANTIC_FORTIFIED") => AtLeast(p, "SEMANTIC_FORTIFIED")
  BY <1>1, AsksForLess
<1>4. /\ Universe(c) = Universe(b) /\ Received(c) = Received(b) /\ Counted(c) \subseteq Counted(b)
  BY <1>1, <1>3 DEF Universe, Received, Counted
<1>5. Versions(c) = Versions(b)
  BY <1>4 DEF Versions
<1>6. fc.EVIDENCE_ADMISSION_INTEGRITY => fb.EVIDENCE_ADMISSION_INTEGRITY
  <2>1. \A e : AdmissionStatus(c, e) = AdmissionStatus(b, e)
    BY DEF AdmissionStatus
  <2>2. ReusedCaptures(c) = ReusedCaptures(b)
    BY <1>4 DEF ReusedCaptures
  <2>3. AdmissionHold(c) => AdmissionHold(b)
    BY <1>1, <1>3, <1>4, <2>1, <2>2 DEF AdmissionHold
  <2> QED BY <1>2, <2>3 DEF Failures
<1>7. fc.RUNTIME_KEY_UNAVAILABLE => fb.RUNTIME_KEY_UNAVAILABLE
  BY <1>2 DEF Failures
<1>8. fc.CLAIM_EVIDENCE_SET_EMPTY => fb.CLAIM_EVIDENCE_SET_EMPTY
  BY <1>2 DEF Failures
<1>9. fc.MISSING_EVIDENCE_OBJECT => fb.MISSING_EVIDENCE_OBJECT
  BY <1>2, <1>4 DEF Failures
<1>10. fc.MISSING_REQUIRED_REVIEWER => fb.MISSING_REQUIRED_REVIEWER
  <2>1. RequiredReviewers(p) \subseteq Received(b) => RequiredReviewers(q) \subseteq Received(b)
    BY <1>3
  <2>2. /\ fc.MISSING_REQUIRED_REVIEWER = (~(RequiredReviewers(c.claim.profile) \subseteq Received(c)))
        /\ fb.MISSING_REQUIRED_REVIEWER = (~(RequiredReviewers(b.claim.profile) \subseteq Received(b)))
    BY <1>2 DEF Failures
  <2>3. fc.MISSING_REQUIRED_REVIEWER = (~(RequiredReviewers(q) \subseteq Received(b)))
    BY <1>4, <2>2
  <2>4. fb.MISSING_REQUIRED_REVIEWER = (~(RequiredReviewers(p) \subseteq Received(b)))
    BY <1>1, <2>2
  <2> QED BY ONLY <2>1, <2>3, <2>4
<1>11. fc.INVALID_RUNTIME_RECEIPT => fb.INVALID_RUNTIME_RECEIPT
  BY <1>2, <1>4 DEF Failures, Having
<1>12. fc.REVIEWER_EXECUTION_FAILURE => fb.REVIEWER_EXECUTION_FAILURE
  BY <1>2, <1>4 DEF Failures, Having
<1>13. fc.REVIEW_CONTEXT_CONTAMINATION => fb.REVIEW_CONTEXT_CONTAMINATION
  BY <1>2, <1>4 DEF Failures, Having
<1>14. fc.REVIEW_PROMPT_MISMATCH => fb.REVIEW_PROMPT_MISMATCH
  BY <1>2, <1>4 DEF Failures, Having
<1>15. fc.INVOCATION_CONTINUITY_FAILURE => fb.INVOCATION_CONTINUITY_FAILURE
  BY <1>2, <1>4, <1>5 DEF Failures, Having
<1>16. fc.MODEL_EXECUTION_UNBOUND => fb.MODEL_EXECUTION_UNBOUND
  <2>1. UnboundModel(c) => UnboundModel(b)
    BY <1>1, <1>3, <1>4 DEF UnboundModel
  <2> QED BY <1>2, <2>1 DEF Failures
<1>17. fc.DUPLICATE_MODEL_RESPONSE => fb.DUPLICATE_MODEL_RESPONSE
  <2>1. DuplicateResponses(c) => DuplicateResponses(b)
    <3>1. c.receipts = b.receipts /\ c.claim.profile = q
      OBVIOUS
    <3>2. CASE RequiresModelBinding(q)
      <4>1. RequiresModelBinding(p)
        BY <1>3, <3>2
      <4> QED BY ONLY <1>1, <1>4, <3>1, <4>1 DEF DuplicateResponses
    <3> QED BY ONLY <3>1, <3>2 DEF DuplicateResponses
  <2> QED BY <1>2, <2>1 DEF Failures
<1>18. ~fc.CORRELATED_MODEL_OUTPUT
  BY <1>2 DEF Failures
<1>19. fc.DUPLICATE_REVIEW_INVOCATION => fb.DUPLICATE_REVIEW_INVOCATION
  BY <1>2, <1>4 DEF Failures
<1>20. fc.REVIEW_BINDING_MISMATCH => fb.REVIEW_BINDING_MISMATCH
  <2>1. BindingMismatch(c) => BindingMismatch(b)
    BY <1>4, <1>5 DEF BindingMismatch
  <2> QED BY <1>2, <2>1 DEF Failures
<1>21. fc.REVIEW_OUTPUT_TAMPER => fb.REVIEW_OUTPUT_TAMPER
  <2>1. \A r : ReportedBy(c, r) = ReportedBy(b, r)
    BY DEF ReportedBy
  <2> QED BY <1>2, <1>4, <2>1 DEF Failures
<1>22. fc.SEMANTIC_ARTIFACT_TAMPER => fb.SEMANTIC_ARTIFACT_TAMPER
  <2>1. \A r : ArtifactsOf(c, r) = ArtifactsOf(b, r)
    BY DEF ArtifactsOf
  <2> QED BY <1>2, <1>4, <2>1 DEF Failures
<1>23. fc.REVIEWER_ROLE_VIOLATION => fb.REVIEWER_ROLE_VIOLATION
  <2>1. RoleViolations(c) = RoleViolations(b)
    BY DEF RoleViolations
  <2> QED BY <1>2, <2>1 DEF Failures
<1>24. fc.BAD_EVIDENCE_REFERENCE => fb.BAD_EVIDENCE_REFERENCE
  <2>1. BadReferences(c) = BadReferences(b)
    BY <1>4 DEF BadReferences
  <2> QED BY <1>2, <2>1 DEF Failures
<1>25. fc.EVIDENCE_SPACE_ADDITION => fb.EVIDENCE_SPACE_ADDITION
  BY <1>2, <1>4 DEF Failures
<1>26. fc.MATERIAL_TRANSITION_LEAKAGE => fb.MATERIAL_TRANSITION_LEAKAGE
  <2>1. MaterialOmissions(c) = MaterialOmissions(b)
    BY <1>4 DEF MaterialOmissions
  <2> QED BY <1>2, <2>1 DEF Failures
<1>27. fc.SEMANTIC_REVIEW_COVERAGE_GAP => fb.SEMANTIC_REVIEW_COVERAGE_GAP
  <2>1. SemanticHold(c) => SemanticHold(b)
    BY <1>1, <1>3, <1>4 DEF SemanticHold
  <2> QED BY <1>2, <2>1 DEF Failures
<1>28. fc.WITNESS_LAYER_HOLD => fb.WITNESS_LAYER_HOLD
  <2>1. LayerHolds(c) \subseteq LayerHolds(b)
    <3>1. \A l \in WitnessLayers : LayerApplies(q, l) => LayerApplies(p, l)
      BY <1>1, LayersOfLess
    <3>2. c.witness = b.witness /\ c.claim.profile = q
      OBVIOUS
    <3> QED BY <1>1, <3>1, <3>2 DEF LayerHolds
  <2> QED BY <1>2, <2>1 DEF Failures
<1>29. fc.DUPLICATE_ATOMIC_CLAIM => fb.DUPLICATE_ATOMIC_CLAIM
  <2>1. DuplicateStatements(c) => DuplicateStatements(b)
    BY DEF DuplicateStatements
  <2> QED BY <1>2, <2>1 DEF Failures
<1>30. DOMAIN fc = DOMAIN fb /\ \A n \in DOMAIN fc : fc[n] => fb[n]
  <2>1. DOMAIN fc = { "EVIDENCE_ADMISSION_INTEGRITY", "RUNTIME_KEY_UNAVAILABLE",
          "CLAIM_EVIDENCE_SET_EMPTY", "MISSING_EVIDENCE_OBJECT", "MISSING_REQUIRED_REVIEWER",
          "INVALID_RUNTIME_RECEIPT", "REVIEWER_EXECUTION_FAILURE",
          "REVIEW_CONTEXT_CONTAMINATION", "REVIEW_PROMPT_MISMATCH",
          "INVOCATION_CONTINUITY_FAILURE", "MODEL_EXECUTION_UNBOUND",
          "DUPLICATE_MODEL_RESPONSE", "CORRELATED_MODEL_OUTPUT",
          "DUPLICATE_REVIEW_INVOCATION", "REVIEW_BINDING_MISMATCH", "REVIEW_OUTPUT_TAMPER",
          "SEMANTIC_ARTIFACT_TAMPER", "REVIEWER_ROLE_VIOLATION", "BAD_EVIDENCE_REFERENCE",
          "EVIDENCE_SPACE_ADDITION", "MATERIAL_TRANSITION_LEAKAGE",
          "SEMANTIC_REVIEW_COVERAGE_GAP", "WITNESS_LAYER_HOLD", "DUPLICATE_ATOMIC_CLAIM" }
    BY <1>2 DEF Failures
  <2>2. DOMAIN fb = DOMAIN fc
    BY <1>2 DEF Failures
  <2> QED
    BY <1>6, <1>7, <1>8, <1>9, <1>10, <1>11, <1>12, <1>13, <1>14, <1>15, <1>16, <1>17, <1>18,
       <1>19, <1>20, <1>21, <1>22, <1>23, <1>24, <1>25, <1>26, <1>27, <1>28, <1>29, <2>1, <2>2
<1> QED BY <1>2, <1>30 DEF GlobalBlockers
\* A profile has the rank at which it is listed: none is listed twice.
LEMMA RanksAreOrdered ==
    \A i \in 1..13 : Profiles[i] \in AssuranceProfiles /\ Rank(Profiles[i]) = i
<1>1. DOMAIN Profiles = 1..13
  BY DEF Profiles
<1>2. \A i \in 1..13 : Profiles[i] \in AssuranceProfiles
  BY <1>1 DEF AssuranceProfiles
<1>3. \A i, j \in 1..13 : Profiles[i] = Profiles[j] => i = j
  BY DEF Profiles
<1> QED BY <1>2, <1>3, Ranks

\* What is filed and read does not depend on the profile.
LEMMA WorkForLess ==
    ASSUME NEW b, Reviewed(b), NEW q, NEW c, c = WithProfile(b, q)
    PROVE  /\ InvalidArtifacts(c) = InvalidArtifacts(b)
           /\ \A a : Disagreement(c, a) <=> Disagreement(b, a)
           /\ MissingObligations(c) = MissingObligations(b)
           /\ FailedObligations(c) = FailedObligations(b)
<1> USE OtherProfile
<1>1. Universe(c) = Universe(b) /\ Due(c) = Due(b)
  BY DueFromClaim DEF Universe
<1>2. /\ \A r, a : FramesBy(c, r, a) = FramesBy(b, r, a)
      /\ \A d : Filed(c, d) = Filed(b, d)
  BY DEF FramesBy, Filed
<1>3. InvalidArtifacts(c) = InvalidArtifacts(b)
  <2>1. /\ c.frames = b.frames /\ c.obligations = b.obligations
        /\ c.claim.atoms = b.claim.atoms
    OBVIOUS
  <2>2. \A x : x \in InvalidArtifacts(c) <=> x \in InvalidArtifacts(b)
    BY ONLY <1>1, <2>1 DEF InvalidArtifacts
  <2> QED BY ONLY <2>2 DEF InvalidArtifacts
<1>4. \A a : Disagreement(c, a) <=> Disagreement(b, a)
  BY <1>2 DEF Disagreement
<1>5. MissingObligations(c) = MissingObligations(b)
  BY <1>1, <1>2 DEF MissingObligations
<1>6. FailedObligations(c) = FailedObligations(b)
  BY <1>1, <1>2 DEF FailedObligations
<1> QED BY <1>3, <1>4, <1>5, <1>6

LEMMA OwedForLess ==
    ASSUME NEW b, Reviewed(b), NEW q \in AssuranceProfiles, Rank(q) <= Rank(b.claim.profile),
           NEW c, c = WithProfile(b, q), ObligationHold(c)
    PROVE  ObligationHold(b)
<1>1. PICK p \in AssuranceProfiles : p = b.claim.profile
  BY ProfileIsRanked
<1>2. c.claim.profile = q /\ c.claim.atoms = b.claim.atoms
  BY OtherProfile
<1>3. RequiresObligations(q) /\ RequiresObligations(p)
  BY <1>1, <1>2, AsksForLess DEF ObligationHold
<1>4. Obligations(c) = [mismatch |-> { a \in c.claim.atoms : Disagreement(c, a) },
                        missing |-> MissingObligations(c), failed |-> FailedObligations(c)]
  BY <1>2, <1>3 DEF Obligations
<1>5. Obligations(b) = [mismatch |-> { a \in b.claim.atoms : Disagreement(b, a) },
                        missing |-> MissingObligations(b), failed |-> FailedObligations(b)]
  BY <1>1, <1>3 DEF Obligations
<1>6. { a \in c.claim.atoms : Disagreement(c, a) } = { a \in b.claim.atoms : Disagreement(b, a) }
  BY <1>2, WorkForLess
<1>7. Obligations(c) = Obligations(b)
  BY <1>4, <1>5, <1>6, WorkForLess
<1> QED BY <1>1, <1>3, <1>7, WorkForLess DEF ObligationHold

\* What holds a claim under a lower profile holds it under a higher one.
LEMMA HoldsForLess ==
    ASSUME NEW b, Reviewed(b), NEW q \in AssuranceProfiles, Rank(q) <= Rank(b.claim.profile),
           q # "EXTERNAL_WITNESS_FORTIFIED", NEW c, c = WithProfile(b, q),
           ~CorrelatedOutput(c), ~StructuralHold(b)
    PROVE  ~StructuralHold(c)
<1>1. GlobalBlockers(b) = {} /\ ~AtomicHold(b) /\ ~ObligationHold(b)
  BY DEF StructuralHold
<1>2. GlobalBlockers(c) = {}
  BY <1>1, FailsForLess
<1>3. Universe(b) = Evidence
  BY <1>1, NoBlockers, IntactUniverse
<1>4. \A a : ~AtomHold(b, a) => ~AtomHold(c, a)
  BY <1>3, OtherProfile, HeldForLess
<1>5. HeldAtoms(c) \subseteq HeldAtoms(b)
  BY <1>4, OtherProfile DEF HeldAtoms
<1>6. DuplicateStatements(c) => DuplicateStatements(b)
  BY OtherProfile DEF DuplicateStatements
<1>7. ~AtomicHold(c)
  BY <1>1, <1>5, <1>6, OtherProfile DEF AtomicHold
<1>8. ~ObligationHold(c)
  BY <1>1, OwedForLess
<1> QED BY <1>2, <1>7, <1>8 DEF StructuralHold

\* A claim that nothing holds has no findings but those of the reviewers and the scan.
LEMMA NothingHeldNothingFound ==
    ASSUME NEW b, ~StructuralHold(b), b.findings = {},
           \A e \in Universe(b) : ~b.items[e].flagged
    PROVE  AllFindings(b) = {}
<1>1. GlobalBlockers(b) = {} /\ ~AtomicHold(b) /\ ~ObligationHold(b)
  BY DEF StructuralHold
<1>2. ~AdmissionHold(b) /\ LayerHolds(b) = {}
  BY <1>1, NoBlockers, NoFailure
<1>3. AdmissionFindings(b) = {}
  BY <1>2 DEF AdmissionFindings, AdmissionHold
<1>4. ScanFindings(b) = {}
  BY DEF ScanFindings
<1>5. AtomicFindings(b) = {}
  <2>1. b.claim.atoms # {} /\ ~DuplicateStatements(b)
    BY <1>1 DEF AtomicHold
  <2>2. \A a \in b.claim.atoms : /\ b.claim.cites[a] # {} /\ NoProvenance(b, a) = {}
                                 /\ ~DiversityGap(b, a) /\ ~OriginGap(b, a)
    BY <1>1 DEF AtomicHold, HeldAtoms, AtomHold
  <2> QED BY <2>1, <2>2 DEF AtomicFindings
<1>6. RoleFindings(b) = {}
  BY DEF RoleFindings, RoleViolations
<1>7. SemanticFindings(b) = {}
  <2>1. ~SemanticHold(b)
    <3>1. PICK fs : fs = Failures(b)
      OBVIOUS
    <3>2. /\ fs.SEMANTIC_REVIEW_COVERAGE_GAP = SemanticHold(b)
          /\ "SEMANTIC_REVIEW_COVERAGE_GAP" \in DOMAIN fs
      BY <3>1 DEF Failures
    <3>3. ~fs["SEMANTIC_REVIEW_COVERAGE_GAP"]
      BY <1>1, <3>1, <3>2 DEF GlobalBlockers
    <3> QED BY <3>2, <3>3
  <2>2. PICK o : o = Obligations(b)
    OBVIOUS
  <2>3. o.mismatch = {} /\ o.missing = {} /\ o.failed = {}
    <3>1. CASE RequiresObligations(b.claim.profile)
      BY <1>1, <2>2, <3>1 DEF ObligationHold
    <3>2. CASE ~RequiresObligations(b.claim.profile)
      BY <2>2, <3>2 DEF Obligations
    <3> QED BY <3>1, <3>2
  <2> QED BY <2>1, <2>2, <2>3 DEF SemanticFindings
<1>8. LayerFindings(b) = {}
  BY <1>2 DEF LayerFindings
<1> QED BY <1>3, <1>4, <1>5, <1>6, <1>7, <1>8 DEF AllFindings

LEMMA VerdictForLess ==
    ASSUME NEW b, Reviewed(b), NEW q \in AssuranceProfiles, Rank(q) <= Rank(b.claim.profile),
           q # "EXTERNAL_WITNESS_FORTIFIED", ~CorrelatedOutput(WithProfile(b, q)),
           Decide(b).verdict # "HOLD"
    PROVE  Decide(WithProfile(b, q)).verdict = Decide(b).verdict
<1>1. PICK c : c = WithProfile(b, q)
  OBVIOUS
<1>2. Decide(b).verdict = VerdictOf(b) /\ Decide(c).verdict = VerdictOf(c)
  BY Verdicts
<1>3. ~StructuralHold(b)
  BY <1>2 DEF VerdictOf
<1>4. ~StructuralHold(c)
  BY <1>1, <1>3, HoldsForLess
<1>5. c.findings = b.findings /\ c.items = b.items
  BY <1>1, OtherProfile
<1>6. CriticalFabrication(c) <=> CriticalFabrication(b)
  BY <1>5 DEF CriticalFabrication
<1>7. CASE CriticalFabrication(b)
  BY <1>1, <1>2, <1>3, <1>4, <1>6, <1>7 DEF VerdictOf
<1>8. CASE ~CriticalFabrication(b)
  <2>1. AllFindings(b) = {}
    BY <1>2, <1>3, <1>8 DEF VerdictOf
  <2>2. b.findings = {} /\ \A e \in Universe(b) : ~b.items[e].flagged
    BY <2>1 DEF AllFindings, ScanFindings
  <2>3. AllFindings(c) = {}
    BY <1>4, <1>5, <2>2, NothingHeldNothingFound DEF Universe
  <2> QED BY <1>1, <1>2, <1>3, <1>4, <1>6, <1>8, <2>1, <2>3 DEF VerdictOf
<1> QED BY <1>7, <1>8

(* Asking for less assurance never turns a pass or a rejection into        *)
(* something else, for any claims and evidence and any number of           *)
(* deviations: the profiles of the gate are cumulative, check by check,    *)
(* but for the two exceptions the property names (integrity.py, the sets   *)
(* of profiles).                                                           *)
THEOREM StrongerProfileIsAlwaysStricter == Spec => []StrongerProfileIsStricter
<1>1. GateInv => StrongerProfileIsStricter
  <2> SUFFICES ASSUME GateInv, Decided, decision.verdict # "HOLD",
                      NEW i \in 1..Rank(bundle.claim.profile),
                      Profiles[i] # "EXTERNAL_WITNESS_FORTIFIED",
                      ~CorrelatedOutput(WithProfile(bundle, Profiles[i]))
               PROVE  Decide(WithProfile(bundle, Profiles[i])).verdict = decision.verdict
    BY DEF StrongerProfileIsStricter
  <2>1. Reviewed(bundle) /\ decision = Decide(bundle)
    BY DEF GateInv
  <2>2. bundle.claim.profile \in AssuranceProfiles
    BY <2>1, ProfileIsRanked
  <2>3. Rank(bundle.claim.profile) \in 1..13
    BY <2>2, Ranks
  <2>4. i \in 1..13
    BY <2>3
  <2>5. Profiles[i] \in AssuranceProfiles /\ Rank(Profiles[i]) = i
    BY <2>4, RanksAreOrdered
  <2> QED BY <2>1, <2>3, <2>4, <2>5, VerdictForLess
<1> QED BY <1>1, GateCorrect, PTL
-----------------------------------------------------------------------------
(* What a review hands in, and a receipt covers.                           *)

\* The receipt x covers what r reported in b; an output that equals other outputs reports
\* nothing; and a receipt is bound to the claim or to its predecessor.
Covers(b, r, x) ==
    /\ x.findings = ReportedBy(b, r)
    /\ x.artifacts = ArtifactsOf(b, r)
    /\ x.output \in { r, "same", "" }
    /\ x.output = "same" => x.artifacts = {}
    /\ x.claim \in { b.claim.version, 1 }
    /\ x.invoked = << x.invoked[1], x.invoked[2], x.invoked[3] >>
    /\ x.invoked[1] \in { b.claim.version, 1 }

\* The evidence is some of what was acquired.
GoodItems(items) ==
    /\ DOMAIN items \subseteq Evidence
    /\ \A e \in DOMAIN items :
          /\ items[e] = [version |-> items[e].version, group |-> items[e].group,
                         source |-> items[e].source, origin |-> items[e].origin,
                         flagged |-> items[e].flagged]
          /\ items[e].version \in Nat

GoodObligation(x) ==
    x = [by |-> x.by, type |-> x.type, atom |-> x.atom, ev |-> x.ev, refs |-> x.refs,
         result |-> x.result]

Covered(b) ==
    /\ GoodItems(b.items)
    /\ \A x \in b.obligations : GoodObligation(x)
    /\ \A r \in DOMAIN b.receipts : Covers(b, r, b.receipts[r])

\* Two receipts of one reviewer for one invocation, whatever it returned.
SameBinding(x, y) ==
    /\ y.signed = x.signed /\ y.claim = x.claim /\ y.ev = x.ev /\ y.prompt = x.prompt
    /\ y.context = x.context /\ y.invocation = x.invocation /\ y.invoked = x.invoked
    /\ y.modelBound = x.modelBound /\ y.response = x.response

\* c is b after r has handed in something else.
HandedIn(b, c, r) ==
    /\ c.claim = b.claim /\ c.items = b.items /\ c.admissions = b.admissions
    /\ c.runtimeKey = b.runtimeKey /\ c.evidenceKey = b.evidenceKey /\ c.witness = b.witness
    /\ r \in DOMAIN b.receipts /\ DOMAIN c.receipts = DOMAIN b.receipts
    /\ \A s \in DOMAIN b.receipts \ {r} : /\ c.receipts[s] = b.receipts[s]
                                          /\ ReportedBy(c, s) = ReportedBy(b, s)
                                          /\ ArtifactsOf(c, s) = ArtifactsOf(b, s)
    /\ SameBinding(b.receipts[r], c.receipts[r])
    /\ c.receipts[r].findings = ReportedBy(c, r)
    /\ c.receipts[r].artifacts = ArtifactsOf(c, r)
    /\ c.receipts[r].output \in { r, "" }

LEMMA ReboundIsHandedIn ==
    ASSUME NEW b, NEW w, IsBundle(w), ReceiptsFollow(w), NEW r \in DOMAIN b.receipts,
           w.claim = b.claim, w.items = b.items, w.admissions = b.admissions,
           w.runtimeKey = b.runtimeKey, w.evidenceKey = b.evidenceKey, w.witness = b.witness,
           DOMAIN w.receipts = DOMAIN b.receipts,
           \A s \in DOMAIN b.receipts \ {r} : /\ w.receipts[s] = b.receipts[s]
                                              /\ ReportedBy(w, s) = ReportedBy(b, s)
                                              /\ ArtifactsOf(w, s) = ArtifactsOf(b, s),
           SameBinding(b.receipts[r], w.receipts[r]),
           NEW c, c = Rebind(w, r)
    PROVE  /\ HandedIn(b, c, r)
           /\ c.findings = w.findings /\ c.frames = w.frames /\ c.obligations = w.obligations
           /\ c.receipts[r].status = w.receipts[r].status
<1>1. PICK was, out : /\ was = w.receipts[r]
                      /\ out = IF w.receipts[r].status = "SUCCESS" THEN r ELSE ""
  OBVIOUS
<1>2. PICK fs, ws : fs = ReportedBy(w, r) /\ ws = ArtifactsOf(w, r)
  OBVIOUS
<1>3. PICK now : now = [was EXCEPT !.findings = fs, !.artifacts = ws, !.output = out]
  OBVIOUS
<1>4. GoodReceipt(r, was)
  BY <1>1 DEF ReceiptsFollow
<1>5. c = [w EXCEPT !.receipts = [w.receipts EXCEPT ![r] = now]]
  BY <1>1, <1>2, <1>4, <1>3 DEF Rebind, IsBundle, GoodReceipt
<1>6. PICK rs : rs = [w.receipts EXCEPT ![r] = now]
  OBVIOUS
<1>7. /\ c.claim = w.claim /\ c.items = w.items /\ c.admissions = w.admissions
      /\ c.runtimeKey = w.runtimeKey /\ c.evidenceKey = w.evidenceKey /\ c.witness = w.witness
      /\ c.findings = w.findings /\ c.frames = w.frames /\ c.obligations = w.obligations
      /\ c.receipts = rs
  BY <1>5, <1>6 DEF IsBundle
<1>8. \A s : ReportedBy(c, s) = ReportedBy(w, s) /\ ArtifactsOf(c, s) = ArtifactsOf(w, s)
  BY <1>7 DEF ReportedBy, ArtifactsOf
<1>9. /\ DOMAIN rs = DOMAIN w.receipts /\ rs[r] = now
      /\ \A s \in DOMAIN rs \ {r} : rs[s] = w.receipts[s]
  BY <1>6
<1>10. /\ SameBinding(was, now) /\ now.status = was.status
       /\ now.findings = fs /\ now.artifacts = ws /\ now.output = out
  <2>1. PICK u : u = [was EXCEPT !.findings = fs]
    OBVIOUS
  <2>2. PICK v : v = [u EXCEPT !.artifacts = ws]
    OBVIOUS
  <2>3. now = [v EXCEPT !.output = out]
    BY <1>3, <2>1, <2>2
  <2>4. SameBinding(was, u) /\ u.status = was.status /\ u.findings = fs /\ DOMAIN u = DOMAIN was
    BY <1>4, <2>1 DEF GoodReceipt, SameBinding
  <2>5. /\ SameBinding(was, v) /\ v.status = was.status /\ v.findings = fs /\ v.artifacts = ws
        /\ DOMAIN v = DOMAIN was
    BY <1>4, <2>2, <2>4 DEF GoodReceipt, SameBinding
  <2>6. /\ SameBinding(was, now) /\ now.status = was.status /\ now.findings = fs
        /\ now.artifacts = ws
    BY <1>4, <2>3, <2>5 DEF GoodReceipt, SameBinding
  <2>7. now.output = out
    BY <1>4, <2>3, <2>5 DEF GoodReceipt
  <2> QED BY <2>6, <2>7
<1>11. SameBinding(b.receipts[r], c.receipts[r])
  BY <1>1, <1>7, <1>9, <1>10 DEF SameBinding
<1>12. HandedIn(b, c, r)
  BY <1>1, <1>2, <1>7, <1>8, <1>9, <1>10, <1>11 DEF HandedIn
<1> QED BY <1>1, <1>7, <1>9, <1>10, <1>12

LEMMA HandedInIsCovered ==
    ASSUME NEW b, Covered(b), NEW c, NEW r, HandedIn(b, c, r), r # "same",
           \A x \in c.obligations : GoodObligation(x)
    PROVE  Covered(c)
<1>1. GoodItems(c.items)
  BY DEF Covered, HandedIn
<1>2. ASSUME NEW s \in DOMAIN c.receipts, s # r
      PROVE  Covers(c, s, c.receipts[s])
  <2>1. /\ s \in DOMAIN b.receipts /\ c.receipts[s] = b.receipts[s] /\ c.claim = b.claim
        /\ ReportedBy(c, s) = ReportedBy(b, s) /\ ArtifactsOf(c, s) = ArtifactsOf(b, s)
    BY <1>2 DEF HandedIn
  <2>2. Covers(b, s, b.receipts[s])
    BY <2>1 DEF Covered
  <2> QED BY <2>1, <2>2 DEF Covers
<1>3. Covers(c, r, c.receipts[r])
  <2>1. Covers(b, r, b.receipts[r])
    BY DEF Covered, HandedIn
  <2> QED BY <2>1 DEF Covers, HandedIn, SameBinding
<1> QED BY <1>1, <1>2, <1>3 DEF Covered

\* The work of one reviewer changes: what others reported does not.
LEMMA OthersWorkStays ==
    ASSUME NEW b, NEW w, NEW r,
           \/ w.findings = b.findings
           \/ \E f : f.by = r /\ w.findings = b.findings \cup {f}
           \/ w.findings = { f \in b.findings : f.by # r },
           \A x \in b.frames \cup w.frames : x.by # r => (x \in b.frames <=> x \in w.frames),
           \A x \in b.obligations \cup w.obligations :
               x.by # r => (x \in b.obligations <=> x \in w.obligations)
    PROVE  \A s : s # r => ReportedBy(w, s) = ReportedBy(b, s) /\ ArtifactsOf(w, s) = ArtifactsOf(b, s)
<1>1. \A s : s # r => ReportedBy(w, s) = ReportedBy(b, s)
  <2>1. CASE w.findings = b.findings
    BY <2>1 DEF ReportedBy
  <2>2. CASE \E f : f.by = r /\ w.findings = b.findings \cup {f}
    BY <2>2 DEF ReportedBy
  <2>3. CASE w.findings = { f \in b.findings : f.by # r }
    BY <2>3 DEF ReportedBy
  <2> QED BY <2>1, <2>2, <2>3
<1>2. \A s : s # r => ArtifactsOf(w, s) = ArtifactsOf(b, s)
  BY DEF ArtifactsOf
<1> QED BY <1>1, <1>2

LEMMA SameBindingItself == \A x : SameBinding(x, x)
BY DEF SameBinding

\* What follows is common to the deviations that only change what one reviewer reports.
LEMMA WorkChanges ==
    ASSUME NEW b, Reviewed(b), NEW r \in DOMAIN b.receipts, NEW w, IsBundle(w),
           w.claim = b.claim, w.items = b.items, w.admissions = b.admissions,
           w.runtimeKey = b.runtimeKey, w.evidenceKey = b.evidenceKey, w.witness = b.witness,
           w.receipts = b.receipts,
           \/ w.findings = b.findings
           \/ \E f : f.by = r /\ w.findings = b.findings \cup {f},
           \A x \in b.frames \cup w.frames : x.by # r => (x \in b.frames <=> x \in w.frames),
           \A x \in b.obligations \cup w.obligations :
               x.by # r => (x \in b.obligations <=> x \in w.obligations),
           NEW c, c = Rebind(w, r)
    PROVE  /\ HandedIn(b, c, r)
           /\ c.findings = w.findings /\ c.frames = w.frames /\ c.obligations = w.obligations
           /\ c.receipts[r].status = b.receipts[r].status
<1>1. ReceiptsFollow(w)
  BY ReceiptsKept DEF Reviewed
<1>2. \A s : s # r => ReportedBy(w, s) = ReportedBy(b, s) /\ ArtifactsOf(w, s) = ArtifactsOf(b, s)
  BY OthersWorkStays
<1>3. SameBinding(b.receipts[r], w.receipts[r])
  BY SameBindingItself
<1> QED BY <1>1, <1>2, <1>3, ReboundIsHandedIn

LEMMA ReviewerReportsEffect ==
    ASSUME Reviewed(bundle), NEW r \in Received(bundle), NEW t, NEW es, ReviewerReports(r, t, es),
           NEW b, b = bundle, NEW c, c = bundle'
    PROVE  /\ HandedIn(b, c, r) /\ c.receipts[r].status = b.receipts[r].status
           /\ b.findings \subseteq c.findings /\ c.findings # {}
           /\ c.frames = b.frames /\ c.obligations = b.obligations
<1>1. PICK sev : bundle' = Rebind([bundle EXCEPT !.findings = @ \cup { Finding(r, t, sev, es) }], r)
  BY DEF ReviewerReports, Deviate
<1>2. PICK f : f = Finding(r, t, sev, es)
  OBVIOUS
<1>3. PICK w : w = [b EXCEPT !.findings = b.findings \cup {f}]
  OBVIOUS
<1>4. c = Rebind(w, r)
  BY <1>1, <1>2, <1>3
<1>5. /\ IsBundle(w) /\ w.claim = b.claim /\ w.items = b.items /\ w.admissions = b.admissions
      /\ w.runtimeKey = b.runtimeKey /\ w.evidenceKey = b.evidenceKey /\ w.witness = b.witness
      /\ w.receipts = b.receipts /\ w.findings = b.findings \cup {f}
      /\ w.frames = b.frames /\ w.obligations = b.obligations
  BY <1>3 DEF Reviewed, IsBundle
<1>6. f.by = r
  BY <1>2 DEF Finding
<1>7. r \in DOMAIN b.receipts
  BY DEF Received
<1>8. /\ HandedIn(b, c, r)
      /\ c.findings = w.findings /\ c.frames = w.frames /\ c.obligations = w.obligations
      /\ c.receipts[r].status = b.receipts[r].status
  BY <1>4, <1>5, <1>6, <1>7, WorkChanges
<1> QED BY <1>5, <1>8

LEMMA FramesChange ==
    ASSUME NEW b, Reviewed(b), NEW r \in DOMAIN b.receipts, NEW v,
           \A x \in b.frames \cup v : x.by # r => (x \in b.frames <=> x \in v),
           NEW c, c = Rebind([b EXCEPT !.frames = v], r)
    PROVE  /\ HandedIn(b, c, r) /\ c.receipts[r].status = b.receipts[r].status
           /\ c.findings = b.findings /\ c.frames = v /\ c.obligations = b.obligations
<1>1. PICK w : w = [b EXCEPT !.frames = v]
  OBVIOUS
<1>2. /\ IsBundle(w) /\ w.claim = b.claim /\ w.items = b.items /\ w.admissions = b.admissions
      /\ w.runtimeKey = b.runtimeKey /\ w.evidenceKey = b.evidenceKey /\ w.witness = b.witness
      /\ w.receipts = b.receipts /\ w.findings = b.findings
      /\ w.frames = v /\ w.obligations = b.obligations
  BY <1>1 DEF Reviewed, IsBundle
<1>3. \A x \in b.frames \cup w.frames : x.by # r => (x \in b.frames <=> x \in w.frames)
  BY <1>2
<1>4. c = Rebind(w, r)
  BY <1>1
<1>5. /\ HandedIn(b, c, r)
      /\ c.findings = w.findings /\ c.frames = w.frames /\ c.obligations = w.obligations
      /\ c.receipts[r].status = b.receipts[r].status
  BY <1>2, <1>3, <1>4, WorkChanges
<1> QED BY <1>2, <1>5

LEMMA ObligationsChange ==
    ASSUME NEW b, Reviewed(b), NEW r \in DOMAIN b.receipts, NEW v,
           \A x \in b.obligations \cup v : x.by # r => (x \in b.obligations <=> x \in v),
           NEW c, c = Rebind([b EXCEPT !.obligations = v], r)
    PROVE  /\ HandedIn(b, c, r) /\ c.receipts[r].status = b.receipts[r].status
           /\ c.findings = b.findings /\ c.frames = b.frames /\ c.obligations = v
<1>1. PICK w : w = [b EXCEPT !.obligations = v]
  OBVIOUS
<1>2. /\ IsBundle(w) /\ w.claim = b.claim /\ w.items = b.items /\ w.admissions = b.admissions
      /\ w.runtimeKey = b.runtimeKey /\ w.evidenceKey = b.evidenceKey /\ w.witness = b.witness
      /\ w.receipts = b.receipts /\ w.findings = b.findings
      /\ w.frames = b.frames /\ w.obligations = v
  BY <1>1 DEF Reviewed, IsBundle
<1>3. \A x \in b.obligations \cup w.obligations :
          x.by # r => (x \in b.obligations <=> x \in w.obligations)
  BY <1>2
<1>4. c = Rebind(w, r)
  BY <1>1
<1>5. /\ HandedIn(b, c, r)
      /\ c.findings = w.findings /\ c.frames = w.frames /\ c.obligations = w.obligations
      /\ c.receipts[r].status = b.receipts[r].status
  BY <1>2, <1>3, <1>4, WorkChanges
<1> QED BY <1>2, <1>5

\* Obligation d is filed once and discharged.
Discharged(b, d) ==
    /\ Cardinality(Filed(b, d)) = 1
    /\ \E x \in Filed(b, d) : x.result \in Discharging[d[1]]

\* c differs from b in the work r handed in, which discharges no further obligation.
WorkDiffers(b, c, r) ==
    /\ HandedIn(b, c, r) /\ c.receipts[r].status = b.receipts[r].status
    /\ b.findings \subseteq c.findings
    /\ \A x \in c.obligations : GoodObligation(x)
    /\ \A d \in Due(b) : Discharged(c, d) => Discharged(b, d)

LEMMA SameObligations ==
    ASSUME NEW b, NEW c, c.obligations = b.obligations
    PROVE  \A d : Discharged(c, d) => Discharged(b, d)
<1>1. \A d : Filed(c, d) = Filed(b, d)
  BY DEF Filed
<1> QED BY <1>1 DEF Discharged

LEMMA ReportsDiffer ==
    ASSUME Reviewed(bundle), Covered(bundle), NEW r \in Received(bundle), NEW t, NEW es,
           ReviewerReports(r, t, es)
    PROVE  WorkDiffers(bundle, bundle', r) /\ bundle'.findings # {}
<1>1. PICK b, c : b = bundle /\ c = bundle'
  OBVIOUS
<1>2. /\ HandedIn(b, c, r) /\ c.receipts[r].status = b.receipts[r].status
      /\ b.findings \subseteq c.findings /\ c.findings # {}
      /\ c.frames = b.frames /\ c.obligations = b.obligations
  BY <1>1, ReviewerReportsEffect
<1>3. WorkDiffers(b, c, r)
  BY <1>1, <1>2, SameObligations DEF WorkDiffers, Covered
<1> QED BY <1>1, <1>2, <1>3

LEMMA FramesDiffer ==
    ASSUME Reviewed(bundle), Covered(bundle), NEW r \in Received(bundle), NEW a,
           FrameDeviates(r, a)
    PROVE  WorkDiffers(bundle, bundle', r)
<1>1. PICK b, c : b = bundle /\ c = bundle'
  OBVIOUS
<1>2. PICK own : own = FramesBy(b, r, a)
  OBVIOUS
<1>3. \A x \in own : x.by = r
  BY <1>2 DEF FramesBy
<1>4. PICK fs : /\ c = Rebind([b EXCEPT !.frames = (b.frames \ own) \cup fs], r)
                /\ \A x \in fs : x.by = r
  <2> DEFINE read(x) == [by |-> r, atom |-> a, reading |-> x]
  <2>1. \E fs \in { {}, { read("other") }, { read("UNKNOWN") }, own \cup { read("other") } } :
          c = Rebind([b EXCEPT !.frames = (@ \ own) \cup fs], r)
    BY <1>1, <1>2 DEF FrameDeviates, Deviate
  <2>2. PICK fs \in { {}, { read("other") }, { read("UNKNOWN") }, own \cup { read("other") } } :
          c = Rebind([b EXCEPT !.frames = (@ \ own) \cup fs], r)
    BY <2>1
  <2>3. \A x \in fs : x.by = r
    BY <1>3, <2>2
  <2>4. c = Rebind([b EXCEPT !.frames = (b.frames \ own) \cup fs], r)
    BY <2>2
  <2> QED BY <2>3, <2>4
<1>5. PICK v : v = (b.frames \ own) \cup fs
  OBVIOUS
<1>6. \A x \in b.frames \cup v : x.by # r => (x \in b.frames <=> x \in v)
  BY <1>3, <1>4, <1>5
<1>7. c = Rebind([b EXCEPT !.frames = v], r) /\ r \in DOMAIN b.receipts /\ Reviewed(b) /\ Covered(b)
  BY <1>1, <1>4, <1>5 DEF Received
<1>8. /\ HandedIn(b, c, r) /\ c.receipts[r].status = b.receipts[r].status
      /\ c.findings = b.findings /\ c.obligations = b.obligations
  BY <1>6, <1>7, FramesChange
<1>9. WorkDiffers(b, c, r)
  BY <1>7, <1>8, SameObligations DEF WorkDiffers, Covered
<1> QED BY <1>1, <1>9

LEMMA DueAreTriples == \A b : \A d \in Due(b) : d = << d[1], d[2], d[3] >>
<1> SUFFICES ASSUME NEW b, NEW d \in Due(b)
             PROVE  d = << d[1], d[2], d[3] >>
  OBVIOUS
<1>1. PICK ts, es : ts = DOMAIN ObligationOwner /\ es = {""} \cup UNION { b.claim.cites[a] : a \in b.claim.atoms }
  OBVIOUS
<1>2. Due(b) \subseteq ts \X b.claim.atoms \X es
  BY <1>1 DEF Due, ObligationOwner
<1> QED BY <1>2

LEMMA ObligationsDiffer ==
    ASSUME Reviewed(bundle), Covered(bundle), NEW d \in Due(bundle),
           ObligationOwner[d[1]] \in Received(bundle), ObligationDeviates(d)
    PROVE  WorkDiffers(bundle, bundle', ObligationOwner[d[1]])
<1>1. PICK b, c, r : b = bundle /\ c = bundle' /\ r = ObligationOwner[d[1]]
  OBVIOUS
<1>2. PICK filed : filed = Filed(b, d)
  OBVIOUS
<1>3. PICK failed : failed = { [x EXCEPT !.result = "UNRESOLVED"] : x \in filed }
  OBVIOUS
<1>4. PICK os \in { {}, failed } : c = Rebind([b EXCEPT !.obligations = (@ \ filed) \cup os], r)
  BY <1>1, <1>2, <1>3 DEF ObligationDeviates, Deviate
<1>5. PICK v : v = (b.obligations \ filed) \cup os
  OBVIOUS
<1>6. /\ c = Rebind([b EXCEPT !.obligations = v], r) /\ r \in DOMAIN b.receipts /\ Reviewed(b) /\ Covered(b)
      /\ d \in Due(b)
  BY <1>1, <1>4, <1>5 DEF Received
<1>7. \A x \in filed : /\ x \in b.obligations /\ GoodObligation(x)
                       /\ x.by = r /\ x.type = d[1] /\ x.atom = d[2] /\ x.ev = d[3]
  BY <1>1, <1>2, <1>6 DEF Filed, Covered
<1>8. \A x \in failed : /\ GoodObligation(x) /\ x.result = "UNRESOLVED"
                        /\ x.by = r /\ x.type = d[1] /\ x.atom = d[2] /\ x.ev = d[3]
  <2>1. ASSUME NEW y \in filed, NEW x, x = [y EXCEPT !.result = "UNRESOLVED"]
        PROVE  /\ GoodObligation(x) /\ x.result = "UNRESOLVED"
               /\ x.by = r /\ x.type = d[1] /\ x.atom = d[2] /\ x.ev = d[3]
    <3>1. x = [by |-> y.by, type |-> y.type, atom |-> y.atom, ev |-> y.ev, refs |-> y.refs,
               result |-> "UNRESOLVED"]
      BY <1>7, <2>1 DEF GoodObligation
    <3> QED BY <1>7, <3>1 DEF GoodObligation
  <2> QED BY <1>3, <2>1
<1>9. \A x \in b.obligations \cup v : x.by # r => (x \in b.obligations <=> x \in v)
  BY <1>4, <1>5, <1>7, <1>8
<1>10. Reviewed(b) /\ r \in DOMAIN b.receipts /\ c = Rebind([b EXCEPT !.obligations = v], r)
  BY <1>6
<1>11. /\ HandedIn(b, c, r) /\ c.receipts[r].status = b.receipts[r].status
       /\ c.findings = b.findings /\ c.frames = b.frames /\ c.obligations = v
  BY ONLY <1>9, <1>10, ObligationsChange
<1>12. \A x \in v : GoodObligation(x)
  BY <1>4, <1>5, <1>6, <1>8 DEF Covered
<1>13. ASSUME NEW e \in Due(b), Discharged(c, e)
       PROVE  Discharged(b, e)
  <2>1. CASE e = d
    <3>1. PICK x \in Filed(c, d) : x.result \in Discharging[d[1]]
      BY <1>13, <2>1 DEF Discharged
    <3>2. x \in v /\ x \notin b.obligations \ filed
      BY <1>2, <1>11, <3>1 DEF Filed
    <3>3. x.result = "UNRESOLVED"
      BY <1>4, <1>5, <1>8, <3>2
    <3>4. d[1] \in DOMAIN ObligationOwner
      BY <1>6 DEF Due, ObligationOwner
    <3> QED BY <3>1, <3>3, <3>4 DEF Discharging, ObligationOwner
  <2>2. CASE e # d
    <3>1. e = << e[1], e[2], e[3] >> /\ d = << d[1], d[2], d[3] >>
      BY <1>6, DueAreTriples
    <3>2. e[1] # d[1] \/ e[2] # d[2] \/ e[3] # d[3]
      BY <2>2, <3>1
    <3>3. \A x : x.type = e[1] /\ x.atom = e[2] /\ x.ev = e[3] => (x \in v <=> x \in b.obligations)
      BY <1>4, <1>5, <1>7, <1>8, <3>2
    <3>4. Filed(c, e) = Filed(b, e)
      BY <1>11, <3>3 DEF Filed
    <3> QED BY <1>13, <3>4 DEF Discharged
  <2> QED BY <2>1, <2>2
<1>14. WorkDiffers(b, c, r)
  BY <1>11, <1>12, <1>13 DEF WorkDiffers
<1> QED BY <1>1, <1>14

LEMMA StraysDiffer ==
    ASSUME Reviewed(bundle), Covered(bundle), NEW r \in Received(bundle), NEW a,
           StrayArtifact(r, a)
    PROVE  WorkDiffers(bundle, bundle', r)
<1>1. PICK b, c : b = bundle /\ c = bundle'
  OBVIOUS
<1>2. r \in DOMAIN b.receipts /\ Reviewed(b) /\ Covered(b)
  BY <1>1 DEF Received
<1>3. CASE c = Rebind([b EXCEPT !.frames = @ \cup { [by |-> r, atom |-> a, reading |-> "plain"] }], r)
  <2>1. PICK v : v = b.frames \cup { [by |-> r, atom |-> a, reading |-> "plain"] }
    OBVIOUS
  <2>2. c = Rebind([b EXCEPT !.frames = v], r)
    BY <1>3, <2>1
  <2>4. \A x \in b.frames \cup v : x.by # r => (x \in b.frames <=> x \in v)
    BY <2>1
  <2>5. /\ HandedIn(b, c, r) /\ c.receipts[r].status = b.receipts[r].status
        /\ c.findings = b.findings /\ c.frames = v /\ c.obligations = b.obligations
    BY ONLY <1>2, <2>2, <2>4, FramesChange
  <2>7. WorkDiffers(b, c, r)
    BY <1>2, <2>5, SameObligations DEF WorkDiffers, Covered
  <2> QED BY <1>1, <2>7
<1>4. ASSUME NEW t, r # ObligationOwner[t],
             c = Rebind([b EXCEPT !.obligations = @ \cup
                   { [by |-> r, type |-> t, atom |-> a, ev |-> "", refs |-> {},
                      result |-> "UNRESOLVED"] }], r)
      PROVE  WorkDiffers(bundle, bundle', r)
  <2>1. PICK y : y = [by |-> r, type |-> t, atom |-> a, ev |-> "", refs |-> {},
                      result |-> "UNRESOLVED"]
    OBVIOUS
  <2>2. PICK v : v = b.obligations \cup {y}
    OBVIOUS
  <2>3. c = Rebind([b EXCEPT !.obligations = v], r)
    BY <1>4, <2>1, <2>2
  <2>5. y.by = r /\ y.type = t /\ GoodObligation(y)
    BY <2>1 DEF GoodObligation
  <2>6. \A x \in b.obligations \cup v : x.by # r => (x \in b.obligations <=> x \in v)
    BY <2>2, <2>5
  <2>8. /\ HandedIn(b, c, r) /\ c.receipts[r].status = b.receipts[r].status
        /\ c.findings = b.findings /\ c.frames = b.frames /\ c.obligations = v
    BY ONLY <1>2, <2>3, <2>6, ObligationsChange
  <2>9. \A d : Filed(c, d) = Filed(b, d)
    <3>1. c.obligations = b.obligations \cup {y} /\ y.by # ObligationOwner[y.type]
      BY <1>4, <2>2, <2>5, <2>8
    <3> QED BY ONLY <3>1 DEF Filed
  <2>10. \A x \in v : GoodObligation(x)
    BY <1>2, <2>2, <2>5 DEF Covered
  <2>11. WorkDiffers(b, c, r)
    BY <2>8, <2>9, <2>10 DEF WorkDiffers, Discharged
  <2> QED BY <1>1, <2>11
<1> QED BY <1>1, <1>3, <1>4 DEF StrayArtifact, Deviate

\* A reviewer whose invocation is closed with a failure.
LEMMA FailureShows ==
    ASSUME Reviewed(bundle), Covered(bundle), NEW r \in Received(bundle), ReviewerFails(r)
    PROVE  /\ HandedIn(bundle, bundle', r)
           /\ bundle'.receipts[r].status # "SUCCESS"
           /\ \A x \in bundle'.obligations : GoodObligation(x)
<1>1. PICK b, c : b = bundle /\ c = bundle'
  OBVIOUS
<1>2. PICK s \in { "FAILED", "TIMEOUT", "LOOP_DETECTED" } :
        c = Rebind([b EXCEPT !.findings = { f \in @ : f.by # r },
                             !.frames = { x \in @ : x.by # r },
                             !.obligations = { x \in @ : x.by # r },
                             !.receipts[r].status = s], r)
  BY <1>1 DEF ReviewerFails, Deviate
<1>3. PICK fs : fs = { f \in b.findings : f.by # r }
  OBVIOUS
<1>4. PICK ws : ws = { x \in b.frames : x.by # r }
  OBVIOUS
<1>5. PICK os : os = { x \in b.obligations : x.by # r }
  OBVIOUS
<1>6. PICK rs : rs = [b.receipts EXCEPT ![r].status = s]
  OBVIOUS
<1>7. PICK w : w = [b EXCEPT !.findings = fs, !.frames = ws, !.obligations = os, !.receipts = rs]
  OBVIOUS
<1>8. Reviewed(b) /\ Covered(b) /\ r \in DOMAIN b.receipts
  BY <1>1 DEF Received
<1>9. w = [b EXCEPT !.findings = { f \in @ : f.by # r },
                    !.frames = { x \in @ : x.by # r },
                    !.obligations = { x \in @ : x.by # r },
                    !.receipts[r].status = s]
  BY <1>3, <1>4, <1>5, <1>6, <1>7, <1>8 DEF Reviewed, IsBundle
<1>10. c = Rebind(w, r)
  BY <1>2, <1>9
<1>11. /\ IsBundle(w) /\ w.claim = b.claim /\ w.items = b.items /\ w.admissions = b.admissions
       /\ w.runtimeKey = b.runtimeKey /\ w.evidenceKey = b.evidenceKey /\ w.witness = b.witness
       /\ w.receipts = rs /\ w.findings = fs /\ w.frames = ws /\ w.obligations = os
  BY <1>7, <1>8 DEF Reviewed, IsBundle
<1>12. PICK x, y : x = b.receipts[r] /\ y = [x EXCEPT !.status = s]
  OBVIOUS
<1>13. GoodReceipt(r, x)
  BY <1>8, <1>12 DEF Reviewed, ReceiptsFollow
<1>14. y.status = s /\ s # "SUCCESS" /\ SameBinding(x, y)
  BY <1>2, <1>12, <1>13 DEF GoodReceipt, SameBinding
<1>15. GoodReceipt(r, y)
  BY <1>12, <1>13, <1>14 DEF GoodReceipt
<1>16. /\ DOMAIN rs = DOMAIN b.receipts /\ rs[r] = y
       /\ \A q \in DOMAIN rs \ {r} : rs[q] = b.receipts[q]
  BY <1>6, <1>8, <1>12
<1>17. ReceiptsFollow(w)
  BY <1>8, <1>11, <1>15, <1>16 DEF Reviewed, ReceiptsFollow
<1>18. \A q : q # r => ReportedBy(w, q) = ReportedBy(b, q) /\ ArtifactsOf(w, q) = ArtifactsOf(b, q)
  <2>1. w.findings = { f \in b.findings : f.by # r }
    BY <1>3, <1>11
  <2>2. \A v \in b.frames \cup w.frames : v.by # r => (v \in b.frames <=> v \in w.frames)
    BY <1>4, <1>11
  <2>3. \A v \in b.obligations \cup w.obligations :
            v.by # r => (v \in b.obligations <=> v \in w.obligations)
    BY <1>5, <1>11
  <2> QED BY ONLY <2>1, <2>2, <2>3, OthersWorkStays
<1>19. /\ HandedIn(b, c, r) /\ c.obligations = w.obligations
       /\ c.receipts[r].status = w.receipts[r].status
  <2>1. \A q \in DOMAIN b.receipts \ {r} : /\ w.receipts[q] = b.receipts[q]
                                           /\ ReportedBy(w, q) = ReportedBy(b, q)
                                           /\ ArtifactsOf(w, q) = ArtifactsOf(b, q)
    BY <1>11, <1>16, <1>18
  <2>2. SameBinding(b.receipts[r], w.receipts[r]) /\ DOMAIN w.receipts = DOMAIN b.receipts
    BY <1>11, <1>12, <1>14, <1>16
  <2> QED BY ONLY <1>8, <1>10, <1>11, <1>17, <2>1, <2>2, ReboundIsHandedIn
<1>20. \A v \in c.obligations : GoodObligation(v)
  BY <1>5, <1>8, <1>11, <1>19 DEF Covered
<1> QED BY <1>1, <1>11, <1>14, <1>16, <1>19, <1>20

\* Receipts are lost, or replaced by other receipts of the same reviewers.
LEMMA OnlyReceiptsDiffer ==
    ASSUME NEW b, Reviewed(b), NEW rs, NEW c, c = [b EXCEPT !.receipts = rs]
    PROVE  /\ c.claim = b.claim /\ c.items = b.items /\ c.admissions = b.admissions
           /\ c.runtimeKey = b.runtimeKey /\ c.evidenceKey = b.evidenceKey
           /\ c.witness = b.witness /\ c.findings = b.findings /\ c.frames = b.frames
           /\ c.obligations = b.obligations /\ c.receipts = rs
           /\ \A r : ReportedBy(c, r) = ReportedBy(b, r) /\ ArtifactsOf(c, r) = ArtifactsOf(b, r)
<1>1. /\ c.claim = b.claim /\ c.items = b.items /\ c.admissions = b.admissions
      /\ c.runtimeKey = b.runtimeKey /\ c.evidenceKey = b.evidenceKey
      /\ c.witness = b.witness /\ c.findings = b.findings /\ c.frames = b.frames
      /\ c.obligations = b.obligations /\ c.receipts = rs
  BY DEF Reviewed, IsBundle
<1>2. \A r : ReportedBy(c, r) = ReportedBy(b, r) /\ ArtifactsOf(c, r) = ArtifactsOf(b, r)
  BY <1>1 DEF ReportedBy, ArtifactsOf
<1> QED BY <1>1, <1>2

LEMMA ReceiptsAreCovered ==
    ASSUME NEW b, Reviewed(b), Covered(b), NEW rs, NEW c, c = [b EXCEPT !.receipts = rs],
           \A r \in DOMAIN rs : Covers(b, r, rs[r])
    PROVE  Covered(c)
<1>1. /\ c.claim = b.claim /\ c.items = b.items /\ c.obligations = b.obligations
      /\ c.receipts = rs
      /\ \A r : ReportedBy(c, r) = ReportedBy(b, r) /\ ArtifactsOf(c, r) = ArtifactsOf(b, r)
  BY OnlyReceiptsDiffer
<1>2. \A r \in DOMAIN c.receipts : Covers(c, r, c.receipts[r])
  BY <1>1 DEF Covers
<1> QED BY <1>1, <1>2 DEF Covered

LEMMA LostIsCovered ==
    ASSUME Reviewed(bundle), Covered(bundle), NEW r \in Received(bundle), ReceiptLost(r)
    PROVE  Covered(bundle') /\ r \notin Received(bundle') /\ bundle'.claim = bundle.claim
<1>1. PICK b, c : b = bundle /\ c = bundle'
  OBVIOUS
<1>2. PICK rs : rs = [s \in DOMAIN b.receipts \ {r} |-> b.receipts[s]]
  OBVIOUS
<1>3. c = [b EXCEPT !.receipts = rs]
  BY <1>1, <1>2 DEF ReceiptLost, Deviate, Received
<1>4. \A s \in DOMAIN rs : Covers(b, s, rs[s])
  BY <1>1, <1>2 DEF Covered
<1>5. c.receipts = rs /\ c.claim = b.claim
  BY <1>1, <1>3, OnlyReceiptsDiffer
<1>6. Covered(c)
  BY <1>1, <1>3, <1>4, ReceiptsAreCovered
<1> QED BY <1>1, <1>2, <1>5, <1>6 DEF Received

LEMMA TripleChanged ==
    ASSUME NEW x, x = << x[1], x[2], x[3] >>, NEW y
    PROVE  /\ [x EXCEPT ![1] = y] = << y, x[2], x[3] >>
           /\ [x EXCEPT ![3] = y] = << x[1], x[2], y >>
           /\ [x EXCEPT ![1] = y][1] = y /\ [x EXCEPT ![3] = y][1] = x[1]
           /\ \A z \in { [x EXCEPT ![1] = y], [x EXCEPT ![3] = y] } : z = << z[1], z[2], z[3] >>
<1>1. PICK x1, x2, x3 : x1 = x[1] /\ x2 = x[2] /\ x3 = x[3]
  OBVIOUS
<1>2. x = << x1, x2, x3 >>
  BY <1>1
<1>3. [x EXCEPT ![1] = y] = << y, x2, x3 >> /\ [x EXCEPT ![3] = y] = << x1, x2, y >>
  BY ONLY <1>2
<1>4. PICK u, v : u = << y, x2, x3 >> /\ v = << x1, x2, y >>
  OBVIOUS
<1>5. u = << u[1], u[2], u[3] >> /\ v = << v[1], v[2], v[3] >> /\ u[1] = y /\ v[1] = x1
  BY <1>4
<1> QED BY <1>1, <1>3, <1>4, <1>5

\* The ways a receipt may deviate.
Deviant(r, was, now) ==
    \/ ~now.signed \/ now.context # "ISOLATED" \/ now.prompt # "current"
    \/ /\ now.claim = 1 /\ now.invoked = [was.invoked EXCEPT ![1] = 1]
       /\ << now.signed, now.ev, now.prompt, now.context, now.invocation, now.modelBound,
             now.response >>
            = << was.signed, was.ev, was.prompt, was.context, was.invocation, was.modelBound,
                 was.response >>
    \/ /\ now.invocation = "scope"
       /\ << now.signed, now.claim, now.ev, now.prompt, now.context, now.invoked, now.modelBound,
             now.response >>
            = << was.signed, was.claim, was.ev, was.prompt, was.context, was.invoked,
                 was.modelBound, was.response >>
    \/ /\ now.modelBound = FALSE \/ now.response = "scope"
       /\ now.modelBound \in { FALSE, was.modelBound } /\ now.response \in { "scope", was.response }
       /\ << now.signed, now.claim, now.ev, now.prompt, now.context, now.invocation, now.invoked >>
            = << was.signed, was.claim, was.ev, was.prompt, was.context, was.invocation,
                 was.invoked >>

LEMMA ReceiptDiffers ==
    ASSUME Reviewed(bundle), Covered(bundle), NEW r \in Received(bundle), ReceiptDeviates(r)
    PROVE  \E now : /\ bundle' = [bundle EXCEPT !.receipts = [bundle.receipts EXCEPT ![r] = now]]
                    /\ Deviant(r, bundle.receipts[r], now)
                    /\ now.status = bundle.receipts[r].status
                    /\ now.output = bundle.receipts[r].output
                    /\ Covers(bundle, r, now)
<1>1. PICK b, was : b = bundle /\ was = bundle.receipts[r]
  OBVIOUS
<1>2. GoodReceipt(r, was) /\ Covers(b, r, was) /\ r \in DOMAIN b.receipts
  BY <1>1 DEF Received, Reviewed, ReceiptsFollow, Covered
<1>3. PICK now \in { [was EXCEPT !.signed = FALSE], [was EXCEPT !.context = "SHARED"],
                     [was EXCEPT !.prompt = "previous", !.invoked[3] = "previous"],
                     [was EXCEPT !.claim = 1, !.invoked[1] = 1],
                     [was EXCEPT !.invocation = "scope"],
                     [was EXCEPT !.modelBound = FALSE], [was EXCEPT !.response = "scope"] } :
        bundle' = [bundle EXCEPT !.receipts[r] = now]
  BY Zenon, <1>1 DEF ReceiptDeviates, Deviate
<1>4. bundle' = [bundle EXCEPT !.receipts = [bundle.receipts EXCEPT ![r] = now]]
  BY <1>3
<1>5. Deviant(r, was, now) /\ now.status = was.status /\ now.output = was.output
      /\ Covers(b, r, now)
  <2>1. CASE now = [was EXCEPT !.signed = FALSE]
    BY <1>2, <2>1 DEF GoodReceipt, Covers, Deviant
  <2>2. CASE now = [was EXCEPT !.context = "SHARED"]
    BY <1>2, <2>2 DEF GoodReceipt, Covers, Deviant
  <2>3. CASE now = [was EXCEPT !.prompt = "previous", !.invoked[3] = "previous"]
    <3>1. PICK i : i = [was.invoked EXCEPT ![3] = "previous"]
      OBVIOUS
    <3>2. PICK x : x = [was EXCEPT !.prompt = "previous"]
      OBVIOUS
    <3>3. /\ DOMAIN x = DOMAIN was /\ x.invoked = was.invoked /\ x.prompt = "previous"
          /\ x.status = was.status /\ x.output = was.output /\ x.findings = was.findings
          /\ x.artifacts = was.artifacts /\ x.claim = was.claim
      BY <1>2, <3>2 DEF GoodReceipt
    <3>4. now = [x EXCEPT !.invoked = i]
      BY <1>2, <2>3, <3>1, <3>2, <3>3 DEF GoodReceipt
    <3>5. /\ now.invoked = i /\ now.prompt = "previous"
          /\ now.status = was.status /\ now.output = was.output /\ now.findings = was.findings
          /\ now.artifacts = was.artifacts /\ now.claim = was.claim
      BY <1>2, <3>3, <3>4 DEF GoodReceipt
    <3>7. i = << i[1], i[2], i[3] >> /\ i[1] = was.invoked[1]
      <4>1. PICK v : v = was.invoked
        OBVIOUS
      <4>2. v = << v[1], v[2], v[3] >>
        BY <1>2, <4>1 DEF Covers
      <4>3. i = [v EXCEPT ![3] = "previous"]
        BY <3>1, <4>1
      <4>4. i = << i[1], i[2], i[3] >> /\ i[1] = v[1]
        BY ONLY <4>2, <4>3, TripleChanged
      <4> QED BY <4>1, <4>4
    <3> QED BY <1>2, <3>5, <3>7 DEF Covers, Deviant
  <2>4. CASE now = [was EXCEPT !.claim = 1, !.invoked[1] = 1]
    <3>1. PICK i : i = [was.invoked EXCEPT ![1] = 1]
      OBVIOUS
    <3>2. PICK x : x = [was EXCEPT !.claim = 1]
      OBVIOUS
    <3>3. /\ DOMAIN x = DOMAIN was /\ x.invoked = was.invoked /\ x.claim = 1
          /\ x.status = was.status /\ x.output = was.output /\ x.findings = was.findings
          /\ x.artifacts = was.artifacts
          /\ x.signed = was.signed /\ x.ev = was.ev /\ x.prompt = was.prompt
          /\ x.context = was.context /\ x.invocation = was.invocation
          /\ x.modelBound = was.modelBound /\ x.response = was.response
      BY <1>2, <3>2 DEF GoodReceipt
    <3>4. now = [x EXCEPT !.invoked = i]
      BY <1>2, <2>4, <3>1, <3>2, <3>3 DEF GoodReceipt
    <3>5. /\ now.invoked = i /\ now.claim = 1
          /\ now.status = was.status /\ now.output = was.output /\ now.findings = was.findings
          /\ now.artifacts = was.artifacts
          /\ now.signed = was.signed /\ now.ev = was.ev /\ now.prompt = was.prompt
          /\ now.context = was.context /\ now.invocation = was.invocation
          /\ now.modelBound = was.modelBound /\ now.response = was.response
      BY <1>2, <3>3, <3>4 DEF GoodReceipt
    <3>6. i = << i[1], i[2], i[3] >> /\ i[1] = 1
      <4>1. PICK v : v = was.invoked
        OBVIOUS
      <4>2. v = << v[1], v[2], v[3] >>
        BY <1>2, <4>1 DEF Covers
      <4>3. i = [v EXCEPT ![1] = 1]
        BY <3>1, <4>1
      <4>4. i = << i[1], i[2], i[3] >> /\ i[1] = 1
        BY ONLY <4>2, <4>3, TripleChanged
      <4> QED BY <4>4
    <3>7. Covers(b, r, now)
      BY <1>2, <3>5, <3>6 DEF Covers
    <3>8. Deviant(r, was, now)
      BY <3>1, <3>5 DEF Deviant
    <3> QED BY <3>5, <3>7, <3>8
  <2>5. CASE now = [was EXCEPT !.invocation = "scope"]
    BY <1>2, <2>5 DEF GoodReceipt, Covers, Deviant
  <2>6. CASE now = [was EXCEPT !.modelBound = FALSE]
    BY <1>2, <2>6 DEF GoodReceipt, Covers, Deviant
  <2>7. CASE now = [was EXCEPT !.response = "scope"]
    BY <1>2, <2>7 DEF GoodReceipt, Covers, Deviant
  <2> QED BY <1>3, <2>1, <2>2, <2>3, <2>4, <2>5, <2>6, <2>7
<1> QED BY <1>1, <1>4, <1>5

LEMMA OutputsChange ==
    ASSUME Reviewed(bundle), Covered(bundle), NEW qs, SameOutput(qs)
    PROVE  \E rs : /\ bundle' = [bundle EXCEPT !.receipts = rs]
                   /\ DOMAIN rs = DOMAIN bundle.receipts
                   /\ \A r \in DOMAIN rs :
                         /\ SameBinding(bundle.receipts[r], rs[r])
                         /\ rs[r].status = bundle.receipts[r].status
                         /\ Covers(bundle, r, rs[r])
                         /\ rs[r].output = IF r \in qs /\ bundle.receipts[r].status = "SUCCESS"
                                           THEN "same" ELSE bundle.receipts[r].output
<1>1. PICK b : b = bundle
  OBVIOUS
<1>2. PICK same : same = { r \in qs \cap Received(b) : b.receipts[r].status = "SUCCESS" }
  OBVIOUS
<1>3. PICK rs : rs = [r \in Received(b) |-> IF r \in same
                                            THEN [b.receipts[r] EXCEPT !.output = "same"]
                                            ELSE b.receipts[r]]
  OBVIOUS
<1>4. /\ bundle' = [b EXCEPT !.receipts = rs]
      /\ \A r \in same : ArtifactsOf(b, r) = {}
  BY <1>1, <1>2, <1>3 DEF SameOutput, Deviate
<1>5. ASSUME NEW r \in DOMAIN rs
      PROVE  /\ SameBinding(b.receipts[r], rs[r])
             /\ rs[r].status = b.receipts[r].status
             /\ Covers(b, r, rs[r])
             /\ rs[r].output = IF r \in qs /\ b.receipts[r].status = "SUCCESS"
                               THEN "same" ELSE b.receipts[r].output
  <2>1. PICK x, y : x = b.receipts[r] /\ y = rs[r]
    OBVIOUS
  <2>2. GoodReceipt(r, x) /\ Covers(b, r, x) /\ r \in Received(b)
    BY <1>1, <1>3, <2>1 DEF Received, Reviewed, ReceiptsFollow, Covered
  <2>3. CASE r \in same
    <3>1. y = [x EXCEPT !.output = "same"]
      BY <1>3, <2>1, <2>2, <2>3
    <3>2. SameBinding(x, y) /\ y.status = x.status /\ y.output = "same"
          /\ y.findings = x.findings /\ y.artifacts = x.artifacts
      BY <2>2, <3>1 DEF GoodReceipt, SameBinding
    <3>3. ArtifactsOf(b, r) = {}
      BY <1>4, <2>3
    <3>4. Covers(b, r, y)
      BY <2>2, <3>2, <3>3 DEF Covers, SameBinding
    <3> QED BY <1>2, <2>1, <2>3, <3>2, <3>4
  <2>4. CASE r \notin same
    BY <1>2, <1>3, <2>1, <2>2, <2>4, SameBindingItself
  <2> QED BY <2>3, <2>4
<1>6. DOMAIN rs = DOMAIN b.receipts
  BY <1>3 DEF Received
<1> QED BY <1>1, <1>4, <1>5, <1>6

LEMMA ReviewersAreNamed ==
    \A p : \A r \in RequiredReviewers(p) : r # "same" /\ r # ""
BY DEF RequiredReviewers, BaseReviewers, SemanticReviewers

\* The clean review is covered, and a change of the evidence, its admissions, the keys or
\* the witness layers leaves the receipts as they are.
LEMMA CleanIsCovered ==
    ASSUME NEW c \in Claims
    PROVE  Covered(CleanBundle(c))
<1>1. PICK k : k = CleanBundle(c)
  OBVIOUS
<1>2. /\ k.claim = c
      /\ k.items = [e \in Evidence |-> [version |-> 0, group |-> Group[e], source |-> e,
                                        origin |-> Origin[e], flagged |-> FALSE]]
      /\ \A x \in k.obligations : \E d : x = CleanObligation(d)
      /\ \A r \in DOMAIN k.receipts :
            /\ k.receipts[r].findings = ReportedBy(k, r)
            /\ k.receipts[r].artifacts = ArtifactsOf(k, r)
            /\ k.receipts[r].output = r
            /\ k.receipts[r].claim = c.version
            /\ k.receipts[r].invoked = << c.version, [e \in Evidence |-> 0], "current" >>
  BY <1>1, CleanIsReviewed
<1>3. GoodItems(k.items)
  <2>1. PICK is : is = k.items
    OBVIOUS
  <2>2. is = [e \in Evidence |-> [version |-> 0, group |-> Group[e], source |-> e,
                                  origin |-> Origin[e], flagged |-> FALSE]]
    BY <1>2, <2>1
  <2>3. DOMAIN is = Evidence
    BY <2>2
  <2>4. \A e \in Evidence : is[e] = [version |-> 0, group |-> Group[e], source |-> e,
                                     origin |-> Origin[e], flagged |-> FALSE]
    BY <2>2
  <2>5. \A e \in DOMAIN is :
          /\ is[e] = [version |-> is[e].version, group |-> is[e].group,
                      source |-> is[e].source, origin |-> is[e].origin,
                      flagged |-> is[e].flagged]
          /\ is[e].version = 0
    BY <2>3, <2>4
  <2> QED BY <2>1, <2>3, <2>5 DEF GoodItems
<1>4. \A x \in k.obligations : GoodObligation(x)
  BY <1>2 DEF GoodObligation, CleanObligation
<1>5. ASSUME NEW r \in DOMAIN k.receipts
      PROVE  Covers(k, r, k.receipts[r])
  <2>1. PICK x : x = k.receipts[r]
    OBVIOUS
  <2>2. PICK v : v = [e \in Evidence |-> 0]
    OBVIOUS
  <2>3. /\ x.findings = ReportedBy(k, r) /\ x.artifacts = ArtifactsOf(k, r)
        /\ x.output = r /\ x.claim = c.version /\ x.invoked = << c.version, v, "current" >>
    BY <1>2, <2>1, <2>2
  <2>4. r # "same"
    <3>1. Reviewed(k)
      BY <1>1, CleanIsReviewed
    <3> QED BY <3>1, ReviewersAreNamed DEF Reviewed, ReceiptsFollow
  <2> QED BY <1>2, <2>1, <2>3, <2>4 DEF Covers
<1> QED BY <1>1, <1>3, <1>4, <1>5 DEF Covered

LEMMA ItemsAreCovered ==
    ASSUME NEW b, Reviewed(b), Covered(b), NEW v, GoodItems(v), NEW c, c = [b EXCEPT !.items = v]
    PROVE  Covered(c)
<1>1. /\ c.claim = b.claim /\ c.receipts = b.receipts /\ c.findings = b.findings
      /\ c.frames = b.frames /\ c.obligations = b.obligations /\ c.items = v
  BY DEF Reviewed, IsBundle
<1>2. \A r : ReportedBy(c, r) = ReportedBy(b, r) /\ ArtifactsOf(c, r) = ArtifactsOf(b, r)
  BY <1>1 DEF ReportedBy, ArtifactsOf
<1>3. \A r \in DOMAIN b.receipts : Covers(b, r, b.receipts[r])
  BY DEF Covered
<1>4. \A r \in DOMAIN c.receipts : Covers(c, r, c.receipts[r])
  BY <1>1, <1>2, <1>3 DEF Covers
<1> QED BY <1>1, <1>4 DEF Covered

LEMMA RestIsCovered ==
    ASSUME NEW b, Reviewed(b), Covered(b), NEW v, NEW c,
           \/ c = [b EXCEPT !.admissions = v]
           \/ c = [b EXCEPT !.witness = v]
           \/ c = [b EXCEPT !.runtimeKey = v]
           \/ c = [b EXCEPT !.evidenceKey = v]
    PROVE  Covered(c)
<1>1. /\ c.claim = b.claim /\ c.receipts = b.receipts /\ c.findings = b.findings
      /\ c.frames = b.frames /\ c.obligations = b.obligations /\ c.items = b.items
  BY DEF Reviewed, IsBundle
<1>2. \A r : ReportedBy(c, r) = ReportedBy(b, r) /\ ArtifactsOf(c, r) = ArtifactsOf(b, r)
  BY <1>1 DEF ReportedBy, ArtifactsOf
<1>3. \A r \in DOMAIN b.receipts : Covers(b, r, b.receipts[r])
  BY DEF Covered
<1>4. \A r \in DOMAIN c.receipts : Covers(c, r, c.receipts[r])
  BY <1>1, <1>2, <1>3 DEF Covers
<1> QED BY <1>1, <1>4 DEF Covered

LEMMA EvidenceIsCovered ==
    ASSUME Reviewed(bundle), Covered(bundle), NEW e \in Universe(bundle),
           EvidenceChanges(e) \/ EvidenceDropped(e) \/ EvidenceIsPoor(e)
    PROVE  Covered(bundle')
<1>1. PICK b, is : b = bundle /\ is = bundle.items
  OBVIOUS
<1>2. Reviewed(b) /\ Covered(b) /\ GoodItems(is) /\ e \in DOMAIN is
  BY <1>1 DEF Covered, Universe
<1>3. PICK x : x = is[e]
  OBVIOUS
<1>4. /\ x = [version |-> x.version, group |-> x.group, source |-> x.source,
              origin |-> x.origin, flagged |-> x.flagged]
      /\ x.version \in Nat
  BY <1>2, <1>3 DEF GoodItems
<1>5. ASSUME NEW y,
             /\ y = [version |-> y.version, group |-> y.group, source |-> y.source,
                     origin |-> y.origin, flagged |-> y.flagged]
             /\ y.version \in Nat,
             bundle' = [b EXCEPT !.items = [is EXCEPT ![e] = y]]
      PROVE  Covered(bundle')
  <2>1. PICK v : v = [is EXCEPT ![e] = y]
    OBVIOUS
  <2>2. DOMAIN v = DOMAIN is /\ \A d \in DOMAIN v : v[d] = IF d = e THEN y ELSE is[d]
    BY <2>1
  <2>3. GoodItems(v)
    BY <1>2, <1>5, <2>2 DEF GoodItems
  <2>4. PICK c : c = bundle'
    OBVIOUS
  <2>5. c = [b EXCEPT !.items = v]
    BY <1>5, <2>1, <2>4
  <2>6. Covered(c)
    BY ONLY <1>2, <2>3, <2>5, ItemsAreCovered
  <2> QED BY <2>4, <2>6
<1>6. CASE EvidenceChanges(e)
  <2>1. PICK y : y = [x EXCEPT !.version = @ + 1]
    OBVIOUS
  <2>2. bundle' = [b EXCEPT !.items = [is EXCEPT ![e] = y]]
    BY <1>1, <1>3, <1>6, <2>1 DEF EvidenceChanges, Deviate
  <2>3. /\ y = [version |-> y.version, group |-> y.group, source |-> y.source,
                origin |-> y.origin, flagged |-> y.flagged]
        /\ y.version \in Nat
    BY <1>4, <2>1
  <2> QED BY <1>5, <2>2, <2>3
<1>7. CASE EvidenceDropped(e)
  <2>1. PICK v : v = [d \in DOMAIN is \ {e} |-> is[d]]
    OBVIOUS
  <2>2. GoodItems(v)
    BY <1>2, <2>1 DEF GoodItems
  <2>3. PICK c : c = bundle'
    OBVIOUS
  <2>4. c = [b EXCEPT !.items = v]
    BY <1>1, <1>7, <2>1, <2>3 DEF EvidenceDropped, Deviate, Universe
  <2>5. Covered(c)
    BY ONLY <1>2, <2>2, <2>4, ItemsAreCovered
  <2> QED BY <2>3, <2>5
<1>8. CASE EvidenceIsPoor(e)
  <2>1. PICK y, z : y = [x EXCEPT !.group = ""] /\ z = [x EXCEPT !.flagged = TRUE]
    OBVIOUS
  <2>2. \/ bundle' = [b EXCEPT !.items = [is EXCEPT ![e] = y]]
        \/ bundle' = [b EXCEPT !.items = [is EXCEPT ![e] = z]]
    BY <1>1, <1>3, <1>8, <2>1 DEF EvidenceIsPoor, Deviate
  <2>3. /\ y = [version |-> y.version, group |-> y.group, source |-> y.source,
                origin |-> y.origin, flagged |-> y.flagged]
        /\ y.version \in Nat
    BY <1>4, <2>1
  <2>4. /\ z = [version |-> z.version, group |-> z.group, source |-> z.source,
                origin |-> z.origin, flagged |-> z.flagged]
        /\ z.version \in Nat
    BY <1>4, <2>1
  <2>5. CASE bundle' = [b EXCEPT !.items = [is EXCEPT ![e] = y]]
    BY <1>5, <2>3, <2>5
  <2>6. CASE bundle' = [b EXCEPT !.items = [is EXCEPT ![e] = z]]
    BY <1>5, <2>4, <2>6
  <2> QED BY <2>2, <2>5, <2>6
<1> QED BY <1>6, <1>7, <1>8

LEMMA CoveredStep ==
    ASSUME GateInv, Covered(bundle), [Next]_vars
    PROVE  Covered(bundle')
<1>1. Reviewed(bundle)
  BY DEF GateInv
<1>2. ASSUME NEW r \in Received(bundle), WorkDiffers(bundle, bundle', r)
      PROVE  Covered(bundle')
  <2>1. HandedIn(bundle, bundle', r) /\ \A x \in bundle'.obligations : GoodObligation(x)
    BY <1>2 DEF WorkDiffers
  <2>2. r # "same"
    BY <1>1, ReviewersAreNamed DEF Reviewed, ReceiptsFollow, Received
  <2>3. PICK b, c : b = bundle /\ c = bundle'
    OBVIOUS
  <2>4. Covered(b) /\ HandedIn(b, c, r) /\ \A x \in c.obligations : GoodObligation(x)
    BY <2>1, <2>3
  <2>5. Covered(c)
    BY ONLY <2>2, <2>4, HandedInIsCovered
  <2> QED BY <2>3, <2>5
<1>3. CASE \E r \in Reporters \cap Received(bundle), t \in Reports, es \in References :
              ReviewerReports(r, t, es)
  <2>1. PICK r \in Received(bundle), t \in Reports, es \in References : ReviewerReports(r, t, es)
    BY <1>3
  <2> QED BY <1>1, <1>2, <2>1, ReportsDiffer
<1>4. CASE WorkProductDeviates
  <2>1. ASSUME NEW r \in Received(bundle), NEW a, FrameDeviates(r, a)
        PROVE  Covered(bundle')
    BY <1>1, <1>2, <2>1, FramesDiffer
  <2>2. ASSUME NEW r \in Received(bundle), NEW a, StrayArtifact(r, a)
        PROVE  Covered(bundle')
    BY <1>1, <1>2, <2>2, StraysDiffer
  <2>3. ASSUME NEW d \in Due(bundle), ObligationOwner[d[1]] \in Received(bundle),
               ObligationDeviates(d)
        PROVE  Covered(bundle')
    BY <1>1, <1>2, <2>3, ObligationsDiffer
  <2> QED BY <1>4, <2>1, <2>2, <2>3 DEF WorkProductDeviates
<1>5. ASSUME NEW r \in Received(bundle), ReviewerFails(r)
      PROVE  Covered(bundle')
  <2>1. HandedIn(bundle, bundle', r) /\ \A x \in bundle'.obligations : GoodObligation(x)
    BY <1>1, <1>5, FailureShows
  <2>2. r # "same"
    BY <1>1, ReviewersAreNamed DEF Reviewed, ReceiptsFollow, Received
  <2>3. PICK b, c : b = bundle /\ c = bundle'
    OBVIOUS
  <2>4. Covered(b) /\ HandedIn(b, c, r) /\ \A x \in c.obligations : GoodObligation(x)
    BY <2>1, <2>3
  <2>5. Covered(c)
    BY ONLY <2>2, <2>4, HandedInIsCovered
  <2> QED BY <2>3, <2>5
<1>6. ASSUME NEW r \in Received(bundle), ReceiptLost(r)
      PROVE  Covered(bundle')
  BY <1>1, <1>6, LostIsCovered
<1>7. ASSUME NEW b, b = bundle, NEW c, c = bundle', NEW rs, c = [b EXCEPT !.receipts = rs],
             \A r \in DOMAIN rs : Covers(b, r, rs[r])
      PROVE  Covered(bundle')
  <2>1. Reviewed(b) /\ Covered(b)
    BY <1>1, <1>7
  <2>2. Covered(c)
    BY ONLY <1>7, <2>1, ReceiptsAreCovered
  <2> QED BY <1>7, <2>2
<1>8. ASSUME NEW r \in Received(bundle), ReceiptDeviates(r)
      PROVE  Covered(bundle')
  <2>1. PICK b, c : b = bundle /\ c = bundle'
    OBVIOUS
  <2>2. PICK now : /\ c = [b EXCEPT !.receipts = [b.receipts EXCEPT ![r] = now]]
                   /\ Covers(b, r, now)
    BY <1>1, <1>8, <2>1, ReceiptDiffers
  <2>3. PICK rs : rs = [b.receipts EXCEPT ![r] = now]
    OBVIOUS
  <2>4. \A s \in DOMAIN rs : Covers(b, s, rs[s])
    BY <2>1, <2>2, <2>3 DEF Covered
  <2> QED BY <1>7, <2>1, <2>2, <2>3, <2>4
<1>9. ASSUME NEW qs, SameOutput(qs)
      PROVE  Covered(bundle')
  <2>1. PICK b, c : b = bundle /\ c = bundle'
    OBVIOUS
  <2>2. PICK rs : /\ bundle' = [bundle EXCEPT !.receipts = rs]
                  /\ \A r \in DOMAIN rs : Covers(bundle, r, rs[r])
    BY <1>1, <1>9, OutputsChange
  <2> QED BY <1>7, <2>1, <2>2
<1>10. ASSUME NEW b, b = bundle, NEW c, c = bundle', NEW v,
              \/ c = [b EXCEPT !.admissions = v]
              \/ c = [b EXCEPT !.witness = v]
              \/ c = [b EXCEPT !.runtimeKey = v]
              \/ c = [b EXCEPT !.evidenceKey = v]
       PROVE  Covered(bundle')
  <2>1. Reviewed(b) /\ Covered(b)
    BY <1>1, <1>10
  <2>2. Covered(c)
    BY ONLY <1>10, <2>1, RestIsCovered
  <2> QED BY <1>10, <2>2
<1>11. ASSUME NEW l, WitnessLayerFails(l)
       PROVE  Covered(bundle')
  <2>1. \E v : bundle' = [bundle EXCEPT !.witness = v]
    BY <1>11 DEF WitnessLayerFails, Deviate
  <2> QED BY <1>10, <2>1
<1>12. ASSUME NEW e \in Universe(bundle),
              EvidenceChanges(e) \/ EvidenceDropped(e) \/ EvidenceIsPoor(e)
       PROVE  Covered(bundle')
  BY <1>1, <1>12, EvidenceIsCovered
<1>13. ASSUME NEW e, AdmissionDeviates(e)
       PROVE  Covered(bundle')
  <2>1. \E v : bundle' = [bundle EXCEPT !.admissions = v]
    BY <1>13 DEF AdmissionDeviates, Deviate
  <2> QED BY <1>10, <2>1
<1>14. CASE KeyUnavailable
  <2>1. \/ bundle' = [bundle EXCEPT !.runtimeKey = FALSE]
        \/ bundle' = [bundle EXCEPT !.evidenceKey = FALSE]
    BY <1>14 DEF KeyUnavailable, Deviate
  <2> QED BY <1>10, <2>1
<1>15. CASE RunGate
  BY <1>15 DEF RunGate
<1>16. CASE UNCHANGED vars
  BY <1>16 DEF vars
<1> QED
  BY <1>3, <1>4, <1>5, <1>6, <1>8, <1>9, <1>11, <1>12, <1>13, <1>14, <1>15, <1>16 DEF Next

(* What the receipts cover is what was reported, whatever deviates; only   *)
(* the receipt of a failed review has no output.                           *)
LEMMA ReceiptsAlwaysCover == Spec => [](GateInv /\ Covered(bundle))
<1>1. Init => Covered(bundle)
  <2> SUFFICES ASSUME Init PROVE Covered(bundle)
    OBVIOUS
  <2>1. PICK c \in Claims : bundle = CleanBundle(c)
    BY DEF Init
  <2> QED BY <2>1, CleanIsCovered
<1>2. GateInv /\ Covered(bundle) /\ [Next]_vars => (GateInv /\ Covered(bundle))'
  <2>1. GateInv /\ Covered(bundle) /\ [Next]_vars => Covered(bundle')
    BY CoveredStep
  <2> QED BY <2>1, GateInvStep
<1> QED BY <1>1, <1>2, GateInvInit, PTL DEF Spec

\* The evidence of c is that of b, or poorer: it lost a source group, or is flagged.  The
\* acquisition is the same where it counts.
SameEvidence(b, c) ==
    /\ c.claim = b.claim
    /\ DOMAIN c.items = DOMAIN b.items
    /\ \A e \in DOMAIN b.items :
          /\ c.items[e].version = b.items[e].version /\ c.items[e].source = b.items[e].source
          /\ c.items[e].origin = b.items[e].origin
          /\ c.items[e].group \in { b.items[e].group, "" }
          /\ b.items[e].flagged => c.items[e].flagged
    /\ RequiresAdmission(b.claim.profile) =>
          /\ DOMAIN c.admissions = DOMAIN b.admissions
          /\ \A e \in DOMAIN b.admissions : c.admissions[e] = b.admissions[e]
          /\ c.evidenceKey = b.evidenceKey

\* The receipts of c are those of b, but for what they cover.
SameReceipts(b, c) ==
    /\ DOMAIN c.receipts = DOMAIN b.receipts
    /\ \A r \in DOMAIN b.receipts :
          LET x == b.receipts[r]
              y == c.receipts[r]
          IN  /\ y.status = x.status /\ y.signed = x.signed /\ y.claim = x.claim /\ y.ev = x.ev
              /\ y.prompt = x.prompt /\ y.context = x.context
              /\ y.invocation = x.invocation /\ y.invoked = x.invoked
              /\ RequiresModelBinding(b.claim.profile) =>
                    y.modelBound = x.modelBound /\ y.response = x.response

\* Nothing that is wrong in b is right in c, but for outputs that were all the same.
Worse(b, c) ==
    /\ SameEvidence(b, c)
    /\ SameReceipts(b, c)
    /\ c.runtimeKey = b.runtimeKey
    /\ LayerHolds(b) \subseteq LayerHolds(c)
    /\ b.findings \subseteq c.findings
    /\ \A d \in Due(b) : Discharged(c, d) => Discharged(b, d)

LEMMA PoorerEvidence ==
    ASSUME NEW b, GoodItems(b.items), NEW c, SameEvidence(b, c)
    PROVE  /\ Universe(c) = Universe(b) /\ Versions(c) = Versions(b)
           /\ AdmissionHold(b) => AdmissionHold(c)
           /\ \A a : /\ Available(c, a) = Available(b, a)
                     /\ NoProvenance(b, a) \subseteq NoProvenance(c, a)
                     /\ DiversityGap(b, a) => DiversityGap(c, a)
                     /\ OriginGap(b, a) => OriginGap(c, a)
                     /\ AtomHold(b, a) => AtomHold(c, a)
<1>1. Universe(c) = Universe(b)
  BY DEF Universe, SameEvidence
<1>2. Versions(c) = Versions(b)
  BY <1>1 DEF Versions, SameEvidence, Universe
<1>3. c.claim = b.claim
  BY DEF SameEvidence
<1>4. \A a : Available(c, a) = Available(b, a)
  BY <1>1, <1>3 DEF Available
<1>5. ASSUME RequiresAdmission(b.claim.profile)
      PROVE  /\ DOMAIN c.admissions = DOMAIN b.admissions
             /\ \A e \in DOMAIN b.admissions : c.admissions[e] = b.admissions[e]
             /\ c.evidenceKey = b.evidenceKey
             /\ \A e \in Universe(b) : AdmissionStatus(c, e) = AdmissionStatus(b, e)
  BY <1>5 DEF SameEvidence, AdmissionStatus, Universe
<1>6. ASSUME AdmissionHold(b)
      PROVE  AdmissionHold(c)
  <2>1. RequiresAdmission(b.claim.profile)
    BY <1>6 DEF AdmissionHold
  <2>2. ReusedCaptures(c) = ReusedCaptures(b)
    BY <1>1, <1>5, <2>1 DEF ReusedCaptures
  <2> QED BY <1>1, <1>3, <1>5, <1>6, <2>1, <2>2 DEF AdmissionHold
<1>7. \A a : NoProvenance(b, a) \subseteq NoProvenance(c, a)
  BY <1>4 DEF NoProvenance, SameEvidence, Available, Universe
<1>8. ASSUME NEW a, OriginGap(b, a)
      PROVE  OriginGap(c, a)
  <2>1. RequiresAdmission(b.claim.profile)
    BY <1>8 DEF OriginGap
  <2>2. PICK es : es = b.claim.cites[a]
    OBVIOUS
  <2>3. { d \in es \cap Universe(c) : AdmissionStatus(c, d) = "CAPTURED" }
            = { d \in es \cap Universe(b) : AdmissionStatus(b, d) = "CAPTURED" }
    BY <1>1, <1>5, <2>1
  <2>4. PICK ds : ds = { d \in es \cap Universe(b) : AdmissionStatus(b, d) = "CAPTURED" }
    OBVIOUS
  <2>5. \A d \in ds : d \in DOMAIN b.admissions
    BY <2>4 DEF AdmissionStatus
  <2>6. \A d \in ds : c.admissions[d].origin = b.admissions[d].origin
    BY <1>5, <2>1, <2>5
  <2>7. /\ TrustedOrigins(b, es) = { b.admissions[e].origin : e \in ds }
        /\ TrustedOrigins(c, es) = { c.admissions[e].origin : e \in ds }
    BY <1>3, <2>1, <2>3, <2>4 DEF TrustedOrigins
  <2>8. TrustedOrigins(c, es) = TrustedOrigins(b, es)
    BY <2>6, <2>7
  <2> QED BY <1>3, <1>8, <2>2, <2>8 DEF OriginGap
<1>9. ASSUME NEW a, DiversityGap(b, a)
      PROVE  DiversityGap(c, a)
  <2>1. PICK av : av = Available(b, a)
    OBVIOUS
  <2>2. IsFiniteSet(av)
    <3>1. av \subseteq Evidence
      BY <2>1 DEF Available, Universe, GoodItems
    <3> QED BY <3>1, EvidenceAssumption, FS_Subset
  <2>3. PICK gs : gs = { b.items[e].group : e \in av }
    OBVIOUS
  <2>4. IsFiniteSet(gs)
    <3>1. PICK g : g = [e \in av |-> b.items[e].group]
      OBVIOUS
    <3>2. g \in Surjection(av, gs)
      BY <2>3, <3>1 DEF Surjection
    <3> QED BY <2>2, <3>2, FS_Surjection
  <2>5. Groups(b, a) \subseteq gs /\ Groups(c, a) \subseteq Groups(b, a)
    <3>1. \A e \in av : c.items[e].group \in { b.items[e].group, "" }
      BY <2>1 DEF SameEvidence, Available, Universe
    <3>2. Groups(b, a) = { b.items[e].group : e \in av } \ {""}
      BY <2>1 DEF Groups
    <3>3. Groups(c, a) = { c.items[e].group : e \in av } \ {""}
      BY <1>4, <2>1 DEF Groups
    <3> QED BY <2>3, <3>1, <3>2, <3>3
  <2>6. /\ Cardinality(Groups(b, a)) \in Nat /\ Cardinality(Groups(c, a)) \in Nat
        /\ Cardinality(Groups(c, a)) <= Cardinality(Groups(b, a))
    <3>1. IsFiniteSet(Groups(b, a))
      BY <2>4, <2>5, FS_Subset
    <3> QED BY <2>5, <3>1, FS_Subset, FS_CardinalityType
  <2>7. Sources(c, a) = Sources(b, a)
    <3>1. \A e \in av : c.items[e].source = b.items[e].source
      BY <2>1 DEF SameEvidence, Available, Universe
    <3>2. Sources(b, a) = { b.items[e].source : e \in av }
      BY <2>1 DEF Sources
    <3>3. Sources(c, a) = { c.items[e].source : e \in av }
      BY <1>4, <2>1 DEF Sources
    <3> QED BY <3>1, <3>2, <3>3
  <2>8. RequiredGroups(b.claim.profile) \in {1, 2}
    BY DEF RequiredGroups
  <2> QED BY <1>3, <1>9, <2>6, <2>7, <2>8 DEF DiversityGap
<1>10. ASSUME NEW a, AtomHold(b, a)
       PROVE  AtomHold(c, a)
  <2>1. NoProvenance(b, a) # {} => NoProvenance(c, a) # {}
    BY <1>7
  <2> QED BY <1>1, <1>3, <1>8, <1>9, <1>10, <2>1 DEF AtomHold
<1> QED BY <1>1, <1>2, <1>4, <1>6, <1>7, <1>8, <1>9, <1>10

\* Whatever blocks b blocks c, but for the correlation of outputs.
LEMMA BlockersBefore ==
    ASSUME NEW b, Covered(b), ~CorrelatedOutput(b), NEW c, Worse(b, c), GlobalBlockers(c) = {}
    PROVE  GlobalBlockers(b) = {}
<1>1. PICK fb, fc : fb = Failures(b) /\ fc = Failures(c)
  OBVIOUS
<1>2. /\ c.claim = b.claim /\ c.runtimeKey = b.runtimeKey /\ Received(c) = Received(b)
      /\ Counted(c) = Counted(b) /\ b.findings \subseteq c.findings
  BY DEF Worse, SameEvidence, SameReceipts, Received, Counted
<1>3. /\ Universe(c) = Universe(b) /\ Versions(c) = Versions(b)
      /\ AdmissionHold(b) => AdmissionHold(c)
  BY PoorerEvidence DEF Worse, Covered
<1>4. \A r \in Received(b) :
        /\ c.receipts[r].status = b.receipts[r].status
        /\ c.receipts[r].signed = b.receipts[r].signed
        /\ c.receipts[r].claim = b.receipts[r].claim
        /\ c.receipts[r].ev = b.receipts[r].ev
        /\ c.receipts[r].prompt = b.receipts[r].prompt
        /\ c.receipts[r].context = b.receipts[r].context
        /\ c.receipts[r].invocation = b.receipts[r].invocation
        /\ c.receipts[r].invoked = b.receipts[r].invoked
        /\ RequiresModelBinding(b.claim.profile) =>
              /\ c.receipts[r].modelBound = b.receipts[r].modelBound
              /\ c.receipts[r].response = b.receipts[r].response
  BY DEF Worse, SameReceipts, Received
<1>5. \A r \in Received(b) : /\ b.receipts[r].findings = ReportedBy(b, r)
                             /\ b.receipts[r].artifacts = ArtifactsOf(b, r)
  BY DEF Covered, Covers, Received
<1>6. fb.EVIDENCE_ADMISSION_INTEGRITY => fc.EVIDENCE_ADMISSION_INTEGRITY
  BY <1>1, <1>3 DEF Failures
<1>7. fb.RUNTIME_KEY_UNAVAILABLE => fc.RUNTIME_KEY_UNAVAILABLE
  BY <1>1, <1>2 DEF Failures
<1>8. fb.CLAIM_EVIDENCE_SET_EMPTY => fc.CLAIM_EVIDENCE_SET_EMPTY
  BY <1>1, <1>2 DEF Failures
<1>9. fb.MISSING_EVIDENCE_OBJECT => fc.MISSING_EVIDENCE_OBJECT
  BY <1>1, <1>2, <1>3 DEF Failures
<1>10. fb.MISSING_REQUIRED_REVIEWER => fc.MISSING_REQUIRED_REVIEWER
  <2>1. /\ fc.MISSING_REQUIRED_REVIEWER = (~(RequiredReviewers(c.claim.profile) \subseteq Received(c)))
        /\ fb.MISSING_REQUIRED_REVIEWER = (~(RequiredReviewers(b.claim.profile) \subseteq Received(b)))
    BY <1>1 DEF Failures
  <2> QED BY <1>2, <2>1
<1>11. fb.INVALID_RUNTIME_RECEIPT => fc.INVALID_RUNTIME_RECEIPT
  BY <1>1, <1>2, <1>4 DEF Failures, Having
<1>12. fb.REVIEWER_EXECUTION_FAILURE => fc.REVIEWER_EXECUTION_FAILURE
  BY <1>1, <1>2, <1>4 DEF Failures, Having
<1>13. fb.REVIEW_CONTEXT_CONTAMINATION => fc.REVIEW_CONTEXT_CONTAMINATION
  BY <1>1, <1>2, <1>4 DEF Failures, Having
<1>14. fb.REVIEW_PROMPT_MISMATCH => fc.REVIEW_PROMPT_MISMATCH
  BY <1>1, <1>2, <1>4 DEF Failures, Having
<1>15. fb.INVOCATION_CONTINUITY_FAILURE => fc.INVOCATION_CONTINUITY_FAILURE
  BY <1>1, <1>2, <1>3, <1>4 DEF Failures, Having
<1>16. fb.MODEL_EXECUTION_UNBOUND => fc.MODEL_EXECUTION_UNBOUND
  <2>1. UnboundModel(b) => UnboundModel(c)
    BY <1>2, <1>4 DEF UnboundModel, Counted
  <2> QED BY <1>1, <2>1 DEF Failures
<1>17. fb.DUPLICATE_MODEL_RESPONSE => fc.DUPLICATE_MODEL_RESPONSE
  <2>1. ASSUME DuplicateResponses(b)
        PROVE  DuplicateResponses(c)
    <3>1. PICK r \in Received(b) : \E s \in Received(b) :
            /\ r # s /\ b.receipts[r].response # ""
            /\ b.receipts[r].response = b.receipts[s].response
      BY <2>1 DEF DuplicateResponses
    <3>2. PICK s \in Received(b) : /\ r # s /\ b.receipts[r].response # ""
                                   /\ b.receipts[r].response = b.receipts[s].response
      BY <3>1
    <3>3. RequiresModelBinding(b.claim.profile)
      BY <2>1 DEF DuplicateResponses
    <3>4. /\ c.receipts[r].response = b.receipts[r].response
          /\ c.receipts[s].response = b.receipts[s].response
      BY <1>4, <3>3
    <3> QED BY ONLY <1>2, <3>2, <3>3, <3>4 DEF DuplicateResponses
  <2> QED BY <1>1, <2>1 DEF Failures
<1>18. ~fb.CORRELATED_MODEL_OUTPUT
  BY <1>1 DEF Failures
<1>19. fb.DUPLICATE_REVIEW_INVOCATION => fc.DUPLICATE_REVIEW_INVOCATION
  BY <1>1, <1>2, <1>4 DEF Failures
<1>20. fb.REVIEW_BINDING_MISMATCH => fc.REVIEW_BINDING_MISMATCH
  <2>1. BindingMismatch(b) => BindingMismatch(c)
    BY <1>2, <1>3, <1>4 DEF BindingMismatch, Counted
  <2> QED BY <1>1, <2>1 DEF Failures
<1>21. ~fb.REVIEW_OUTPUT_TAMPER
  BY <1>1, <1>5 DEF Failures
<1>22. ~fb.SEMANTIC_ARTIFACT_TAMPER
  BY <1>1, <1>5 DEF Failures
<1>23. fb.REVIEWER_ROLE_VIOLATION => fc.REVIEWER_ROLE_VIOLATION
  <2>1. RoleViolations(b) \subseteq RoleViolations(c)
    BY <1>2 DEF RoleViolations
  <2> QED BY <1>1, <2>1 DEF Failures
<1>24. fb.BAD_EVIDENCE_REFERENCE => fc.BAD_EVIDENCE_REFERENCE
  <2>1. BadReferences(b) \subseteq BadReferences(c)
    BY <1>2, <1>3 DEF BadReferences
  <2> QED BY <1>1, <2>1 DEF Failures
<1>25. fb.EVIDENCE_SPACE_ADDITION => fc.EVIDENCE_SPACE_ADDITION
  BY <1>1, <1>2, <1>3 DEF Failures
<1>26. fb.MATERIAL_TRANSITION_LEAKAGE => fc.MATERIAL_TRANSITION_LEAKAGE
  <2>1. MaterialOmissions(b) \subseteq MaterialOmissions(c)
    BY <1>2, <1>3 DEF MaterialOmissions
  <2> QED BY <1>1, <2>1 DEF Failures
<1>27. fb.SEMANTIC_REVIEW_COVERAGE_GAP => fc.SEMANTIC_REVIEW_COVERAGE_GAP
  <2>1. SemanticHold(b) => SemanticHold(c)
    BY <1>2, <1>4 DEF SemanticHold
  <2> QED BY <1>1, <2>1 DEF Failures
<1>28. fb.WITNESS_LAYER_HOLD => fc.WITNESS_LAYER_HOLD
  <2>1. LayerHolds(b) \subseteq LayerHolds(c)
    BY DEF Worse
  <2> QED BY <1>1, <2>1 DEF Failures
<1>29. fb.DUPLICATE_ATOMIC_CLAIM => fc.DUPLICATE_ATOMIC_CLAIM
  <2>1. DuplicateStatements(b) => DuplicateStatements(c)
    BY <1>2 DEF DuplicateStatements
  <2> QED BY <1>1, <2>1 DEF Failures
<1>30. DOMAIN fb = DOMAIN fc /\ \A n \in DOMAIN fb : fb[n] => fc[n]
  <2>1. DOMAIN fb = { "EVIDENCE_ADMISSION_INTEGRITY", "RUNTIME_KEY_UNAVAILABLE",
          "CLAIM_EVIDENCE_SET_EMPTY", "MISSING_EVIDENCE_OBJECT", "MISSING_REQUIRED_REVIEWER",
          "INVALID_RUNTIME_RECEIPT", "REVIEWER_EXECUTION_FAILURE",
          "REVIEW_CONTEXT_CONTAMINATION", "REVIEW_PROMPT_MISMATCH",
          "INVOCATION_CONTINUITY_FAILURE", "MODEL_EXECUTION_UNBOUND",
          "DUPLICATE_MODEL_RESPONSE", "CORRELATED_MODEL_OUTPUT",
          "DUPLICATE_REVIEW_INVOCATION", "REVIEW_BINDING_MISMATCH", "REVIEW_OUTPUT_TAMPER",
          "SEMANTIC_ARTIFACT_TAMPER", "REVIEWER_ROLE_VIOLATION", "BAD_EVIDENCE_REFERENCE",
          "EVIDENCE_SPACE_ADDITION", "MATERIAL_TRANSITION_LEAKAGE",
          "SEMANTIC_REVIEW_COVERAGE_GAP", "WITNESS_LAYER_HOLD", "DUPLICATE_ATOMIC_CLAIM" }
    BY <1>1 DEF Failures
  <2>2. DOMAIN fb = DOMAIN fc
    BY <1>1 DEF Failures
  <2> QED
    BY <1>6, <1>7, <1>8, <1>9, <1>10, <1>11, <1>12, <1>13, <1>14, <1>15, <1>16, <1>17, <1>18,
       <1>19, <1>20, <1>21, <1>22, <1>23, <1>24, <1>25, <1>26, <1>27, <1>28, <1>29, <2>1, <2>2
<1> QED BY <1>1, <1>30 DEF GlobalBlockers

\* What is promoted, for each verdict.
OpenContent(b) == ContentBlockers(b.claim, AllFindings(b), Obligations(b))
OnAtoms(b) == AtomBlockers(b.claim, AllFindings(b), HeldAtoms(b), Obligations(b))
Blocked(b) == { a \in b.claim.atoms : OnAtoms(b)[a] # {} }

LEMMA WhatIsPromoted ==
    ASSUME NEW b
    PROVE  /\ Decide(b).verdict \in { "PASS", "REJECT", "HOLD" }
           /\ Decide(b).verdict = "PASS" => Decide(b).usefulness.promotable = b.claim.atoms
           /\ Decide(b).verdict = "REJECT" => Decide(b).usefulness.promotable = {}
           /\ Decide(b).verdict = "HOLD" =>
                Decide(b).usefulness.promotable =
                    IF \/ GlobalBlockers(b) # {} \/ OpenContent(b) # {}
                       \/ ~SalvageEligible(b.claim, b.claim.profile) \/ Blocked(b) = {}
                    THEN {} ELSE b.claim.atoms \ Blocked(b)
<1> DEFINE k == b.claim
<1>0. PICK fs, o, held : fs = AllFindings(b) /\ o = Obligations(b) /\ held = Blocked(b)
  OBVIOUS
<1>1. PICK v, u, gs : v = Decide(b).verdict /\ u = Decide(b).usefulness /\ gs = GlobalBlockers(b)
  OBVIOUS
<1>2. u = AssessDecisionUsefulness(k, k.profile, v, fs, HeldAtoms(b), o, gs)
  BY <1>0, <1>1 DEF Decide
<1>3. v \in { "PASS", "REJECT", "HOLD" }
  BY <1>1 DEF Decide, VerdictOf
<1>4. CASE v = "HOLD"
  <2>1. PICK onAtoms, cs : /\ onAtoms = AtomBlockers(k, fs, HeldAtoms(b), o)
                           /\ cs = ContentBlockers(k, fs, o)
    OBVIOUS
  <2>2. held = { a \in k.atoms : onAtoms[a] # {} }
    BY <1>0, <2>1 DEF Blocked, OnAtoms
  <2>3. u = IF gs \cup cs # {} \/ ~SalvageEligible(k, k.profile)
            THEN Assessment("HARD_HOLD", {}, k,
                    (gs \cup cs) \cup IF SalvageEligible(k, k.profile) THEN {}
                                  ELSE { "PROFILE_NOT_ATOM_SALVAGE_ELIGIBLE" })
            ELSE IF held = {} \/ held = k.atoms
            THEN Assessment("HARD_HOLD", {}, k, { "NO_SAFE_LOCALIZED_SPLIT" })
            ELSE Assessment("SCOPED_SALVAGE", k.atoms \ held, k, {})
    BY <1>2, <1>4, <2>1, <2>2 DEF AssessDecisionUsefulness
  <2>4. u.promotable = IF gs # {} \/ cs # {} \/ ~SalvageEligible(k, k.profile) \/ held = {}
                       THEN {} ELSE k.atoms \ held
    BY ONLY <2>2, <2>3 DEF Assessment
  <2>5. cs = OpenContent(b)
    BY <1>0, <2>1 DEF OpenContent
  <2> QED BY <1>0, <1>1, <1>4, <2>4, <2>5
<1>5. CASE v = "PASS"
  BY <1>1, <1>2, <1>5 DEF AssessDecisionUsefulness, Assessment
<1>6. CASE v = "REJECT"
  BY <1>1, <1>2, <1>6 DEF AssessDecisionUsefulness, Assessment
<1> QED BY <1>1, <1>3, <1>4, <1>5, <1>6

\* Without a blocker of the claim, every finding is localized or sums up open work.
LEMMA NoContentBlockers ==
    ASSUME NEW k, NEW fs, NEW o, ContentBlockers(k, fs, o) = {}
    PROVE  \A f \in fs : f.type \in SemanticSummaries \/ Localized(k, f)
<1>1. PICK open : open = { g \in fs : g.type \notin SemanticSummaries /\ ~Localized(k, g) }
  OBVIOUS
<1>2. { (IF g.type \in Localizable THEN "UNLOCALIZED_" ELSE "GLOBAL_") \o g.type : g \in open } = {}
  BY Zenon, <1>1 DEF ContentBlockers
<1>3. open = {}
  BY Zenon, <1>2
<1> QED BY <1>1, <1>3

\* Nothing of atom a is held, found or open.
Clear(b, a) ==
    /\ a \in b.claim.atoms
    /\ ~AtomHold(b, a)
    /\ \A f \in AllFindings(b) :
          \/ f.type \in SemanticSummaries
          \/ Localized(b.claim, f) /\ \A e \in f.ev : a \notin CitedBy(b.claim, e)
    /\ AgreedOn(b, a)
    /\ \A d \in Due(b) : d[2] = a => Discharged(b, d)

LEMMA UnblockedIsClear ==
    ASSUME NEW c, RequiresObligations(c.claim.profile), c.claim.atoms \cap FrameReviewers = {},
           NEW a \in c.claim.atoms, NEW o, o = Obligations(c),
           a \notin HeldAtoms(c), a \notin o.mismatch,
           \A t \in o.missing \cup o.failed : a \notin AtomOfToken(t, c.claim.atoms),
           \A f \in AllFindings(c) :
              \/ f.type \in SemanticSummaries
              \/ Localized(c.claim, f) /\ \A e \in f.ev : a \notin CitedBy(c.claim, e)
    PROVE  Clear(c, a)
<1>1. /\ \A r \in FrameReviewers : a \in AtomOfToken(<< "frame", r, a >>, c.claim.atoms)
      /\ \A d : d[2] = a => a \in AtomOfToken(Token(d), c.claim.atoms)
  BY TokensNameTheirAtom
<1>2. /\ o.mismatch = { x \in c.claim.atoms : Disagreement(c, x) }
      /\ o.missing = MissingObligations(c)
      /\ o.failed = FailedObligations(c)
  BY DEF Obligations
<1>3. ~Disagreement(c, a)
  BY <1>2
<1>4. ASSUME NEW r \in FrameReviewers, Cardinality(FramesBy(c, r, a)) # 1
      PROVE  FALSE
  <2>1. << r, a >> \in { q \in FrameReviewers \X c.claim.atoms :
                           Cardinality(FramesBy(c, q[1], q[2])) # 1 }
    BY <1>4
  <2>2. << "frame", << r, a >>[1], << r, a >>[2] >> \in MissingObligations(c)
    BY <2>1 DEF MissingObligations
  <2>3. << "frame", r, a >> \in o.missing
    BY <1>2, <2>2
  <2> QED BY <1>1, <2>3
<1>5. AgreedOn(c, a)
  BY <1>3, <1>4 DEF AgreedOn
<1>6. ASSUME NEW d \in Due(c), d[2] = a
      PROVE  Discharged(c, d)
  <2>1. a \in AtomOfToken(Token(d), c.claim.atoms)
    BY <1>1, <1>6
  <2>2. Cardinality(Filed(c, d)) # 1 => Token(d) \in o.missing
    BY <1>2 DEF MissingObligations
  <2>3. Cardinality(Filed(c, d)) = 1
    BY <2>1, <2>2
  <2>4. (\A x \in Filed(c, d) : x.result \notin Discharging[d[1]]) => Token(d) \in o.failed
    BY <1>2, <2>3 DEF FailedObligations
  <2>5. \E x \in Filed(c, d) : x.result \in Discharging[d[1]]
    BY <2>1, <2>4
  <2> QED BY <2>3, <2>5 DEF Discharged
<1>7. ~AtomHold(c, a)
  BY DEF HeldAtoms
<1> QED BY <1>5, <1>6, <1>7 DEF Clear

LEMMA PromotedIsClear ==
    ASSUME NEW c, Reviewed(c), c.claim.atoms \cap FrameReviewers = {},
           NEW a \in Decide(c).usefulness.promotable
    PROVE  /\ GlobalBlockers(c) = {} /\ a \in c.claim.atoms
           /\ IF RequiresObligations(c.claim.profile) THEN Clear(c, a)
              ELSE ~AtomicHold(c) /\ AllFindings(c) = {}
<1>1. PICK k, fs, o, hs, v : /\ k = c.claim /\ fs = AllFindings(c) /\ o = Obligations(c)
                             /\ hs = HeldAtoms(c) /\ v = Decide(c).verdict
  OBVIOUS
<1>3. /\ v \in { "PASS", "HOLD" }
      /\ v = "PASS" => a \in k.atoms
      /\ v = "HOLD" => /\ GlobalBlockers(c) = {} /\ ContentBlockers(k, fs, o) = {}
                       /\ SalvageEligible(k, k.profile) /\ a \in k.atoms
                       /\ AtomBlockers(k, fs, hs, o)[a] = {}
  <2>1. PICK us : us = Decide(c).usefulness.promotable
    OBVIOUS
  <2>2. /\ v \in { "PASS", "REJECT", "HOLD" }
        /\ v = "PASS" => us = c.claim.atoms
        /\ v = "REJECT" => us = {}
        /\ v = "HOLD" =>
              us = IF \/ GlobalBlockers(c) # {} \/ OpenContent(c) # {}
                      \/ ~SalvageEligible(c.claim, c.claim.profile) \/ Blocked(c) = {}
                   THEN {} ELSE c.claim.atoms \ Blocked(c)
    BY <1>1, <2>1, WhatIsPromoted
  <2>3. a \in us
    BY <2>1
  <2>4. v # "REJECT" /\ (v = "PASS" => a \in c.claim.atoms)
    BY <2>2, <2>3
  <2>5. v = "HOLD" => /\ GlobalBlockers(c) = {} /\ OpenContent(c) = {}
                      /\ SalvageEligible(c.claim, c.claim.profile)
                      /\ a \in c.claim.atoms \ Blocked(c)
    BY <2>2, <2>3
  <2> QED BY <1>1, <2>2, <2>3, <2>4, <2>5 DEF OpenContent, Blocked, OnAtoms
<1>4. CASE v = "PASS"
  <2>1. ~StructuralHold(c) /\ fs = {}
    BY <1>1, <1>4, Verdicts
  <2>2. GlobalBlockers(c) = {} /\ ~AtomicHold(c) /\ ~ObligationHold(c)
    BY <2>1 DEF StructuralHold
  <2>3. ASSUME RequiresObligations(k.profile)
        PROVE  o.mismatch = {} /\ o.missing = {} /\ o.failed = {}
    BY <1>1, <2>2, <2>3 DEF ObligationHold
  <2>4. a \notin hs
    BY <1>1, <2>2 DEF AtomicHold
  <2>5. ASSUME RequiresObligations(k.profile)
        PROVE  Clear(c, a)
    <3>1. \A t \in o.missing \cup o.failed : a \notin AtomOfToken(t, k.atoms)
      BY <2>3, <2>5
    <3>2. a \notin o.mismatch
      BY <2>3, <2>5
    <3> QED BY <1>1, <1>3, <1>4, <2>1, <2>4, <2>5, <3>1, <3>2, UnblockedIsClear
  <2> QED BY <1>1, <1>3, <1>4, <2>1, <2>2, <2>5
<1>5. CASE v = "HOLD"
  <2>1. RequiresObligations(k.profile)
    BY <1>3, <1>5 DEF SalvageEligible, RequiresObligations
  <2>2. AtomBlockers(k, fs, hs, o)[a] = {} /\ a \in k.atoms
    BY <1>3, <1>5
  <2>3. /\ a \notin hs /\ a \notin o.mismatch
        /\ \A t \in o.missing \cup o.failed : a \notin AtomOfToken(t, k.atoms)
        /\ \A f \in fs : Localized(k, f) => \A e \in f.ev : a \notin CitedBy(k, e)
    BY <2>2, NoAtomBlockers
  <2>4. \A f \in fs : \/ f.type \in SemanticSummaries
                      \/ Localized(k, f) /\ \A e \in f.ev : a \notin CitedBy(k, e)
    BY <1>3, <1>5, <2>3, NoContentBlockers
  <2>5. Clear(c, a)
    BY <1>1, <2>1, <2>2, <2>3, <2>4, UnblockedIsClear
  <2> QED BY <1>1, <1>3, <1>5, <2>1, <2>2, <2>5
<1> QED BY <1>1, <1>3, <1>4, <1>5

\* A token is about one atom at most.
LEMMA TokensNameOneAtom ==
    ASSUME NEW atoms, NEW t, NEW a \in AtomOfToken(t, atoms), NEW x \in AtomOfToken(t, atoms)
    PROVE  a = x
BY DEF AtomOfToken

\* What the structural check of atom x finds.
FoundOn(b, x, f) ==
    \/ b.claim.cites[x] = {} /\ f = Finding("evidence", "ATOMIC_COVERAGE_GAP", "CRITICAL", {})
    \/ /\ NoProvenance(b, x) # {}
       /\ f = Finding("evidence", "SOURCE_PROVENANCE_MISSING", "CRITICAL", NoProvenance(b, x))
    \/ /\ DiversityGap(b, x)
       /\ f = Finding("evidence", "SOURCE_DIVERSITY_GAP", "WARNING", Available(b, x))
    \/ /\ OriginGap(b, x)
       /\ f = Finding("evidence", "EVIDENCE_ORIGIN_DIVERSITY_GAP", "WARNING", Available(b, x))

LEMMA FoundOnAtoms ==
    ASSUME NEW b, b.claim.atoms # {}, ~DuplicateStatements(b)
    PROVE  \A f : f \in AtomicFindings(b) <=> \E x \in b.claim.atoms : FoundOn(b, x, f)
<1>1. PICK as : as = b.claim.atoms
  OBVIOUS
<1>2. PICK s1, s2, s3, s4, s5, s6 :
        /\ s1 = { Finding("decomposer", "ATOMIC_COVERAGE_GAP", "CRITICAL", {}) :
                    x \in { y \in {b.claim.atoms} : y = {} } }
        /\ s2 = { Finding("decomposer", "DUPLICATE_ATOMIC_CLAIM", "WARNING", {}) :
                    x \in { y \in {TRUE} : DuplicateStatements(b) } }
        /\ s3 = { Finding("evidence", "ATOMIC_COVERAGE_GAP", "CRITICAL", {}) :
                    a \in { c \in b.claim.atoms : b.claim.cites[c] = {} } }
        /\ s4 = { Finding("evidence", "SOURCE_PROVENANCE_MISSING", "CRITICAL", NoProvenance(b, a)) :
                    a \in { c \in b.claim.atoms : NoProvenance(b, c) # {} } }
        /\ s5 = { Finding("evidence", "SOURCE_DIVERSITY_GAP", "WARNING", Available(b, a)) :
                    a \in { c \in b.claim.atoms : DiversityGap(b, c) } }
        /\ s6 = { Finding("evidence", "EVIDENCE_ORIGIN_DIVERSITY_GAP", "WARNING", Available(b, a)) :
                    a \in { c \in b.claim.atoms : OriginGap(b, c) } }
  OBVIOUS
<1>3. AtomicFindings(b) = s1 \cup s2 \cup s3 \cup s4 \cup s5 \cup s6
  BY Zenon, <1>2 DEF AtomicFindings
<1>4. s1 = {} /\ s2 = {}
  BY <1>2
<1>5. \A f : f \in s3 <=> \E x \in as : /\ b.claim.cites[x] = {}
                                       /\ f = Finding("evidence", "ATOMIC_COVERAGE_GAP", "CRITICAL", {})
  BY Zenon, <1>1, <1>2
<1>6. \A f : f \in s4 <=> \E x \in as :
        /\ NoProvenance(b, x) # {}
        /\ f = Finding("evidence", "SOURCE_PROVENANCE_MISSING", "CRITICAL", NoProvenance(b, x))
  BY Zenon, <1>1, <1>2
<1>7. \A f : f \in s5 <=> \E x \in as :
        /\ DiversityGap(b, x)
        /\ f = Finding("evidence", "SOURCE_DIVERSITY_GAP", "WARNING", Available(b, x))
  BY Zenon, <1>1, <1>2
<1>8. \A f : f \in s6 <=> \E x \in as :
        /\ OriginGap(b, x)
        /\ f = Finding("evidence", "EVIDENCE_ORIGIN_DIVERSITY_GAP", "WARNING", Available(b, x))
  BY Zenon, <1>1, <1>2
<1>9. \A f : f \in AtomicFindings(b) <=> f \in s3 \/ f \in s4 \/ f \in s5 \/ f \in s6
  BY <1>3, <1>4
<1>10. \A f : (\E x \in as : FoundOn(b, x, f)) <=> f \in s3 \/ f \in s4 \/ f \in s5 \/ f \in s6
  BY ONLY <1>5, <1>6, <1>7, <1>8 DEF FoundOn
<1> QED BY <1>1, <1>9, <1>10

\* What is found in b is found in c, or is about sources b has no provenance of, or sums up
\* work that is open.
LEMMA FoundBefore ==
    ASSUME NEW b, NEW c, GoodItems(b.items), Worse(b, c), GlobalBlockers(b) = {},
           GlobalBlockers(c) = {}, b.claim.atoms # {}, NEW f \in AllFindings(b)
    PROVE  \/ f \in AllFindings(c) /\ (f.type \in SemanticSummaries => f \in b.findings)
           \/ \E x \in b.claim.atoms : /\ NoProvenance(b, x) # {}
                                       /\ f.type = "SOURCE_PROVENANCE_MISSING"
                                       /\ f.ev = NoProvenance(b, x)
           \/ /\ f.type \in SemanticSummaries
              /\ \/ Obligations(b).mismatch # {}
                 \/ Obligations(b).missing # {}
                 \/ Obligations(b).failed # {}
<1>1. /\ ~AdmissionHold(b) /\ LayerHolds(b) = {} /\ RoleViolations(b) = {} /\ ~SemanticHold(b)
      /\ ~DuplicateStatements(b)
  <2>1. ~AdmissionHold(b) /\ LayerHolds(b) = {}
    BY NoBlockers, NoFailure
  <2>2. PICK fs : fs = Failures(b)
    OBVIOUS
  <2>3. \A n \in DOMAIN fs : ~fs[n]
    BY <2>2 DEF GlobalBlockers
  <2>4. RoleViolations(b) = {}
    <3>1. fs.REVIEWER_ROLE_VIOLATION = (RoleViolations(b) # {}) /\ "REVIEWER_ROLE_VIOLATION" \in DOMAIN fs
      BY <2>2 DEF Failures
    <3> QED BY <2>3, <3>1
  <2>5. ~SemanticHold(b)
    <3>1. /\ fs.SEMANTIC_REVIEW_COVERAGE_GAP = SemanticHold(b)
          /\ "SEMANTIC_REVIEW_COVERAGE_GAP" \in DOMAIN fs
      BY <2>2 DEF Failures
    <3> QED BY <2>3, <3>1
  <2>6. ~DuplicateStatements(b)
    <3>1. /\ fs.DUPLICATE_ATOMIC_CLAIM = DuplicateStatements(b)
          /\ "DUPLICATE_ATOMIC_CLAIM" \in DOMAIN fs
      BY <2>2 DEF Failures
    <3> QED BY <2>3, <3>1
  <2> QED BY <2>1, <2>4, <2>5, <2>6
<1>2. c.claim = b.claim /\ b.findings \subseteq c.findings
  BY DEF Worse, SameEvidence
<1>3. ~DuplicateStatements(c)
  BY <1>1, <1>2 DEF DuplicateStatements
<1>4. AdmissionFindings(b) = {} /\ LayerFindings(b) = {} /\ RoleFindings(b) = {}
  BY <1>1 DEF AdmissionFindings, AdmissionHold, LayerFindings, RoleFindings
<1>5. CASE f \in b.findings
  BY <1>2, <1>5 DEF AllFindings
<1>6. CASE f \in ScanFindings(b)
  <2>1. PICK e \in Universe(b) : /\ b.items[e].flagged
                                 /\ f = Finding("security", "PROMPT_INJECTION", "CRITICAL", {e})
    BY <1>6 DEF ScanFindings
  <2>2. e \in Universe(c) /\ c.items[e].flagged
    BY <2>1 DEF Worse, SameEvidence, Universe
  <2>3. f \in ScanFindings(c)
    BY <2>1, <2>2 DEF ScanFindings
  <2>4. f.type \notin SemanticSummaries
    BY <2>1 DEF Finding, SemanticSummaries
  <2> QED BY <2>3, <2>4 DEF AllFindings
<1>7. CASE f \in AtomicFindings(b)
  <2>1. PICK x \in b.claim.atoms : FoundOn(b, x, f)
    BY <1>1, <1>7, FoundOnAtoms
  <2>2. /\ Available(c, x) = Available(b, x)
        /\ DiversityGap(b, x) => DiversityGap(c, x)
        /\ OriginGap(b, x) => OriginGap(c, x)
    BY PoorerEvidence DEF Worse
  <2>3. CASE NoProvenance(b, x) # {}
             /\ f = Finding("evidence", "SOURCE_PROVENANCE_MISSING", "CRITICAL", NoProvenance(b, x))
    BY <2>1, <2>3 DEF Finding
  <2>4. CASE ~(NoProvenance(b, x) # {}
             /\ f = Finding("evidence", "SOURCE_PROVENANCE_MISSING", "CRITICAL", NoProvenance(b, x)))
    <3>1. FoundOn(c, x, f)
      BY <1>2, <2>1, <2>2, <2>4 DEF FoundOn
    <3>2. f \in AtomicFindings(c)
      BY <1>2, <1>3, <2>1, <3>1, FoundOnAtoms
    <3>3. f.type \notin SemanticSummaries
      BY <2>1 DEF FoundOn, Finding, SemanticSummaries
    <3> QED BY <3>2, <3>3 DEF AllFindings
  <2> QED BY <2>3, <2>4
<1>8. CASE f \in SemanticFindings(b)
  <2>1. PICK o : o = Obligations(b)
    OBVIOUS
  <2>2. \/ o.mismatch # {} /\ f = Finding("decomposer", "REPRESENTATION_DISAGREEMENT", "CRITICAL", {})
        \/ o.missing # {} /\ f = Finding("decomposer", "SEMANTIC_OBLIGATION_GAP", "CRITICAL", {})
        \/ o.failed # {} /\ f = Finding("entailment", "SEMANTIC_OBLIGATION_FAILED", "CRITICAL", {})
    BY <1>1, <1>8, <2>1 DEF SemanticFindings
  <2>3. f.type \in SemanticSummaries
    BY <2>2 DEF Finding, SemanticSummaries
  <2> QED BY <2>1, <2>2, <2>3
<1> QED BY <1>4, <1>5, <1>6, <1>7, <1>8 DEF AllFindings

LEMMA BlockedAtoms ==
    ASSUME NEW b, NEW a \in b.claim.atoms
    PROVE  a \in Blocked(b) <=>
             \/ a \in HeldAtoms(b)
             \/ a \in Obligations(b).mismatch
             \/ \E t \in Obligations(b).missing \cup Obligations(b).failed :
                   a \in AtomOfToken(t, b.claim.atoms)
             \/ \E f \in AllFindings(b) : /\ Localized(b.claim, f)
                                          /\ \E e \in f.ev : a \in CitedBy(b.claim, e)
<1>1. PICK k, fs, hs, o : /\ k = b.claim /\ fs = AllFindings(b) /\ hs = HeldAtoms(b)
                          /\ o = Obligations(b)
  OBVIOUS
<1>2. PICK s1, s2, s3, s4, s5 :
        /\ s1 = { "ATOM_ASSURANCE_HOLD" : h \in hs \cap {a} }
        /\ s2 = { "REPRESENTATION_DISAGREEMENT" : h \in o.mismatch \cap {a} }
        /\ s3 = { "SEMANTIC_OBLIGATION_MISSING" :
                    t \in { u \in o.missing : a \in AtomOfToken(u, k.atoms) } }
        /\ s4 = { "SEMANTIC_OBLIGATION_FAILED" :
                    t \in { u \in o.failed : a \in AtomOfToken(u, k.atoms) } }
        /\ s5 = { f.type : f \in { g \in fs : /\ Localized(k, g)
                                             /\ \E e \in g.ev : a \in CitedBy(k, e) } }
  OBVIOUS
<1>3. a \in k.atoms
  BY <1>1
<1>4. AtomBlockers(k, fs, hs, o)[a] = s1 \cup s2 \cup s3 \cup s4 \cup s5
  BY Zenon, <1>2, <1>3 DEF AtomBlockers
<1>5. OnAtoms(b)[a] = s1 \cup s2 \cup s3 \cup s4 \cup s5
  BY <1>1, <1>4 DEF OnAtoms
<1>6. s1 # {} <=> a \in hs
  BY <1>2
<1>7. s2 # {} <=> a \in o.mismatch
  BY <1>2
<1>8. s3 # {} <=> \E t \in o.missing : a \in AtomOfToken(t, k.atoms)
  BY <1>2
<1>9. s4 # {} <=> \E t \in o.failed : a \in AtomOfToken(t, k.atoms)
  BY <1>2
<1>10. s5 # {} <=> \E f \in fs : Localized(k, f) /\ \E e \in f.ev : a \in CitedBy(k, e)
  BY <1>2
<1>11. a \in Blocked(b) <=> s1 # {} \/ s2 # {} \/ s3 # {} \/ s4 # {} \/ s5 # {}
  BY <1>5 DEF Blocked
<1>12. (\E t \in o.missing \cup o.failed : a \in AtomOfToken(t, k.atoms)) <=> s3 # {} \/ s4 # {}
  BY <1>8, <1>9
<1> QED BY <1>1, <1>6, <1>7, <1>10, <1>11, <1>12

LEMMA NothingOpenGlobally ==
    ASSUME NEW b,
           \A f \in AllFindings(b) : f.type \in SemanticSummaries \/ Localized(b.claim, f),
           \A t \in Obligations(b).missing \cup Obligations(b).failed :
              AtomOfToken(t, b.claim.atoms) # {}
    PROVE  OpenContent(b) = {}
<1>1. PICK k, fs, o : k = b.claim /\ fs = AllFindings(b) /\ o = Obligations(b)
  OBVIOUS
<1>2. PICK s1, s2 : /\ s1 = { g \in fs : g.type \notin SemanticSummaries /\ ~Localized(k, g) }
                    /\ s2 = { u \in o.missing \cup o.failed : AtomOfToken(u, k.atoms) = {} }
  OBVIOUS
<1>3. PICK c1, c2 : /\ c1 = { (IF f.type \in Localizable THEN "UNLOCALIZED_" ELSE "GLOBAL_") \o f.type :
                              f \in s1 }
                    /\ c2 = { "UNLOCALIZED_SEMANTIC_OBLIGATION" : t \in s2 }
  OBVIOUS
<1>4. s1 = {} /\ s2 = {}
  BY <1>1, <1>2
<1>5. c1 = {} /\ c2 = {}
  BY Zenon, <1>3, <1>4
<1>6. ContentBlockers(k, fs, o) = c1 \cup c2
  BY Zenon, <1>2, <1>3 DEF ContentBlockers
<1>7. ContentBlockers(k, fs, o) = {}
  BY <1>5, <1>6
<1> QED BY <1>1, <1>7 DEF OpenContent

\* What is open about the work names its atom, and is about this atom.
LEMMA OpenWork ==
    ASSUME NEW b, RequiresObligations(b.claim.profile), b.claim.atoms \cap FrameReviewers = {},
           NEW t \in Obligations(b).missing \cup Obligations(b).failed
    PROVE  \E x \in b.claim.atoms :
              /\ x \in AtomOfToken(t, b.claim.atoms)
              /\ \/ \E r \in FrameReviewers : Cardinality(FramesBy(b, r, x)) # 1
                 \/ \E d \in Due(b) : d[2] = x /\ ~Discharged(b, d)
<1>1. PICK as : as = b.claim.atoms
  OBVIOUS
<1>2. t \in MissingObligations(b) \cup FailedObligations(b)
  BY DEF Obligations
<1>3. \A d \in Due(b) : d[2] \in as
  BY <1>1 DEF Due
<1>4. ASSUME NEW d \in Due(b), t = Token(d), ~Discharged(b, d)
      PROVE  \E x \in as : /\ x \in AtomOfToken(t, as)
                           /\ \E e \in Due(b) : e[2] = x /\ ~Discharged(b, e)
  <2>1. PICK x \in as : x = d[2]
    BY <1>3, <1>4
  <2>2. x \in AtomOfToken(Token(d), as)
    BY <1>1, <2>1, TokensNameTheirAtom
  <2> QED BY <1>4, <2>1, <2>2
<1>5. CASE t \in { << "frame", p[1], p[2] >> :
                     p \in { q \in FrameReviewers \X b.claim.atoms :
                               Cardinality(FramesBy(b, q[1], q[2])) # 1 } }
  <2>1. PICK p \in FrameReviewers \X as : /\ t = << "frame", p[1], p[2] >>
                                          /\ Cardinality(FramesBy(b, p[1], p[2])) # 1
    BY <1>1, <1>5
  <2>2. PICK r \in FrameReviewers : r = p[1]
    BY <2>1
  <2>3. PICK x \in as : x = p[2]
    BY <2>1
  <2>4. x \in AtomOfToken(<< "frame", r, x >>, as)
    BY <1>1, TokensNameTheirAtom
  <2>5. x \in AtomOfToken(t, as) /\ Cardinality(FramesBy(b, r, x)) # 1
    BY <2>1, <2>2, <2>3, <2>4
  <2> QED BY <1>1, <2>5
<1>6. CASE t \in { Token(d) : d \in { c \in Due(b) : Cardinality(Filed(b, c)) # 1 } }
  <2>1. PICK d \in Due(b) : t = Token(d) /\ Cardinality(Filed(b, d)) # 1
    BY <1>6
  <2>2. ~Discharged(b, d)
    BY <2>1 DEF Discharged
  <2> QED BY <1>1, <1>4, <2>1, <2>2
<1>7. CASE t \in FailedObligations(b)
  <2>1. PICK d \in Due(b) : t = Token(d) /\ \A x \in Filed(b, d) : x.result \notin Discharging[d[1]]
    BY <1>7 DEF FailedObligations
  <2>2. ~Discharged(b, d)
    BY <2>1 DEF Discharged
  <2> QED BY <1>1, <1>4, <2>1, <2>2
<1> QED BY <1>2, <1>5, <1>6, <1>7 DEF MissingObligations

\* What is clear after a change for the worse was clear before, and no finding was about
\* the claim as a whole.
LEMMA ClearBefore ==
    ASSUME NEW b, NEW c, GoodItems(b.items), Worse(b, c),
           GlobalBlockers(b) = {}, GlobalBlockers(c) = {},
           RequiresObligations(b.claim.profile), b.claim.atoms \cap FrameReviewers = {},
           NEW a, Clear(c, a), AgreedOn(b, a)
    PROVE  a \in b.claim.atoms /\ OpenContent(b) = {} /\ a \notin Blocked(b)
<1>1. c.claim = b.claim
  BY DEF Worse, SameEvidence
<1>2. a \in b.claim.atoms
  BY <1>1 DEF Clear
<1>3. Due(c) = Due(b)
  BY <1>1, DueFromClaim
<1>4. \A d \in Due(b) : d[2] = a => Discharged(b, d)
  BY <1>3 DEF Clear, Worse
<1>5. /\ NoProvenance(b, a) \subseteq NoProvenance(c, a)
      /\ ~AtomHold(b, a)
  BY PoorerEvidence DEF Clear, Worse
<1>6. NoProvenance(b, a) = {}
  BY <1>5 DEF AtomHold
<1>7. ASSUME NEW f \in AllFindings(b)
      PROVE  \/ f.type \in SemanticSummaries
             \/ Localized(b.claim, f) /\ \A e \in f.ev : a \notin CitedBy(b.claim, e)
  <2>1. CASE f \in AllFindings(c)
    BY <1>1, <2>1 DEF Clear
  <2>2. ASSUME NEW x \in b.claim.atoms, NoProvenance(b, x) # {},
               f.type = "SOURCE_PROVENANCE_MISSING", f.ev = NoProvenance(b, x)
        PROVE  Localized(b.claim, f) /\ \A e \in f.ev : a \notin CitedBy(b.claim, e)
    <3>1. \A e \in f.ev : x \in CitedBy(b.claim, e)
      BY <2>2 DEF NoProvenance, Available, CitedBy
    <3>2. Localized(b.claim, f)
      BY <2>2, <3>1 DEF Localized, Localizable
    <3>3. ASSUME NEW e \in f.ev, a \in CitedBy(b.claim, e)
          PROVE  FALSE
      <4>1. e \in Available(b, a) /\ b.items[e].group = ""
        BY <2>2, <3>3 DEF NoProvenance, Available, CitedBy
      <4> QED BY <1>6, <4>1 DEF NoProvenance
    <3> QED BY <3>2, <3>3
  <2> QED BY <1>2, <2>1, <2>2, FoundBefore
<1>8. ASSUME NEW t \in Obligations(b).missing \cup Obligations(b).failed
      PROVE  AtomOfToken(t, b.claim.atoms) # {} /\ a \notin AtomOfToken(t, b.claim.atoms)
  <2>1. PICK x \in b.claim.atoms :
              /\ x \in AtomOfToken(t, b.claim.atoms)
              /\ \/ \E r \in FrameReviewers : Cardinality(FramesBy(b, r, x)) # 1
                 \/ \E d \in Due(b) : d[2] = x /\ ~Discharged(b, d)
    BY OpenWork
  <2>2. x # a
    BY <1>4, <2>1 DEF AgreedOn
  <2> QED BY <2>1, <2>2, TokensNameOneAtom
<1>9. OpenContent(b) = {}
  BY <1>7, <1>8, NothingOpenGlobally
<1>10. a \notin Obligations(b).mismatch
  BY DEF Obligations, AgreedOn
<1>11. a \notin HeldAtoms(b)
  BY <1>5 DEF HeldAtoms
<1>12. ~ \E f \in AllFindings(b) : /\ Localized(b.claim, f)
                                  /\ \E e \in f.ev : a \in CitedBy(b.claim, e)
  <2>1. ASSUME NEW f \in AllFindings(b), f.type \in SemanticSummaries
        PROVE  ~Localized(b.claim, f)
    BY <2>1 DEF Localized, Localizable, SemanticSummaries
  <2> QED BY <1>7, <2>1
<1>13. a \notin Blocked(b)
  BY <1>2, <1>8, <1>10, <1>11, <1>12, BlockedAtoms
<1> QED BY <1>2, <1>9, <1>13

\* What holds a claim that nothing blocks as a whole blocks one of its atoms.
LEMMA SomethingIsBlocked ==
    ASSUME NEW b, NEW c, GoodItems(b.items), Worse(b, c),
           GlobalBlockers(b) = {}, GlobalBlockers(c) = {},
           RequiresObligations(b.claim.profile), b.claim.atoms \cap FrameReviewers = {},
           b.claim.atoms # {}, InvalidArtifacts(b) = {},
           \A f \in b.findings : f.type \notin SemanticSummaries,
           OpenContent(b) = {}, Decide(b).verdict = "HOLD"
    PROVE  Blocked(b) # {}
<1> SUFFICES ASSUME Blocked(b) = {} PROVE FALSE
  OBVIOUS
<1>1. \A x \in b.claim.atoms :
        /\ x \notin HeldAtoms(b)
        /\ x \notin Obligations(b).mismatch
        /\ \A t \in Obligations(b).missing \cup Obligations(b).failed :
              x \notin AtomOfToken(t, b.claim.atoms)
        /\ \A f \in AllFindings(b) :
              Localized(b.claim, f) => \A e \in f.ev : x \notin CitedBy(b.claim, e)
  BY BlockedAtoms
<1>2. HeldAtoms(b) = {}
  BY <1>1 DEF HeldAtoms
<1>3. Obligations(b).mismatch = {}
  BY <1>1 DEF Obligations
<1>4. Obligations(b).missing \cup Obligations(b).failed = {}
  BY <1>1, OpenWork
<1>5. ~DuplicateStatements(b)
  <2>1. PICK fs : fs = Failures(b)
    OBVIOUS
  <2>2. fs.DUPLICATE_ATOMIC_CLAIM = DuplicateStatements(b) /\ "DUPLICATE_ATOMIC_CLAIM" \in DOMAIN fs
    BY <2>1 DEF Failures
  <2>3. ~fs["DUPLICATE_ATOMIC_CLAIM"]
    BY <2>1, <2>2 DEF GlobalBlockers
  <2> QED BY <2>2, <2>3
<1>6. ~StructuralHold(b)
  BY <1>2, <1>3, <1>4, <1>5 DEF StructuralHold, AtomicHold, ObligationHold
<1>7. AllFindings(b) # {}
  BY <1>6, Verdicts DEF VerdictOf
<1>8. PICK f \in AllFindings(b) : TRUE
  BY <1>7
<1>9. f.type \in SemanticSummaries \/ Localized(b.claim, f)
  BY NoContentBlockers DEF OpenContent
<1>10. CASE Localized(b.claim, f)
  <2>1. PICK e \in f.ev : CitedBy(b.claim, e) # {}
    BY <1>10 DEF Localized
  <2>2. PICK x \in b.claim.atoms : x \in CitedBy(b.claim, e)
    BY <2>1 DEF CitedBy
  <2> QED BY <1>1, <1>10, <2>2
<1>11. CASE f.type \in SemanticSummaries
  <2>1. f \notin b.findings
    BY <1>11
  <2>2. f.type # "SOURCE_PROVENANCE_MISSING"
    BY <1>11 DEF SemanticSummaries
  <2>3. \/ Obligations(b).mismatch # {}
        \/ Obligations(b).missing # {}
        \/ Obligations(b).failed # {}
    BY <1>11, <2>1, <2>2, FoundBefore
  <2> QED BY <1>3, <1>4, <2>3
<1> QED BY <1>9, <1>10, <1>11

LEMMA TwoAtoms ==
    ASSUME NEW as, IsFiniteSet(as), NEW a \in as, NEW x \in as, a # x
    PROVE  Cardinality(as) >= 2
<1>1. IsFiniteSet({a, x}) /\ Cardinality({a, x}) = 2
  <2>1. IsFiniteSet({a}) /\ Cardinality({a}) = 1
    BY FS_Singleton
  <2>2. {a, x} = {a} \cup {x}
    OBVIOUS
  <2> QED BY <2>1, <2>2, FS_AddElement
<1>2. {a, x} \subseteq as
  OBVIOUS
<1>3. Cardinality({a, x}) <= Cardinality(as) /\ Cardinality(as) \in Nat
  BY <1>1, <1>2, FS_Subset, FS_CardinalityType
<1> QED BY <1>1, <1>3

\* What is promoted after a change for the worse was promoted before.
LEMMA PromotedBefore ==
    ASSUME NEW b, Reviewed(b), Covered(b), NEW c, Reviewed(c), Worse(b, c),
           ~CorrelatedOutput(b), b.claim.atoms \cap FrameReviewers = {},
           Reports \cap SemanticSummaries = {}, InvalidArtifacts(b) = {},
           Decide(b).verdict # "REJECT",
           NEW a \in Decide(c).usefulness.promotable, AgreedOn(c, a) => AgreedOn(b, a)
    PROVE  a \in Decide(b).usefulness.promotable
<1>1. c.claim = b.claim
  BY DEF Worse, SameEvidence
<1>2. /\ GlobalBlockers(c) = {} /\ a \in b.claim.atoms
      /\ IF RequiresObligations(b.claim.profile) THEN Clear(c, a)
         ELSE ~AtomicHold(c) /\ AllFindings(c) = {}
  BY <1>1, PromotedIsClear
<1>3. GlobalBlockers(b) = {}
  BY <1>2, BlockersBefore
<1>4. GoodItems(b.items)
  BY DEF Covered
<1>5. \A f \in b.findings : f.type \notin SemanticSummaries
  BY DEF Reviewed
<1>6. Decide(b).verdict \in { "PASS", "HOLD" }
      /\ (Decide(b).verdict = "PASS" => a \in Decide(b).usefulness.promotable)
  BY <1>2, WhatIsPromoted
<1>7. ASSUME RequiresObligations(b.claim.profile), Decide(b).verdict = "HOLD"
      PROVE  a \in Decide(b).usefulness.promotable
  <2>1. Clear(c, a) /\ AgreedOn(b, a)
    BY <1>2, <1>7 DEF Clear
  <2>2. OpenContent(b) = {} /\ a \notin Blocked(b)
    BY <1>2, <1>3, <1>4, <1>7, <2>1, ClearBefore
  <2>3. Blocked(b) # {}
    BY <1>2, <1>3, <1>4, <1>5, <1>7, <2>2, SomethingIsBlocked
  <2>4. PICK x \in b.claim.atoms : x # a
    BY <2>2, <2>3 DEF Blocked
  <2>5. IsFiniteSet(b.claim.atoms)
    BY ClaimsAssumption DEF Reviewed
  <2>6. SalvageEligible(b.claim, b.claim.profile)
    BY <1>2, <1>7, <2>4, <2>5, TwoAtoms DEF SalvageEligible, RequiresObligations
  <2>7. Decide(b).usefulness.promotable = b.claim.atoms \ Blocked(b)
    BY <1>3, <1>7, <2>2, <2>3, <2>6, WhatIsPromoted
  <2> QED BY <1>2, <2>2, <2>7
<1>8. ASSUME ~RequiresObligations(b.claim.profile)
      PROVE  Decide(b).verdict # "HOLD"
  <2>1. ~AtomicHold(c) /\ AllFindings(c) = {}
    BY <1>2, <1>8
  <2>2. b.findings = {} /\ \A e \in Universe(b) : ~b.items[e].flagged
    <3>1. c.findings = {} /\ ScanFindings(c) = {}
      BY <2>1 DEF AllFindings
    <3>2. \A e \in Universe(c) : ~c.items[e].flagged
      BY <3>1 DEF ScanFindings
    <3> QED BY <3>1, <3>2 DEF Worse, SameEvidence, Universe
  <2>3. ~AtomicHold(b)
    <3>1. \A x : AtomHold(b, x) => AtomHold(c, x)
      BY <1>4, PoorerEvidence DEF Worse
    <3>2. HeldAtoms(b) \subseteq HeldAtoms(c)
      BY <1>1, <3>1 DEF HeldAtoms
    <3>3. DuplicateStatements(b) => DuplicateStatements(c)
      BY <1>1 DEF DuplicateStatements
    <3> QED BY <1>1, <2>1, <3>2, <3>3 DEF AtomicHold
  <2>4. ~StructuralHold(b)
    BY <1>3, <1>8, <2>3 DEF StructuralHold, ObligationHold
  <2>5. AllFindings(b) = {}
    BY <2>2, <2>4, NothingHeldNothingFound
  <2>6. VerdictOf(b) # "HOLD"
    BY <2>4, <2>5 DEF VerdictOf
  <2> QED BY <2>6, Verdicts
<1> QED BY <1>6, <1>7, <1>8

\* Outputs that are all the same report nothing.
LEMMA CorrelatedReportNothing ==
    ASSUME NEW b, Covered(b), CorrelatedOutput(b)
    PROVE  /\ RequiresModelBinding(b.claim.profile)
           /\ \A r \in RequiredReviewers(b.claim.profile) :
                 /\ r \in Received(b) /\ b.receipts[r].status = "SUCCESS"
                 /\ b.receipts[r].output = "same" /\ ArtifactsOf(b, r) = {}
<1>1. PICK required : required = RequiredReviewers(b.claim.profile)
  OBVIOUS
<1>2. PICK outs : outs = { b.receipts[r].output : r \in required }
  OBVIOUS
<1>3. PICK successes : successes = { r \in Counted(b) : /\ b.receipts[r].status = "SUCCESS"
                                                       /\ b.receipts[r].output # "" }
  OBVIOUS
<1>4. /\ RequiresModelBinding(b.claim.profile) /\ successes = required
      /\ Cardinality({ b.receipts[r].output : r \in successes }) = 1
  BY <1>1, <1>3 DEF CorrelatedOutput
<1>5. \A r \in required : /\ r \in Received(b) /\ b.receipts[r].status = "SUCCESS"
                          /\ b.receipts[r].output # ""
  BY <1>3, <1>4 DEF Counted
<1>6. PICK out : outs = {out}
  <2>1. IsFiniteSet(required)
    BY <1>1, ReviewersAreFinite
  <2>2. PICK g : g = [r \in required |-> b.receipts[r].output]
    OBVIOUS
  <2>3. g \in Surjection(required, outs)
    BY <1>2, <2>2 DEF Surjection
  <2>4. IsFiniteSet(outs)
    BY <2>1, <2>3, FS_Surjection
  <2>5. Cardinality(outs) = 1
    BY <1>2, <1>4
  <2> QED BY <2>4, <2>5, FS_Singleton
<1>7. \A r \in required : b.receipts[r].output = out
  BY <1>2, <1>6
<1>8. \A r \in required : Covers(b, r, b.receipts[r])
  BY <1>5 DEF Covered, Received
<1>9. out = "same"
  <2>1. "scope" \in required /\ "security" \in required
    BY <1>1 DEF RequiredReviewers, BaseReviewers
  <2>2. out \in { "scope", "same" } /\ out \in { "security", "same" }
    BY <1>5, <1>7, <1>8, <2>1 DEF Covers
  <2> QED BY <2>2
<1>10. \A r \in required : ArtifactsOf(b, r) = {}
  BY <1>7, <1>8, <1>9 DEF Covers
<1> QED BY <1>1, <1>4, <1>5, <1>7, <1>9, <1>10

\* They are still all the same when outputs become the same.
LEMMA StillCorrelated ==
    ASSUME NEW b, Covered(b), NEW c, c.claim = b.claim, DOMAIN c.receipts = DOMAIN b.receipts,
           \A r \in DOMAIN b.receipts :
              /\ c.receipts[r].status = b.receipts[r].status
              /\ c.receipts[r].output \in { b.receipts[r].output, "same" },
           CorrelatedOutput(b)
    PROVE  CorrelatedOutput(c)
<1>1. PICK required : required = RequiredReviewers(b.claim.profile)
  OBVIOUS
<1>2. /\ RequiresModelBinding(b.claim.profile)
      /\ \A r \in required : /\ r \in DOMAIN b.receipts /\ b.receipts[r].status = "SUCCESS"
                             /\ b.receipts[r].output = "same"
  BY <1>1, CorrelatedReportNothing DEF Received
<1>3. \A r \in required : /\ c.receipts[r].status = "SUCCESS" /\ c.receipts[r].output = "same"
  BY <1>2
<1>4. Counted(b) = required /\ Counted(c) = required
  BY <1>1, <1>2 DEF Counted, Received
<1>5. required # {}
  BY <1>1 DEF RequiredReviewers, BaseReviewers
<1>6. { b.receipts[r].output : r \in required } = {"same"}
      /\ { c.receipts[r].output : r \in required } = {"same"}
  BY <1>2, <1>3, <1>5
<1>7. PICK sb, sc : /\ sb = { r \in Counted(b) : b.receipts[r].status = "SUCCESS" /\ b.receipts[r].output # "" }
                    /\ sc = { r \in Counted(c) : c.receipts[r].status = "SUCCESS" /\ c.receipts[r].output # "" }
  OBVIOUS
<1>8. sb = required /\ sc = required
  BY <1>2, <1>3, <1>4, <1>7
<1>9. Cardinality({"same"}) = 1
  BY FS_Singleton
<1>10. Cardinality({ c.receipts[r].output : r \in sc }) = 1
  BY <1>6, <1>8, <1>9
<1> QED BY <1>1, <1>2, <1>7, <1>8, <1>10 DEF CorrelatedOutput

LEMMA NotCorrelatedBefore ==
    ASSUME NEW b, Covered(b), NEW c, c.claim = b.claim, DOMAIN c.receipts = DOMAIN b.receipts,
           \A r \in DOMAIN b.receipts :
              /\ c.receipts[r].status = b.receipts[r].status
              /\ c.receipts[r].output \in { b.receipts[r].output, "same" },
           GlobalBlockers(c) = {}
    PROVE  ~CorrelatedOutput(b)
BY NoBlockers, StillCorrelated

\* A reviewer hands in other work, and the atom is still read alike.
LEMMA WorkIsWorse ==
    ASSUME NEW b, Reviewed(b), Covered(b), NEW c, NEW r, WorkDiffers(b, c, r), GlobalBlockers(c) = {},
           RequiresObligations(b.claim.profile), NEW a, AgreedOn(c, a)
    PROVE  Worse(b, c) /\ ~CorrelatedOutput(b)
<1>1. HandedIn(b, c, r) /\ c.receipts[r].status = b.receipts[r].status
  BY DEF WorkDiffers
<1>2. SameEvidence(b, c)
  BY <1>1 DEF HandedIn, SameEvidence
<1>3. SameReceipts(b, c)
  <2>1. ASSUME NEW s \in DOMAIN b.receipts
        PROVE  SameBinding(b.receipts[s], c.receipts[s]) /\ c.receipts[s].status = b.receipts[s].status
    <3>1. CASE s = r
      BY <1>1, <3>1 DEF HandedIn
    <3>2. CASE s # r
      <4>1. c.receipts[s] = b.receipts[s]
        BY <1>1, <3>2 DEF HandedIn
      <4> QED BY <4>1, SameBindingItself
    <3> QED BY <3>1, <3>2
  <2>2. DOMAIN c.receipts = DOMAIN b.receipts
    BY <1>1 DEF HandedIn
  <2> QED BY <2>1, <2>2 DEF SameReceipts, SameBinding
<1>4. c.runtimeKey = b.runtimeKey /\ LayerHolds(b) = LayerHolds(c)
  BY <1>1 DEF HandedIn, LayerHolds
<1>5. Worse(b, c)
  BY <1>2, <1>3, <1>4 DEF Worse, WorkDiffers
<1>6. ASSUME CorrelatedOutput(b)
      PROVE  FALSE
  <2>1. PICK s \in { "entailment", "counterexample" } : s # r
    OBVIOUS
  <2>2. AtLeast(b.claim.profile, "SEMANTIC_FORTIFIED")
    BY ProfileIsRanked, Ranks DEF AtLeast, RequiresObligations
  <2>3. s \in RequiredReviewers(b.claim.profile) /\ s \in FrameReviewers
    BY <2>1, <2>2 DEF RequiredReviewers, SemanticReviewers, FrameReviewers
  <2>4. ArtifactsOf(b, s) = {} /\ s \in DOMAIN b.receipts
    BY <1>6, <2>3, CorrelatedReportNothing DEF Received
  <2>5. ArtifactsOf(c, s) = {}
    BY <1>1, <2>1, <2>4 DEF HandedIn
  <2>6. FramesBy(c, s, a) = {}
    BY <2>5 DEF ArtifactsOf, FramesBy
  <2>7. Cardinality(FramesBy(c, s, a)) = 1
    BY <2>3 DEF AgreedOn
  <2> QED BY <2>6, <2>7, FS_EmptySet
<1> QED BY <1>5, <1>6

\* The receipt of r deviates, and nothing blocks the claim all the same.
LEMMA ReceiptIsWorse ==
    ASSUME NEW b, Reviewed(b), Covered(b), NEW r \in DOMAIN b.receipts, NEW now,
           NEW c, c = [b EXCEPT !.receipts = [b.receipts EXCEPT ![r] = now]], Reviewed(c),
           Deviant(r, b.receipts[r], now), now.status = b.receipts[r].status,
           now.output = b.receipts[r].output, Covers(b, r, now), GlobalBlockers(c) = {}
    PROVE  Worse(b, c) /\ ~CorrelatedOutput(b)
<1>1. PICK was, rs : was = b.receipts[r] /\ rs = [b.receipts EXCEPT ![r] = now]
  OBVIOUS
<1>2. /\ c.claim = b.claim /\ c.items = b.items /\ c.admissions = b.admissions
      /\ c.runtimeKey = b.runtimeKey /\ c.evidenceKey = b.evidenceKey
      /\ c.witness = b.witness /\ c.findings = b.findings
      /\ c.obligations = b.obligations /\ c.receipts = rs
  BY <1>1, OnlyReceiptsDiffer
<1>3. DOMAIN rs = DOMAIN b.receipts /\ rs[r] = now /\ \A s \in DOMAIN rs \ {r} : rs[s] = b.receipts[s]
  BY <1>1
<1>4. /\ Received(c) = RequiredReviewers(c.claim.profile)
      /\ r \in Received(c) /\ "scope" \in Received(c)
  <2>1. RequiredReviewers(c.claim.profile) \subseteq Received(c)
    BY NoBlockers, NoFailure
  <2>2. Received(c) \subseteq RequiredReviewers(c.claim.profile)
    BY DEF Reviewed, ReceiptsFollow, Received
  <2>3. r \in Received(c)
    BY <1>2, <1>3 DEF Received
  <2>4. "scope" \in RequiredReviewers(c.claim.profile)
    BY DEF RequiredReviewers, BaseReviewers
  <2> QED BY <2>1, <2>2, <2>3, <2>4
<1>5. /\ now.signed /\ now.context = "ISOLATED" /\ now.prompt = "current"
      /\ \A s \in Received(c) : c.receipts[s].invocation = now.invocation => s = r
      /\ ~BindingMismatch(c) /\ ~UnboundModel(c) /\ ~DuplicateResponses(c)
  <2>1. c.receipts[r] = now
    BY <1>2, <1>3
  <2>2. NoHardFailure(c)
    BY NoBlockers
  <2>3. /\ \A s \in Received(c) : /\ c.receipts[s].signed
                                 /\ c.receipts[s].context = "ISOLATED"
                                 /\ c.receipts[s].prompt = "current"
        /\ ~UnboundModel(c) /\ ~DuplicateResponses(c) /\ ~BindingMismatch(c)
    BY ONLY <2>2, NoFailure
  <2>4. \A s, q \in Received(c) :
            c.receipts[s].invocation = c.receipts[q].invocation => s = q
    BY ONLY <2>2, NoFailure
  <2> QED BY <1>4, <2>1, <2>3, <2>4
<1>6. now.claim = b.claim.version
  <2>1. r \in Counted(c)
    BY <1>4 DEF Counted
  <2> QED BY <1>2, <1>3, <1>5, <2>1 DEF BindingMismatch
<1>7. GoodReceipt(r, was) /\ Covers(b, r, was)
  BY <1>1 DEF Reviewed, ReceiptsFollow, Covered
<1>8. r # "scope" => /\ "scope" \in DOMAIN b.receipts /\ c.receipts["scope"] = b.receipts["scope"]
                     /\ GoodReceipt("scope", c.receipts["scope"])
  BY <1>2, <1>3, <1>4 DEF Received, Reviewed, ReceiptsFollow
<1>9. /\ now.status = was.status /\ now.signed = was.signed /\ now.claim = was.claim
      /\ now.ev = was.ev /\ now.prompt = was.prompt /\ now.context = was.context
      /\ now.invocation = was.invocation /\ now.invoked = was.invoked
      /\ RequiresModelBinding(b.claim.profile) =>
            now.modelBound = was.modelBound /\ now.response = was.response
  <2>1. CASE /\ now.claim = 1 /\ now.invoked = [was.invoked EXCEPT ![1] = 1]
             /\ << now.signed, now.ev, now.prompt, now.context, now.invocation, now.modelBound,
                   now.response >>
                  = << was.signed, was.ev, was.prompt, was.context, was.invocation, was.modelBound,
                       was.response >>
    <3>1. was.claim = 1 /\ was.invoked[1] = 1
      BY <1>6, <1>7, <2>1 DEF Covers
    <3>2. PICK i : i = was.invoked
      OBVIOUS
    <3>3. i = << i[1], i[2], i[3] >> /\ i[1] = 1
      BY <1>7, <3>1, <3>2 DEF Covers
    <3>4. [i EXCEPT ![1] = 1] = i
      BY ONLY <3>3
    <3> QED BY <1>1, <2>1, <3>1, <3>2, <3>4
  <2>2. CASE /\ now.invocation = "scope"
             /\ << now.signed, now.claim, now.ev, now.prompt, now.context, now.invoked,
                   now.modelBound, now.response >>
                  = << was.signed, was.claim, was.ev, was.prompt, was.context, was.invoked,
                       was.modelBound, was.response >>
    <3>1. r = "scope"
      <4>1. ASSUME r # "scope"
            PROVE  FALSE
        <5>1. c.receipts["scope"].invocation = "scope"
          BY <1>8, <4>1 DEF GoodReceipt
        <5> QED BY <1>4, <1>5, <2>2, <4>1, <5>1
      <4> QED BY <4>1
    <3>2. was.invocation = "scope"
      BY <1>7, <3>1 DEF GoodReceipt
    <3> QED BY <1>1, <2>2, <3>2
  <2>3. CASE /\ now.modelBound = FALSE \/ now.response = "scope"
             /\ now.modelBound \in { FALSE, was.modelBound }
             /\ now.response \in { "scope", was.response }
             /\ << now.signed, now.claim, now.ev, now.prompt, now.context, now.invocation,
                   now.invoked >>
                  = << was.signed, was.claim, was.ev, was.prompt, was.context, was.invocation,
                       was.invoked >>
    <3>1. ASSUME RequiresModelBinding(b.claim.profile)
          PROVE  now.modelBound = was.modelBound /\ now.response = was.response
      <4>1. c.receipts[r] = now /\ r \in Counted(c)
        BY <1>2, <1>3, <1>4 DEF Counted
      <4>2. now.modelBound
        BY <1>2, <1>5, <3>1, <4>1 DEF UnboundModel
      <4>3. now.response = "scope" => r = "scope"
        <5>1. ASSUME now.response = "scope", r # "scope"
              PROVE  FALSE
          <6>1. c.receipts["scope"].response = "scope"
            BY <1>8, <5>1 DEF GoodReceipt
          <6>2. /\ c.receipts[r].response = "scope" /\ r \in Received(c) /\ "scope" \in Received(c)
                /\ RequiresModelBinding(c.claim.profile)
            BY <1>2, <1>4, <3>1, <4>1, <5>1
          <6>3. DuplicateResponses(c)
            BY ONLY <5>1, <6>1, <6>2 DEF DuplicateResponses
          <6> QED BY <1>5, <6>3
        <5> QED BY <5>1
      <4>4. r = "scope" => was.response = "scope"
        BY <1>7 DEF GoodReceipt
      <4> QED BY <2>3, <4>2, <4>3, <4>4
    <3> QED BY <1>1, <2>3, <3>1
  <2> QED BY <1>1, <1>5, <2>1, <2>2, <2>3 DEF Deviant
<1>10. SameReceipts(b, c)
  <2>1. DOMAIN c.receipts = DOMAIN b.receipts
    BY <1>2, <1>3
  <2>2. ASSUME NEW s \in DOMAIN b.receipts
        PROVE  /\ c.receipts[s].status = b.receipts[s].status
               /\ c.receipts[s].signed = b.receipts[s].signed
               /\ c.receipts[s].claim = b.receipts[s].claim
               /\ c.receipts[s].ev = b.receipts[s].ev
               /\ c.receipts[s].prompt = b.receipts[s].prompt
               /\ c.receipts[s].context = b.receipts[s].context
               /\ c.receipts[s].invocation = b.receipts[s].invocation
               /\ c.receipts[s].invoked = b.receipts[s].invoked
               /\ RequiresModelBinding(b.claim.profile) =>
                     /\ c.receipts[s].modelBound = b.receipts[s].modelBound
                     /\ c.receipts[s].response = b.receipts[s].response
    <3>1. CASE s = r
      BY <1>1, <1>2, <1>3, <1>9, <3>1
    <3>2. CASE s # r
      BY <1>2, <1>3, <3>2
    <3> QED BY <3>1, <3>2
  <2> QED BY <2>1, <2>2 DEF SameReceipts
<1>11. SameEvidence(b, c) /\ LayerHolds(b) = LayerHolds(c)
  BY <1>2 DEF SameEvidence, LayerHolds
<1>12. Worse(b, c)
  BY <1>2, <1>10, <1>11, SameObligations DEF Worse
<1>13. \A s \in DOMAIN b.receipts : /\ c.receipts[s].status = b.receipts[s].status
                                    /\ c.receipts[s].output \in { b.receipts[s].output, "same" }
  BY <1>2, <1>3
<1> QED BY <1>2, <1>3, <1>12, <1>13, NotCorrelatedBefore

LEMMA OutputsAreWorse ==
    ASSUME NEW b, Reviewed(b), Covered(b), NEW rs, NEW c, c = [b EXCEPT !.receipts = rs],
           DOMAIN rs = DOMAIN b.receipts,
           \A r \in DOMAIN rs : /\ SameBinding(b.receipts[r], rs[r])
                                /\ rs[r].status = b.receipts[r].status
                                /\ rs[r].output \in { b.receipts[r].output, "same" },
           GlobalBlockers(c) = {}
    PROVE  Worse(b, c) /\ ~CorrelatedOutput(b)
<1>1. /\ c.claim = b.claim /\ c.items = b.items /\ c.admissions = b.admissions
      /\ c.runtimeKey = b.runtimeKey /\ c.evidenceKey = b.evidenceKey
      /\ c.witness = b.witness /\ c.findings = b.findings
      /\ c.obligations = b.obligations /\ c.receipts = rs
  BY OnlyReceiptsDiffer
<1>2. SameReceipts(b, c)
  BY <1>1 DEF SameReceipts, SameBinding
<1>3. SameEvidence(b, c) /\ LayerHolds(b) = LayerHolds(c)
  BY <1>1 DEF SameEvidence, LayerHolds
<1>4. Worse(b, c)
  BY <1>1, <1>2, <1>3, SameObligations DEF Worse
<1> QED BY <1>1, <1>4, NotCorrelatedBefore

\* The receipts and what they cover stay.
LEMMA RestIsWorse ==
    ASSUME NEW b, Reviewed(b), Covered(b), NEW c, c.receipts = b.receipts,
           c.findings = b.findings, c.obligations = b.obligations, SameEvidence(b, c),
           c.runtimeKey = b.runtimeKey, LayerHolds(b) \subseteq LayerHolds(c),
           GlobalBlockers(c) = {}
    PROVE  Worse(b, c) /\ ~CorrelatedOutput(b)
<1>1. SameReceipts(b, c)
  BY DEF SameReceipts
<1>2. Worse(b, c)
  BY <1>1, SameObligations DEF Worse
<1>3. c.claim = b.claim
  BY DEF SameEvidence
<1> QED BY <1>2, <1>3, NotCorrelatedBefore

LEMMA IntactVersions ==
    ASSUME NEW c, Reviewed(c), NoHardFailure(c)
    PROVE  \A e \in Universe(c) : c.items[e].version = 0
<1>1. "scope" \in Received(c) /\ "scope" \in Counted(c)
  BY NoFailure DEF RequiredReviewers, BaseReviewers, Counted
<1>2. c.receipts["scope"].ev = [e \in Evidence |-> 0]
  BY <1>1 DEF Reviewed, ReceiptsFollow, Received, GoodReceipt
<1>3. c.receipts["scope"].ev = Versions(c)
  BY <1>1, NoFailure DEF BindingMismatch
<1>4. PICK vs : vs = Versions(c)
  OBVIOUS
<1>5. \A e \in Universe(c) : vs[e] = c.items[e].version
  BY <1>4 DEF Versions
<1>6. vs = [e \in Evidence |-> 0] /\ Universe(c) = Evidence
  BY <1>2, <1>3, <1>4, IntactUniverse
<1> QED BY <1>5, <1>6

LEMMA EvidenceIsWorse ==
    ASSUME Reviewed(bundle), Covered(bundle), Reviewed(bundle'), NEW e \in Universe(bundle),
           EvidenceChanges(e) \/ EvidenceDropped(e) \/ EvidenceIsPoor(e),
           GlobalBlockers(bundle') = {}
    PROVE  Worse(bundle, bundle') /\ ~CorrelatedOutput(bundle)
<1>1. PICK b, c, is : b = bundle /\ c = bundle' /\ is = bundle.items
  OBVIOUS
<1>2. Reviewed(b) /\ Covered(b) /\ Reviewed(c) /\ GoodItems(is) /\ e \in DOMAIN is
      /\ is = b.items /\ GlobalBlockers(c) = {}
  BY <1>1 DEF Covered, Universe
<1>3. NoHardFailure(c)
  BY <1>2, NoBlockers
<1>4. Universe(c) = Evidence /\ \A d \in Universe(c) : c.items[d].version = 0
  BY <1>2, <1>3, IntactUniverse, IntactVersions
<1>5. PICK x : x = is[e]
  OBVIOUS
<1>6. /\ x = [version |-> x.version, group |-> x.group, source |-> x.source,
              origin |-> x.origin, flagged |-> x.flagged]
      /\ x.version \in Nat
  BY <1>2, <1>5 DEF GoodItems
<1>7. ASSUME NEW v, c = [b EXCEPT !.items = v]
      PROVE  /\ c.claim = b.claim /\ c.items = v /\ c.admissions = b.admissions
             /\ c.receipts = b.receipts /\ c.findings = b.findings
             /\ c.obligations = b.obligations /\ c.runtimeKey = b.runtimeKey
             /\ c.evidenceKey = b.evidenceKey /\ LayerHolds(b) = LayerHolds(c)
  <2>1. /\ c.claim = b.claim /\ c.items = v /\ c.admissions = b.admissions
        /\ c.receipts = b.receipts /\ c.findings = b.findings
        /\ c.obligations = b.obligations /\ c.runtimeKey = b.runtimeKey
        /\ c.evidenceKey = b.evidenceKey /\ c.witness = b.witness
    BY <1>2, <1>7 DEF Reviewed, IsBundle
  <2> QED BY <2>1 DEF LayerHolds
<1>8. ASSUME NEW y, y.version = x.version, y.source = x.source, y.origin = x.origin,
             y.group \in { x.group, "" }, x.flagged => y.flagged,
             c = [b EXCEPT !.items = [is EXCEPT ![e] = y]]
      PROVE  Worse(b, c) /\ ~CorrelatedOutput(b)
  <2>1. PICK v : v = [is EXCEPT ![e] = y]
    OBVIOUS
  <2>2. DOMAIN v = DOMAIN is /\ \A d \in DOMAIN v : v[d] = IF d = e THEN y ELSE is[d]
    BY <2>1
  <2>3. c = [b EXCEPT !.items = v]
    BY <1>8, <2>1
  <2>4. SameEvidence(b, c)
    <3>1. c.claim = b.claim /\ c.items = v /\ c.admissions = b.admissions /\ c.evidenceKey = b.evidenceKey
      BY <1>7, <2>3
    <3>2. \A d \in DOMAIN is :
            /\ v[d].version = is[d].version /\ v[d].source = is[d].source
            /\ v[d].origin = is[d].origin /\ v[d].group \in { is[d].group, "" }
            /\ is[d].flagged => v[d].flagged
      BY <1>5, <1>8, <2>2
    <3> QED BY <1>2, <2>2, <3>1, <3>2 DEF SameEvidence
  <2> QED BY <1>2, <1>7, <2>3, <2>4, RestIsWorse
<1>9. CASE EvidenceChanges(e)
  <2>1. PICK y : y = [x EXCEPT !.version = @ + 1]
    OBVIOUS
  <2>2. PICK v : v = [is EXCEPT ![e] = y]
    OBVIOUS
  <2>3. c = [b EXCEPT !.items = v]
    BY <1>1, <1>5, <1>9, <2>1, <2>2 DEF EvidenceChanges, Deviate
  <2>4. c.items = v /\ e \in Universe(c) /\ v[e] = y
    BY <1>2, <1>7, <2>2, <2>3 DEF Universe
  <2>5. y.version = x.version + 1
    BY <1>6, <2>1
  <2>6. y.version = 0
    BY <1>4, <2>4
  <2> QED BY <1>6, <2>5, <2>6
<1>10. CASE EvidenceDropped(e)
  <2>1. PICK v : v = [d \in DOMAIN is \ {e} |-> is[d]]
    OBVIOUS
  <2>2. c = [b EXCEPT !.items = v]
    BY <1>1, <1>10, <2>1 DEF EvidenceDropped, Deviate, Universe
  <2>3. e \notin Universe(c)
    BY <1>7, <2>1, <2>2 DEF Universe
  <2>4. e \in Evidence
    BY <1>2 DEF GoodItems
  <2> QED BY <1>4, <2>3, <2>4
<1>11. CASE EvidenceIsPoor(e)
  <2>1. PICK y, z : y = [x EXCEPT !.group = ""] /\ z = [x EXCEPT !.flagged = TRUE]
    OBVIOUS
  <2>2. \/ c = [b EXCEPT !.items = [is EXCEPT ![e] = y]]
        \/ c = [b EXCEPT !.items = [is EXCEPT ![e] = z]]
    BY <1>1, <1>5, <1>11, <2>1 DEF EvidenceIsPoor, Deviate
  <2>3. /\ y.version = x.version /\ y.source = x.source /\ y.origin = x.origin
        /\ y.group \in { x.group, "" } /\ (x.flagged => y.flagged)
    BY <1>6, <2>1
  <2>4. /\ z.version = x.version /\ z.source = x.source /\ z.origin = x.origin
        /\ z.group \in { x.group, "" } /\ (x.flagged => z.flagged)
    BY <1>6, <2>1
  <2>5. CASE c = [b EXCEPT !.items = [is EXCEPT ![e] = y]]
    BY <1>1, <1>8, <2>3, <2>5
  <2>6. CASE c = [b EXCEPT !.items = [is EXCEPT ![e] = z]]
    BY <1>1, <1>8, <2>4, <2>6
  <2> QED BY <2>2, <2>5, <2>6
<1> QED BY <1>9, <1>10, <1>11

\* The acquisition of the evidence deviates, and nothing blocks the claim: the profile does
\* not ask for it.
LEMMA AdmissionIsWorse ==
    ASSUME Reviewed(bundle), Covered(bundle), Reviewed(bundle'), NEW e \in Universe(bundle),
           AdmissionDeviates(e), GlobalBlockers(bundle') = {}
    PROVE  Worse(bundle, bundle') /\ ~CorrelatedOutput(bundle)
<1>1. PICK b, c, adm : b = bundle /\ c = bundle' /\ adm = bundle.admissions
  OBVIOUS
<1>2. Reviewed(b) /\ Covered(b) /\ Reviewed(c) /\ GlobalBlockers(c) = {}
      /\ e \in DOMAIN b.items /\ adm = b.admissions /\ \A d \in DOMAIN adm : GoodAdmission(adm[d])
  BY <1>1 DEF Universe, Reviewed, AdmissionsFollow
<1>3. PICK as : /\ c = [b EXCEPT !.admissions = as]
                /\ \/ as = [d \in DOMAIN adm \ {e} |-> adm[d]]
                   \/ /\ e \in DOMAIN adm
                      /\ \/ as = [adm EXCEPT ![e] = [adm[e] EXCEPT !.signed = FALSE]]
                         \/ as = [adm EXCEPT ![e] = [adm[e] EXCEPT !.status = "FAILED"]]
                         \/ \E d \in DOMAIN adm :
                               as = [adm EXCEPT ![e] = [adm[e] EXCEPT !.capture = adm[d].capture]]
  BY Zenon, <1>1 DEF AdmissionDeviates, Deviate
<1>4. /\ c.claim = b.claim /\ c.items = b.items /\ c.admissions = as
      /\ c.receipts = b.receipts /\ c.findings = b.findings
      /\ c.obligations = b.obligations /\ c.runtimeKey = b.runtimeKey
      /\ c.evidenceKey = b.evidenceKey /\ c.witness = b.witness
  BY <1>2, <1>3 DEF Reviewed, IsBundle
<1>5. ASSUME RequiresAdmission(b.claim.profile)
      PROVE  DOMAIN as = DOMAIN adm /\ \A d \in DOMAIN adm : as[d] = adm[d]
  <2>1. Admitted(c)
    BY <1>2, <1>4, <1>5, NoBlockers, NoFailureIsAdmitted
  <2>2. /\ DOMAIN as = DOMAIN b.items
        /\ \A d \in DOMAIN as : as[d].signed /\ as[d].status = "CAPTURED" /\ as[d].capture = d
    <3>1. DOMAIN c.admissions = Universe(c) /\ Universe(c) = DOMAIN b.items
      BY <1>4, <2>1 DEF Admitted, Universe
    <3>2. \A d \in Universe(c) : c.admissions[d] =
            [version |-> c.items[d].version, capture |-> d, signed |-> TRUE,
             origin |-> c.items[d].origin, status |-> "CAPTURED"]
      BY <2>1 DEF Admitted
    <3>3. ASSUME NEW d \in Universe(c)
          PROVE  /\ c.admissions[d].signed /\ c.admissions[d].status = "CAPTURED"
                 /\ c.admissions[d].capture = d
      <4>1. PICK v, o : v = c.items[d].version /\ o = c.items[d].origin
        OBVIOUS
      <4>2. PICK x : x = c.admissions[d]
        OBVIOUS
      <4>3. x = [version |-> v, capture |-> d, signed |-> TRUE, origin |-> o,
                 status |-> "CAPTURED"]
        BY <3>2, <4>1, <4>2
      <4>4. x.signed /\ x.status = "CAPTURED" /\ x.capture = d
        BY ONLY <4>3
      <4> QED BY ONLY <4>2, <4>4
    <3> QED BY <1>4, <3>1, <3>3
  <2>3. CASE as = [d \in DOMAIN adm \ {e} |-> adm[d]]
    BY <1>2, <2>2, <2>3
  <2>4. ASSUME e \in DOMAIN adm, NEW x, as = [adm EXCEPT ![e] = x]
        PROVE  x.signed /\ x.status = "CAPTURED" /\ x.capture = e
               /\ \A d \in DOMAIN adm \ {e} : adm[d].capture = d
    <3>1. as[e] = x /\ DOMAIN as = DOMAIN adm /\ \A d \in DOMAIN adm \ {e} : as[d] = adm[d]
      BY <2>4
    <3> QED BY <2>2, <2>4, <3>1
  <2>5. ASSUME e \in DOMAIN adm, as = [adm EXCEPT ![e] = [adm[e] EXCEPT !.signed = FALSE]]
        PROVE  FALSE
    <3>1. PICK x, y : x = adm[e] /\ y = [x EXCEPT !.signed = FALSE]
      OBVIOUS
    <3>2. y.signed = FALSE
      BY <1>2, <2>5, <3>1 DEF GoodAdmission
    <3>3. y.signed
      BY <2>4, <2>5, <3>1
    <3> QED BY <3>2, <3>3
  <2>6. ASSUME e \in DOMAIN adm, as = [adm EXCEPT ![e] = [adm[e] EXCEPT !.status = "FAILED"]]
        PROVE  FALSE
    <3>1. PICK x, y : x = adm[e] /\ y = [x EXCEPT !.status = "FAILED"]
      OBVIOUS
    <3>2. y.status = "FAILED"
      BY <1>2, <2>6, <3>1 DEF GoodAdmission
    <3>3. y.status = "CAPTURED"
      BY <2>4, <2>6, <3>1
    <3> QED BY <3>2, <3>3
  <2>7. ASSUME e \in DOMAIN adm, NEW d \in DOMAIN adm,
               as = [adm EXCEPT ![e] = [adm[e] EXCEPT !.capture = adm[d].capture]]
        PROVE  DOMAIN as = DOMAIN adm /\ \A f \in DOMAIN adm : as[f] = adm[f]
    <3>1. PICK x, y : x = adm[e] /\ y = [x EXCEPT !.capture = adm[d].capture]
      OBVIOUS
    <3>2. y.capture = adm[d].capture
      BY <1>2, <2>7, <3>1 DEF GoodAdmission
    <3>3. y.capture = e /\ \A f \in DOMAIN adm \ {e} : adm[f].capture = f
      BY <2>4, <2>7, <3>1
    <3>4. d = e
      BY <2>7, <3>2, <3>3
    <3>5. y = x
      BY <1>2, <2>7, <3>1, <3>4 DEF GoodAdmission
    <3> QED BY <2>7, <3>1, <3>5
  <2> QED BY <1>3, <2>3, <2>5, <2>6, <2>7
<1>6. SameEvidence(b, c)
  <2>1. c.claim = b.claim /\ c.items = b.items /\ c.evidenceKey = b.evidenceKey
    BY <1>4
  <2>2. RequiresAdmission(b.claim.profile) =>
          /\ DOMAIN c.admissions = DOMAIN b.admissions
          /\ \A d \in DOMAIN b.admissions : c.admissions[d] = b.admissions[d]
    BY <1>2, <1>4, <1>5
  <2> QED BY <2>1, <2>2 DEF SameEvidence
<1>7. LayerHolds(b) = LayerHolds(c)
  BY <1>4 DEF LayerHolds
<1> QED BY <1>1, <1>2, <1>4, <1>6, <1>7, RestIsWorse

LEMMA KeysAreWorse ==
    ASSUME Reviewed(bundle), Covered(bundle), Reviewed(bundle'), KeyUnavailable,
           GlobalBlockers(bundle') = {}
    PROVE  Worse(bundle, bundle') /\ ~CorrelatedOutput(bundle)
<1>1. PICK b, c : b = bundle /\ c = bundle'
  OBVIOUS
<1>2. Reviewed(b) /\ Covered(b) /\ GlobalBlockers(c) = {} /\ NoHardFailure(c)
  BY <1>1, NoBlockers
<1>3. c = [b EXCEPT !.runtimeKey = FALSE] \/ c = [b EXCEPT !.evidenceKey = FALSE]
  BY <1>1 DEF KeyUnavailable, Deviate
<1>4. CASE c = [b EXCEPT !.runtimeKey = FALSE]
  <2>1. c.runtimeKey = FALSE
    BY <1>2, <1>4 DEF Reviewed, IsBundle
  <2>2. c.runtimeKey
    BY ONLY <1>2, NoFailure
  <2> QED BY <2>1, <2>2
<1>5. CASE c = [b EXCEPT !.evidenceKey = FALSE]
  <2>1. /\ c.claim = b.claim /\ c.items = b.items /\ c.admissions = b.admissions
        /\ c.receipts = b.receipts /\ c.findings = b.findings
        /\ c.obligations = b.obligations /\ c.runtimeKey = b.runtimeKey
        /\ c.evidenceKey = FALSE /\ c.witness = b.witness
    BY <1>2, <1>5 DEF Reviewed, IsBundle
  <2>2. ~AdmissionHold(c)
    BY ONLY <1>2, NoFailure
  <2>3. ~RequiresAdmission(b.claim.profile)
    BY <2>1, <2>2 DEF AdmissionHold
  <2>4. SameEvidence(b, c)
    BY <2>1, <2>3 DEF SameEvidence
  <2>5. LayerHolds(b) = LayerHolds(c)
    BY <2>1 DEF LayerHolds
  <2> QED BY <1>1, <1>2, <2>1, <2>4, <2>5, RestIsWorse
<1> QED BY <1>3, <1>4, <1>5

LEMMA LayerIsWorse ==
    ASSUME Reviewed(bundle), Covered(bundle), NEW l, WitnessLayerFails(l),
           GlobalBlockers(bundle') = {}
    PROVE  Worse(bundle, bundle') /\ ~CorrelatedOutput(bundle)
<1>1. PICK b, c, was : b = bundle /\ c = bundle' /\ was = bundle.witness
  OBVIOUS
<1>2. PICK ts : bundle' = [bundle EXCEPT !.witness =
                  [k \in DOMAIN bundle.witness \cup {l} |-> IF k = l THEN ts ELSE bundle.witness[k]]]
  BY Zenon DEF WitnessLayerFails, Deviate
<1>3. PICK now : now = [k \in DOMAIN was \cup {l} |-> IF k = l THEN ts ELSE was[k]]
  OBVIOUS
<1>4. /\ c.claim = b.claim /\ c.items = b.items /\ c.admissions = b.admissions
      /\ c.receipts = b.receipts /\ c.findings = b.findings
      /\ c.obligations = b.obligations /\ c.runtimeKey = b.runtimeKey
      /\ c.evidenceKey = b.evidenceKey /\ c.witness = now
  BY <1>1, <1>2, <1>3 DEF Reviewed, IsBundle
<1>5. DOMAIN b.witness \subseteq DOMAIN c.witness
  BY <1>1, <1>3, <1>4
<1>6. SameEvidence(b, c)
  BY <1>4 DEF SameEvidence
<1>7. LayerHolds(b) \subseteq LayerHolds(c)
  BY <1>4, <1>5 DEF LayerHolds
<1>8. Reviewed(b) /\ Covered(b) /\ GlobalBlockers(c) = {}
  BY <1>1
<1> QED BY <1>1, <1>4, <1>6, <1>7, <1>8, RestIsWorse

(* A deviation after which nothing blocks the claim as a whole leaves a    *)
(* bundle the gate looks on no more kindly.                                *)
LEMMA StepIsWorse ==
    ASSUME GateInv, Covered(bundle), Reviewed(bundle'), Next, bundle' # bundle,
           GlobalBlockers(bundle') = {}, NEW a,
           IF RequiresObligations(bundle'.claim.profile) THEN AgreedOn(bundle', a)
           ELSE bundle'.findings = {}
    PROVE  Worse(bundle, bundle') /\ ~CorrelatedOutput(bundle)
<1>1. PICK b, c : b = bundle /\ c = bundle'
  OBVIOUS
<1>2. /\ Reviewed(bundle) /\ Reviewed(b) /\ Covered(b) /\ Reviewed(c)
      /\ GlobalBlockers(c) = {} /\ NoHardFailure(c)
  BY <1>1, NoBlockers DEF GateInv
<1>3. ASSUME NEW r, WorkDiffers(bundle, bundle', r), RequiresObligations(bundle.claim.profile)
      PROVE  Worse(bundle, bundle') /\ ~CorrelatedOutput(bundle)
  <2>1. WorkDiffers(b, c, r) /\ RequiresObligations(b.claim.profile)
    BY <1>1, <1>3
  <2>2. c.claim = b.claim
    BY <2>1 DEF WorkDiffers, HandedIn
  <2>3. AgreedOn(c, a)
    BY <1>1, <2>1, <2>2
  <2>4. Worse(b, c) /\ ~CorrelatedOutput(b)
    BY ONLY <1>2, <2>1, <2>3, WorkIsWorse
  <2> QED BY <1>1, <2>4
<1>4. CASE \E r \in Reporters \cap Received(bundle), t \in Reports, es \in References :
              ReviewerReports(r, t, es)
  <2>1. PICK r \in Received(bundle), t \in Reports, es \in References : ReviewerReports(r, t, es)
    BY <1>4
  <2>2. WorkDiffers(bundle, bundle', r) /\ bundle'.findings # {}
    BY <1>2, <2>1, ReportsDiffer
  <2>3. bundle'.claim = bundle.claim
    BY <2>2 DEF WorkDiffers, HandedIn
  <2> QED BY <1>3, <2>2, <2>3
<1>5. CASE WorkProductDeviates
  <2>1. RequiresObligations(bundle.claim.profile)
    BY <1>5 DEF WorkProductDeviates
  <2>2. ASSUME NEW r \in Received(bundle), NEW s, FrameDeviates(r, s)
        PROVE  \E q : WorkDiffers(bundle, bundle', q)
    BY <1>2, <2>2, FramesDiffer
  <2>3. ASSUME NEW r \in Received(bundle), NEW s, StrayArtifact(r, s)
        PROVE  \E q : WorkDiffers(bundle, bundle', q)
    BY <1>2, <2>3, StraysDiffer
  <2>4. ASSUME NEW d \in Due(bundle), ObligationOwner[d[1]] \in Received(bundle),
               ObligationDeviates(d)
        PROVE  \E q : WorkDiffers(bundle, bundle', q)
    BY <1>2, <2>4, ObligationsDiffer
  <2>5. \E q : WorkDiffers(bundle, bundle', q)
    BY <1>5, <2>2, <2>3, <2>4 DEF WorkProductDeviates
  <2> QED BY <1>3, <2>1, <2>5
<1>6. ASSUME NEW r \in Received(bundle), ReviewerFails(r)
      PROVE  FALSE
  <2>1. HandedIn(bundle, bundle', r) /\ bundle'.receipts[r].status # "SUCCESS"
    BY <1>2, <1>6, FailureShows
  <2>2. r \in Received(c) /\ c.receipts[r].status # "SUCCESS"
    BY <1>1, <2>1 DEF HandedIn, Received
  <2>3. \A s \in Received(c) : c.receipts[s].status = "SUCCESS"
    BY ONLY <1>2, NoFailure
  <2> QED BY <2>2, <2>3
<1>7. ASSUME NEW r \in Received(bundle), ReceiptLost(r)
      PROVE  FALSE
  <2>1. r \notin Received(c) /\ c.claim = b.claim
    BY <1>1, <1>2, <1>7, LostIsCovered
  <2>2. r \in RequiredReviewers(b.claim.profile)
    BY <1>1, <1>2 DEF Reviewed, ReceiptsFollow, Received
  <2>3. RequiredReviewers(c.claim.profile) \subseteq Received(c)
    BY ONLY <1>2, NoFailure
  <2> QED BY <2>1, <2>2, <2>3
<1>8. ASSUME NEW r \in Received(bundle), ReceiptDeviates(r)
      PROVE  Worse(bundle, bundle') /\ ~CorrelatedOutput(bundle)
  <2>1. PICK now : /\ c = [b EXCEPT !.receipts = [b.receipts EXCEPT ![r] = now]]
                   /\ Deviant(r, b.receipts[r], now) /\ now.status = b.receipts[r].status
                   /\ now.output = b.receipts[r].output /\ Covers(b, r, now)
    BY <1>1, <1>2, <1>8, ReceiptDiffers
  <2>2. r \in DOMAIN b.receipts
    BY <1>1 DEF Received
  <2>3. Worse(b, c) /\ ~CorrelatedOutput(b)
    BY ONLY <1>2, <2>1, <2>2, ReceiptIsWorse
  <2> QED BY <1>1, <2>3
<1>9. ASSUME NEW qs, SameOutput(qs)
      PROVE  Worse(bundle, bundle') /\ ~CorrelatedOutput(bundle)
  <2>1. PICK rs : /\ c = [b EXCEPT !.receipts = rs] /\ DOMAIN rs = DOMAIN b.receipts
                  /\ \A r \in DOMAIN rs :
                        /\ SameBinding(b.receipts[r], rs[r])
                        /\ rs[r].status = b.receipts[r].status
                        /\ rs[r].output = IF r \in qs /\ b.receipts[r].status = "SUCCESS"
                                          THEN "same" ELSE b.receipts[r].output
    BY <1>1, <1>2, <1>9, OutputsChange
  <2>2. \A r \in DOMAIN rs : /\ SameBinding(b.receipts[r], rs[r])
                             /\ rs[r].status = b.receipts[r].status
                             /\ rs[r].output \in { b.receipts[r].output, "same" }
    BY <2>1
  <2>3. Worse(b, c) /\ ~CorrelatedOutput(b)
    BY <1>2, <2>1, <2>2, OutputsAreWorse
  <2> QED BY <1>1, <2>3
<1>10. ASSUME NEW l, WitnessLayerFails(l)
       PROVE  Worse(bundle, bundle') /\ ~CorrelatedOutput(bundle)
  BY <1>2, <1>10, LayerIsWorse
<1>11. ASSUME NEW e \in Universe(bundle),
              EvidenceChanges(e) \/ EvidenceDropped(e) \/ EvidenceIsPoor(e)
       PROVE  Worse(bundle, bundle') /\ ~CorrelatedOutput(bundle)
  BY <1>2, <1>11, EvidenceIsWorse
<1>12. ASSUME NEW e \in Universe(bundle), AdmissionDeviates(e)
       PROVE  Worse(bundle, bundle') /\ ~CorrelatedOutput(bundle)
  BY <1>2, <1>12, AdmissionIsWorse
<1>13. CASE KeyUnavailable
  BY <1>2, <1>13, KeysAreWorse
<1>14. CASE RunGate
  BY <1>14 DEF RunGate
<1> QED
  BY <1>4, <1>5, <1>6, <1>7, <1>8, <1>9, <1>10, <1>11, <1>12, <1>13, <1>14 DEF Next

(* One more deviation never promotes more (integrity.py, the verdict of    *)
(* decide and assess_decision_usefulness): whatever the next deviation,    *)
(* the gate promotes no atom it did not promote before, but one whose last *)
(* reviewer in dispute came round to the reading of the others.            *)
(*   The atoms are not named like the reviewers that frame them: the code  *)
(* searches the token of a missing frame for the first part that is an     *)
(* atom, so that an atom called like a reviewer takes the blame for all    *)
(* the others.  And nobody reports a finding of one                        *)
(* of the summary types the gate adds itself: those block no atom and are  *)
(* no content blocker, so that a claim held for such a report alone        *)
(* promotes nothing, and once another deviation blocks one atom the others *)
(* are promoted.                                                           *)
THEOREM DeviationsNeverEverPromote ==
    ASSUME \A c \in Claims : c.atoms \cap FrameReviewers = {},
           Reports \cap SemanticSummaries = {}
    PROVE  Spec => DeviationsNeverPromote
<1>1. ASSUME GateInv, Covered(bundle), [Next]_vars, bundle' # bundle,
             Decide(bundle).verdict # "REJECT", InvalidArtifacts(bundle) = {},
             NEW a \in Decide(bundle').usefulness.promotable, a \notin bundle.claim.atoms
                         \/ AgreedOn(bundle, a) \/ ~AgreedOn(bundle', a)
      PROVE  a \in Decide(bundle).usefulness.promotable
  <2>1. PICK b, c : b = bundle /\ c = bundle'
    OBVIOUS
  <2>2. Reviewed(bundle')
    BY <1>1, GateInvStep DEF GateInv
  <2>3. Reviewed(b) /\ Reviewed(c) /\ Covered(b)
    BY <1>1, <2>1, <2>2 DEF GateInv
  <2>4. c.claim.atoms \cap FrameReviewers = {} /\ b.claim.atoms \cap FrameReviewers = {}
    BY <2>3 DEF Reviewed
  <2>5. a \in Decide(c).usefulness.promotable
    BY <1>1, <2>1
  <2>6. /\ GlobalBlockers(c) = {} /\ a \in c.claim.atoms
        /\ IF RequiresObligations(c.claim.profile) THEN Clear(c, a)
           ELSE ~AtomicHold(c) /\ AllFindings(c) = {}
    BY ONLY <2>3, <2>4, <2>5, PromotedIsClear
  <2>7. IF RequiresObligations(c.claim.profile) THEN AgreedOn(c, a) ELSE c.findings = {}
    BY <2>6 DEF Clear, AllFindings
  <2>8. Next
    BY <1>1 DEF vars
  <2>9. Worse(b, c) /\ ~CorrelatedOutput(b)
    BY <1>1, <2>1, <2>2, <2>6, <2>7, <2>8, StepIsWorse
  <2>10. AgreedOn(c, a) => AgreedOn(b, a)
    <3>1. c.claim = b.claim
      BY <2>9 DEF Worse, SameEvidence
    <3> QED BY <1>1, <2>1, <2>6, <3>1
  <2>11. InvalidArtifacts(b) = {} /\ Decide(b).verdict # "REJECT"
    BY <1>1, <2>1
  <2>12. Reports \cap SemanticSummaries = {}
    OBVIOUS
  <2>13. a \in Decide(b).usefulness.promotable
    BY ONLY <2>3, <2>4, <2>5, <2>9, <2>10, <2>11, <2>12, PromotedBefore
  <2> QED BY <2>1, <2>13
<1>2. GateInv /\ Covered(bundle) /\ [Next]_vars =>
        [ bundle' # bundle =>
            LET before  == Decide(bundle)
                settled == { a \in bundle.claim.atoms : ~AgreedOn(bundle, a) /\ AgreedOn(bundle', a) }
            IN  \/ before.verdict = "REJECT"
                \/ InvalidArtifacts(bundle) # {}
                \/ Decide(bundle').usefulness.promotable
                      \subseteq before.usefulness.promotable \cup settled ]_vars
  <2> SUFFICES ASSUME GateInv, Covered(bundle), [Next]_vars, bundle' # bundle,
                      Decide(bundle).verdict # "REJECT", InvalidArtifacts(bundle) = {},
                      NEW a \in Decide(bundle').usefulness.promotable,
                      a \notin { x \in bundle.claim.atoms :
                                   ~AgreedOn(bundle, x) /\ AgreedOn(bundle', x) }
               PROVE  a \in Decide(bundle).usefulness.promotable
    BY Zenon
  <2> QED BY <1>1
<1> QED BY <1>2, ReceiptsAlwaysCover, PTL DEF Spec, DeviationsNeverPromote
=============================================================================
