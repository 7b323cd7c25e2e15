----------------------------- MODULE Compliance -----------------------------
(***************************************************************************)
(* KYC and AML records of one user (ComplianceService in                   *)
(* src/src/modules/compliance/compliance.service.ts): verification level,  *)
(* document review, risk score, AML flags and the regional configuration.  *)
(* Requests read a row, wait, and save the copy they read.                 *)
(***************************************************************************)
EXTENDS Integers, Sequences, FiniteSets, FiniteSetsExt

CONSTANTS
    KycCallers,   \* the requests in flight at a time
    MaxKycWrites  \* bound on the writes, other than of an earned level

VARIABLES
    kyc,          \* the KycVerification row, Absent before the first request
    documents,    \* the KycDocument rows, oldest first
    flags,        \* the AmlFlag rows
    blockScore,   \* blockThresholdScore of the configuration, 0 before it exists
    kycCalls,     \* the calls in flight
    kycWrites,
    granted,      \* history: the levels an administrator has set
    everVerified, \* history: the document types ever verified
    blockOrder,   \* history: the last transactionsBlocked an administrator gave
    kycOverlap,   \* history: a save replaced somebody else's write
    kycCut        \* history: a call ended in the middle

vars == <<kyc, documents, flags, blockScore, kycCalls, kycWrites,
          granted, everVerified, blockOrder, kycOverlap, kycCut>>

KycLevel == {"unverified", "standard", "enhanced", "institutional"}
AmlRiskLevel == {"low", "medium", "high", "critical"}
AmlFlagStatus == {"pending", "reviewing", "cleared", "confirmed"}
KycDocumentType == {"id_verification", "address_proof", "beneficial_ownership"}
KycDocumentStatus == {"pending", "verified", "rejected"}
Regions == {"low", "medium", "high"}

Absent == [level |-> "none"]
KycVerification ==
    [level : KycLevel, risk : AmlRiskLevel, score : 0 .. 100, region : Regions, blocked : BOOLEAN]
KycDocument == [type : KycDocumentType, status : KycDocumentStatus]
AmlFlag == [risk : AmlRiskLevel, status : AmlFlagStatus]

TypeOK ==
    /\ kyc \in KycVerification \cup {Absent}
    /\ documents \in Seq(KycDocument) /\ flags \in Seq(AmlFlag)
    /\ blockScore \in 0 .. 100

-----------------------------------------------------------------------------
(* Risk scores *)

ScoreToRiskLevel(score) ==
    IF score >= 75 THEN "critical" ELSE IF score >= 50 THEN "high"
    ELSE IF score >= 25 THEN "medium" ELSE "low"

Required == {"id_verification", "address_proof"}
VerifiedTypes(docs) == {docs[i].type : i \in {j \in DOMAIN docs : docs[j].status = "verified"}}
CountRisk(fs, risk) == Cardinality({i \in DOMAIN fs : fs[i].risk = risk})

\* The weighted factors of calculateRiskScore, in tenths of a point: KYC
\* level, missing documents, recent flags, account age and region.
LevelFactor == [unverified |-> 200, standard |-> 80, enhanced |-> 30, institutional |-> 10]
RegionFactor == [low |-> 20, medium |-> 60, high |-> 100]
AgeFactors == {135, 90, 45, 15}
FlagFactor(fs) == Min({100, CountRisk(fs, "critical") * 40 + CountRisk(fs, "high") * 20 + Len(fs) * 5})

\* The sum of the factors is divided by (6 weights / 100) and multiplied by
\* (100 / 7 factors), rounded and capped at 100.
CalculateRiskScore(row, docs, fs, age) ==
    LET sum == LevelFactor[row.level] + Cardinality(Required \ VerifiedTypes(docs)) * 100
               + FlagFactor(fs) + age + RegionFactor[row.region]
    IN  Min({100, (sum * 1000 + 21) \div 42})

\* assessTransactionRisk: the points of the rules the transaction triggers,
\* 20 for a high-risk region, 30% of the stored score.
TransactionScore(rules) ==
    LET region == IF kyc # Absent /\ kyc.region = "high" THEN 20 ELSE 0
        base == IF kyc = Absent THEN 0 ELSE kyc.score
    IN  Min({100, rules + region + (base * 3 + 5) \div 10})

\* shouldBlockTransactions.
ShouldBlock ==
    \/ kyc = Absent
    \/ kyc.blocked
    \/ kyc.risk = "critical"
    \/ kyc.score >= (IF blockScore = 0 THEN 80 ELSE blockScore)

-----------------------------------------------------------------------------
NoCall == [op |-> "idle"]
Call(c, call) == kycCalls' = [kycCalls EXCEPT ![c] = call]
Idle(c) == kycCalls[c].op = "idle"

Init ==
    /\ kyc = Absent /\ documents = <<>> /\ flags = <<>> /\ blockScore = 0
    /\ kycCalls = [c \in KycCallers |-> NoCall]
    /\ kycWrites = 0
    /\ granted = {} /\ everVerified = {} /\ blockOrder = FALSE
    /\ kycOverlap = FALSE /\ kycCut = FALSE

NewRow(region) ==
    [level |-> "unverified", risk |-> "low", score |-> 0, region |-> region, blocked |-> FALSE]

\* kycRepo.save of the copy a call has read; userId is unique, so a second
\* first row is refused and the call fails.
SaveKyc(c, row) ==
    /\ kycCalls[c].copy = Absent => kyc = Absent
    /\ kyc' = row
    /\ kycOverlap' = (kycOverlap \/ kyc # kycCalls[c].copy)

Counted == kycWrites < MaxKycWrites /\ kycWrites' = kycWrites + 1

\* kycRepo.findOne at the start of initiateVerification.
InitiateRead(c, region) ==
    /\ Idle(c) /\ kyc.level # "institutional"
    /\ Call(c, [op |-> "initiate", copy |-> kyc, region |-> region])
    /\ UNCHANGED <<kyc, documents, flags, blockScore, kycWrites, granted, everVerified, blockOrder, kycOverlap, kycCut>>

InitiateSave(c) ==
    LET call == kycCalls[c] IN
    /\ call.op = "initiate"
    /\ Counted
    /\ SaveKyc(c, IF call.copy = Absent THEN NewRow(call.region)
                  ELSE [call.copy EXCEPT !.region = call.region])
    /\ Call(c, NoCall)
    /\ UNCHANGED <<documents, flags, blockScore, granted, everVerified, blockOrder, kycCut>>

\* updateKycLevel: level and, when given, transactionsBlocked.
UpdateLevelRead(c, level, block) ==
    /\ Idle(c) /\ kyc # Absent
    /\ Call(c, [op |-> "level", copy |-> kyc, level |-> level, block |-> block])
    /\ UNCHANGED <<kyc, documents, flags, blockScore, kycWrites, granted, everVerified, blockOrder, kycOverlap, kycCut>>

UpdateLevelSave(c) ==
    LET call == kycCalls[c] IN
    /\ call.op = "level"
    /\ Counted
    /\ SaveKyc(c, [call.copy EXCEPT !.level = call.level,
                                    !.blocked = IF call.block = "keep" THEN @ ELSE call.block = "yes"])
    /\ granted' = granted \cup {call.level}
    /\ blockOrder' = IF call.block = "keep" THEN blockOrder ELSE call.block = "yes"
    /\ Call(c, NoCall)
    /\ UNCHANGED <<documents, flags, blockScore, everVerified, kycCut>>

\* uploadDocument: a file of an allowed type and size; the verification row is
\* made when there is none.
UploadDocument(c, type) ==
    /\ Idle(c)
    /\ Counted
    /\ kyc' = IF kyc = Absent THEN NewRow("low") ELSE kyc
    /\ documents' = Append(documents, [type |-> type, status |-> "pending"])
    /\ UNCHANGED <<flags, blockScore, kycCalls, granted, everVerified, blockOrder, kycOverlap, kycCut>>

\* reviewDocument: the document is saved, then checkDocumentCompletion runs.
ReviewDocument(c, i, status) ==
    /\ Idle(c)
    /\ Counted
    /\ documents' = [documents EXCEPT ![i].status = status]
    /\ everVerified' = IF status = "verified" THEN everVerified \cup {documents[i].type} ELSE everVerified
    /\ Call(c, [op |-> "documents"])
    /\ UNCHANGED <<kyc, flags, blockScore, granted, blockOrder, kycOverlap, kycCut>>

\* checkDocumentCompletion: first the documents are read, then the row.
CompletionDocuments(c) ==
    /\ kycCalls[c].op = "documents"
    /\ Call(c, [op |-> "row", types |-> VerifiedTypes(documents)])
    /\ UNCHANGED <<kyc, documents, flags, blockScore, kycWrites, granted, everVerified, blockOrder, kycOverlap, kycCut>>

\* Mutant: one required document is enough.
LevelForAny(types, level) ==
    IF Required \cap types = {} THEN level
    ELSE IF "beneficial_ownership" \in types THEN "enhanced" ELSE "standard"

LevelFor(types, level) ==
    IF ~(Required \subseteq types) THEN level
    ELSE IF "beneficial_ownership" \in types THEN "enhanced" ELSE "standard"

CompletionRow(c) ==
    LET level == LevelFor(kycCalls[c].types, kyc.level) IN
    /\ kycCalls[c].op = "row"
    /\ Call(c, IF level = kyc.level THEN NoCall ELSE [op |-> "complete", copy |-> kyc, level |-> level])
    /\ UNCHANGED <<kyc, documents, flags, blockScore, kycWrites, granted, everVerified, blockOrder, kycOverlap, kycCut>>

CompletionSave(c) ==
    /\ kycCalls[c].op = "complete"
    /\ SaveKyc(c, [kycCalls[c].copy EXCEPT !.level = kycCalls[c].level])
    /\ Call(c, NoCall)
    /\ UNCHANGED <<documents, flags, blockScore, kycWrites, granted, everVerified, blockOrder, kycCut>>

\* updateRiskAssessment: the row is read, the score computed, the row saved.
AssessmentRead(c, age) ==
    /\ Idle(c) /\ kyc # Absent
    /\ Call(c, [op |-> "assess", copy |-> kyc, score |-> CalculateRiskScore(kyc, documents, flags, age)])
    /\ UNCHANGED <<kyc, documents, flags, blockScore, kycWrites, granted, everVerified, blockOrder, kycOverlap, kycCut>>

AssessmentSave(c) ==
    LET call == kycCalls[c] IN
    /\ call.op = "assess"
    /\ Counted
    /\ SaveKyc(c, [call.copy EXCEPT !.score = call.score, !.risk = ScoreToRiskLevel(call.score)])
    /\ Call(c, NoCall)
    /\ UNCHANGED <<documents, flags, blockScore, granted, everVerified, blockOrder, kycCut>>

\* getConfigForRegion, from assessTransactionRisk and
\* shouldBlockTransactions: the default configuration is made on first use.
GetConfig == blockScore' = IF blockScore = 0 THEN 80 ELSE blockScore

\* assessTransactionRisk stores a flag when a rule of the transaction or the
\* region is triggered; it only reports whether to block.
AssessTransaction(c, rules) ==
    /\ Idle(c)
    /\ GetConfig
    /\ IF rules > 0 \/ (kyc # Absent /\ kyc.region = "high")
       THEN /\ Counted
            /\ flags' = Append(flags, [risk |-> ScoreToRiskLevel(TransactionScore(rules)), status |-> "pending"])
       ELSE UNCHANGED <<flags, kycWrites>>
    /\ UNCHANGED <<kyc, documents, kycCalls, granted, everVerified, blockOrder, kycOverlap, kycCut>>

\* reviewFlag: a pending or reviewing flag gets the reviewer's status.
ReviewFlagRead(c, i) ==
    /\ Idle(c) /\ flags[i].status \in {"pending", "reviewing"}
    /\ Call(c, [op |-> "flag", id |-> i, copy |-> flags[i]])
    /\ UNCHANGED <<kyc, documents, flags, blockScore, kycWrites, granted, everVerified, blockOrder, kycOverlap, kycCut>>

ReviewFlagSave(c, status) ==
    /\ kycCalls[c].op = "flag"
    /\ Counted
    /\ flags' = [flags EXCEPT ![kycCalls[c].id] = [kycCalls[c].copy EXCEPT !.status = status]]
    /\ Call(c, NoCall)
    /\ UNCHANGED <<kyc, documents, blockScore, granted, everVerified, blockOrder, kycOverlap, kycCut>>

UpsertConfig(score) ==
    /\ Counted
    /\ blockScore' = score
    /\ UNCHANGED <<kyc, documents, flags, kycCalls, granted, everVerified, blockOrder, kycOverlap, kycCut>>

\* The database fails or the process ends.
Fail(c) ==
    /\ ~Idle(c)
    /\ Call(c, NoCall)
    /\ kycCut' = TRUE
    /\ UNCHANGED <<kyc, documents, flags, blockScore, kycWrites, granted, everVerified, blockOrder, kycOverlap>>

Next ==
    \/ \E score \in {50} : UpsertConfig(score)
    \/ \E c \in KycCallers :
        \/ \E region \in {"high"} : InitiateRead(c, region)
        \/ \E level \in {"unverified", "institutional"}, block \in {"keep", "yes", "no"} :
              UpdateLevelRead(c, level, block)
        \/ \E type \in KycDocumentType : UploadDocument(c, type)
        \/ \E i \in DOMAIN documents, status \in {"verified", "rejected"} : ReviewDocument(c, i, status)
        \/ \E age \in {15} : AssessmentRead(c, age)
        \/ \E rules \in {0, 25} : AssessTransaction(c, rules)
        \/ \E i \in DOMAIN flags : ReviewFlagRead(c, i)
        \/ \E status \in {"cleared", "confirmed"} : ReviewFlagSave(c, status)
        \/ InitiateSave(c) \/ UpdateLevelSave(c)
        \/ CompletionDocuments(c) \/ CompletionRow(c) \/ CompletionSave(c)
        \/ AssessmentSave(c) \/ Fail(c)

Spec == Init /\ [][Next]_vars

-----------------------------------------------------------------------------
\* A level above unverified was set by an administrator or earned by
\* documents that were verified, however reviews, assessments and updates
\* interleave; and once no call is in flight, verified documents have raised
\* the level, unless an administrator set it, a save replaced another's or a
\* call was cut short (reviewDocument, checkDocumentCompletion, updateKycLevel).
LevelIsEarned ==
    /\ kyc.level \in {"standard", "enhanced", "institutional"} =>
          \/ kyc.level \in granted
          \/ kyc.level = "standard" /\ Required \subseteq everVerified
          \/ kyc.level = "enhanced" /\ KycDocumentType \subseteq everVerified
    /\ (granted = {} /\ ~kycOverlap /\ ~kycCut /\ \A c \in KycCallers : Idle(c)) =>
          (Required \subseteq VerifiedTypes(documents) => kyc.level \in {"standard", "enhanced"})

\* A block an administrator ordered stands until an administrator lifts it,
\* while no save replaces another's (updateKycLevel, shouldBlockTransactions).
BlockStands == ~kycOverlap /\ blockOrder => ShouldBlock
=============================================================================
