------------------------------ MODULE Disputes ------------------------------
(***************************************************************************)
(* Dispute resolution (src/src/modules/dispute-resolution): disputes on    *)
(* one trade and of one classification, the arbitrators' load counters,    *)
(* and the remediation transactions a decision records.  A request reads a *)
(* dispute, waits, and saves the copy it read, field changes included; the *)
(* requests in flight interleave at every await.  Messages, timeline and   *)
(* evidence rows are only ever appended and are left out.                  *)
(***************************************************************************)
EXTENDS Integers, Sequences, FiniteSets

CONSTANTS
    Parties,          \* maker and taker of the trade
    Arbitrators,      \* the registered arbitrators
    Experts,          \* those with the expertise of the classification
    Generalists,      \* those with GENERAL expertise
    MAX_ACTIVE,       \* maxActiveDisputes
    MAX_PER_MONTH,    \* MAX_DISPUTES_PER_USER_PER_MONTH
    DisputeCallers,   \* the requests in flight at a time
    MaxDisputes, MaxDecisions, MaxDisputeFaults

VARIABLES
    disputes,         \* the rows
    loads,            \* activeDisputeCount of each arbitrator
    paid,             \* remediation transactions recorded, per dispute
    owed,             \* history: decisions that ask for one, per dispute
    decided,          \* decisions saved so far
    appeals,          \* history: appeals filed, per dispute
    disputeCalls,     \* the calls in flight
    disputesOverlap,  \* history: a save replaced somebody else's write
    disputeFaults     \* calls that ended in the middle

vars == <<disputes, loads, paid, owed, decided, appeals, disputeCalls, disputesOverlap, disputeFaults>>

DisputeStatus == {"filed", "under_review", "investigation", "arbitration", "resolved", "appealed"}
Dispute == [by : Parties, status : DisputeStatus, arbitrator : Arbitrators \cup {"none"},
            appealed : BOOLEAN, enforced : BOOLEAN]
DisputeResolutionType == {"refund", "reversal", "settlement", "dismissed"}

TypeOK ==
    /\ disputes \in Seq(Dispute) /\ Len(disputes) <= MaxDisputes
    /\ loads \in [Arbitrators -> Nat]

\* A dispute as createDispute makes it, and a call that is not under way.
New(p) == [by |-> p, status |-> "filed", arbitrator |-> "none", appealed |-> FALSE, enforced |-> FALSE]
NoCall == [pc |-> "idle", id |-> 0, copy |-> New("none"), type |-> "none", to |-> "none",
           who |-> "none", load |-> 0]
Ids == 1 .. Len(disputes)
Call(c, call) == disputeCalls' = [disputeCalls EXCEPT ![c] = call]
Goto(c, pc) == Call(c, [disputeCalls[c] EXCEPT !.pc = pc])

Init ==
    /\ disputes = <<>>
    /\ loads = [a \in Arbitrators |-> 0]
    /\ paid = [d \in 1 .. MaxDisputes |-> 0]
    /\ owed = paid /\ appeals = paid /\ decided = 0
    /\ disputeCalls = [c \in DisputeCallers |-> NoCall]
    /\ disputesOverlap = FALSE /\ disputeFaults = 0

\* disputeRepository.save: the whole copy replaces the row.
Save(c, copy, next) ==
    LET call == disputeCalls[c] IN
    /\ disputes' = [disputes EXCEPT ![call.id] = copy]
    /\ disputesOverlap' = (disputesOverlap \/ disputes[call.id] # call.copy)
    /\ Call(c, [call EXCEPT !.copy = copy, !.pc = next])

-----------------------------------------------------------------------------
(* createDispute *)

\* The monthly cap, then no dispute of this party on the trade.  REJECTED,
\* the one status that would allow another, is never set.
CreateCheck(c, p) ==
    /\ disputeCalls[c].pc = "idle"
    /\ Cardinality({d \in Ids : disputes[d].by = p}) < MAX_PER_MONTH
    /\ \A d \in Ids : disputes[d].by # p
    /\ Call(c, [NoCall EXCEPT !.pc = "insert", !.copy = New(p)])
    /\ UNCHANGED <<disputes, loads, paid, owed, decided, appeals, disputesOverlap, disputeFaults>>

CreateInsert(c) ==
    /\ disputeCalls[c].pc = "insert"
    /\ Len(disputes) < MaxDisputes
    /\ disputes' = Append(disputes, disputeCalls[c].copy)
    /\ Call(c, [disputeCalls[c] EXCEPT !.pc = "flag", !.id = Len(disputes) + 1, !.to = "under_review"])
    /\ UNCHANGED <<loads, paid, owed, decided, appeals, disputesOverlap, disputeFaults>>

\* detectSimilarDisputes: the same classification and a status other than
\* REJECTED already reach the score of 30, so every other dispute matches.
Similar(d) == Ids \ {d}

\* flagIfSimilar saves the copy again, with the flag and the matches.
FlagIfSimilar(c) ==
    /\ disputeCalls[c].pc = "flag"
    /\ \/ /\ Similar(disputeCalls[c].id) # {}
          /\ Save(c, disputeCalls[c].copy, "assign")
       \/ /\ Similar(disputeCalls[c].id) = {}
          /\ Goto(c, "assign")
          /\ UNCHANGED <<disputes, disputesOverlap>>
    /\ UNCHANGED <<loads, paid, owed, decided, appeals, disputeFaults>>

-----------------------------------------------------------------------------
(* The arbitrators *)

\* The WHERE clause of assignArbitrator.  Its OR is not in parentheses, so
\* GENERAL expertise alone is enough, whatever the load.
Eligible(a) == (loads[a] < MAX_ACTIVE /\ a \in Experts) \/ a \in Generalists

\* assignArbitrator: the eligible arbitrator with the least load.
AssignArbitrator(c) ==
    /\ disputeCalls[c].pc = "assign"
    /\ \/ /\ \A a \in Arbitrators : ~Eligible(a)
          /\ Call(c, NoCall)
       \/ \E a \in Arbitrators :
            /\ Eligible(a) /\ \A b \in Arbitrators : Eligible(b) => loads[a] <= loads[b]
            /\ Call(c, [disputeCalls[c] EXCEPT !.pc = "count", !.who = a, !.load = loads[a]])
    /\ UNCHANGED <<disputes, loads, paid, owed, decided, appeals, disputesOverlap, disputeFaults>>

\* ... and the save of its counter.
CountArbitrator(c) ==
    LET call == disputeCalls[c] IN
    /\ call.pc = "count"
    /\ loads' = [loads EXCEPT ![call.who] = call.load + 1]
    /\ disputesOverlap' = (disputesOverlap \/ loads[call.who] # call.load)
    /\ Goto(c, "assigned")
    /\ UNCHANGED <<disputes, paid, owed, decided, appeals, disputeFaults>>

\* The dispute is saved with its arbitrator: UNDER_REVIEW when filed,
\* ARBITRATION after an appeal.
SaveAssigned(c) ==
    LET call == disputeCalls[c]
        copy == [call.copy EXCEPT !.arbitrator = call.who, !.status = call.to]
    IN
    /\ call.pc = "assigned"
    /\ disputes' = [disputes EXCEPT ![call.id] = copy]
    /\ disputesOverlap' = (disputesOverlap \/ disputes[call.id] # call.copy)
    /\ Call(c, NoCall)
    /\ UNCHANGED <<loads, paid, owed, decided, appeals, disputeFaults>>

\* releaseArbitrator.
ReleaseRead(c) ==
    LET call == disputeCalls[c] IN
    /\ call.pc = "release"
    /\ IF call.copy.arbitrator # "none" /\ loads[call.copy.arbitrator] > 0
       THEN Call(c, [call EXCEPT !.pc = "uncount", !.load = loads[call.copy.arbitrator]])
       ELSE Goto(c, "enforce")
    /\ UNCHANGED <<disputes, loads, paid, owed, decided, appeals, disputesOverlap, disputeFaults>>

ReleaseSave(c) ==
    LET call == disputeCalls[c]
        a == call.copy.arbitrator
    IN
    /\ call.pc = "uncount"
    /\ loads' = [loads EXCEPT ![a] = call.load - 1]
    /\ disputesOverlap' = (disputesOverlap \/ loads[a] # call.load)
    /\ Goto(c, "enforce")
    /\ UNCHANGED <<disputes, paid, owed, decided, appeals, disputeFaults>>

-----------------------------------------------------------------------------
(* submitEvidence, resolveDispute, appealDispute *)

\* Each starts by reading the dispute.
Find(c, d, pc, type) ==
    /\ disputeCalls[c].pc = "idle"
    /\ Call(c, [NoCall EXCEPT !.pc = pc, !.id = d, !.copy = disputes[d], !.type = type,
                              !.to = "arbitration"])
    /\ UNCHANGED <<disputes, loads, paid, owed, decided, appeals, disputesOverlap, disputeFaults>>

\* The first evidence on a FILED dispute starts the investigation; other
\* statuses but RESOLVED only store the file.
EvidenceRead(c, d) == disputes[d].status = "filed" /\ Find(c, d, "evidence", "none")

EvidenceSave(c) ==
    /\ disputeCalls[c].pc = "evidence"
    /\ LET copy == [disputeCalls[c].copy EXCEPT !.status = "investigation"] IN
       /\ disputes' = [disputes EXCEPT ![disputeCalls[c].id] = copy]
       /\ disputesOverlap' = (disputesOverlap \/ disputes[disputeCalls[c].id] # disputeCalls[c].copy)
       /\ Call(c, NoCall)
    /\ UNCHANGED <<loads, paid, owed, decided, appeals, disputeFaults>>

\* The assigned arbitrator or an administrator decides.
ResolveRead(c, d, actor, type) ==
    /\ actor # "admin" => disputes[d].arbitrator = actor
    /\ disputes[d].status \in {"under_review", "investigation", "arbitration", "appealed"}
    /\ Find(c, d, "resolve", type)

ResolveSave(c) ==
    LET d == disputeCalls[c].id IN
    /\ disputeCalls[c].pc = "resolve"
    /\ decided < MaxDecisions
    /\ Save(c, [disputeCalls[c].copy EXCEPT !.status = "resolved"], "release")
    /\ decided' = decided + 1
    /\ owed' = [owed EXCEPT ![d] = @ + (IF disputeCalls[c].type = "dismissed" THEN 0 ELSE 1)]
    /\ UNCHANGED <<loads, paid, appeals, disputeFaults>>

\* executeEnforcement: nothing when the copy says it was done; a dismissal
\* records no transaction.
Enforce(c) ==
    LET call == disputeCalls[c] IN
    /\ call.pc = "enforce"
    /\ \/ /\ call.copy.enforced
          /\ Call(c, NoCall)
          /\ UNCHANGED paid
       \/ /\ ~call.copy.enforced
          /\ paid' = [paid EXCEPT ![call.id] = @ + (IF call.type = "dismissed" THEN 0 ELSE 1)]
          /\ Goto(c, "enforced")
    /\ UNCHANGED <<disputes, loads, owed, decided, appeals, disputesOverlap, disputeFaults>>

EnforceSave(c) ==
    LET call == disputeCalls[c]
        copy == [call.copy EXCEPT !.enforced = TRUE]
    IN
    /\ call.pc = "enforced"
    /\ disputes' = [disputes EXCEPT ![call.id] = copy]
    /\ disputesOverlap' = (disputesOverlap \/ disputes[call.id] # call.copy)
    /\ Call(c, NoCall)
    /\ UNCHANGED <<loads, paid, owed, decided, appeals, disputeFaults>>

AppealRead(c, d) ==
    /\ disputes[d].status = "resolved" /\ ~disputes[d].appealed
    /\ Find(c, d, "appeal", "none")

\* Mutant: the appeal keeps the mark of the first enforcement.
AppealKeepsMark(c) ==
    /\ disputeCalls[c].pc = "appeal"
    /\ Save(c, [disputeCalls[c].copy EXCEPT !.appealed = TRUE, !.status = "appealed"], "assign")
    /\ appeals' = [appeals EXCEPT ![disputeCalls[c].id] = @ + 1]
    /\ UNCHANGED <<loads, paid, owed, decided, disputeFaults>>

AppealSave(c) ==
    /\ disputeCalls[c].pc = "appeal"
    /\ Save(c, [disputeCalls[c].copy EXCEPT !.appealed = TRUE, !.status = "appealed", !.enforced = FALSE],
            "assign")
    /\ appeals' = [appeals EXCEPT ![disputeCalls[c].id] = @ + 1]
    /\ UNCHANGED <<loads, paid, owed, decided, disputeFaults>>

\* The database fails or the process ends: what was saved stays.
Fail(c) ==
    /\ disputeCalls[c].pc # "idle" /\ disputeFaults < MaxDisputeFaults
    /\ Call(c, NoCall)
    /\ disputeFaults' = disputeFaults + 1
    /\ UNCHANGED <<disputes, loads, paid, owed, decided, appeals, disputesOverlap>>

Next ==
    \E c \in DisputeCallers :
        \/ \E p \in Parties : CreateCheck(c, p)
        \/ CreateInsert(c) \/ FlagIfSimilar(c)
        \/ AssignArbitrator(c) \/ CountArbitrator(c) \/ SaveAssigned(c)
        \/ \E d \in Ids : EvidenceRead(c, d) \/ AppealRead(c, d)
        \/ \E d \in Ids, actor \in Arbitrators \cup {"admin"}, type \in {"refund", "dismissed"} :
              ResolveRead(c, d, actor, type)
        \/ EvidenceSave(c) \/ ResolveSave(c) \/ AppealSave(c)
        \/ ReleaseRead(c) \/ ReleaseSave(c) \/ Enforce(c) \/ EnforceSave(c)
        \/ Fail(c)

Spec == Init /\ [][Next]_vars

-----------------------------------------------------------------------------
Enforcing(d) ==
    \E c \in DisputeCallers :
        disputeCalls[c].pc \in {"release", "uncount", "enforce"} /\ disputeCalls[c].id = d

\* Every decision that asks for a remediation has recorded exactly one when
\* its request is over, the decision after an appeal included, however the
\* requests interleave; only a request cut short leaves one out (resolveDispute,
\* executeEnforcement, appealDispute).  Without overlapping saves
\* a dispute is appealed at most once.
DecisionsEnforced ==
    /\ \A d \in Ids : paid[d] <= owed[d] /\ (~Enforcing(d) /\ disputeFaults = 0 => paid[d] = owed[d])
    /\ ~disputesOverlap => \A d \in Ids : appeals[d] <= 1

\* While no save replaces another's, an arbitrator's counter covers only open
\* disputes assigned to it, and an expert is not over its limit
\* (assignArbitrator, releaseArbitrator).
LoadsAreCovered ==
    (~disputesOverlap /\ disputeFaults = 0 /\ \A c \in DisputeCallers : disputeCalls[c].pc = "idle") =>
        \A a \in Arbitrators :
            /\ loads[a] <= Cardinality({d \in Ids : disputes[d].arbitrator = a /\ disputes[d].status # "resolved"})
            /\ a \notin Generalists => loads[a] <= MAX_ACTIVE
=============================================================================
