---------------------------- MODULE MultisigPool ----------------------------
(***************************************************************************)
(* The signing pool of one multi-signature account                         *)
(* (src/src/modules/wallet/services): transactions that change the         *)
(* account's signers (MultisigAccountService) or pay, proposed, signed,    *)
(* broadcast, cancelled and expired (MultisigTransactionService), and the  *)
(* account on the Stellar ledger as far as the service depends on it.      *)
(*                                                                         *)
(* A step of a call runs from one await to the next; a pooled transaction  *)
(* is read at the start of a call and saved from that copy at its end.     *)
(***************************************************************************)
EXTENDS Integers, Sequences, FiniteSets, FiniteSetsExt

CONSTANTS
    Keys,           \* the keys that can sign, "master" among them
    Setups,         \* the bodies of setup: [weights, high], high 0 when left out
    MAX_SIGNERS,    \* additional signers the ledger allows
    PoolCallers,    \* the requests in flight at a time
    MaxPooled,      \* bound on the transactions proposed
    MaxLostAnswers  \* bound on submissions whose answer is lost

VARIABLES
    account,    \* on the ledger: [weight, high, seq]
    pool,       \* multisig_transactions with their signatures
    poolCalls,
    unchecked,  \* history: an applied change no check of totals covered
    lostAnswers

vars == <<account, pool, poolCalls, unchecked, lostAnswers>>

Statuses == {"PENDING_SIGNATURES", "READY", "SUBMITTED", "FAILED", "EXPIRED", "CANCELLED"}
ThresholdCategory == {"MEDIUM", "HIGH"}

\* A pooled transaction.  A payment leaves the weights alone; sigs holds the
\* weight each signer had when it signed, 0 for the others; late is its
\* timebound and applied whether the ledger has it.
MultisigTransaction ==
    [category : ThresholdCategory, weight : [Keys -> Nat], high : Nat, seq : Nat,
     checked : BOOLEAN, requiredWeight : Nat, status : Statuses,
     sigs : [Keys -> Nat], late : BOOLEAN, applied : BOOLEAN]

TypeOK == pool \in Seq(MultisigTransaction)

Total(weight) == MapThenSumSet(LAMBDA k : weight[k], Keys)

NoCall == [at |-> "idle"]

Init ==
    /\ account = [weight |-> [k \in Keys |-> IF k = "master" THEN 1 ELSE 0], high |-> 0, seq |-> 0]
    /\ pool = <<>>
    /\ poolCalls = [c \in PoolCallers |-> NoCall]
    /\ unchecked = FALSE /\ lostAnswers = 0

At(c, step) == poolCalls[c].at = step
Finish(c) == poolCalls' = [poolCalls EXCEPT ![c] = NoCall]

----------------------------------------------------------------------------
(* Building and proposing *)

\* requiredWeightForCategory, with its floor of 1; payments are of the medium
\* category, whose threshold stays 0 here.
RequiredWeight(category) ==
    IF category = "HIGH" THEN Max({account.high, 1}) ELSE 1

\* propose: the transaction built on the account's current sequence number is
\* stored unsigned.
Propose(category, weight, high, checked) ==
    /\ Len(pool) < MaxPooled
    /\ pool' = Append(pool,
          [category |-> category, weight |-> weight, high |-> high, seq |-> account.seq + 1,
           checked |-> checked, requiredWeight |-> RequiredWeight(category),
           status |-> "PENDING_SIGNATURES", sigs |-> [k \in Keys |-> 0],
           late |-> FALSE, applied |-> FALSE])
    /\ UNCHANGED <<account, poolCalls, unchecked, lostAnswers>>

\* computeResultingSigners: the weights after the change; weight 0 removes.
ResultingSigners(changes) ==
    [k \in Keys |-> IF k \in DOMAIN changes THEN changes[k] ELSE account.weight[k]]

\* buildEnableMultisigTx: the cap on signers, some weight left, and every
\* threshold given within the total.  A threshold left out is not compared
\* with the total.
BuildEnableMultisig(dto) ==
    LET resulting == ResultingSigners(dto.weights)
        weight == [k \in Keys |-> IF k \in DOMAIN dto.weights THEN dto.weights[k] ELSE account.weight[k]]
    IN
    /\ Cardinality({k \in Keys \ {"master"} : resulting[k] > 0}) <= MAX_SIGNERS
    /\ Total(resulting) >= 1
    /\ dto.high <= Total(resulting)
    /\ Propose("HIGH", weight, IF dto.high = 0 THEN account.high ELSE dto.high, dto.high # 0)

\* buildRotateKeyTx: a signer other than the master makes room for a key that
\* is no signer, at the same weight unless the caller gives one.
BuildRotateKey(old, new, weight) ==
    /\ old # "master" /\ account.weight[old] > 0
    /\ new # old /\ account.weight[new] = 0 /\ new # "master"
    /\ Propose("HIGH", [account.weight EXCEPT ![new] = weight, ![old] = 0], account.high,
               weight = account.weight[old])

ProposePayment == Propose("MEDIUM", account.weight, account.high, TRUE)

----------------------------------------------------------------------------
(* Signing *)

\* expireIfElapsed, when the timebound has passed: EXPIRED is saved and the
\* request refused.
ExpireIfElapsed(i, status) ==
    /\ pool[i].status = status /\ pool[i].late
    /\ pool' = [pool EXCEPT ![i].status = "EXPIRED"]
    /\ UNCHANGED <<account, poolCalls, unchecked, lostAnswers>>

\* addSignature up to its transaction: a signer with weight on the ledger.
SignCheck(c, i, k) ==
    /\ At(c, "idle")
    /\ pool[i].status = "PENDING_SIGNATURES" /\ ~pool[i].late
    /\ account.weight[k] > 0
    /\ poolCalls' = [poolCalls EXCEPT ![c] =
          [at |-> "insert", tx |-> i, key |-> k, weight |-> account.weight[k]]]
    /\ UNCHANGED <<account, pool, unchecked, lostAnswers>>

\* Mutant: the weight asked for is not the one stored with the proposal but
\* one less.
SignInsertOffByOne(c) ==
    LET call == poolCalls[c]
        tx == pool[call.tx] IN
    /\ At(c, "insert")
    /\ poolCalls' = [poolCalls EXCEPT ![c] =
           [at |-> "commit", tx |-> call.tx, key |-> call.key, weight |-> call.weight,
            ready |-> Total(tx.sigs) + call.weight + 1 >= tx.requiredWeight]]
    /\ UNCHANGED <<account, pool, unchecked, lostAnswers>>

\* The transaction inserts the signature and adds up those it can see: the
\* committed ones and its own.  A second insert of the same signer waits for
\* the first, and is then refused.
SignInsert(c) ==
    LET call == poolCalls[c]
        tx == pool[call.tx] IN
    /\ At(c, "insert")
    /\ \A d \in PoolCallers \ {c} :
          At(d, "commit") => poolCalls[d].tx # call.tx \/ poolCalls[d].key # call.key
    /\ IF tx.sigs[call.key] > 0
       THEN Finish(c)
       ELSE poolCalls' = [poolCalls EXCEPT ![c] =
               [at |-> "commit", tx |-> call.tx, key |-> call.key, weight |-> call.weight,
                ready |-> Total(tx.sigs) + call.weight >= tx.requiredWeight]]
    /\ UNCHANGED <<account, pool, unchecked, lostAnswers>>

\* The commit; READY is written over whatever the status has become.
SignCommit(c) ==
    LET call == poolCalls[c] IN
    /\ At(c, "commit")
    /\ pool' = [pool EXCEPT ![call.tx].sigs[call.key] = call.weight,
                            ![call.tx].status = IF call.ready THEN "READY" ELSE @]
    /\ Finish(c)
    /\ UNCHANGED <<account, unchecked, lostAnswers>>

----------------------------------------------------------------------------
(* Broadcast and cancel *)

\* broadcast up to the submission: a READY transaction with its signatures.
BroadcastCheck(c, i) ==
    /\ At(c, "idle")
    /\ pool[i].status = "READY" /\ ~pool[i].late
    /\ poolCalls' = [poolCalls EXCEPT ![c] = [at |-> "submit", tx |-> i, sigs |-> pool[i].sigs]]
    /\ UNCHANGED <<account, pool, unchecked, lostAnswers>>

\* The ledger (external): the next sequence number, in time, and signers whose
\* present weights reach the threshold.
LedgerAccepts(tx, sigs) ==
    /\ tx.seq = account.seq + 1 /\ ~tx.late
    /\ MapThenSumSet(LAMBDA k : account.weight[k], {k \in Keys : sigs[k] > 0})
          >= RequiredWeight(tx.category)

\* submitTransaction; an applied transaction whose answer is lost looks
\* rejected to the service.
BroadcastSubmit(c, lost) ==
    LET i == poolCalls[c].tx
        tx == pool[i] IN
    /\ At(c, "submit")
    /\ IF LedgerAccepts(tx, poolCalls[c].sigs)
       THEN /\ account' = [weight |-> tx.weight, high |-> tx.high, seq |-> tx.seq]
            /\ pool' = [pool EXCEPT ![i].applied = TRUE]
            /\ unchecked' = (unchecked \/ ~tx.checked)
            /\ lost => lostAnswers < MaxLostAnswers
            /\ lostAnswers' = lostAnswers + (IF lost THEN 1 ELSE 0)
            /\ poolCalls' = [poolCalls EXCEPT ![c] =
                  [at |-> "save", tx |-> i, status |-> IF lost THEN "FAILED" ELSE "SUBMITTED"]]
       ELSE /\ ~lost
            /\ poolCalls' = [poolCalls EXCEPT ![c] = [at |-> "save", tx |-> i, status |-> "FAILED"]]
            /\ UNCHANGED <<account, pool, unchecked, lostAnswers>>

\* The outcome is saved, over whatever the status has become.
BroadcastSave(c) ==
    /\ At(c, "save")
    /\ pool' = [pool EXCEPT ![poolCalls[c].tx].status = poolCalls[c].status]
    /\ Finish(c)
    /\ UNCHANGED <<account, unchecked, lostAnswers>>

\* cancel: read as pending, then saved as cancelled.
CancelCheck(c, i) ==
    /\ At(c, "idle")
    /\ pool[i].status = "PENDING_SIGNATURES"
    /\ poolCalls' = [poolCalls EXCEPT ![c] = [at |-> "save", tx |-> i, status |-> "CANCELLED"]]
    /\ UNCHANGED <<account, pool, unchecked, lostAnswers>>

\* The timebound of a transaction passes.
Elapse(i) ==
    /\ ~pool[i].late
    /\ pool' = [pool EXCEPT ![i].late = TRUE]
    /\ UNCHANGED <<account, poolCalls, unchecked, lostAnswers>>

Next ==
    \/ \E dto \in Setups : BuildEnableMultisig(dto)
    \/ \E old, new \in Keys, weight \in 1..2 : BuildRotateKey(old, new, weight)
    \/ ProposePayment
    \/ \E i \in DOMAIN pool :
          \/ ExpireIfElapsed(i, "PENDING_SIGNATURES") \/ ExpireIfElapsed(i, "READY") \/ Elapse(i)
          \/ \E c \in PoolCallers :
                BroadcastCheck(c, i) \/ CancelCheck(c, i) \/ \E k \in Keys : SignCheck(c, i, k)
    \/ \E c \in PoolCallers :
          \/ SignInsert(c) \/ SignCommit(c) \/ BroadcastSave(c)
          \/ \E lost \in BOOLEAN : BroadcastSubmit(c, lost)

Spec == Init /\ [][Next]_vars

----------------------------------------------------------------------------
(* Properties *)

\* A transaction reported as ready, submitted or failed has collected the
\* weight it needs, and one reported as submitted is on the ledger, however
\* signatures, broadcasts and cancellations overlap (addSignature, broadcast).
PoolIsHonest ==
    \A i \in DOMAIN pool :
        /\ pool[i].status \in {"READY", "SUBMITTED", "FAILED"} => Total(pool[i].sigs) >= pool[i].requiredWeight
        /\ pool[i].status = "SUBMITTED" => pool[i].applied

\* The changes built by setup with its thresholds given, and by rotation with
\* the weight kept, never leave the account with less weight than its
\* threshold, whatever was applied between the build and the broadcast: the
\* sequence number taken at the build goes stale with the checks
\* (buildEnableMultisigTx, buildRotateKeyTx, loadSourceAccount).
AccountStaysUsable == ~unchecked => Total(account.weight) >= Max({account.high, 1})
=============================================================================
