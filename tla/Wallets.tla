------------------------------ MODULE Wallets ------------------------------
(***************************************************************************)
(* The custodial wallets of one user (WalletService in                     *)
(* src/src/modules/wallet/wallet.service.ts): create, update, remove,      *)
(* balance sync and the co-signer settings.  Every operation but create    *)
(* reads the wallet, waits, and saves the copy it read.  Keys, encryption  *)
(* and signing change no stored state and are left out.                    *)
(***************************************************************************)
EXTENDS Integers, FiniteSets

CONSTANTS
    WalletIds,      \* the wallets that can be created
    WalletCallers,  \* the requests in flight at a time
    MaxWalletWrites \* bound on the operations that reach the database

VARIABLES
    wallets,        \* the rows: [status, primary]
    walletCalls,    \* the calls in flight, with the copy each has read
    removed,        \* history: the wallets removed and not activated since
    walletVersion,  \* writes so far
    overlapped      \* history: some request wrote over another's write

vars == <<wallets, walletCalls, removed, walletVersion, overlapped>>

Wallet == [status : {"none", "active", "inactive"}, primary : BOOLEAN]

\* The fields a request may set: UpdateWalletDto, "keep" for one left out.
UpdateWalletDto == [status : {"keep", "active", "inactive"}, primary : {"keep", "yes", "no"}]

TypeOK == wallets \in [WalletIds -> Wallet] /\ removed \subseteq WalletIds

NoCall == [op |-> "idle"]
Exists(w) == wallets[w].status # "none"

Init ==
    /\ wallets = [w \in WalletIds |-> [status |-> "none", primary |-> FALSE]]
    /\ walletCalls = [c \in WalletCallers |-> NoCall]
    /\ removed = {} /\ walletVersion = 0 /\ overlapped = FALSE

\* The end of a call that writes.
Written(c) ==
    /\ walletVersion < MaxWalletWrites
    /\ walletVersion' = walletVersion + 1
    /\ overlapped' = (overlapped \/ walletVersion # walletCalls[c].version)
    /\ walletCalls' = [walletCalls EXCEPT ![c] = NoCall]

\* The update of every other primary wallet of the user.
UnsetPrimary(ws) == [w \in WalletIds |-> [ws[w] EXCEPT !.primary = FALSE]]

\* create: the first wallet of a user is primary unless the caller says
\* otherwise; the count is taken before the transaction.
CreateCount(c, wish) ==
    /\ walletCalls[c].op = "idle"
    /\ walletCalls' = [walletCalls EXCEPT ![c] =
          [op |-> "create", version |-> walletVersion,
           primary |-> wish = "yes" \/ (wish = "keep" /\ \A w \in WalletIds : ~Exists(w))]]
    /\ UNCHANGED <<wallets, removed, walletVersion, overlapped>>

\* create: the transaction.
CreateCommit(c, w) ==
    /\ walletCalls[c].op = "create"
    /\ ~Exists(w)
    /\ wallets' = [(IF walletCalls[c].primary THEN UnsetPrimary(wallets) ELSE wallets)
                     EXCEPT ![w] = [status |-> "active", primary |-> walletCalls[c].primary]]
    /\ Written(c)
    /\ UNCHANGED removed

\* findOne, the start of every other operation.
FindOne(c, w, op, dto) ==
    /\ walletCalls[c].op = "idle"
    /\ Exists(w)
    /\ op = "remove" => ~wallets[w].primary
    /\ walletCalls' = [walletCalls EXCEPT ![c] =
          [op |-> op, id |-> w, copy |-> wallets[w], dto |-> dto, version |-> walletVersion]]
    /\ UNCHANGED <<wallets, removed, walletVersion, overlapped>>

\* Mutant: the other primaries stay.
UpdateKeepsOthers(c) ==
    LET call == walletCalls[c] IN
    /\ call.op = "update"
    /\ wallets' = [wallets EXCEPT ![call.id] =
             [status |-> IF call.dto.status = "keep" THEN call.copy.status ELSE call.dto.status,
              primary |-> IF call.dto.primary = "keep" THEN call.copy.primary ELSE call.dto.primary = "yes"]]
    /\ removed' = IF call.dto.status = "active" THEN removed \ {call.id} ELSE removed
    /\ Written(c)

\* update: Object.assign and save, after unsetting the other primaries when
\* the request makes this one primary.
Update(c) ==
    LET call == walletCalls[c] IN
    /\ call.op = "update"
    /\ wallets' = [(IF call.dto.primary = "yes" THEN UnsetPrimary(wallets) ELSE wallets)
          EXCEPT ![call.id] =
             [status |-> IF call.dto.status = "keep" THEN call.copy.status ELSE call.dto.status,
              primary |-> IF call.dto.primary = "keep" THEN call.copy.primary ELSE call.dto.primary = "yes"]]
    /\ removed' = IF call.dto.status = "active" THEN removed \ {call.id} ELSE removed
    /\ Written(c)

\* remove: the copy is saved as inactive.
Remove(c) ==
    /\ walletCalls[c].op = "remove"
    /\ wallets' = [wallets EXCEPT ![walletCalls[c].id] = [walletCalls[c].copy EXCEPT !.status = "inactive"]]
    /\ removed' = removed \cup {walletCalls[c].id}
    /\ Written(c)

\* Other columns change and the copy is saved.
SaveCopy(c) ==
    /\ wallets' = [wallets EXCEPT ![walletCalls[c].id] = walletCalls[c].copy]
    /\ Written(c)
    /\ UNCHANGED removed

\* syncBalance, after Horizon has answered.
SyncBalance(c) == walletCalls[c].op = "sync" /\ SaveCopy(c)

ConfigureMultisig(c) == walletCalls[c].op = "configure" /\ SaveCopy(c)

\* Horizon or the database fails: the request ends without a write.
Fail(c) ==
    /\ walletCalls[c].op # "idle"
    /\ walletCalls' = [walletCalls EXCEPT ![c] = NoCall]
    /\ UNCHANGED <<wallets, removed, walletVersion, overlapped>>

KeepAll == [status |-> "keep", primary |-> "keep"]

Next ==
    \E c \in WalletCallers :
        \/ \E wish \in {"keep", "yes", "no"} : CreateCount(c, wish)
        \/ \E w \in WalletIds :
              \/ CreateCommit(c, w)
              \/ FindOne(c, w, "remove", KeepAll) \/ FindOne(c, w, "sync", KeepAll)
              \/ FindOne(c, w, "configure", KeepAll)
              \/ \E dto \in UpdateWalletDto : FindOne(c, w, "update", dto)
        \/ Update(c) \/ Remove(c) \/ SyncBalance(c) \/ ConfigureMultisig(c) \/ Fail(c)

Spec == Init /\ [][Next]_vars

\* While no request writes over another's write, a user has at most one
\* primary wallet and a removed wallet stays inactive until an update
\* activates it (create, update and remove; the order of their writes is free).
WalletsAreSound ==
    ~overlapped =>
        /\ Cardinality({w \in WalletIds : wallets[w].primary}) <= 1
        /\ \A w \in removed : wallets[w].status = "inactive"
=============================================================================
