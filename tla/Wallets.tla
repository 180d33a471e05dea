-------------------------------- MODULE Wallets --------------------------------
(***************************************************************************)
(* wallet.service.ts and general_wallet.service.ts: the wallets an         *)
(* administrator signs in with, and the wallets that invoices offer.  Both *)
(* look for the wallet, and insert it an await later; neither table has a  *)
(* unique index.  A row is named by the request that inserted it.          *)
(***************************************************************************)
EXTENDS Calls

CONSTANTS
  Admins,     \* administrators.id
  Addresses,  \* wallet_id, wallet_address
  Messages,   \* encoded_signed_message
  Absent      \* no row

\* What a request that concerns wallets says.
ASSUME WalletsAssumption ==
  /\ Absent \notin Addresses
  /\ \A c \in Casts : \A r \in Requests :
       /\ c[r].admin \in Admins
       /\ c[r].address \in Addresses
       /\ c[r].message \in Messages
       /\ c[r].row \in Requests

VARIABLES
  wallets,         \* table wallet: the requests whose row is there
  generalWallets,  \* table general_wallet: the address of each row
  inserted         \* history: the requests that inserted a row

walletVars == <<wallets, generalWallets, inserted>>

WalletsTypeOK ==
  /\ wallets \subseteq Requests
  /\ generalWallets \in [Requests -> Addresses \cup {Absent}]
  /\ inserted \subseteq Requests

WalletsInit ==
  /\ wallets = {}
  /\ generalWallets = [r \in Requests |-> Absent]
  /\ inserted = {}

\* Where each operation first waits.  An invalid address of a general wallet
\* is refused before that and never gets here.
WalletEntry == [bind          |-> "find_wallet",
                delete        |-> "delete_wallet",
                addGeneral    |-> "find_general",
                updateGeneral |-> "update_general",
                deleteGeneral |-> "delete_general"]

BeginWallet(r) ==
  /\ call[r].op \in DOMAIN WalletEntry
  /\ Start(r, WalletEntry[call[r].op])
  /\ UNCHANGED walletVars

-----------------------------------------------------------------------------
(* WalletService.                                                          *)

\* Mutant: the look-up compares the message too.
FindWallet_ByMessage(r) ==
  /\ IF \E w \in wallets : /\ call[w].address = call[r].address
                           /\ call[w].admin = call[r].admin
                           /\ call[w].message = call[r].message
     THEN GoTo(r, "find_wallet", "refused")
     ELSE GoTo(r, "find_wallet", "insert_wallet")
  /\ UNCHANGED walletVars

\* bindWalletToAdmin, the look-up: of address and administrator only
FindWallet(r) ==
  /\ IF \E w \in wallets : /\ call[w].address = call[r].address
                           /\ call[w].admin = call[r].admin
     THEN GoTo(r, "find_wallet", "refused")
     ELSE GoTo(r, "find_wallet", "insert_wallet")
  /\ UNCHANGED walletVars

InsertWallet(r) ==
  /\ GoTo(r, "insert_wallet", "read_wallet")
  /\ wallets' = wallets \cup {r}
  /\ inserted' = inserted \cup {r}
  /\ UNCHANGED generalWallets

\* The answer is the row, or nothing when it is deleted by now.
ReadWallet(r) ==
  /\ GoTo(r, "read_wallet", "ok")
  /\ UNCHANGED walletVars

\* deleteWallet answers with success whether there was a row or not.
DeleteWallet(r) ==
  /\ GoTo(r, "delete_wallet", "ok")
  /\ wallets' = wallets \ {call[r].row}
  /\ UNCHANGED <<generalWallets, inserted>>

-----------------------------------------------------------------------------
(* GeneralWalletService.                                                   *)

\* Mutant: the look-up is limited to the administrator's own wallets.
FindGeneral_Own(r) ==
  /\ IF \E w \in Requests : /\ generalWallets[w] = call[r].address
                            /\ call[w].admin = call[r].admin
     THEN GoTo(r, "find_general", "refused")
     ELSE GoTo(r, "find_general", "insert_general")
  /\ UNCHANGED walletVars

\* addGeneralWallet, the look-up: in all organizations
FindGeneral(r) ==
  /\ IF \E w \in Requests : generalWallets[w] = call[r].address
     THEN GoTo(r, "find_general", "refused")
     ELSE GoTo(r, "find_general", "insert_general")
  /\ UNCHANGED walletVars

InsertGeneral(r) ==
  /\ GoTo(r, "insert_general", "read_general")
  /\ generalWallets' = [generalWallets EXCEPT ![r] = call[r].address]
  /\ inserted' = inserted \cup {r}
  /\ UNCHANGED wallets

\* updateGeneralWallet: no look-up; a row that is gone is not an error
UpdateGeneral(r) ==
  /\ GoTo(r, "update_general", "read_general")
  /\ generalWallets' = IF generalWallets[call[r].row] = Absent
                       THEN generalWallets
                       ELSE [generalWallets EXCEPT ![call[r].row] = call[r].address]
  /\ UNCHANGED <<wallets, inserted>>

ReadGeneral(r) ==
  /\ GoTo(r, "read_general", "ok")
  /\ UNCHANGED walletVars

DeleteGeneral(r) ==
  /\ GoTo(r, "delete_general", "ok")
  /\ generalWallets' = [generalWallets EXCEPT ![call[r].row] = Absent]
  /\ UNCHANGED <<wallets, inserted>>

-----------------------------------------------------------------------------
WalletStep(r) ==
  \/ BeginWallet(r)
  \/ FindWallet(r)
  \/ InsertWallet(r)
  \/ ReadWallet(r)
  \/ DeleteWallet(r)
  \/ FindGeneral(r)
  \/ InsertGeneral(r)
  \/ UpdateGeneral(r)
  \/ ReadGeneral(r)
  \/ DeleteGeneral(r)

\* 'You have already bind this wallet.' (wallet.service.ts:39): a wallet is
\* bound twice to an administrator only by two requests that overlapped.
BoundOnce ==
  \A v, w \in wallets :
    /\ v # w
    /\ call[v].address = call[w].address
    /\ call[v].admin = call[w].admin
    => Overlap(v, w)

\* 'This wallet is already exists.' (general_wallet.service.ts:47): an address
\* is listed twice only by two requests that overlapped, or by an update, which
\* does not look.
GeneralOnce ==
  \A v, w \in Requests :
    /\ v # w
    /\ generalWallets[v] = generalWallets[w]
    /\ generalWallets[v] # Absent
    => \/ Overlap(v, w)
       \/ \E u \in Requests : /\ call[u].op = "updateGeneral"
                              /\ call[u].row \in {v, w}
                              /\ call[u].address = generalWallets[v]
                              /\ pc[u] \notin {"new", "update_general"}

================================================================================
