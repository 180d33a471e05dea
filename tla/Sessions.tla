------------------------------- MODULE Sessions -------------------------------
(***************************************************************************)
(* The credentials of administrators: authentication.service.ts with the   *)
(* columns password, currentHashedRefreshToken and restorePasswordToken,   *)
(* and the wallets that administrators sign in with.  Each statement       *)
(* updates one column; a handler reads one column and updates another, or  *)
(* the same, some awaits later.                                            *)
(*                                                                         *)
(* Tokens are signed, not stored: a request can carry a token of an        *)
(* administrator once the server has handed one out.  Look-ups of what     *)
(* never changes (the organization, the role) are part of the next step,   *)
(* and so are computations on what a request has read.                     *)
(***************************************************************************)
EXTENDS Wallets

CONSTANTS
  Passwords,
  Registered,  \* the password of each administrator at registration
  Null         \* SQL's

\* What a request that concerns credentials says.
ASSUME SessionsAssumption ==
  /\ Registered \in [Admins -> Passwords]
  /\ Null \notin Admins \cup Requests
  /\ \A c \in Casts : \A r \in Requests :
       /\ c[r].password \in Passwords   \* the one that is to be checked
       /\ c[r].new \in Passwords        \* the one that is to be set

VARIABLES
  password,      \* administrators.password
  refreshHash,   \* administrators.currentHashedRefreshToken
  restoreToken,  \* administrators.restorePasswordToken, named by its request
  granted,       \* administrators who were handed tokens
  letters,       \* administrators who were sent a restore key
  who,           \* the administrator that a request is about
  wrote          \* history: the requests that have updated each column

sessionVars == <<password, refreshHash, restoreToken, granted, letters, who, wrote>>
vars        == <<sessionVars, walletVars, callVars>>

Columns == {"password", "refreshHash", "restoreToken"}

LogIns == {"login", "google", "wallet"}
\* The guard of these wants an access token, of "refresh" a refresh token.
WithToken == {"refresh", "logout", "change"}

SessionEntry == [login   |-> "authenticate",
                 google  |-> "set_refresh",
                 wallet  |-> "verify_signature",
                 refresh |-> "load_admin",
                 logout  |-> "clear_refresh",
                 letter  |-> "save_token",
                 restore |-> "set_password",
                 change  |-> "authenticate"]

SessionAwaits == {"authenticate", "set_refresh", "verify_signature", "load_admin",
                  "sign", "clear_refresh", "save_token", "mail_key",
                  "set_password", "clear_token", "mail_password"}

\* bcrypt reads the first 72 bytes of what it hashes and compares.  Those of a
\* refresh token are its header, the userId and the beginning of the orgId: the
\* tokens of one administrator all look alike to it.
SeenByBcrypt(admin) == admin

SessionsInit ==
  /\ password = Registered
  /\ refreshHash = [a \in Admins |-> Null]
  /\ restoreToken = [a \in Admins |-> Null]
  /\ granted = {}
  /\ letters = {}
  /\ who = [r \in Requests |-> call[r].admin]
  /\ wrote = [c \in Columns |-> {}]

\* What r has left of a column, which it has now written.
Wrote(r, column) == wrote' = [wrote EXCEPT ![column] = @ \cup {r}]

\* Guards run first.  The one of a log out or a change loads an administrator
\* that always exists; the key of a restore is verified by its signature.
BeginSession(r) ==
  /\ call[r].op \in DOMAIN SessionEntry
  /\ call[r].op \in WithToken => call[r].admin \in granted
  /\ call[r].op = "restore" => call[r].admin \in letters
  /\ Start(r, SessionEntry[call[r].op])
  /\ UNCHANGED sessionVars

-----------------------------------------------------------------------------
(* Signing in.                                                             *)

\* Mutant: verifyPassword without await, so that its exception comes too late.
GetAuthenticatedUser_NotAwaited(r) ==
  /\ \/ GoTo(r, "authenticate", "set_refresh") /\ call[r].op = "login"
     \/ GoTo(r, "authenticate", "set_password") /\ call[r].op = "change"
  /\ UNCHANGED sessionVars

\* getByEmail, then verifyPassword on what it has read.
GetAuthenticatedUser(r) ==
  /\ IF password[who[r]] = call[r].password
     THEN \/ GoTo(r, "authenticate", "set_refresh") /\ call[r].op = "login"
          \/ GoTo(r, "authenticate", "set_password") /\ call[r].op = "change"
     ELSE GoTo(r, "authenticate", "refused")
  /\ UNCHANGED sessionVars

\* Mutant: the wallet is looked up by its address alone.
VerifySignature_AnyMessage(r) ==
  /\ \E w \in wallets :
       /\ call[w].address = call[r].address
       /\ GoTo(r, "verify_signature", "set_refresh")
       /\ who' = [who EXCEPT ![r] = call[w].admin]
  /\ UNCHANGED <<password, refreshHash, restoreToken, granted, letters, wrote>>

\* verifySignature: any row with address and message; without one, the handler
\* returns the exception that it should throw.
VerifySignature(r) ==
  /\ LET bound == {w \in wallets : /\ call[w].address = call[r].address
                                   /\ call[w].message = call[r].message}
     IN \/ \E w \in bound :
             /\ GoTo(r, "verify_signature", "set_refresh")
             /\ who' = [who EXCEPT ![r] = call[w].admin]
        \/ /\ bound = {}
           /\ GoTo(r, "verify_signature", "refused")
           /\ UNCHANGED who
  /\ UNCHANGED <<password, refreshHash, restoreToken, granted, letters, wrote>>

\* Mutant: the administrator that was loaded is saved with the new hash.
SetCurrentRefreshToken_SavesAll(r) ==
  /\ GoTo(r, "set_refresh", "ok")
  /\ refreshHash' = [refreshHash EXCEPT ![who[r]] = SeenByBcrypt(who[r])]
  /\ password' = IF call[r].op = "login"
                 THEN [password EXCEPT ![who[r]] = call[r].password]
                 ELSE password
  /\ granted' = granted \cup {who[r]}
  /\ Wrote(r, "refreshHash")
  /\ UNCHANGED <<restoreToken, letters, who>>

\* Both tokens are signed, one is hashed and stored, both are handed out.
SetCurrentRefreshToken(r) ==
  /\ GoTo(r, "set_refresh", "ok")
  /\ refreshHash' = [refreshHash EXCEPT ![who[r]] = SeenByBcrypt(who[r])]
  /\ granted' = granted \cup {who[r]}
  /\ Wrote(r, "refreshHash")
  /\ UNCHANGED <<password, restoreToken, letters, who>>

\* The three handlers end in the same way, and so does googleLogin.
LogIn(r) == call[r].op = "login" /\ SetCurrentRefreshToken(r)

ValidateGoogleTokenId(r) == call[r].op = "google" /\ SetCurrentRefreshToken(r)

SignInWithWallet(r) == call[r].op = "wallet" /\ SetCurrentRefreshToken(r)

-----------------------------------------------------------------------------
(* Refreshing and logging out.                                             *)

\* Mutant: the administrator is loaded but the hash is not compared.
GetUserIfRefreshTokenMatches_NotCompared(r) ==
  /\ GoTo(r, "load_admin", "sign")
  /\ UNCHANGED sessionVars

\* getById, then compare on what it has read.  Without a hash bcrypt throws;
\* a hash that is there is always that of such a token.
GetUserIfRefreshTokenMatches(r) ==
  /\ IF refreshHash[who[r]] = Null
     THEN GoTo(r, "load_admin", "failed")
     ELSE /\ refreshHash[who[r]] = SeenByBcrypt(who[r])
          /\ GoTo(r, "load_admin", "sign")
  /\ UNCHANGED sessionVars

\* The new access token is signed and handed out.
Refresh(r) ==
  /\ GoTo(r, "sign", "ok")
  /\ UNCHANGED sessionVars

RemoveRefreshToken(r) ==
  /\ GoTo(r, "clear_refresh", "ok")
  /\ refreshHash' = [refreshHash EXCEPT ![who[r]] = Null]
  /\ Wrote(r, "refreshHash")
  /\ UNCHANGED <<password, restoreToken, granted, letters, who>>

-----------------------------------------------------------------------------
(* Passwords.                                                              *)

SaveResetPasswordToken(r) ==
  /\ GoTo(r, "save_token", "mail_key")
  /\ restoreToken' = [restoreToken EXCEPT ![who[r]] = r]
  /\ Wrote(r, "restoreToken")
  /\ UNCHANGED <<password, refreshHash, granted, letters, who>>

\* The letter is handed to the mail server, whose answer nobody awaits.
SendLetter(r) ==
  /\ GoTo(r, "mail_key", "ok")
  /\ letters' = letters \cup {who[r]}
  /\ UNCHANGED <<password, refreshHash, restoreToken, granted, who, wrote>>

\* Mutant: the body has no password, and NULL is stored.
UpdatePassword_Null(r) ==
  /\ GoTo(r, "set_password", "mail_password")
  /\ password' = [password EXCEPT ![who[r]] = Null]
  /\ Wrote(r, "password")
  /\ UNCHANGED <<refreshHash, restoreToken, granted, letters, who>>

\* updatePassword of restorePassword and changePasswordProfile.  The sessions
\* of the administrator go on.
UpdatePassword(r) ==
  /\ \/ GoTo(r, "set_password", "clear_token") /\ call[r].op = "restore"
     \/ GoTo(r, "set_password", "mail_password") /\ call[r].op = "change"
  /\ password' = [password EXCEPT ![who[r]] = call[r].new]
  /\ Wrote(r, "password")
  /\ UNCHANGED <<refreshHash, restoreToken, granted, letters, who>>

\* Whichever token is stored by now.
RemoveRestorePasswordToken(r) ==
  /\ GoTo(r, "clear_token", "mail_password")
  /\ restoreToken' = [restoreToken EXCEPT ![who[r]] = Null]
  /\ Wrote(r, "restoreToken")
  /\ UNCHANGED <<password, refreshHash, granted, letters, who>>

MailPassword(r) ==
  /\ GoTo(r, "mail_password", "ok")
  /\ UNCHANGED sessionVars

-----------------------------------------------------------------------------
SessionStep(r) ==
  \/ BeginSession(r)
  \/ GetAuthenticatedUser(r)
  \/ VerifySignature(r)
  \/ LogIn(r)
  \/ ValidateGoogleTokenId(r)
  \/ SignInWithWallet(r)
  \/ GetUserIfRefreshTokenMatches(r)
  \/ Refresh(r)
  \/ RemoveRefreshToken(r)
  \/ SaveResetPasswordToken(r)
  \/ SendLetter(r)
  \/ UpdatePassword(r)
  \/ RemoveRestorePasswordToken(r)
  \/ MailPassword(r)

Init == CallsInit /\ WalletsInit /\ SessionsInit

Next == \E r \in Requests :
          \/ SessionStep(r) /\ UNCHANGED walletVars
          \/ WalletStep(r) /\ UNCHANGED sessionVars
          \/ FailAt(r) /\ UNCHANGED <<sessionVars, walletVars>>

Spec == Init /\ [][Next]_vars

-----------------------------------------------------------------------------
(* Properties.                                                             *)

TypeOK ==
  /\ call \in Casts
  /\ pc \in [Requests -> {"new"} \cup SessionAwaits \cup Answers
               \cup {"find_wallet", "insert_wallet", "read_wallet", "delete_wallet",
                     "find_general", "insert_general", "update_general",
                     "read_general", "delete_general"}]
  /\ before \in [Requests -> SUBSET Requests]
  /\ faults \in 0 .. MaxFaults
  /\ WalletsTypeOK
  /\ password \in [Admins -> Passwords]
  /\ refreshHash \in [Admins -> Admins \cup {Null}]
  /\ restoreToken \in [Admins -> Requests \cup {Null}]
  /\ granted \subseteq Admins
  /\ letters \subseteq Admins
  /\ who \in [Requests -> Admins]
  /\ wrote \in [Columns -> SUBSET Requests]

\* The updates of a column of administrator a.
Updates(column, a) == {r \in wrote[column] : who[r] = a}

\* r is the latest of some updates: none of them began after its answer.
IsLatest(r, updates) == r \in updates /\ \A s \in updates : r \notin before[s]

\* What a handler has read some awaits ago never finds its way back: each column
\* holds what one of its latest updates has set, whatever log in, log out,
\* letter, restore and change overlap.
LatestUpdateStands ==
  \A a \in Admins :
    /\ \/ Updates("password", a) = {} /\ password[a] = Registered[a]
       \/ \E r \in Requests : /\ IsLatest(r, Updates("password", a))
                              /\ password[a] = call[r].new
    /\ \/ Updates("refreshHash", a) = {} /\ refreshHash[a] = Null
       \/ \E r \in Requests : /\ IsLatest(r, Updates("refreshHash", a))
                              /\ call[r].op = "logout" <=> refreshHash[a] = Null
    /\ \/ Updates("restoreToken", a) = {} /\ restoreToken[a] = Null
       \/ \E r \in Requests : /\ IsLatest(r, Updates("restoreToken", a))
                              /\ restoreToken[a] =
                                   IF call[r].op = "letter" THEN r ELSE Null

\* A password opens a session, or allows its own change, only when it was valid
\* at some time while the request ran: no change that was answered before the
\* request began had replaced it.
LogInsKnowThePassword ==
  \A r \in Requests :
    /\ call[r].op \in {"login", "change"}
    /\ pc[r] \in {"set_refresh", "set_password", "mail_password", "ok"}
    => LET updates == Updates("password", who[r])
       IN \/ /\ call[r].password = Registered[who[r]]
             /\ \A s \in updates : s \notin before[r]
          \/ \E w \in updates : /\ call[w].new = call[r].password
                                /\ \A s \in updates : ~ Replaced(w, s, r)

\* A log out stands: a refresh that began after its answer succeeds only when
\* somebody has signed in again, in a request that was not over when the log out
\* began.  A refresh that overlaps the log out may still succeed.
LogOutStands ==
  \A r \in Requests :
    /\ call[r].op = "refresh"
    /\ pc[r] \in {"sign", "ok"}
    => LET updates == Updates("refreshHash", who[r])
       IN \E w \in updates : /\ call[w].op \in LogIns
                             /\ \A s \in updates : ~ Replaced(w, s, r)

\* Signing in with a wallet is signing in as an administrator to whom a row
\* binds that wallet with that message, and the row had not been deleted when
\* the request began.
WalletSignsIn ==
  \A r \in Requests :
    /\ call[r].op = "wallet"
    /\ pc[r] \in {"set_refresh", "ok"}
    => \E w \in inserted :
         /\ call[w].op = "bind"
         /\ call[w].admin = who[r]
         /\ call[w].address = call[r].address
         /\ call[w].message = call[r].message
         /\ \A d \in Requests :
              call[d].op = "delete" /\ call[d].row = w /\ pc[d] = "ok"
                => ~ Replaced(w, d, r)

===============================================================================
