--------------------------- MODULE SessionsProofs ---------------------------
(* Sessions and Wallets, for every set of requests, administrators,        *)
(* passwords and wallets, and whatever requests are made together.         *)
EXTENDS Sessions, TLAPS

WalletAwaits == {"find_wallet", "insert_wallet", "read_wallet", "delete_wallet",
                 "find_general", "insert_general", "update_general",
                 "read_general", "delete_general"}

Labels == {"new"} \cup SessionAwaits \cup Answers \cup WalletAwaits

\* Every step is one of these, of one request.
Step(r) == \/ BeginSession(r) /\ UNCHANGED walletVars
           \/ GetAuthenticatedUser(r) /\ UNCHANGED walletVars
           \/ VerifySignature(r) /\ UNCHANGED walletVars
           \/ LogIn(r) /\ UNCHANGED walletVars
           \/ ValidateGoogleTokenId(r) /\ UNCHANGED walletVars
           \/ SignInWithWallet(r) /\ UNCHANGED walletVars
           \/ GetUserIfRefreshTokenMatches(r) /\ UNCHANGED walletVars
           \/ Refresh(r) /\ UNCHANGED walletVars
           \/ RemoveRefreshToken(r) /\ UNCHANGED walletVars
           \/ SaveResetPasswordToken(r) /\ UNCHANGED walletVars
           \/ SendLetter(r) /\ UNCHANGED walletVars
           \/ UpdatePassword(r) /\ UNCHANGED walletVars
           \/ RemoveRestorePasswordToken(r) /\ UNCHANGED walletVars
           \/ MailPassword(r) /\ UNCHANGED walletVars
           \/ BeginWallet(r) /\ UNCHANGED sessionVars
           \/ FindWallet(r) /\ UNCHANGED sessionVars
           \/ InsertWallet(r) /\ UNCHANGED sessionVars
           \/ ReadWallet(r) /\ UNCHANGED sessionVars
           \/ DeleteWallet(r) /\ UNCHANGED sessionVars
           \/ FindGeneral(r) /\ UNCHANGED sessionVars
           \/ InsertGeneral(r) /\ UNCHANGED sessionVars
           \/ UpdateGeneral(r) /\ UNCHANGED sessionVars
           \/ ReadGeneral(r) /\ UNCHANGED sessionVars
           \/ DeleteGeneral(r) /\ UNCHANGED sessionVars
           \/ FailAt(r) /\ UNCHANGED <<sessionVars, walletVars>>

\* A step of the system is one of these of some request.
LEMMA Steps ==
  ASSUME Next
  PROVE  \E r \in Requests : Step(r)
BY DEF Next, SessionStep, WalletStep, Step

-----------------------------------------------------------------------------
(* Which request can be where, and types.                                  *)

\* A request is at an await of its own handler.
Fits(r) ==
  /\ pc[r] = "authenticate" => call[r].op \in {"login", "change"}
  /\ pc[r] = "set_refresh" => call[r].op \in LogIns
  /\ pc[r] = "verify_signature" => call[r].op = "wallet"
  /\ pc[r] \in {"load_admin", "sign"} => call[r].op = "refresh"
  /\ pc[r] = "clear_refresh" => call[r].op = "logout"
  /\ pc[r] \in {"save_token", "mail_key"} => call[r].op = "letter"
  /\ pc[r] = "clear_token" => call[r].op = "restore"
  /\ pc[r] \in {"set_password", "mail_password"} => call[r].op \in {"restore", "change"}
  /\ pc[r] \in {"find_wallet", "insert_wallet", "read_wallet"} => call[r].op = "bind"
  /\ pc[r] = "delete_wallet" => call[r].op = "delete"
  /\ pc[r] \in {"find_general", "insert_general"} => call[r].op = "addGeneral"
  /\ pc[r] = "update_general" => call[r].op = "updateGeneral"
  /\ pc[r] = "read_general" => call[r].op \in {"addGeneral", "updateGeneral"}
  /\ pc[r] = "delete_general" => call[r].op = "deleteGeneral"

\* The first await of each operation on credentials.
LEMMA SessionBegins ==
  ASSUME NEW r \in Requests, call[r].op \in DOMAIN SessionEntry
  PROVE  \/ call[r].op = "login" /\ SessionEntry[call[r].op] = "authenticate"
         \/ call[r].op = "google" /\ SessionEntry[call[r].op] = "set_refresh"
         \/ call[r].op = "wallet" /\ SessionEntry[call[r].op] = "verify_signature"
         \/ call[r].op = "refresh" /\ SessionEntry[call[r].op] = "load_admin"
         \/ call[r].op = "logout" /\ SessionEntry[call[r].op] = "clear_refresh"
         \/ call[r].op = "letter" /\ SessionEntry[call[r].op] = "save_token"
         \/ call[r].op = "restore" /\ SessionEntry[call[r].op] = "set_password"
         \/ call[r].op = "change" /\ SessionEntry[call[r].op] = "authenticate"
BY DEF SessionEntry

\* The first await of each operation on wallets.
LEMMA WalletBegins ==
  ASSUME NEW r \in Requests, call[r].op \in DOMAIN WalletEntry
  PROVE  \/ call[r].op = "bind" /\ WalletEntry[call[r].op] = "find_wallet"
         \/ call[r].op = "delete" /\ WalletEntry[call[r].op] = "delete_wallet"
         \/ call[r].op = "addGeneral" /\ WalletEntry[call[r].op] = "find_general"
         \/ call[r].op = "updateGeneral" /\ WalletEntry[call[r].op] = "update_general"
         \/ call[r].op = "deleteGeneral" /\ WalletEntry[call[r].op] = "delete_general"
BY DEF WalletEntry

\* The awaits of r to which its next step may lead it.
LEMMA Moves ==
  ASSUME TypeOK, NEW r \in Requests, Fits(r), Step(r)
  PROVE  /\ call' = call
         /\ pc' = [pc EXCEPT ![r] = pc'[r]]
         /\ pc'[r] \in Labels \ {"new"}
         /\ pc[r] \notin Answers
         /\ before' = IF pc[r] = "new" THEN [before EXCEPT ![r] = Answered] ELSE before
         /\ faults' \in 0 .. MaxFaults
         /\ Fits(r)'
<1>1. pc \in [Requests -> Labels] /\ faults \in 0 .. MaxFaults
  BY DEF TypeOK, Labels, WalletAwaits
<1> USE <1>1, MaxFaultsAssumption
        DEF Labels, SessionAwaits, WalletAwaits, Answers, Fits, GoTo, Start, FailAt,
            LogIns
<1>2. CASE BeginSession(r)
  BY <1>2, SessionBegins DEF BeginSession
<1>3. CASE GetAuthenticatedUser(r)
  BY <1>3 DEF GetAuthenticatedUser
<1>4. CASE VerifySignature(r)
  BY <1>4 DEF VerifySignature
<1>5. CASE LogIn(r) \/ ValidateGoogleTokenId(r) \/ SignInWithWallet(r)
  BY <1>5 DEF LogIn, ValidateGoogleTokenId, SignInWithWallet, SetCurrentRefreshToken
<1>6. CASE GetUserIfRefreshTokenMatches(r)
  BY <1>6 DEF GetUserIfRefreshTokenMatches
<1>7. CASE Refresh(r) \/ RemoveRefreshToken(r)
  BY <1>7 DEF Refresh, RemoveRefreshToken
<1>8. CASE SaveResetPasswordToken(r) \/ SendLetter(r)
  BY <1>8 DEF SaveResetPasswordToken, SendLetter
<1>9. CASE UpdatePassword(r)
  BY <1>9 DEF UpdatePassword
<1>10. CASE RemoveRestorePasswordToken(r) \/ MailPassword(r)
  BY <1>10 DEF RemoveRestorePasswordToken, MailPassword
<1>11. CASE BeginWallet(r)
  BY <1>11, WalletBegins DEF BeginWallet
<1>12. CASE FindWallet(r)
  BY <1>12 DEF FindWallet
<1>13. CASE InsertWallet(r) \/ ReadWallet(r) \/ DeleteWallet(r)
  BY <1>13 DEF InsertWallet, ReadWallet, DeleteWallet
<1>14. CASE FindGeneral(r)
  BY <1>14 DEF FindGeneral
<1>15. CASE InsertGeneral(r) \/ UpdateGeneral(r)
  BY <1>15 DEF InsertGeneral, UpdateGeneral
<1>16. CASE ReadGeneral(r) \/ DeleteGeneral(r)
  BY <1>16 DEF ReadGeneral, DeleteGeneral
<1>17. CASE FailAt(r)
  BY <1>17
<1>18. QED
  BY <1>2, <1>3, <1>4, <1>5, <1>6, <1>7, <1>8, <1>9, <1>10, <1>11, <1>12, <1>13,
     <1>14, <1>15, <1>16, <1>17 DEF Step

\* Every step keeps the types.
LEMMA Types ==
  ASSUME TypeOK, NEW r \in Requests, Fits(r), Step(r)
  PROVE  TypeOK'
<1>1. /\ call' \in Casts
      /\ pc' \in [Requests -> Labels]
      /\ before' \in [Requests -> SUBSET Requests]
      /\ faults' \in 0 .. MaxFaults
  BY Moves DEF TypeOK, Labels, WalletAwaits, Answered
<1>2. /\ call[r].admin \in Admins
      /\ call[r].address \in Addresses
      /\ call[r].new \in Passwords
      /\ \A w \in Requests : call[w].admin \in Admins
  BY WalletsAssumption, SessionsAssumption DEF TypeOK
<1>3. /\ password' \in [Admins -> Passwords]
      /\ refreshHash' \in [Admins -> Admins \cup {Null}]
      /\ restoreToken' \in [Admins -> Requests \cup {Null}]
      /\ granted' \subseteq Admins
      /\ letters' \subseteq Admins
      /\ who' \in [Requests -> Admins]
      /\ wrote' \in [Columns -> SUBSET Requests]
      /\ WalletsTypeOK'
  <2> USE <1>2 DEF TypeOK, WalletsTypeOK, Wrote, Columns, walletVars, sessionVars
  <2>1. CASE UNCHANGED sessionVars /\ UNCHANGED walletVars
    BY <2>1
  <2>2. CASE VerifySignature(r) /\ UNCHANGED walletVars
    BY <2>2 DEF VerifySignature
  <2>3. CASE SetCurrentRefreshToken(r) /\ UNCHANGED walletVars
    BY <2>3 DEF SetCurrentRefreshToken, SeenByBcrypt
  <2>4. CASE (RemoveRefreshToken(r) \/ SaveResetPasswordToken(r) \/ SendLetter(r))
             /\ UNCHANGED walletVars
    BY <2>4 DEF RemoveRefreshToken, SaveResetPasswordToken, SendLetter
  <2>5. CASE (UpdatePassword(r) \/ RemoveRestorePasswordToken(r)) /\ UNCHANGED walletVars
    BY <2>5 DEF UpdatePassword, RemoveRestorePasswordToken
  <2>6. CASE (InsertWallet(r) \/ DeleteWallet(r)) /\ UNCHANGED sessionVars
    BY <2>6 DEF InsertWallet, DeleteWallet
  <2>7. CASE (InsertGeneral(r) \/ UpdateGeneral(r) \/ DeleteGeneral(r))
             /\ UNCHANGED sessionVars
    BY <2>7 DEF InsertGeneral, UpdateGeneral, DeleteGeneral
  <2>8. QED
    BY <2>1, <2>2, <2>3, <2>4, <2>5, <2>6, <2>7
    DEF Step, BeginSession, GetAuthenticatedUser, LogIn, ValidateGoogleTokenId,
        SignInWithWallet, GetUserIfRefreshTokenMatches, Refresh, MailPassword,
        BeginWallet, FindWallet, ReadWallet, FindGeneral, ReadGeneral
<1>4. QED
  BY <1>1, <1>3 DEF TypeOK, Labels, WalletAwaits

-----------------------------------------------------------------------------
(* What a step of r does to the columns and the tables, by its await.      *)

\* Only four awaits update a column, each its own, of the administrator that the
\* request is about; only the look-up of a wallet decides who that is.
LEMMA ColumnsWritten ==
  ASSUME TypeOK, NEW r \in Requests, Fits(r), Step(r)
  PROVE  /\ who' = IF pc[r] = "verify_signature" THEN [who EXCEPT ![r] = who'[r]] ELSE who
         /\ \/ UNCHANGED password /\ wrote'["password"] = wrote["password"]
            \/ /\ pc[r] = "set_password"
               /\ pc'[r] \in {"clear_token", "mail_password"}
               /\ password' = [password EXCEPT ![who[r]] = call[r].new]
               /\ wrote'["password"] = wrote["password"] \cup {r}
         /\ \/ UNCHANGED refreshHash /\ wrote'["refreshHash"] = wrote["refreshHash"]
            \/ /\ pc[r] \in {"set_refresh", "clear_refresh"}
               /\ pc'[r] = "ok"
               /\ refreshHash' = [refreshHash EXCEPT ![who[r]] =
                                    IF call[r].op = "logout" THEN Null ELSE who[r]]
               /\ wrote'["refreshHash"] = wrote["refreshHash"] \cup {r}
         /\ \/ UNCHANGED restoreToken /\ wrote'["restoreToken"] = wrote["restoreToken"]
            \/ /\ pc[r] \in {"save_token", "clear_token"}
               /\ pc'[r] \in {"mail_key", "mail_password"}
               /\ restoreToken' = [restoreToken EXCEPT ![who[r]] =
                                     IF call[r].op = "letter" THEN r ELSE Null]
               /\ wrote'["restoreToken"] = wrote["restoreToken"] \cup {r}
<1> USE DEF TypeOK, Fits, GoTo, Wrote, Columns, sessionVars, LogIns
<1>1. CASE UNCHANGED sessionVars
  BY <1>1
<1>2. CASE VerifySignature(r)
  BY <1>2 DEF VerifySignature
<1>3. CASE SetCurrentRefreshToken(r)
  BY <1>3 DEF SetCurrentRefreshToken, SeenByBcrypt
<1>4. CASE RemoveRefreshToken(r)
  BY <1>4 DEF RemoveRefreshToken
<1>5. CASE SaveResetPasswordToken(r) \/ SendLetter(r)
  BY <1>5 DEF SaveResetPasswordToken, SendLetter
<1>6. CASE UpdatePassword(r)
  BY <1>6 DEF UpdatePassword
<1>7. CASE RemoveRestorePasswordToken(r)
  BY <1>7 DEF RemoveRestorePasswordToken
<1>8. QED
  BY <1>1, <1>2, <1>3, <1>4, <1>5, <1>6, <1>7
  DEF Step, BeginSession, GetAuthenticatedUser, LogIn, ValidateGoogleTokenId,
      SignInWithWallet, GetUserIfRefreshTokenMatches, Refresh, MailPassword

\* Rows arrive where a request inserts its own; a delete takes its row away.
LEMMA TablesWritten ==
  ASSUME TypeOK, NEW r \in Requests, Fits(r), Step(r)
  PROVE  /\ \/ /\ UNCHANGED <<wallets, inserted>>
               /\ pc[r] = "delete_wallet" => pc'[r] = "failed"
            \/ /\ pc[r] = "insert_general"
               /\ UNCHANGED wallets
               /\ inserted' = inserted \cup {r}
            \/ /\ pc[r] = "insert_wallet" /\ pc'[r] = "read_wallet"
               /\ wallets' = wallets \cup {r}
               /\ inserted' = inserted \cup {r}
            \/ /\ pc[r] = "delete_wallet" /\ pc'[r] = "ok"
               /\ wallets' = wallets \ {call[r].row}
               /\ UNCHANGED inserted
         /\ \/ UNCHANGED generalWallets
            \/ /\ pc[r] = "insert_general" /\ pc'[r] = "read_general"
               /\ generalWallets' = [generalWallets EXCEPT ![r] = call[r].address]
            \/ /\ pc[r] = "update_general" /\ pc'[r] = "read_general"
               /\ generalWallets[call[r].row] # Absent
               /\ generalWallets' = [generalWallets EXCEPT ![call[r].row] = call[r].address]
            \/ generalWallets' = [generalWallets EXCEPT ![call[r].row] = Absent]
<1> USE DEF TypeOK, WalletsTypeOK, GoTo, Start, walletVars
<1>1. CASE (BeginSession(r) \/ BeginWallet(r)) /\ UNCHANGED walletVars
  BY <1>1 DEF BeginSession, BeginWallet
<1>2. CASE /\ \/ GetAuthenticatedUser(r) \/ VerifySignature(r)
              \/ LogIn(r) \/ ValidateGoogleTokenId(r) \/ SignInWithWallet(r)
              \/ GetUserIfRefreshTokenMatches(r) \/ Refresh(r) \/ RemoveRefreshToken(r)
           /\ UNCHANGED walletVars
  BY <1>2 DEF GetAuthenticatedUser, VerifySignature, LogIn, ValidateGoogleTokenId,
              SignInWithWallet, SetCurrentRefreshToken, GetUserIfRefreshTokenMatches,
              Refresh, RemoveRefreshToken
<1>3. CASE /\ \/ SaveResetPasswordToken(r) \/ SendLetter(r) \/ UpdatePassword(r)
              \/ RemoveRestorePasswordToken(r) \/ MailPassword(r)
           /\ UNCHANGED walletVars
  BY <1>3 DEF SaveResetPasswordToken, SendLetter, UpdatePassword,
              RemoveRestorePasswordToken, MailPassword
<1>4. CASE FindWallet(r) \/ InsertWallet(r) \/ ReadWallet(r) \/ DeleteWallet(r)
  BY <1>4 DEF FindWallet, InsertWallet, ReadWallet, DeleteWallet
<1>5. CASE \/ FindGeneral(r) \/ InsertGeneral(r) \/ UpdateGeneral(r) \/ ReadGeneral(r)
           \/ DeleteGeneral(r)
  BY <1>5 DEF FindGeneral, InsertGeneral, UpdateGeneral, ReadGeneral, DeleteGeneral
<1>6. CASE FailAt(r) /\ UNCHANGED <<sessionVars, walletVars>>
  BY <1>6 DEF FailAt
<1>7. QED
  BY <1>1, <1>2, <1>3, <1>4, <1>5, <1>6 DEF Step, BeginWallet

\* Where a request goes after it has written.
LEMMA Follows ==
  ASSUME TypeOK, NEW r \in Requests, Step(r)
  PROVE  /\ pc[r] = "clear_token" => pc'[r] \in {"mail_password", "failed"}
         /\ pc[r] \in {"mail_key", "mail_password"} => pc'[r] \in {"ok", "failed"}
<1> USE DEF TypeOK, GoTo, Start
<1>1. CASE BeginSession(r) \/ BeginWallet(r)
  BY <1>1 DEF BeginSession, BeginWallet
<1>2. CASE \/ GetAuthenticatedUser(r) \/ VerifySignature(r)
           \/ LogIn(r) \/ ValidateGoogleTokenId(r) \/ SignInWithWallet(r)
           \/ GetUserIfRefreshTokenMatches(r) \/ Refresh(r) \/ RemoveRefreshToken(r)
  BY <1>2 DEF GetAuthenticatedUser, VerifySignature, LogIn, ValidateGoogleTokenId,
              SignInWithWallet, SetCurrentRefreshToken, GetUserIfRefreshTokenMatches,
              Refresh, RemoveRefreshToken
<1>3. CASE \/ SaveResetPasswordToken(r) \/ SendLetter(r) \/ UpdatePassword(r)
           \/ RemoveRestorePasswordToken(r) \/ MailPassword(r)
  BY <1>3 DEF SaveResetPasswordToken, SendLetter, UpdatePassword,
              RemoveRestorePasswordToken, MailPassword
<1>4. CASE FindWallet(r) \/ InsertWallet(r) \/ ReadWallet(r) \/ DeleteWallet(r)
  BY <1>4 DEF FindWallet, InsertWallet, ReadWallet, DeleteWallet
<1>5. CASE \/ FindGeneral(r) \/ InsertGeneral(r) \/ UpdateGeneral(r) \/ ReadGeneral(r)
           \/ DeleteGeneral(r)
  BY <1>5 DEF FindGeneral, InsertGeneral, UpdateGeneral, ReadGeneral, DeleteGeneral
<1>6. CASE FailAt(r)
  BY <1>6 DEF FailAt
<1>7. QED
  BY <1>1, <1>2, <1>3, <1>4, <1>5, <1>6 DEF Step, BeginWallet

-----------------------------------------------------------------------------
(* History.                                                                *)

\* A request began after requests that are answered, and has changed something
\* only after it began, and only where its handler does.
History ==
  \A r \in Requests :
    /\ before[r] \subseteq Answered
    /\ r \in wrote["password"] =>
         /\ pc[r] \in {"clear_token", "mail_password"} \cup Answers
         /\ call[r].op \in {"restore", "change"}
    /\ r \in wrote["refreshHash"] =>
         /\ pc[r] \in Answers
         /\ call[r].op \in LogIns \cup {"logout"}
    /\ r \in wrote["restoreToken"] =>
         /\ pc[r] \in {"mail_key", "mail_password"} \cup Answers
         /\ call[r].op \in {"letter", "restore"}
    /\ r \in wallets =>
         /\ r \in inserted
         /\ call[r].op = "bind"
         /\ pc[r] # "new"
    /\ generalWallets[r] # Absent => pc[r] # "new"

\* An answered request stays so; one that is not yet answered is before nobody.
LEMMA BeforeKept ==
  ASSUME TypeOK, History, NEW r \in Requests, Fits(r), Step(r)
  PROVE  /\ Answered \subseteq Answered'
         /\ \A s \in Requests : r \notin before[s]
         /\ \A s \in Requests : pc[s] # "new" => before'[s] = before[s]
         /\ \A s \in Requests : s # r => before'[s] = before[s] /\ pc'[s] = pc[s]
BY Moves DEF TypeOK, History, Answered, Answers

\* Every step keeps what is said about the past.
LEMMA HistoryStep ==
  ASSUME TypeOK, History, NEW r \in Requests, Fits(r), Step(r)
  PROVE  History'
<1>1. \A s \in Requests : before'[s] \subseteq Answered'
  BY Moves, BeforeKept DEF TypeOK, History, Answered, Answers
<1>2. /\ call' = call
      /\ \A s \in Requests : s # r => pc'[s] = pc[s]
      /\ pc[r] \notin Answers
      /\ pc'[r] \in Labels \ {"new"}
  BY Moves, BeforeKept
<1>3. \A s \in Requests : s \in wrote'["password"] =>
        /\ pc'[s] \in {"clear_token", "mail_password"} \cup Answers
        /\ call'[s].op \in {"restore", "change"}
  <2>1. CASE UNCHANGED password /\ wrote'["password"] = wrote["password"]
    BY <1>2, <2>1, Follows DEF History, Answers
  <2>2. CASE /\ pc[r] = "set_password"
             /\ pc'[r] \in {"clear_token", "mail_password"}
             /\ wrote'["password"] = wrote["password"] \cup {r}
    BY <1>2, <2>2 DEF History, Fits
  <2>3. QED
    BY <2>1, <2>2, ColumnsWritten
<1>4. \A s \in Requests : s \in wrote'["refreshHash"] =>
        /\ pc'[s] \in Answers
        /\ call'[s].op \in LogIns \cup {"logout"}
  <2>1. CASE UNCHANGED refreshHash /\ wrote'["refreshHash"] = wrote["refreshHash"]
    BY <1>2, <2>1 DEF History
  <2>2. CASE /\ pc[r] \in {"set_refresh", "clear_refresh"}
             /\ pc'[r] = "ok"
             /\ wrote'["refreshHash"] = wrote["refreshHash"] \cup {r}
    BY <1>2, <2>2 DEF History, Fits, Answers
  <2>3. QED
    BY <2>1, <2>2, ColumnsWritten
<1>5. \A s \in Requests : s \in wrote'["restoreToken"] =>
        /\ pc'[s] \in {"mail_key", "mail_password"} \cup Answers
        /\ call'[s].op \in {"letter", "restore"}
  <2>1. CASE UNCHANGED restoreToken /\ wrote'["restoreToken"] = wrote["restoreToken"]
    BY <1>2, <2>1, Follows DEF History, Answers
  <2>2. CASE /\ pc[r] \in {"save_token", "clear_token"}
             /\ pc'[r] \in {"mail_key", "mail_password"}
             /\ wrote'["restoreToken"] = wrote["restoreToken"] \cup {r}
    BY <1>2, <2>2 DEF History, Fits
  <2>3. QED
    BY <2>1, <2>2, ColumnsWritten
<1>6. \A s \in Requests : s \in wallets' =>
        s \in inserted' /\ call'[s].op = "bind" /\ pc'[s] # "new"
  <2>1. CASE /\ pc[r] = "insert_wallet"
             /\ wallets' = wallets \cup {r}
             /\ inserted' = inserted \cup {r}
    BY <1>2, <2>1 DEF History, Fits
  <2>2. CASE wallets' \subseteq wallets /\ inserted \subseteq inserted'
    BY <1>2, <2>2 DEF History
  <2>3. QED
    BY <2>1, <2>2, TablesWritten
<1>7. \A s \in Requests : generalWallets'[s] # Absent => pc'[s] # "new"
  BY <1>2, TablesWritten DEF History, TypeOK, WalletsTypeOK
<1>8. QED
  BY <1>1, <1>3, <1>4, <1>5, <1>6, <1>7 DEF History

\* The updates of a column grow by the step of a request that writes it, and no
\* step makes a request come before one of them.
LEMMA Writers ==
  ASSUME TypeOK, History, NEW r \in Requests, Fits(r), Step(r),
         NEW c \in Columns, NEW a \in Admins
  PROVE  /\ wrote'[c] = wrote[c] => Updates(c, a)' = Updates(c, a)
         /\ wrote'[c] = wrote[c] \cup {r} /\ pc[r] # "verify_signature" =>
              Updates(c, a)' = IF who[r] = a THEN Updates(c, a) \cup {r}
                                             ELSE Updates(c, a)
         /\ \A s \in Updates(c, a) : s \in Requests /\ before'[s] = before[s]
<1>1. \A s \in wrote[c] : s \in Requests /\ pc[s] \notin {"new", "verify_signature"}
  BY DEF TypeOK, History, Columns, Answers
<1>2. \A s \in wrote[c] : who'[s] = who[s] /\ before'[s] = before[s]
  BY <1>1, ColumnsWritten, BeforeKept DEF TypeOK
<1>3. pc[r] # "verify_signature" => who' = who
  BY ColumnsWritten
<1>4. QED
  BY <1>1, <1>2, <1>3 DEF Updates

-----------------------------------------------------------------------------
(* Columns.                                                                *)

\* LatestUpdateStands, one column at a time.
PasswordStands(a) ==
  \/ Updates("password", a) = {} /\ password[a] = Registered[a]
  \/ \E r \in Requests : /\ IsLatest(r, Updates("password", a))
                         /\ password[a] = call[r].new

RefreshHashStands(a) ==
  \/ Updates("refreshHash", a) = {} /\ refreshHash[a] = Null
  \/ \E r \in Requests : /\ IsLatest(r, Updates("refreshHash", a))
                         /\ call[r].op = "logout" <=> refreshHash[a] = Null

RestoreTokenStands(a) ==
  \/ Updates("restoreToken", a) = {} /\ restoreToken[a] = Null
  \/ \E r \in Requests : /\ IsLatest(r, Updates("restoreToken", a))
                         /\ restoreToken[a] = IF call[r].op = "letter" THEN r ELSE Null

\* A request that writes is the latest; otherwise the latest stays the latest.
LEMMA Latest ==
  ASSUME TypeOK, History, NEW r \in Requests, Fits(r), Step(r),
         NEW c \in Columns, NEW a \in Admins
  PROVE  /\ wrote'[c] = wrote[c] =>
              \A s \in Requests : IsLatest(s, Updates(c, a)) => IsLatest(s, Updates(c, a))'
         /\ wrote'[c] = wrote[c] \cup {r} /\ pc[r] # "verify_signature" =>
              IF who[r] = a
              THEN IsLatest(r, Updates(c, a))'
              ELSE \A s \in Requests : IsLatest(s, Updates(c, a)) => IsLatest(s, Updates(c, a))'
<1>1. wrote'[c] = wrote[c] \cup {r} => r \in Requests /\ r \notin before'[r]
  <2>1. CASE pc[r] = "new"
    BY <2>1, Moves, BeforeKept DEF TypeOK, Answered, Answers
  <2>2. CASE pc[r] # "new"
    BY <2>2, BeforeKept
  <2>3. QED
    BY <2>1, <2>2
<1>2. QED
  BY <1>1, Writers, BeforeKept DEF IsLatest

\* Every step leaves in each column what a latest update has set: a step that
\* writes is itself the latest, and one that does not write changes nothing.
LEMMA LatestStep ==
  ASSUME TypeOK, History, LatestUpdateStands, NEW r \in Requests, Fits(r), Step(r)
  PROVE  LatestUpdateStands'
<1> SUFFICES ASSUME NEW a \in Admins
             PROVE  /\ PasswordStands(a)'
                    /\ RefreshHashStands(a)'
                    /\ RestoreTokenStands(a)'
  BY DEF LatestUpdateStands, PasswordStands, RefreshHashStands, RestoreTokenStands
<1>1. PasswordStands(a) /\ RefreshHashStands(a) /\ RestoreTokenStands(a)
  BY DEF LatestUpdateStands, PasswordStands, RefreshHashStands, RestoreTokenStands
<1>2. call' = call
  BY Moves
<1>3. PasswordStands(a)'
  <2>1. CASE UNCHANGED password /\ wrote'["password"] = wrote["password"]
    BY <1>1, <1>2, <2>1, Latest, Writers DEF PasswordStands, Columns
  <2>2. CASE /\ pc[r] = "set_password"
             /\ password' = [password EXCEPT ![who[r]] = call[r].new]
             /\ wrote'["password"] = wrote["password"] \cup {r}
    <3>1. CASE who[r] = a
      BY <1>2, <2>2, <3>1, Latest DEF PasswordStands, Columns, TypeOK
    <3>2. CASE who[r] # a
      BY <1>1, <1>2, <2>2, <3>2, Latest, Writers DEF PasswordStands, Columns, TypeOK
    <3>3. QED
      BY <3>1, <3>2
  <2>3. QED
    BY <2>1, <2>2, ColumnsWritten
<1>4. RefreshHashStands(a)'
  <2>1. CASE UNCHANGED refreshHash /\ wrote'["refreshHash"] = wrote["refreshHash"]
    BY <1>1, <1>2, <2>1, Latest, Writers DEF RefreshHashStands, Columns
  <2>2. CASE /\ pc[r] \in {"set_refresh", "clear_refresh"}
             /\ refreshHash' = [refreshHash EXCEPT ![who[r]] =
                                  IF call[r].op = "logout" THEN Null ELSE who[r]]
             /\ wrote'["refreshHash"] = wrote["refreshHash"] \cup {r}
    <3>1. CASE who[r] = a
      <4>1. refreshHash'[a] = IF call[r].op = "logout" THEN Null ELSE a
        BY <2>2, <3>1 DEF TypeOK
      <4>2. call'[r].op = "logout" <=> refreshHash'[a] = Null
        BY <1>2, <4>1, SessionsAssumption
      <4>3. QED
        BY <2>2, <3>1, <4>2, Latest DEF RefreshHashStands, Columns
    <3>2. CASE who[r] # a
      BY <1>1, <1>2, <2>2, <3>2, Latest, Writers DEF RefreshHashStands, Columns, TypeOK
    <3>3. QED
      BY <3>1, <3>2
  <2>3. QED
    BY <2>1, <2>2, ColumnsWritten
<1>5. RestoreTokenStands(a)'
  <2>1. CASE UNCHANGED restoreToken /\ wrote'["restoreToken"] = wrote["restoreToken"]
    BY <1>1, <1>2, <2>1, Latest, Writers DEF RestoreTokenStands, Columns
  <2>2. CASE /\ pc[r] \in {"save_token", "clear_token"}
             /\ restoreToken' = [restoreToken EXCEPT ![who[r]] =
                                   IF call[r].op = "letter" THEN r ELSE Null]
             /\ wrote'["restoreToken"] = wrote["restoreToken"] \cup {r}
    <3>1. CASE who[r] = a
      BY <1>2, <2>2, <3>1, Latest DEF RestoreTokenStands, Columns, TypeOK
    <3>2. CASE who[r] # a
      BY <1>1, <1>2, <2>2, <3>2, Latest, Writers DEF RestoreTokenStands, Columns, TypeOK
    <3>3. QED
      BY <3>1, <3>2
  <2>3. QED
    BY <2>1, <2>2, ColumnsWritten
<1>6. QED
  BY <1>3, <1>4, <1>5

-----------------------------------------------------------------------------
(* What a request has seen when it is let in.                              *)

\* What a request has found in the tables when it passes its look-up.
LEMMA Admission ==
  ASSUME TypeOK, NEW r \in Requests, Fits(r), Step(r)
  PROVE  /\ call[r].op \in {"login", "change"} =>
              /\ pc'[r] \in {"set_refresh", "set_password"} =>
                   /\ pc[r] = "authenticate"
                   /\ password[who[r]] = call[r].password
              /\ pc'[r] \in {"mail_password", "ok"} =>
                   pc[r] \in {"set_refresh", "set_password", "mail_password"}
         /\ call[r].op = "refresh" =>
              /\ pc'[r] = "sign" => pc[r] = "load_admin" /\ refreshHash[who[r]] # Null
              /\ pc'[r] = "ok" => pc[r] = "sign"
         /\ call[r].op = "wallet" =>
              /\ pc'[r] = "set_refresh" =>
                   /\ pc[r] = "verify_signature"
                   /\ \E w \in wallets : /\ call[w].address = call[r].address
                                         /\ call[w].message = call[r].message
                                         /\ call[w].admin = who'[r]
              /\ pc'[r] = "ok" => pc[r] = "set_refresh"
         /\ call[r].op = "delete" /\ pc'[r] = "ok" => pc[r] = "delete_wallet"
         /\ pc'[r] = "update_general" => pc[r] = "new"
         /\ pc'[r] = "insert_wallet" =>
              \A w \in wallets : ~ /\ call[w].address = call[r].address
                                   /\ call[w].admin = call[r].admin
         /\ pc'[r] = "insert_general" =>
              \A w \in Requests : generalWallets[w] # call[r].address
<1>1. pc \in [Requests -> Labels] /\ who \in [Requests -> Admins]
  BY DEF TypeOK, Labels, WalletAwaits
<1> USE <1>1 DEF Labels, Fits, GoTo, Start, LogIns, Answers
<1>2. CASE BeginSession(r)
  BY <1>2, SessionBegins DEF BeginSession
<1>3. CASE BeginWallet(r)
  BY <1>3, WalletBegins DEF BeginWallet
<1>4. CASE GetAuthenticatedUser(r) \/ VerifySignature(r)
  BY <1>4 DEF GetAuthenticatedUser, VerifySignature
<1>5. CASE LogIn(r) \/ ValidateGoogleTokenId(r) \/ SignInWithWallet(r)
  BY <1>5 DEF LogIn, ValidateGoogleTokenId, SignInWithWallet, SetCurrentRefreshToken
<1>6. CASE GetUserIfRefreshTokenMatches(r) \/ Refresh(r) \/ RemoveRefreshToken(r)
  BY <1>6 DEF GetUserIfRefreshTokenMatches, Refresh, RemoveRefreshToken
<1>7. CASE \/ SaveResetPasswordToken(r) \/ SendLetter(r) \/ UpdatePassword(r)
           \/ RemoveRestorePasswordToken(r) \/ MailPassword(r)
  BY <1>7 DEF SaveResetPasswordToken, SendLetter, UpdatePassword,
              RemoveRestorePasswordToken, MailPassword
<1>8. CASE FindWallet(r) \/ InsertWallet(r) \/ ReadWallet(r) \/ DeleteWallet(r)
  BY <1>8 DEF FindWallet, InsertWallet, ReadWallet, DeleteWallet
<1>9. CASE FindGeneral(r)
  BY <1>9 DEF FindGeneral
<1>10. CASE InsertGeneral(r) \/ UpdateGeneral(r) \/ ReadGeneral(r) \/ DeleteGeneral(r)
  BY <1>10 DEF InsertGeneral, UpdateGeneral, ReadGeneral, DeleteGeneral
<1>11. CASE FailAt(r)
  BY <1>11 DEF FailAt
<1>12. QED
  BY <1>2, <1>3, <1>4, <1>5, <1>6, <1>7, <1>8, <1>9, <1>10, <1>11 DEF Step

\* The order of two updates and a request that began before a step is not
\* changed by it: a new update is before nobody.
LEMMA OrderKept ==
  ASSUME TypeOK, History, NEW r \in Requests, Fits(r), Step(r),
         NEW c \in Columns, NEW t \in Requests, pc[t] \notin {"new", "verify_signature"}
  PROVE  /\ who'[t] = who[t]
         /\ Updates(c, who[t]) \subseteq Updates(c, who[t])'
         /\ \A w \in Updates(c, who[t]) :
              (\A s \in Updates(c, who[t]) : ~ Replaced(w, s, t))
                => (\A s \in Updates(c, who[t])' : ~ Replaced(w, s, t)')
         /\ (\A s \in Updates(c, who[t]) : s \notin before[t])
              => (\A s \in Updates(c, who[t])' : s \notin before'[t])
<1>1. who'[t] = who[t] /\ who[t] \in Admins /\ before'[t] = before[t] /\ r \notin before[t]
  BY ColumnsWritten, BeforeKept DEF TypeOK
<1>2. \/ Updates(c, who[t])' = Updates(c, who[t])
      \/ Updates(c, who[t])' = Updates(c, who[t]) \cup {r}
  <2>1. \/ wrote'[c] = wrote[c]
        \/ wrote'[c] = wrote[c] \cup {r} /\ pc[r] # "verify_signature"
    BY ColumnsWritten DEF Columns
  <2>2. QED
    BY <1>1, <2>1, Writers
<1>3. QED
  BY <1>1, <1>2, Writers DEF Replaced

\* Whoever is let in has given the password of a latest update, and it stays one
\* that was valid while the request ran.
LEMMA LogInsStep ==
  ASSUME TypeOK, History, LatestUpdateStands, LogInsKnowThePassword,
         NEW r \in Requests, Fits(r), Step(r)
  PROVE  LogInsKnowThePassword'
<1> DEFINE In == {"set_refresh", "set_password", "mail_password", "ok"}
           Known(t) ==
             LET updates == Updates("password", who[t])
             IN \/ /\ call[t].password = Registered[who[t]]
                   /\ \A s \in updates : s \notin before[t]
                \/ \E w \in updates : /\ call[w].new = call[t].password
                                      /\ \A s \in updates : ~ Replaced(w, s, t)
<1> SUFFICES ASSUME NEW t \in Requests, call'[t].op \in {"login", "change"}, pc'[t] \in In
             PROVE  Known(t)'
  BY DEF LogInsKnowThePassword
<1>1. call' = call
  BY Moves
<1>2. pc[t] \notin {"new", "verify_signature"}
  <2>1. CASE t = r
    BY <1>1, <2>1, Admission
  <2>2. CASE t # r
    BY <2>2, BeforeKept
  <2>3. QED
    BY <2>1, <2>2
<1>3. Known(t)
  <2>1. CASE pc[t] \in In
    BY <1>1, <2>1 DEF LogInsKnowThePassword
  <2>2. CASE pc[t] \notin In
    <3>1. t = r /\ password[who[t]] = call[t].password /\ who[t] \in Admins
      BY <1>1, <2>2, Admission, BeforeKept DEF TypeOK
    <3>2. PasswordStands(who[t])
      BY <3>1 DEF LatestUpdateStands, PasswordStands
    <3>3. QED
      BY <3>1, <3>2 DEF PasswordStands, IsLatest, Replaced
  <2>3. QED
    BY <2>1, <2>2
<1>4. Known(t)'
  BY <1>1, <1>2, <1>3, OrderKept DEF Columns
<1>5. QED
  BY <1>4

\* A refresh has found a hash, so the latest update is a sign-in.
LEMMA LogOutStep ==
  ASSUME TypeOK, History, LatestUpdateStands, LogOutStands,
         NEW r \in Requests, Fits(r), Step(r)
  PROVE  LogOutStands'
<1> DEFINE SignedIn(t) ==
             LET updates == Updates("refreshHash", who[t])
             IN \E w \in updates : /\ call[w].op \in LogIns
                                   /\ \A s \in updates : ~ Replaced(w, s, t)
<1> SUFFICES ASSUME NEW t \in Requests, call'[t].op = "refresh", pc'[t] \in {"sign", "ok"}
             PROVE  SignedIn(t)'
  BY DEF LogOutStands
<1>1. call' = call
  BY Moves
<1>2. pc[t] \notin {"new", "verify_signature"}
  <2>1. CASE t = r
    BY <1>1, <2>1, Admission
  <2>2. CASE t # r
    BY <2>2, BeforeKept
  <2>3. QED
    BY <2>1, <2>2
<1>3. SignedIn(t)
  <2>1. CASE pc[t] \in {"sign", "ok"}
    BY <1>1, <2>1 DEF LogOutStands
  <2>2. CASE pc[t] \notin {"sign", "ok"}
    <3>1. t = r /\ refreshHash[who[t]] # Null /\ who[t] \in Admins
      BY <1>1, <2>2, Admission, BeforeKept DEF TypeOK
    <3>2. RefreshHashStands(who[t])
      BY <3>1 DEF LatestUpdateStands, RefreshHashStands
    <3>3. PICK w \in Requests : /\ IsLatest(w, Updates("refreshHash", who[t]))
                                /\ call[w].op # "logout"
      BY <3>1, <3>2 DEF RefreshHashStands
    <3>4. call[w].op \in LogIns
      BY <3>3 DEF History, IsLatest, Updates
    <3>5. QED
      BY <3>3, <3>4 DEF IsLatest, Replaced
  <2>3. QED
    BY <2>1, <2>2
<1>4. SignedIn(t)'
  BY <1>1, <1>2, <1>3, OrderKept DEF Columns
<1>5. QED
  BY <1>4

-----------------------------------------------------------------------------
(* Wallets.                                                                *)

\* A delete that was answered has taken away a row that was there before it began.
DeletedGone ==
  \A d \in Requests :
    call[d].op = "delete" /\ pc[d] = "ok" /\ call[d].row \in before[d]
      => call[d].row \notin wallets

\* Only the request itself inserts its row, before it is answered.
LEMMA DeletedGoneStep ==
  ASSUME TypeOK, History, DeletedGone, NEW r \in Requests, Fits(r), Step(r)
  PROVE  DeletedGone'
<1> SUFFICES ASSUME NEW d \in Requests, call'[d].op = "delete", pc'[d] = "ok",
                    call'[d].row \in before'[d]
             PROVE  call'[d].row \notin wallets'
  BY DEF DeletedGone
<1>1. call' = call
  BY Moves
<1>2. CASE d = r
  <2>1. pc[r] = "delete_wallet"
    BY <1>1, <1>2, Admission
  <2>2. QED
    BY <1>1, <1>2, <2>1, TablesWritten
<1>3. CASE d # r
  <2>1. before'[d] = before[d] /\ r \notin before[d] /\ call[d].row \notin wallets
    BY <1>1, <1>3, BeforeKept DEF DeletedGone
  <2>2. wallets' \subseteq wallets \cup {r}
    BY TablesWritten
  <2>3. QED
    BY <1>1, <2>1, <2>2
<1>4. QED
  BY <1>2, <1>3

\* A row that the look-up finds has not been deleted by an earlier request.
LEMMA WalletSignsInStep ==
  ASSUME TypeOK, History, DeletedGone, WalletSignsIn, NEW r \in Requests, Fits(r), Step(r)
  PROVE  WalletSignsIn'
<1> DEFINE Bound(t) ==
             \E w \in inserted :
               /\ call[w].op = "bind"
               /\ call[w].admin = who[t]
               /\ call[w].address = call[t].address
               /\ call[w].message = call[t].message
               /\ \A d \in Requests :
                    call[d].op = "delete" /\ call[d].row = w /\ pc[d] = "ok"
                      => ~ Replaced(w, d, t)
<1> SUFFICES ASSUME NEW t \in Requests, call'[t].op = "wallet",
                    pc'[t] \in {"set_refresh", "ok"}
             PROVE  Bound(t)'
  BY DEF WalletSignsIn
<1>1. call' = call /\ inserted \subseteq inserted'
  BY Moves, TablesWritten
<1>2. CASE pc[t] \in {"set_refresh", "ok"}
  <2>1. Bound(t)
    BY <1>1, <1>2 DEF WalletSignsIn
  <2>2. /\ who'[t] = who[t]
        /\ before'[t] = before[t]
        /\ r \notin before[t]
        /\ \A d \in Requests : d # r => before'[d] = before[d] /\ pc'[d] = pc[d]
    BY <1>2, ColumnsWritten, BeforeKept DEF TypeOK
  <2>3. QED
    BY <1>1, <2>1, <2>2 DEF Replaced
<1>3. CASE pc[t] \notin {"set_refresh", "ok"}
  <2>1. t = r /\ pc[r] = "verify_signature"
    BY <1>1, <1>3, BeforeKept, Admission
  <2>2. PICK w \in wallets : /\ call[w].address = call[r].address
                             /\ call[w].message = call[r].message
                             /\ call[w].admin = who'[r]
    BY <1>1, <2>1, Admission
  <2>3. w \in Requests /\ w \in inserted /\ call[w].op = "bind"
    BY DEF History, TypeOK, WalletsTypeOK
  <2>4. \A d \in Requests : call[d].op = "delete" /\ call[d].row = w /\ pc'[d] = "ok"
                              => w \notin before'[d]
    BY <1>1, <2>1, BeforeKept DEF DeletedGone
  <2>5. QED
    BY <1>1, <2>1, <2>2, <2>3, <2>4 DEF Replaced
<1>4. QED
  BY <1>2, <1>3

\* A request that has not found its wallet is not later than a row of that wallet.
NotYetBound ==
  \A q \in Requests : pc[q] = "insert_wallet" =>
    \A v \in wallets : /\ call[v].address = call[q].address
                       /\ call[v].admin = call[q].admin
                       => v \notin before[q]

\* A row that comes after the look-up is of a request that is not yet answered.
LEMMA NotYetBoundStep ==
  ASSUME TypeOK, History, NotYetBound, NEW r \in Requests, Fits(r), Step(r)
  PROVE  NotYetBound'
<1> SUFFICES ASSUME NEW q \in Requests, pc'[q] = "insert_wallet", NEW v \in wallets',
                    call'[v].address = call'[q].address, call'[v].admin = call'[q].admin
             PROVE  v \notin before'[q]
  BY DEF NotYetBound
<1>1. call' = call
  BY Moves
<1>2. CASE q = r
  <2>1. v \in wallets
    BY <1>2, TablesWritten
  <2>2. QED
    BY <1>1, <1>2, <2>1, Admission
<1>3. CASE q # r
  <2>1. before'[q] = before[q] /\ r \notin before[q] /\ pc[q] = "insert_wallet"
    BY <1>3, BeforeKept
  <2>2. wallets' \subseteq wallets \cup {r}
    BY TablesWritten
  <2>3. QED
    BY <1>1, <2>1, <2>2 DEF NotYetBound
<1>4. QED
  BY <1>2, <1>3

\* A second row of a wallet is inserted only by a request that overlaps.
LEMMA BoundOnceStep ==
  ASSUME TypeOK, History, NotYetBound, BoundOnce, NEW r \in Requests, Fits(r), Step(r)
  PROVE  BoundOnce'
<1> SUFFICES ASSUME NEW v \in wallets', NEW w \in wallets', v # w,
                    call'[v].address = call'[w].address, call'[v].admin = call'[w].admin
             PROVE  Overlap(v, w)'
  BY DEF BoundOnce
<1>1. /\ call' = call
      /\ \A s \in wallets : s \in Requests /\ before'[s] = before[s]
      /\ \A s \in Requests : r \notin before[s]
  BY Moves, BeforeKept DEF History, TypeOK, WalletsTypeOK
<1>2. CASE wallets' \subseteq wallets
  BY <1>1, <1>2 DEF BoundOnce, Overlap
<1>3. CASE pc[r] = "insert_wallet" /\ wallets' = wallets \cup {r}
  <2>1. before'[r] = before[r]
    BY <1>3, BeforeKept
  <2>2. \A s \in wallets : /\ call[s].address = call[r].address
                           /\ call[s].admin = call[r].admin
                           => s \notin before[r]
    BY <1>3 DEF NotYetBound
  <2>3. QED
    BY <1>1, <1>3, <2>1, <2>2 DEF BoundOnce, Overlap
<1>4. QED
  BY <1>2, <1>3, TablesWritten

\* An update has given the row v of a general wallet the address x.
UpdatedTo(v, x) ==
  \E u \in Requests : /\ call[u].op = "updateGeneral"
                      /\ call[u].row = v
                      /\ call[u].address = x
                      /\ pc[u] \notin {"new", "update_general"}

\* A request that has not found its general wallet is not later than a row with
\* that address, unless an update gave the row the address.
NotYetListed ==
  \A q \in Requests : pc[q] = "insert_general" =>
    \A v \in Requests : generalWallets[v] = call[q].address =>
      v \notin before[q] \/ UpdatedTo(v, call[q].address)

\* What a step of r changes in the table of general wallets.
LEMMA GeneralWritten ==
  ASSUME TypeOK, History, NEW r \in Requests, Fits(r), Step(r)
  PROVE  /\ \A v, x : UpdatedTo(v, x) => UpdatedTo(v, x)'
         /\ \A v \in Requests :
              \/ generalWallets'[v] = Absent
              \/ generalWallets'[v] = generalWallets[v] /\ before'[v] = before[v]
              \/ /\ v = r
                 /\ pc[r] = "insert_general" /\ pc'[r] # "insert_general"
                 /\ generalWallets'[v] = call[r].address
              \/ UpdatedTo(v, generalWallets[v])'
<1>1. /\ call' = call
      /\ pc'[r] # "new"
      /\ \A s \in Requests : s # r => pc'[s] = pc[s]
      /\ pc'[r] = "update_general" => pc[r] = "new"
  BY Moves, BeforeKept, Admission DEF Labels
<1>2. \A v \in Requests : generalWallets[v] # Absent => before'[v] = before[v]
  BY BeforeKept DEF History
<1>3. \A v, x : UpdatedTo(v, x) => UpdatedTo(v, x)'
  BY <1>1 DEF UpdatedTo
<1>4. ASSUME NEW v \in Requests, generalWallets'[v] # Absent
      PROVE  \/ generalWallets'[v] = generalWallets[v] /\ before'[v] = before[v]
             \/ /\ v = r
                /\ pc[r] = "insert_general" /\ pc'[r] # "insert_general"
                /\ generalWallets'[v] = call[r].address
             \/ UpdatedTo(v, generalWallets[v])'
  <2>1. CASE generalWallets'[v] = generalWallets[v]
    BY <1>2, <1>4, <2>1
  <2>2. CASE generalWallets'[v] # generalWallets[v]
    <3>1. CASE /\ pc[r] = "insert_general" /\ pc'[r] = "read_general"
               /\ generalWallets' = [generalWallets EXCEPT ![r] = call[r].address]
      BY <2>2, <3>1 DEF TypeOK, WalletsTypeOK
    <3>2. CASE /\ pc[r] = "update_general" /\ pc'[r] = "read_general"
               /\ generalWallets' = [generalWallets EXCEPT ![call[r].row] = call[r].address]
      <4>1. call[r].op = "updateGeneral" /\ call[r].row = v
            /\ call[r].address = generalWallets'[v]
        BY <2>2, <3>2 DEF Fits, TypeOK, WalletsTypeOK
      <4>2. QED
        BY <1>1, <3>2, <4>1 DEF UpdatedTo
    <3>3. CASE generalWallets' = [generalWallets EXCEPT ![call[r].row] = Absent]
      BY <1>4, <2>2, <3>3 DEF TypeOK, WalletsTypeOK
    <3>4. QED
      BY <2>2, <3>1, <3>2, <3>3, TablesWritten
  <2>3. QED
    BY <2>1, <2>2
<1>5. QED
  BY <1>3, <1>4

\* The same for general wallets, which an update changes too.
LEMMA NotYetListedStep ==
  ASSUME TypeOK, History, NotYetListed, NEW r \in Requests, Fits(r), Step(r)
  PROVE  NotYetListed'
<1> SUFFICES ASSUME NEW q \in Requests, pc'[q] = "insert_general",
                    NEW v \in Requests, generalWallets'[v] = call'[q].address
             PROVE  v \notin before'[q] \/ UpdatedTo(v, call[q].address)'
  BY DEF NotYetListed
<1>1. call' = call /\ call[q].address # Absent
  BY Moves, WalletsAssumption DEF TypeOK
<1>2. CASE UpdatedTo(v, generalWallets[v])'
  BY <1>2
<1>3. CASE v = r /\ pc[r] = "insert_general" /\ pc'[r] # "insert_general"
  BY <1>3, BeforeKept
<1>4. CASE generalWallets'[v] = generalWallets[v]
  <2>1. CASE q = r
    BY <1>1, <1>4, <2>1, Admission
  <2>2. CASE q # r
    <3>1. before'[q] = before[q] /\ pc[q] = "insert_general"
      BY <2>2, BeforeKept
    <3>2. v \notin before[q] \/ UpdatedTo(v, call[q].address)
      BY <1>1, <1>4, <3>1 DEF NotYetListed
    <3>3. QED
      BY <1>1, <3>1, <3>2, GeneralWritten
  <2>3. QED
    BY <2>1, <2>2
<1>5. QED
  BY <1>1, <1>2, <1>3, <1>4, GeneralWritten

\* A second row with an address is inserted by a request that overlaps, or made
\* by an update.
LEMMA GeneralOnceStep ==
  ASSUME TypeOK, History, NotYetListed, GeneralOnce, NEW r \in Requests, Fits(r), Step(r)
  PROVE  GeneralOnce'
<1> DEFINE Listed(v, w) == \/ Overlap(v, w)
                           \/ UpdatedTo(v, generalWallets[v])
                           \/ UpdatedTo(w, generalWallets[v])
           New(v) == /\ v = r
                     /\ pc[r] = "insert_general"
                     /\ generalWallets'[v] = call[r].address
           Old(v) == generalWallets'[v] = generalWallets[v] /\ before'[v] = before[v]
<1> SUFFICES ASSUME NEW v \in Requests, NEW w \in Requests, v # w,
                    generalWallets'[v] = generalWallets'[w], generalWallets'[v] # Absent
             PROVE  Listed(v, w)'
  BY DEF GeneralOnce, UpdatedTo
<1>1. call' = call /\ \A s \in Requests : r \notin before[s]
  BY Moves, BeforeKept
<1>2. pc[r] = "insert_general" => before'[r] = before[r]
  BY BeforeKept
<1>3. CASE UpdatedTo(v, generalWallets[v])' \/ UpdatedTo(w, generalWallets[w])'
  BY <1>3
<1>4. CASE Old(v) /\ Old(w)
  <2>1. ASSUME ~ Overlap(v, w) PROVE Listed(v, w)
    <3>1. generalWallets[v] = generalWallets[w] /\ generalWallets[v] # Absent
      BY <1>4
    <3>2. PICK u \in Requests : /\ call[u].op = "updateGeneral"
                               /\ call[u].row \in {v, w}
                               /\ call[u].address = generalWallets[v]
                               /\ pc[u] \notin {"new", "update_general"}
      BY <2>1, <3>1 DEF GeneralOnce
    <3>3. QED
      BY <3>1, <3>2 DEF UpdatedTo
  <2>2. Listed(v, w)
    BY <2>1
  <2>3. QED
    BY <1>4, <2>2, GeneralWritten DEF Overlap
<1>5. CASE New(v) /\ Old(w)
  <2>1. w \notin before[r] \/ UpdatedTo(w, call[r].address)
    BY <1>5 DEF NotYetListed
  <2>2. QED
    BY <1>1, <1>2, <1>5, <2>1, GeneralWritten DEF Overlap
<1>6. CASE Old(v) /\ New(w)
  <2>1. v \notin before[r] \/ UpdatedTo(v, call[r].address)
    BY <1>6 DEF NotYetListed
  <2>2. QED
    BY <1>1, <1>2, <1>6, <2>1, GeneralWritten DEF Overlap
<1>7. QED
  BY <1>3, <1>4, <1>5, <1>6, GeneralWritten

-----------------------------------------------------------------------------
(* The invariant.                                                          *)

\* The properties, and what makes them inductive.
IInv ==
  /\ TypeOK
  /\ \A r \in Requests : Fits(r)
  /\ History
  /\ LatestUpdateStands
  /\ LogInsKnowThePassword
  /\ LogOutStands
  /\ DeletedGone
  /\ WalletSignsIn
  /\ NotYetBound
  /\ BoundOnce
  /\ NotYetListed
  /\ GeneralOnce

\* No request has begun, and the tables are as after the registrations.
LEMMA InitIInv == Init => IInv
<1> SUFFICES ASSUME Init
             PROVE  IInv
  OBVIOUS
<1> USE DEF Init, CallsInit, WalletsInit, SessionsInit
<1>1. TypeOK
  BY MaxFaultsAssumption, WalletsAssumption, SessionsAssumption
  DEF TypeOK, WalletsTypeOK, Columns
<1>2. \A r \in Requests : pc[r] = "new" /\ before[r] = {} /\ generalWallets[r] = Absent
  OBVIOUS
<1>3. wallets = {} /\ \A c \in Columns : wrote[c] = {}
  OBVIOUS
<1>4. \A r \in Requests : Fits(r)
  BY <1>2 DEF Fits
<1>5. History
  BY <1>2, <1>3 DEF History, Columns
<1>6. LatestUpdateStands
  BY <1>3 DEF LatestUpdateStands, Updates, Columns
<1>7. LogInsKnowThePassword /\ LogOutStands /\ DeletedGone /\ WalletSignsIn
  BY <1>2 DEF LogInsKnowThePassword, LogOutStands, DeletedGone, WalletSignsIn
<1>8. NotYetBound /\ BoundOnce /\ NotYetListed /\ GeneralOnce
  BY <1>2, <1>3 DEF NotYetBound, BoundOnce, NotYetListed, GeneralOnce
<1>9. QED
  BY <1>1, <1>4, <1>5, <1>6, <1>7, <1>8 DEF IInv

\* One lemma for each part of the invariant, for the step of one request.
LEMMA StepIInv == IInv /\ [Next]_vars => IInv'
<1> SUFFICES ASSUME IInv, [Next]_vars
             PROVE  IInv'
  OBVIOUS
<1>1. CASE Next
  <2>1. PICK r \in Requests : Step(r)
    BY <1>1, Steps
  <2>2. /\ TypeOK /\ Fits(r) /\ History
        /\ \A s \in Requests : Fits(s)
        /\ LatestUpdateStands /\ LogInsKnowThePassword /\ LogOutStands
        /\ DeletedGone /\ WalletSignsIn
        /\ NotYetBound /\ BoundOnce /\ NotYetListed /\ GeneralOnce
    BY DEF IInv
  <2>3. TypeOK'
    BY <2>1, <2>2, Types
  <2>4. \A s \in Requests : Fits(s)'
    <3>1. Fits(r)' /\ call' = call /\ \A s \in Requests : s # r => pc'[s] = pc[s]
      BY <2>1, <2>2, Moves, BeforeKept
    <3>2. ASSUME NEW s \in Requests, s # r PROVE Fits(s)'
      BY <2>2, <3>1, <3>2 DEF Fits
    <3>3. QED
      BY <3>1, <3>2
  <2>5. History'
    BY <2>1, <2>2, HistoryStep
  <2>6. LatestUpdateStands' /\ LogInsKnowThePassword' /\ LogOutStands'
    BY <2>1, <2>2, LatestStep, LogInsStep, LogOutStep
  <2>7. DeletedGone' /\ WalletSignsIn'
    BY <2>1, <2>2, DeletedGoneStep, WalletSignsInStep
  <2>8. NotYetBound' /\ BoundOnce'
    BY <2>1, <2>2, NotYetBoundStep, BoundOnceStep
  <2>9. NotYetListed' /\ GeneralOnce'
    BY <2>1, <2>2, NotYetListedStep, GeneralOnceStep
  <2>10. QED
    BY <2>3, <2>4, <2>5, <2>6, <2>7, <2>8, <2>9 DEF IInv
<1>2. CASE UNCHANGED vars
  <2> USE <1>2 DEF vars, sessionVars, walletVars, callVars, IInv
  <2>1. TypeOK' /\ (\A r \in Requests : Fits(r)')
    BY DEF TypeOK, WalletsTypeOK, Fits
  <2>2. History'
    BY DEF History, Answered
  <2>3. LatestUpdateStands'
    BY DEF LatestUpdateStands, IsLatest, Updates
  <2>4. LogInsKnowThePassword'
    BY DEF LogInsKnowThePassword, Updates, Replaced
  <2>5. LogOutStands'
    BY DEF LogOutStands, Updates, Replaced
  <2>6. DeletedGone' /\ WalletSignsIn'
    BY DEF DeletedGone, WalletSignsIn, Replaced
  <2>7. NotYetBound' /\ BoundOnce'
    BY DEF NotYetBound, BoundOnce, Overlap
  <2>8. NotYetListed' /\ GeneralOnce'
    BY DEF NotYetListed, GeneralOnce, UpdatedTo, Overlap
  <2>9. QED
    BY <2>1, <2>2, <2>3, <2>4, <2>5, <2>6, <2>7, <2>8
<1>3. QED
  BY <1>1, <1>2

\* Each reachable state satisfies the invariant.
LEMMA Invariant == Spec => []IInv
BY InitIInv, StepIInv, PTL DEF Spec

\* The variables of credentials, wallets and requests keep their types.
THEOREM SessionsTyped == Spec => []TypeOK
<1>1. IInv => TypeOK
  BY DEF IInv
<1>2. QED
  BY <1>1, Invariant, PTL

\* Whatever requests overlap, a column of administrators holds what one of its
\* latest updates has set, and its first value as long as there is none.
THEOREM UpdatesStand == Spec => []LatestUpdateStands
<1>1. IInv => LatestUpdateStands
  BY DEF IInv
<1>2. QED
  BY <1>1, Invariant, PTL

\* Who logs in or changes a password has given one that was valid at some time
\* while the request ran.
THEOREM PasswordsAreKnown == Spec => []LogInsKnowThePassword
<1>1. IInv => LogInsKnowThePassword
  BY DEF IInv
<1>2. QED
  BY <1>1, Invariant, PTL

\* A refresh after a log out succeeds only when somebody has signed in again.
THEOREM LogOutsStand == Spec => []LogOutStands
<1>1. IInv => LogOutStands
  BY DEF IInv
<1>2. QED
  BY <1>1, Invariant, PTL

\* A wallet signs in the administrator that it is bound to, and not after a
\* delete that was answered before.
THEOREM WalletsSignIn == Spec => []WalletSignsIn
<1>1. IInv => WalletSignsIn
  BY DEF IInv
<1>2. QED
  BY <1>1, Invariant, PTL

\* A wallet is bound twice to an administrator only by requests that overlap.
THEOREM WalletsBoundOnce == Spec => []BoundOnce
<1>1. IInv => BoundOnce
  BY DEF IInv
<1>2. QED
  BY <1>1, Invariant, PTL

\* An address is listed twice only by requests that overlap, or by an update.
THEOREM GeneralWalletsOnce == Spec => []GeneralOnce
<1>1. IInv => GeneralOnce
  BY DEF IInv
<1>2. QED
  BY <1>1, Invariant, PTL

=============================================================================
