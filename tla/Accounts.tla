------------------------------- MODULE Accounts -------------------------------
(***************************************************************************)
(* The accounts of one e-mail address in an application of either of two   *)
(* kinds: the endpoints of Enable in auth/auth_module.go, over an ORM that *)
(* reads a replica and knows no unique columns, or those of                *)
(* examples/authentication, which let a PasswordPolicy replace hashes.     *)
(***************************************************************************)
EXTENDS Naturals, Sequences

CONSTANTS
    Requests,              \* registrations and logins
    Words,                 \* passwords
    Policies,              \* configurations of Argon2id; processes may differ in theirs
    DefaultPasswordConfig, \* that of HashPassword
    LegacyUntil,           \* LegacyPasswordConfig.AcceptUntil
    MaxAccountTime,        \* bound: the time
    MaxHashes,             \* bound: hashes that are made
    MaxAccountErrors       \* bound: statements that fail or are not answered

ASSUME AccountsAssumption ==
    DefaultPasswordConfig \in Policies /\ Policies \cap {"missing", "legacy", "malformed"} = {}

VARIABLES
    application,    \* "Enable" or "Application"
    accountTime,
    accounts,       \* the accounts: [hash, word |-> the password their owner last chose]
    accountReplica, \* what the replica has of them
    hashes,         \* hashes made so far; a salt makes each its own
    request,        \* [Requests -> what it does and where it is]
    accountErrors

accountVars == <<application, accountTime, accounts, accountReplica, hashes, request, accountErrors>>

NoHash == [format |-> "missing", word |-> 0, salt |-> 0]

\* right: while the request was there, its password was that of an account, or
\* the replica did not know yet that it was no longer.
IdleRequest == [at |-> "idle", word |-> 0, policy |-> DefaultPasswordConfig, right |-> FALSE, id |-> 0, read |-> NoHash, outcome |-> "none"]
Right(word) == \E table \in {accounts, accountReplica} : \E i \in DOMAIN table : table[i].word = word

\* Formats of a hash: the configuration of Argon2id it was made with; a format
\* of before v1.11 or of the application, which a policy verifies for a time; and
\* one that nothing recognises.
Formats == Policies \cup {"legacy", "malformed"}
Hashed(word, policy) == [format |-> policy, word |-> word, salt |-> hashes + 1]

AccountsInit ==
    /\ application \in {"Enable", "Application"}
    /\ accountTime = 1 /\ accountErrors = 0 /\ hashes = 1
    /\ accounts \in {<<>>} \cup
          {<< [hash |-> [format |-> format, word |-> word, salt |-> 1], word |-> word] >> :
               word \in Words, format \in IF application = "Enable" THEN Policies ELSE Formats}
    /\ accountReplica = accounts
    /\ request = [r \in Requests |-> IdleRequest]

\* Enable looks at no deadline.
AccountTick ==
    /\ accountTime < MaxAccountTime /\ application = "Application"
    /\ accountTime' = accountTime + 1
    /\ UNCHANGED <<application, accounts, accountReplica, hashes, request, accountErrors>>

ReplicateAccounts ==
    /\ accountReplica # accounts
    /\ accountReplica' = accounts
    /\ UNCHANGED <<application, accountTime, accounts, hashes, request, accountErrors>>

\* From now on the password is that of an account.
Chosen(word) == [r \in Requests |-> IF request[r].word = word THEN [request[r] EXCEPT !.right = TRUE] ELSE request[r]]

\* The owner of an account chooses another password.
ChangePassword(i, word) ==
    /\ hashes < MaxHashes /\ accounts[i].word # word
    /\ accounts' = [accounts EXCEPT ![i] = [hash |-> Hashed(word, DefaultPasswordConfig), word |-> word]]
    /\ accountReplica' = IF application = "Enable" THEN accountReplica ELSE accounts'
    /\ hashes' = hashes + 1
    /\ request' = Chosen(word)
    /\ UNCHANGED <<application, accountTime, accountErrors>>

Ask(r, to, word, policy) ==
    /\ request[r] = IdleRequest
    /\ application = "Enable" => policy = DefaultPasswordConfig
    /\ request' = [request EXCEPT ![r] = [IdleRequest EXCEPT !.at = to, !.word = word, !.policy = policy, !.right = Right(word)]]
    /\ UNCHANGED <<application, accountTime, accounts, accountReplica, hashes, accountErrors>>

AskRegistration(r, word) == Ask(r, IF application = "Enable" THEN "finding" ELSE "inserting", word, DefaultPasswordConfig)
AskLogin(r, word, policy) == Ask(r, "looking up", word, policy)

StepTo(r, to) == [request EXCEPT ![r].at = to]
AnswerWith(r, outcome) == [request EXCEPT ![r].at = "answered", ![r].outcome = outcome]
Token(r, id) == [request EXCEPT ![r].at = "answered", ![r].outcome = "token", ![r].id = id]

\* Enable looks whether the address is taken; a lookup that fails is none.
FindExisting(r) ==
    /\ request[r].at = "finding"
    /\ \/ /\ request' = IF accountReplica # <<>> THEN AnswerWith(r, "conflict") ELSE StepTo(r, "inserting")
          /\ UNCHANGED accountErrors
       \/ /\ accountErrors < MaxAccountErrors /\ accountErrors' = accountErrors + 1
          /\ request' = StepTo(r, "inserting")
    /\ UNCHANGED <<application, accountTime, accounts, accountReplica, hashes>>

\* Only the table of examples/authentication refuses a second account.
Unique == application = "Application"

InsertAccount(r) ==
    /\ request[r].at = "inserting" /\ hashes < MaxHashes
    /\ IF Unique /\ accounts # <<>>
       THEN accounts' = accounts /\ request' = AnswerWith(r, "error")
       ELSE /\ accounts' = Append(accounts, [hash |-> Hashed(request[r].word, request[r].policy), word |-> request[r].word])
            /\ request' = [Chosen(request[r].word) EXCEPT ![r].at = "answered", ![r].id = Len(accounts'),
                   ![r].outcome = IF application = "Enable" THEN "token" ELSE "created"]
    /\ accountReplica' = IF application = "Enable" THEN accountReplica ELSE accounts'
    /\ hashes' = hashes + 1
    /\ UNCHANGED <<application, accountTime, accountErrors>>

\* Any account of the address may come first: the query has no order.
LookUpAccount(r) ==
    /\ request[r].at = "looking up"
    /\ IF accountReplica = <<>>
       THEN request' = AnswerWith(r, "refused")
       ELSE \E i \in DOMAIN accountReplica :
                request' = [request EXCEPT ![r].at = "verifying", ![r].id = i, ![r].read = accountReplica[i].hash]
    /\ UNCHANGED <<application, accountTime, accounts, accountReplica, hashes, accountErrors>>

LookUpFails(r) ==
    /\ request[r].at = "looking up" /\ accountErrors < MaxAccountErrors
    /\ accountErrors' = accountErrors + 1
    /\ request' = AnswerWith(r, IF application = "Enable" THEN "refused" ELSE "error")
    /\ UNCHANGED <<application, accountTime, accounts, accountReplica, hashes>>

\* PasswordPolicy.Verify; legacy formats count until their deadline.
Verify(word, hash, policy) ==
    CASE hash.format \in Policies /\ hash.word = word -> IF hash.format = policy THEN "valid" ELSE "needs rehash"
      [] hash.format = "legacy" /\ hash.word = word /\ accountTime < LegacyUntil -> "needs rehash"
      [] OTHER -> "invalid"

\* VerifyPassword, which knows no legacy formats and asks for no rehash.
VerifyPassword(word, hash) == IF hash.format \in Policies /\ hash.word = word THEN "valid" ELSE "invalid"

CheckPassword(r) ==
    /\ request[r].at = "verifying"
    /\ LET result == IF application = "Enable"
                     THEN VerifyPassword(request[r].word, request[r].read)
                     ELSE Verify(request[r].word, request[r].read, request[r].policy)
       IN  request' = CASE result = "invalid" -> AnswerWith(r, "refused")
                        [] result = "valid" -> Token(r, request[r].id)
                        [] OTHER -> StepTo(r, "rehashing")
    /\ UNCHANGED <<application, accountTime, accounts, accountReplica, hashes, accountErrors>>

\* Mutant: the update does not compare.
ReplacesAny(r) == TRUE

\* The update meets the hash it replaces.
Replaces(r) == accounts[request[r].id].hash = request[r].read

ReplaceHash(r) ==
    /\ request[r].at = "rehashing" /\ hashes < MaxHashes
    /\ accounts' = IF Replaces(r) THEN [accounts EXCEPT ![request[r].id].hash = Hashed(request[r].word, request[r].policy)] ELSE accounts
    /\ accountReplica' = accounts'
    /\ hashes' = hashes + 1
    /\ \/ request' = (IF Replaces(r) THEN Token(r, request[r].id) ELSE AnswerWith(r, "error")) /\ UNCHANGED accountErrors
       \/ accountErrors < MaxAccountErrors /\ accountErrors' = accountErrors + 1 /\ request' = AnswerWith(r, "error")    \* done, and not answered
    /\ UNCHANGED <<application, accountTime>>

StatementFails(r) ==
    /\ request[r].at \in {"inserting", "rehashing"} /\ accountErrors < MaxAccountErrors
    /\ accountErrors' = accountErrors + 1
    /\ request' = AnswerWith(r, "error")
    /\ UNCHANGED <<application, accountTime, accounts, accountReplica, hashes>>

AccountsNext ==
    \/ AccountTick \/ ReplicateAccounts
    \/ \E word \in Words :
          \/ \E i \in DOMAIN accounts : ChangePassword(i, word)
          \/ \E r \in Requests : AskRegistration(r, word) \/ \E policy \in Policies : AskLogin(r, word, policy)
    \/ \E r \in Requests :
          \/ FindExisting(r) \/ InsertAccount(r) \/ LookUpAccount(r) \/ LookUpFails(r)
          \/ CheckPassword(r) \/ ReplaceHash(r) \/ StatementFails(r)

-----------------------------------------------------------------------------
\* A hash is of the password that its owner chose last, whatever logins replace
\* it meanwhile, and no login brings a format back that is no policy's.
HashesCurrent == \A i \in DOMAIN accounts : accounts[i].hash.word = accounts[i].word

\* A login gets a token only with a password that was right while the request was
\* there, or that the replica still had for right; what it read refuses it only
\* for a wrong password or a format that is no policy's.
LoginsHonest == \A r \in Requests :
    /\ request[r].outcome = "token" /\ request[r].read # NoHash => request[r].right
    /\ request[r].outcome = "refused" /\ request[r].read.format \in Policies => request[r].word # request[r].read.word

\* Where the column is unique there is one account at most.
OneAccount == Unique => Len(accounts) <= 1

AccountsSound == HashesCurrent /\ LoginsHonest /\ OneAccount
=============================================================================
