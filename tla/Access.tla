-------------------------------- MODULE Access --------------------------------
(***************************************************************************)
(* Who gets in: registration, login, password recovery, and the guard in   *)
(* front of every other endpoint, with the handlers behind it that read,   *)
(* make, change and delete users.                                          *)
(* Each action is one awaited call together with the synchronous code that *)
(* follows it, and pc[h] names what the handler is about to await.         *)
(*                                                                         *)
(* A user is named by the id that is in the tokens, the address of a login *)
(* included (Registration is about e-mail addresses).  Clients choose the  *)
(* ids, that of a deleted user included; customers are registered under    *)
(* fresh ones, which nobody here knows.  Nothing of a request outlives the *)
(* process, and no handler has to go on: to stop for ever is to crash.     *)
(***************************************************************************)
EXTENDS Integers, FiniteSets

CONSTANTS
  Ids,        \* the ids users have and register with
  Registered, \* the ids that have a row at the start
  Passwords,  \* the passwords clients send
  Initial,    \* the password each of them registered with
  Seeded,     \* the users the merchant seeder made
  Requests,   \* the requests, each handled once
  Faults,     \* what the environment may do: "db"
  None        \* no user, no password

ASSUME UsersAssumption ==
  /\ Registered \subseteq Ids /\ Seeded \subseteq Registered
  /\ Initial \in [Ids -> Passwords]
  /\ None \notin Ids /\ None \notin Passwords

VARIABLES
  stored,   \* users collection: the ids with a row
  hash,     \* users collection: the password column
  blocked,  \* users collection: the rows with isBlocked
  tokens,   \* the tokens signed so far
  pc,       \* what each handler awaits next
  answer,   \* what the client of each request was told
  kind,     \* the endpoint of each request
  subject,  \* the user a request is from
  object,   \* the user a request is about
  secret,   \* the password a request carries
  seen,     \* the password column a login read
  applied,  \* history: the update of a request found a row, or its insert or
            \*   deletion was carried out
  reborn,   \* history: the object of an update or deletion was registered anew
            \*   since the request arrived, or since it deleted the row
  erased,   \* history: the row a registration inserted has been deleted
  shown,    \* history: the owner a profile was answered with
  chosen,   \* history: the password last chosen for each user
  had,      \* history: the passwords the user of a login had while it ran
  entitled, \* history: the user of a request was active at a moment of it
  gone      \* history: the user of a request was missing at a moment of it

users   == <<stored, hash, blocked>>
inputs  == <<kind, subject, object, secret>>
history == <<applied, reborn, erased, shown, chosen, had, entitled, gone>>
vars    == <<stored, hash, blocked, tokens, pc, answer, kind, subject, object,
             secret, seen, applied, reborn, erased, shown, chosen, had, entitled,
             gone>>

Signup == {"register", "create"}
Changes == {"patch", "put", "delete"}
Guarded == {"me", "patch", "profile", "balance", "read", "put", "delete", "create"}
Kinds == Guarded \cup {"register", "login", "forgot", "restore", "none"}
Answers == {"none", "ok", "rejected", "error"}
Steps == {"new", "compare", "update", "reread", "guard", "me", "find", "email",
          "id", "insert", "refind", "delete", "customer", "owner", "wallet", "done"}

\* The setter of the schema hashes whatever is written to the column, and
\* bcrypt compares a plain text with one hash of it.
Hash(p) == [of |-> p, times |-> 1]
Matches(p, column) == column = Hash(p)

\* Tokens of one user and purpose are interchangeable.
Token(u, from) == [user |-> u, from |-> from]
Tokens == [user : Ids, from : {"access", "forgotPassword"}]

Active == stored \ blocked

\* The password of u, if there is such a user.
Current(u) == IF u \in stored THEN chosen[u] ELSE None

\* The merchant seeder hashes the password and hands the hash to the setter.
Init ==
  /\ stored = Registered
  /\ hash = [u \in Ids |-> [of |-> Initial[u], times |-> IF u \in Seeded THEN 2 ELSE 1]]
  /\ blocked = {}
  /\ tokens = {t \in Tokens : t.user \in Registered}
  /\ pc = [h \in Requests |-> "new"]
  /\ answer = [h \in Requests |-> "none"]
  /\ kind = [h \in Requests |-> "none"]
  /\ subject = [h \in Requests |-> None]
  /\ object = [h \in Requests |-> None]
  /\ secret = [h \in Requests |-> None]
  /\ seen = [h \in Requests |-> Hash(None)]
  /\ applied = [h \in Requests |-> FALSE]
  /\ reborn = [h \in Requests |-> FALSE]
  /\ erased = [h \in Requests |-> FALSE]
  /\ shown = [h \in Requests |-> TRUE]
  /\ chosen = Initial
  /\ had = [h \in Requests |-> {}]
  /\ entitled = [h \in Requests |-> FALSE]
  /\ gone = [h \in Requests |-> FALSE]

-----------------------------------------------------------------------------
Running(h) == pc[h] \notin {"new", "done"}

Goto(h, step) == pc' = [pc EXCEPT ![h] = step] /\ UNCHANGED answer
Reply(h, a) == pc' = [pc EXCEPT ![h] = "done"] /\ answer' = [answer EXCEPT ![h] = a]

\* 400, 401 or 404.
Refuse(h) == Reply(h, "rejected")

\* A write was applied, but the driver reports an error.
ReplyLost(h) == "db" \in Faults /\ Reply(h, "error")

\* The request h to endpoint k comes from user u about user o, with password p.
Begin(h, k, u, o, p) ==
  /\ kind' = [kind EXCEPT ![h] = k]
  /\ subject' = [subject EXCEPT ![h] = u]
  /\ object' = [object EXCEPT ![h] = o]
  /\ secret' = [secret EXCEPT ![h] = p]
  /\ had' = [had EXCEPT ![h] = IF k = "login" THEN {Current(u)} ELSE {}]
  /\ entitled' = [entitled EXCEPT ![h] = k \in Guarded /\ u \in Active]
  /\ gone' = [gone EXCEPT ![h] = k = "profile" /\ u \notin stored]
  /\ UNCHANGED <<users, applied, reborn, erased, shown, chosen>>

\* Every running request sees what its user has become.
Witness ==
  /\ had' = [h \in Requests |->
       IF pc[h] = "compare" THEN had[h] \cup {Current(subject[h])'} ELSE had[h]]
  /\ entitled' = [h \in Requests |-> entitled[h] \/
       (Running(h) /\ kind[h] \in Guarded /\ subject[h] \in Active')]
  /\ gone' = [h \in Requests |-> gone[h] \/
       (Running(h) /\ kind[h] = "profile" /\ subject[h] \notin stored')]

\* A step that only reads.
Quiet == UNCHANGED <<users, tokens, inputs, seen, history>>

-----------------------------------------------------------------------------
(***************************************************************************)
(* login.                                                                  *)
(***************************************************************************)
FindByEmail(h) ==
  /\ pc[h] = "new"
  /\ \E u \in Ids, p \in Passwords :
       /\ Begin(h, "login", u, u, p)
       /\ \/ /\ u \in stored
             /\ seen' = [seen EXCEPT ![h] = hash[u]]
             /\ Goto(h, "compare")
          \/ u \notin stored /\ Refuse(h) /\ UNCHANGED seen
  /\ UNCHANGED tokens

\* bcrypt compares in slices: the row may change meanwhile.
Compare(h) ==
  /\ pc[h] = "compare"
  /\ \/ /\ Matches(secret[h], seen[h])
        /\ tokens' = tokens \cup {Token(subject[h], "access")}
        /\ Reply(h, "ok")
     \/ ~Matches(secret[h], seen[h]) /\ Refuse(h) /\ UNCHANGED tokens
  /\ UNCHANGED <<users, inputs, seen, history>>

-----------------------------------------------------------------------------
(***************************************************************************)
(* forgotPassword and restorePassword.  The recovery URL is only logged.   *)
(***************************************************************************)
FindForReset(h) ==
  /\ pc[h] = "new"
  /\ \E u \in Ids :
       /\ Begin(h, "forgot", u, u, None)
       /\ \/ /\ u \in stored
             /\ tokens' = tokens \cup {Token(u, "forgotPassword")}
             /\ Reply(h, "ok")
          \/ u \notin stored /\ Refuse(h) /\ UNCHANGED tokens
  /\ UNCHANGED seen

\* The token is verified before anything is awaited; it may have expired.
VerifyRecovery(h) ==
  /\ pc[h] = "new"
  /\ \/ \E t \in tokens, p \in Passwords :
          /\ t.from = "forgotPassword"
          /\ Begin(h, "restore", t.user, t.user, p)
          /\ Goto(h, "update")
          /\ UNCHANGED <<tokens, seen>>
     \/ Refuse(h) /\ Quiet

-----------------------------------------------------------------------------
(***************************************************************************)
(* The guard, and the handlers behind it.                                  *)
(***************************************************************************)
\* The signature and the expiry are checked when the request arrives.  (Whatever
\* token was signed may still be valid, and any may be refused.)
VerifyToken(h) ==
  /\ pc[h] = "new"
  /\ \/ \E t \in tokens, k \in Guarded, o \in Ids, p \in Passwords \cup {None} :
          /\ k \in {"read", "put", "delete", "create"} \/ o = t.user
          /\ (k \in {"put", "create"}) <=> (p # None)
          /\ Begin(h, k, t.user, o, p)
          /\ Goto(h, "guard")
          /\ UNCHANGED <<tokens, seen>>
     \/ Refuse(h) /\ Quiet

First(k) == CASE k = "me"                        -> "me"
              [] k = "patch"                     -> "update"
              [] k \in {"profile", "balance"}    -> "customer"
              [] k \in {"read", "put", "delete"} -> "find"
              [] k = "create"                    -> "id"

\* validatePayload reads the user again.
\* Mutant: the payload of the token is enough.
ValidatePayload_trust(h) == pc[h] = "guard" /\ Goto(h, First(kind[h])) /\ Quiet
ValidatePayload(h) ==
  /\ pc[h] = "guard"
  /\ \/ subject[h] \in Active /\ Goto(h, First(kind[h]))
     \/ subject[h] \notin Active /\ Refuse(h)
  /\ Quiet

\* GET /auth/me.
FindMe(h) ==
  /\ pc[h] = "me"
  /\ \/ subject[h] \in stored /\ Reply(h, "ok")
     \/ subject[h] \notin stored /\ Refuse(h)
  /\ Quiet

\* GET, PUT and DELETE /users/:id: the user must exist.
FindUser(h) ==
  /\ pc[h] = "find"
  /\ \/ /\ object[h] \in stored
        /\ \/ kind[h] = "read" /\ Reply(h, "ok")
           \/ kind[h] = "put" /\ Goto(h, "email")
           \/ kind[h] = "delete" /\ Goto(h, "refind")
     \/ object[h] \notin stored /\ Refuse(h)
  /\ Quiet

\* The address is free or taken; a lookup that fails finds nobody.
CheckEmail(h) ==
  /\ pc[h] = "email"
  /\ Goto(h, IF kind[h] = "put" THEN "update" ELSE "insert") \/ Refuse(h)
  /\ Quiet

-----------------------------------------------------------------------------
(***************************************************************************)
(* POST /auth/register, which anybody may call, and POST /users.           *)
(***************************************************************************)
Register(h) ==
  /\ pc[h] = "new"
  /\ \E o \in Ids, p \in Passwords : Begin(h, "register", o, o, p)
  /\ Goto(h, "id")
  /\ UNCHANGED <<tokens, seen>>

FindId(h) ==
  /\ pc[h] = "id"
  /\ \/ object[h] \notin stored /\ Goto(h, "email")
     \/ object[h] \in stored /\ Refuse(h)
  /\ Quiet

\* The new row is not blocked, whatever an old one under its id was; POST /users
\* answers without a token.
\* Mutant: a row that is there is overwritten.
Insert_overwrites(h) ==
  /\ pc[h] = "insert"
  /\ stored' = stored \cup {object[h]} /\ blocked' = blocked \ {object[h]}
  /\ hash' = [hash EXCEPT ![object[h]] = Hash(secret[h])]
  /\ chosen' = [chosen EXCEPT ![object[h]] = secret[h]]
  /\ applied' = [applied EXCEPT ![h] = TRUE]
  /\ Reply(h, "ok")
  /\ UNCHANGED <<tokens, inputs, seen, reborn, erased, shown>>
  /\ Witness
Insert(h) ==
  /\ pc[h] = "insert" /\ object[h] \notin stored
  /\ stored' = stored \cup {object[h]} /\ blocked' = blocked \ {object[h]}
  /\ hash' = [hash EXCEPT ![object[h]] = Hash(secret[h])]
  /\ chosen' = [chosen EXCEPT ![object[h]] = secret[h]]
  /\ applied' = [applied EXCEPT ![h] = TRUE]
  /\ reborn' = [g \in Requests |-> reborn[g] \/
       (kind[g] \in Changes /\ object[g] = object[h])]
  /\ \/ /\ Reply(h, "ok")
        /\ tokens' = IF kind[h] = "register"
                       THEN tokens \cup {Token(object[h], "access")} ELSE tokens
     \/ ReplyLost(h) /\ UNCHANGED tokens
  /\ UNCHANGED <<inputs, seen, erased, shown>>
  /\ Witness

\* The id was taken after the lookup: a duplicate key is a database error.
Duplicate(h) == pc[h] = "insert" /\ object[h] \in stored /\ Reply(h, "error") /\ Quiet

-----------------------------------------------------------------------------
\* A new password is set by PUT /users/:id and by restorePassword.
\* Mutant: a password that is not sent is written too.
SetsPassword_always(h) == TRUE
SetsPassword(h) == kind[h] \in {"restore", "put"}

\* updateOne: a row that is gone is not updated, and that is no error.
\* Mutants: the row is inserted; the password is hashed before the setter runs.
UpdateOne_upsert(h) ==
  /\ pc[h] = "update"
  /\ stored' = stored \cup {object[h]}
  /\ applied' = [applied EXCEPT ![h] = TRUE]
  /\ Goto(h, "reread") \/ ReplyLost(h)
  /\ UNCHANGED <<hash, chosen, blocked, tokens, inputs, seen, reborn, erased, shown>>
  /\ Witness
Column_twice(p) == [of |-> p, times |-> 2]
Column(p) == Hash(p)
UpdateOne(h) ==
  /\ pc[h] = "update"
  /\ IF object[h] \in stored
       THEN /\ applied' = [applied EXCEPT ![h] = TRUE]
            /\ hash' = IF SetsPassword(h)
                         THEN [hash EXCEPT ![object[h]] = Column(secret[h])] ELSE hash
            /\ chosen' = IF SetsPassword(h)
                           THEN [chosen EXCEPT ![object[h]] = secret[h]] ELSE chosen
       ELSE UNCHANGED <<applied, hash, chosen>>
  /\ Goto(h, "reread") \/ ReplyLost(h)
  /\ UNCHANGED <<stored, blocked, tokens, inputs, seen, reborn, erased, shown>>
  /\ Witness

\* updateById reads the row again; restorePassword does not look at it.
\* Mutant: no handler does.
Found_any(h) == TRUE
Found(h) == kind[h] = "restore" \/ object[h] \in stored
Reread(h) ==
  /\ pc[h] = "reread"
  /\ \/ Found(h) /\ Reply(h, "ok")
     \/ ~Found(h) /\ Refuse(h)
  /\ Quiet

\* DELETE: the repository looks the row up once more.
RefindUser(h) ==
  /\ pc[h] = "refind"
  /\ \/ object[h] \in stored /\ Goto(h, "delete")
     \/ object[h] \notin stored /\ Refuse(h)
  /\ Quiet

DeleteOne(h) ==
  /\ pc[h] = "delete"
  /\ stored' = stored \ {object[h]}
  /\ applied' = [applied EXCEPT ![h] = TRUE]
  /\ reborn' = [reborn EXCEPT ![h] = FALSE]
  /\ erased' = [g \in Requests |-> erased[g] \/
       (kind[g] \in Signup /\ applied[g] /\ object[g] = object[h])]
  /\ Reply(h, "ok") \/ ReplyLost(h)
  /\ UNCHANGED <<hash, blocked, tokens, inputs, seen, shown, chosen>>
  /\ Witness

-----------------------------------------------------------------------------
\* GET /customers/me and GET /customers/wallet/balance.  Whether the user has a
\* customer and the customer a wallet is up to Registration, which may be
\* inserting them right now.
FindCustomer(h) ==
  /\ pc[h] = "customer"
  /\ Refuse(h) \/ Goto(h, IF kind[h] = "profile" THEN "owner" ELSE "wallet")
  /\ Quiet

\* The profile is answered without its owner if there is none.
FindOwner(h) ==
  /\ pc[h] = "owner"
  /\ shown' = [shown EXCEPT ![h] = subject[h] \in stored]
  /\ Goto(h, "wallet")
  /\ UNCHANGED <<users, tokens, inputs, seen, applied, reborn, erased, chosen, had,
                 entitled, gone>>

\* A profile without a wallet is answered, a balance is not.
FindWallet(h) ==
  /\ pc[h] = "wallet"
  /\ Reply(h, "ok") \/ (kind[h] = "balance" /\ Refuse(h))
  /\ Quiet

-----------------------------------------------------------------------------
(***************************************************************************)
(* The environment.  Nothing in the program sets isBlocked; somebody with  *)
(* access to the database does.                                            *)
(***************************************************************************)
Block(u) ==
  /\ u \in stored
  /\ blocked' = IF u \in blocked THEN blocked \ {u} ELSE blocked \cup {u}
  /\ UNCHANGED <<stored, hash, tokens, pc, answer, inputs, seen, applied, reborn,
                 erased, shown, chosen>>
  /\ Witness

\* The guard takes an error for a missing user, updateById drops the error of
\* its second read, restorePassword drops the result.
ErrorAnswer(h) ==
  CASE pc[h] = "guard"                         -> "rejected"
    [] pc[h] = "reread" /\ kind[h] = "restore" -> "ok"
    [] pc[h] = "reread" /\ kind[h] # "restore" -> "rejected"
    [] OTHER                                   -> "error"

\* A new request meets the database in login and forgotPassword.  Tokens and
\* hashes are checked without it, and CheckEmail drops the error.
\* Mutant: a profile is answered without the owner the database could not read.
DbError_owner(h) ==
  /\ "db" \in Faults
  /\ pc[h] = "owner"
  /\ shown' = [shown EXCEPT ![h] = FALSE] /\ Goto(h, "wallet")
  /\ UNCHANGED <<users, tokens, inputs, seen, applied, reborn, erased, chosen, had,
                 entitled, gone>>
DbError(h) ==
  /\ "db" \in Faults
  /\ pc[h] \notin {"compare", "email", "done"}
  /\ Reply(h, ErrorAnswer(h))
  /\ Quiet

Idle == (\A h \in Requests : pc[h] = "done") /\ UNCHANGED vars

SignupStep(h) == Register(h) \/ FindId(h) \/ Insert(h) \/ Duplicate(h)
LoginStep(h) == FindByEmail(h) \/ Compare(h)
RecoveryStep(h) == FindForReset(h) \/ VerifyRecovery(h)
GuardedStep(h) ==
  \/ VerifyToken(h) \/ ValidatePayload(h) \/ FindMe(h)
  \/ FindUser(h) \/ CheckEmail(h)
  \/ RefindUser(h) \/ DeleteOne(h)
  \/ FindCustomer(h) \/ FindOwner(h) \/ FindWallet(h)
UpdateStep(h) == UpdateOne(h) \/ Reread(h)

Next ==
  \/ \E h \in Requests :
       \/ SignupStep(h) \/ LoginStep(h) \/ RecoveryStep(h)
       \/ GuardedStep(h) \/ UpdateStep(h) \/ DbError(h)
  \/ \E u \in Ids : Block(u)
  \/ Idle

Spec == Init /\ [][Next]_vars

-----------------------------------------------------------------------------
(***************************************************************************)
(* Properties.                                                             *)
(***************************************************************************)
UserTypes ==
  /\ stored \subseteq Ids /\ blocked \subseteq Ids
  /\ hash \in [Ids -> [of : Passwords, times : {1, 2}]]
  /\ chosen \in [Ids -> Passwords]
  /\ tokens \subseteq Tokens
RequestTypes ==
  /\ pc \in [Requests -> Steps] /\ answer \in [Requests -> Answers]
  /\ kind \in [Requests -> Kinds]
  /\ subject \in [Requests -> Ids \cup {None}]
  /\ object \in [Requests -> Ids \cup {None}]
  /\ secret \in [Requests -> Passwords \cup {None}]
  /\ seen \in [Requests -> [of : Passwords \cup {None}, times : {1, 2}]]
HistoryTypes ==
  /\ applied \in [Requests -> BOOLEAN] /\ shown \in [Requests -> BOOLEAN]
  /\ reborn \in [Requests -> BOOLEAN] /\ erased \in [Requests -> BOOLEAN]
  /\ had \in [Requests -> SUBSET (Passwords \cup {None})]
  /\ entitled \in [Requests -> BOOLEAN] /\ gone \in [Requests -> BOOLEAN]
TypeOK == UserTypes /\ RequestTypes /\ HistoryTypes

\* A login is decided by the password its user had at some moment while it was
\* handled: it is let in only with that password, and turned away only if that
\* was not the password or there was no user.  The hash that is compared was
\* read earlier, and written by whichever handler hashed last.  (The password
\* of a seeded user is hashed twice: see AccessClaims.)
LoginTruthful ==
  \A h \in Requests : kind[h] = "login" /\ subject[h] \notin Seeded =>
    /\ answer[h] = "ok" => secret[h] \in had[h]
    /\ answer[h] = "rejected" => had[h] # {secret[h]}

\* Behind the guard a request is served, or changes a user, only if its own user
\* existed and was not blocked at some moment while it was handled, however
\* old its token is: who was blocked or deleted before is out.
ServedIfEntitled ==
  \A h \in Requests :
    kind[h] \in Guarded /\ (answer[h] = "ok" \/ applied[h]) => entitled[h]

\* A deletion lasts, its reply lost or not, until somebody registers the id again:
\* no update, recovery or profile change that was under way brings the row back.
StaysDeleted ==
  \A h \in Requests :
    kind[h] = "delete" /\ applied[h] /\ ~reborn[h] => object[h] \notin stored

\* What a client is told of a change behind the guard: 200 only if it was made.
\* (An update that found no row to change is answered 200 if that row is
\* registered again before the second read.)
UpdateIsTruthful ==
  \A h \in Requests : answer[h] = "ok" =>
    /\ kind[h] \in {"patch", "put"} => applied[h] \/ reborn[h]
    /\ kind[h] = "delete" => applied[h]

\* An id belongs to one user: whoever is told 201 has the row until it is
\* deleted, and nobody else can be given the id before that, although the id is
\* looked up two calls before the insert.
RegisteredOnce ==
  \A h \in Requests : kind[h] \in Signup =>
    /\ answer[h] = "ok" => applied[h]
    /\ applied[h] /\ ~erased[h] => object[h] \in stored
    /\ \A g \in Requests \ {h} :
         /\ kind[g] \in Signup /\ object[g] = object[h]
         /\ applied[g] /\ applied[h]
         => erased[g] \/ erased[h]

\* A profile lacks its owner only if the owner was deleted while it was put
\* together, between the guard and the reply: never because a read failed.
ProfileComplete ==
  \A h \in Requests : answer[h] = "ok" /\ ~shown[h] => gone[h]
=============================================================================
