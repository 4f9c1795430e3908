---------------------------- MODULE Registration ----------------------------
(***************************************************************************)
(* Who is in the database: registration of customers, creation, update and *)
(* deletion of users, and the seeding of the merchant when the process     *)
(* starts, over the users, customers and wallets collections.  As in       *)
(* Payments, one database call is atomic and a handler may be overtaken    *)
(* between any two; pc[h] and seeder name the call that is made next.      *)
(*                                                                         *)
(* Ids that the server draws (uuidv4) are named by what draws them: the    *)
(* user and the customer of a registration by the request, the merchant's  *)
(* user by the number of the boot.                                         *)
(***************************************************************************)
EXTENDS Integers, FiniteSets

CONSTANTS
  Registers,   \* POST /customers/register requests
  Signups,     \* POST /auth/register and POST /users requests
  Updates,     \* PUT /users/:id requests
  Deletes,     \* DELETE /users/:id requests
  Ids,         \* user ids that clients make up
  Emails, Documents, Phones,
  Merchant,    \* the fixed customer id of the seeded merchant
  MerchantEmail, MerchantDocument, MerchantPhone,
  Production,  \* NODE_ENV is "production": nothing is seeded
  MaxBoots,    \* bound: how often the process starts
  Faults,      \* what the environment may do: "db", "crash"
  None

Requests == Registers \cup Signups \cup Updates \cup Deletes
Boots == 1 .. MaxBoots
UserIds == Ids \cup Registers \cup Boots
CustomerIds == Registers \cup {Merchant}
CustomerRows == [user : UserIds, document : Documents, phone : Phones]

ASSUME KindsAssumption ==
  /\ Registers \cap Signups = {} /\ Registers \cap Updates = {}
  /\ Registers \cap Deletes = {} /\ Signups \cap Updates = {}
  /\ Signups \cap Deletes = {} /\ Updates \cap Deletes = {}
ASSUME IdsAssumption ==
  /\ Ids \cap Registers = {} /\ Boots \cap (Ids \cup Registers) = {}
  /\ Merchant \notin Registers
ASSUME NoneAssumption ==
  None \notin Emails \cup Documents \cup Phones \cup UserIds \cup CustomerRows
ASSUME MerchantAssumption ==
  /\ MerchantEmail \in Emails
  /\ MerchantDocument \in Documents
  /\ MerchantPhone \in Phones
ASSUME BootsAssumption == MaxBoots \in Nat \ {0} /\ Production \in BOOLEAN
ASSUME FaultsAssumption == Faults \subseteq {"db", "crash"}

VARIABLES
  users,      \* users collection: the e-mail of each user, None without a row
  customers,  \* customers collection: the row of each customer, or None
  wallets,    \* wallets collection: the customers who have a wallet
  pc,         \* the database call each handler makes next
  form,       \* what each request asks for
  answer,     \* what the client of each request was told
  boot,       \* the number of the running process
  seeder,     \* the seeder's next call, "up" when the server listens
  unchecked,  \* history: e-mails written without a check that still held
  erased      \* history: users that were deleted

db      == <<users, customers, wallets>>
process == <<boot, seeder>>
history == <<unchecked, erased>>
vars    == <<users, customers, wallets, pc, form, answer, boot, seeder,
             unchecked, erased>>

Steps == {"new", "document", "phone", "insertUser", "insertCustomer",
          "insertWallet", "email", "update", "reread", "find", "delete", "done"}
SeederSteps == {"find", "insertUser", "insertCustomer", "insertWallet", "up"}
Answers == {"none", "ok", "rejected", "error", "lost"}
Forms == [id : UserIds \cup {None}, email : Emails \cup {None},
          document : Documents \cup {None}, phone : Phones \cup {None}]

\* onModuleInit is awaited before the server listens.
FirstStep == IF Production THEN "up" ELSE "find"

Init ==
  /\ users = [u \in UserIds |-> None]
  /\ customers = [c \in CustomerIds |-> None]
  /\ wallets = {}
  /\ pc = [h \in Requests |-> "new"]
  /\ form = [h \in Requests |->
               [id |-> None, email |-> None, document |-> None, phone |-> None]]
  /\ answer = [h \in Requests |-> "none"]
  /\ boot = 1
  /\ seeder = FirstStep
  /\ unchecked = {}
  /\ erased = {}

-----------------------------------------------------------------------------
(***************************************************************************)
(* Helpers.                                                                *)
(***************************************************************************)
Up == seeder = "up"
Running(h) == pc[h] \notin {"new", "done"}
DbFails == "db" \in Faults

Goto(h, step) == pc' = [pc EXCEPT ![h] = step] /\ UNCHANGED answer
Reply(h, a) ==
  /\ pc' = [pc EXCEPT ![h] = "done"]
  /\ answer' = [answer EXCEPT ![h] = a]
Refuse(h) == Reply(h, "rejected") /\ UNCHANGED <<db, form, process, history>>

\* A write was applied and its reply was lost: the services answer 500.
ReplyLost(h) == DbFails /\ Reply(h, "error")

\* What the unique indexes and the lookups see.
\* Mutant: only the users of customers are looked at.
EmailTaken_customers(e) ==
  \E c \in CustomerIds : customers[c] # None /\ users[customers[c].user] = e
EmailTaken(e) == \E u \in UserIds : users[u] = e
Stored == {c \in CustomerIds : customers[c] # None}
DocumentTaken(d) == \E c \in Stored : customers[c].document = d
PhoneTaken(p) == \E c \in Stored : customers[c].phone = p

\* The unique indexes of the customers collection let the row in.
\* Mutant: phone has no unique index.
Fits_document(row) == ~DocumentTaken(row.document)
Fits(row) ==
  /\ ~DocumentTaken(row.document)
  /\ ~PhoneTaken(row.phone)
  /\ \A c \in Stored : customers[c].user # row.user

\* The requests that found e-mail e free and will yet write it.
Trusts(h, e) ==
  /\ form[h].email = e
  /\ pc[h] \in {"document", "phone", "insertUser", "update"}

\* h writes e-mail e to user u.  No index of the users collection is consulted.
PutEmail(h, u, e) ==
  /\ users' = [users EXCEPT ![u] = e]
  /\ unchecked' = IF \E g \in Requests \ {h} : Trusts(g, e)
                    THEN unchecked \cup {e} ELSE unchecked

-----------------------------------------------------------------------------
(***************************************************************************)
(* CustomersService.register.  The errors of its three lookups are         *)
(* dropped: a lookup that fails reads as "not taken".                      *)
(***************************************************************************)
RegisterEmail(h) ==
  /\ Up /\ pc[h] = "new"
  /\ \E e \in Emails, d \in Documents, p \in Phones :
       \/ EmailTaken(e) /\ Refuse(h)
       \/ /\ ~EmailTaken(e) \/ DbFails
          /\ form' = [form EXCEPT ![h] =
                        [id |-> h, email |-> e, document |-> d, phone |-> p]]
          /\ unchecked' = IF EmailTaken(e) THEN unchecked \cup {e} ELSE unchecked
          /\ Goto(h, "document")
          /\ UNCHANGED <<db, process, erased>>

CheckDocument(h) ==
  /\ pc[h] = "document"
  /\ \/ DocumentTaken(form[h].document) /\ Refuse(h)
     \/ /\ ~DocumentTaken(form[h].document) \/ DbFails
        /\ Goto(h, "phone")
        /\ UNCHANGED <<db, form, process, history>>

CheckPhone(h) ==
  /\ pc[h] = "phone"
  /\ \/ PhoneTaken(form[h].phone) /\ Refuse(h)
     \/ /\ ~PhoneTaken(form[h].phone) \/ DbFails
        /\ Goto(h, "insertUser")
        /\ UNCHANGED <<db, form, process, history>>

\* The first insert of a registration, the only one of a signup, whose id may be
\* in use by now (500).
InsertUser(h) ==
  /\ pc[h] = "insertUser"
  /\ \/ /\ users[form[h].id] = None
        /\ PutEmail(h, form[h].id, form[h].email)
        /\ \/ h \in Registers /\ Goto(h, "insertCustomer")
           \/ h \in Signups /\ Reply(h, "ok")
           \/ ReplyLost(h)
        /\ UNCHANGED <<customers, wallets, form, process, erased>>
     \/ /\ users[form[h].id] # None
        /\ Reply(h, "error")
        /\ UNCHANGED <<db, form, process, history>>

Row(h) == [user |-> h, document |-> form[h].document, phone |-> form[h].phone]

\* A row that the indexes refuse is a database error like any other (500); the
\* user that was inserted before stays.
\* Mutant: a duplicate key is reported as a bad request.
InsertCustomer_400(h) ==
  /\ pc[h] = "insertCustomer"
  /\ \/ /\ Fits(Row(h))
        /\ customers' = [customers EXCEPT ![h] = Row(h)]
        /\ Goto(h, "insertWallet") \/ ReplyLost(h)
     \/ ~Fits(Row(h)) /\ Reply(h, "rejected") /\ UNCHANGED customers
  /\ UNCHANGED <<users, wallets, form, process, history>>
InsertCustomer(h) ==
  /\ pc[h] = "insertCustomer"
  /\ \/ /\ Fits(Row(h))
        /\ customers' = [customers EXCEPT ![h] = Row(h)]
        /\ Goto(h, "insertWallet") \/ ReplyLost(h)
     \/ ~Fits(Row(h)) /\ Reply(h, "error") /\ UNCHANGED customers
  /\ UNCHANGED <<users, wallets, form, process, history>>

InsertWallet(h) ==
  /\ pc[h] = "insertWallet"
  /\ wallets' = wallets \cup {h}
  /\ Reply(h, "ok") \/ ReplyLost(h)
  /\ UNCHANGED <<users, customers, form, process, history>>

-----------------------------------------------------------------------------
(***************************************************************************)
(* AuthService.register and UsersService.create: the same lookups (id, then*)
(* e-mail, whose error is dropped) and the same insert.                    *)
(***************************************************************************)
SignupId(h) ==
  /\ Up /\ pc[h] = "new"
  /\ \E i \in Ids, e \in Emails :
       \/ users[i] # None /\ Refuse(h)
       \/ /\ users[i] = None
          /\ form' = [form EXCEPT ![h].id = i, ![h].email = e]
          /\ Goto(h, "email")
          /\ UNCHANGED <<db, process, history>>

SignupEmail(h) ==
  /\ pc[h] = "email"
  /\ \/ EmailTaken(form[h].email) /\ Refuse(h)
     \/ /\ ~EmailTaken(form[h].email) \/ DbFails
        /\ unchecked' = IF EmailTaken(form[h].email)
                          THEN unchecked \cup {form[h].email} ELSE unchecked
        /\ Goto(h, "insertUser")
        /\ UNCHANGED <<db, form, process, erased>>

-----------------------------------------------------------------------------
(***************************************************************************)
(* UsersService.updateById and deleteById.                                 *)
(***************************************************************************)
UpdateFind(h) ==
  /\ Up /\ pc[h] = "new"
  /\ \E i \in UserIds, e \in Emails :
       \/ users[i] = None /\ Refuse(h)
       \/ /\ users[i] # None
          /\ form' = [form EXCEPT ![h].id = i, ![h].email = e]
          /\ Goto(h, "email")
          /\ UNCHANGED <<db, process, history>>

\* findOneExceptById, its error dropped.
TakenByOther(i, e) == \E u \in UserIds \ {i} : users[u] = e

\* Mutant: the e-mail is not looked up.
UpdateEmail_skip(h) ==
  /\ pc[h] = "email"
  /\ Goto(h, "update")
  /\ UNCHANGED <<db, form, process, history>>
UpdateEmail(h) ==
  /\ pc[h] = "email"
  /\ LET e == form[h].email
         taken == TakenByOther(form[h].id, e)
     IN  \/ taken /\ Refuse(h)
         \/ /\ ~taken \/ DbFails
            /\ unchecked' = IF taken THEN unchecked \cup {e} ELSE unchecked
            /\ Goto(h, "update")
            /\ UNCHANGED <<db, form, process, erased>>

\* updateOne matches nothing when the user has been deleted meanwhile.
UpdateWrite(h) ==
  /\ pc[h] = "update"
  /\ \/ users[form[h].id] # None /\ PutEmail(h, form[h].id, form[h].email)
     \/ users[form[h].id] = None /\ UNCHANGED <<users, unchecked>>
  /\ Goto(h, "reread") \/ ReplyLost(h)
  /\ UNCHANGED <<customers, wallets, form, process, erased>>

\* updateById drops the error of its second read: the client is told 404.
UpdateReread(h) ==
  /\ pc[h] = "reread"
  /\ \/ users[form[h].id] # None /\ Reply(h, "ok")
     \/ (users[form[h].id] = None \/ DbFails) /\ Reply(h, "rejected")
  /\ UNCHANGED <<db, form, process, history>>

DeleteFind(h) ==
  /\ Up /\ pc[h] = "new"
  /\ \E i \in UserIds :
       \/ users[i] = None /\ Refuse(h)
       \/ /\ users[i] # None
          /\ form' = [form EXCEPT ![h].id = i]
          /\ Goto(h, "find")
          /\ UNCHANGED <<db, process, history>>

DeleteFindAgain(h) ==
  /\ pc[h] = "find"
  /\ \/ users[form[h].id] = None /\ Reply(h, "rejected")
     \/ users[form[h].id] # None /\ Goto(h, "delete")
  /\ UNCHANGED <<db, form, process, history>>

\* Only the user goes; its customer and wallet stay.
DeleteUser(h) ==
  /\ pc[h] = "delete"
  /\ users' = [users EXCEPT ![form[h].id] = None]
  /\ erased' = erased \cup {form[h].id}
  /\ Reply(h, "ok") \/ ReplyLost(h)
  /\ UNCHANGED <<customers, wallets, form, process, unchecked>>

-----------------------------------------------------------------------------
(***************************************************************************)
(* MerchantSeederService.onModuleInit: every error is caught and logged,   *)
(* and the server goes up.                                                 *)
(***************************************************************************)
Requested == <<pc, form, answer>>
SeedGoto(step) == seeder' = step /\ UNCHANGED <<boot, Requested>>

\* Mutant: the error is not caught and the server never listens.
SeedFails_down == DbFails /\ SeedGoto("down")
SeedFails == DbFails /\ SeedGoto("up")

\* Mutant: the wallet is looked up instead of the customer.
SeedFind_wallet ==
  /\ seeder = "find"
  /\ \/ Merchant \in wallets /\ SeedGoto("up")
     \/ Merchant \notin wallets /\ SeedGoto("insertUser")
  /\ UNCHANGED <<db, history>>
SeedFind ==
  /\ seeder = "find"
  /\ \/ customers[Merchant] # None /\ SeedGoto("up")
     \/ customers[Merchant] = None /\ SeedGoto("insertUser")
  /\ UNCHANGED <<db, history>>

\* No lookup of the e-mail, and a new user id at every boot.
SeedUser ==
  /\ seeder = "insertUser"
  /\ users' = [users EXCEPT ![boot] = MerchantEmail]
  /\ unchecked' = unchecked \cup {MerchantEmail}
  /\ SeedGoto("insertCustomer") \/ SeedFails
  /\ UNCHANGED <<customers, wallets, erased>>

MerchantRow ==
  [user |-> boot, document |-> MerchantDocument, phone |-> MerchantPhone]

SeedCustomer ==
  /\ seeder = "insertCustomer"
  /\ \/ /\ Fits(MerchantRow)
        /\ customers' = [customers EXCEPT ![Merchant] = MerchantRow]
        /\ SeedGoto("insertWallet") \/ SeedFails
     \/ ~Fits(MerchantRow) /\ SeedGoto("up") /\ UNCHANGED customers
  /\ UNCHANGED <<users, wallets, history>>

SeedWallet ==
  /\ seeder = "insertWallet"
  /\ wallets' = wallets \cup {Merchant}
  /\ SeedGoto("up")
  /\ UNCHANGED <<users, customers, history>>

\* The call fails and changes nothing.
SeedError == ~Up /\ SeedFails /\ UNCHANGED <<db, history>>

-----------------------------------------------------------------------------
(***************************************************************************)
(* The environment.                                                        *)
(***************************************************************************)
\* The calls of h whose error is answered with a 500.
Checked(h) ==
  CASE h \in Registers -> {"insertUser", "insertCustomer", "insertWallet"}
    [] h \in Signups   -> {"new", "insertUser"}
    [] h \in Updates   -> {"new", "update"}
    [] h \in Deletes   -> {"new", "find", "delete"}

\* The call pc[h] fails and changes nothing.
\* Mutant: register goes on after the first insert has failed.
DbError_unchecked(h) ==
  /\ DbFails /\ Up
  /\ pc[h] \in Checked(h)
  /\ \/ pc[h] = "insertUser" /\ h \in Registers /\ Goto(h, "insertCustomer")
     \/ pc[h] # "insertUser" /\ Reply(h, "error")
  /\ UNCHANGED <<db, form, process, history>>
DbError(h) ==
  /\ DbFails /\ Up
  /\ pc[h] \in Checked(h)
  /\ Reply(h, "error")
  /\ UNCHANGED <<db, form, process, history>>

\* The process dies, at work or while it seeds, and is started again.
Crash ==
  /\ "crash" \in Faults
  /\ boot < MaxBoots
  /\ boot' = boot + 1
  /\ seeder' = FirstStep
  /\ pc' = [h \in Requests |-> IF Running(h) THEN "done" ELSE pc[h]]
  /\ answer' = [h \in Requests |-> IF Running(h) THEN "lost" ELSE answer[h]]
  /\ UNCHANGED <<db, form, history>>

AllDone == Up /\ \A h \in Requests : pc[h] = "done"
Idle == AllDone /\ UNCHANGED vars

RegisterStep(h) ==
  \/ RegisterEmail(h) \/ CheckDocument(h) \/ CheckPhone(h)
  \/ InsertUser(h) \/ InsertCustomer(h) \/ InsertWallet(h)
SignupStep(h) == SignupId(h) \/ SignupEmail(h) \/ InsertUser(h)
UpdateStep(h) ==
  UpdateFind(h) \/ UpdateEmail(h) \/ UpdateWrite(h) \/ UpdateReread(h)
DeleteStep(h) == DeleteFind(h) \/ DeleteFindAgain(h) \/ DeleteUser(h)
SeedStep == SeedFind \/ SeedUser \/ SeedCustomer \/ SeedWallet

Next ==
  \/ \E h \in Registers : RegisterStep(h)
  \/ \E h \in Signups : SignupStep(h)
  \/ \E h \in Updates : UpdateStep(h)
  \/ \E h \in Deletes : DeleteStep(h)
  \/ \E h \in Requests : DbError(h)
  \/ SeedStep \/ SeedError
  \/ Crash
  \/ Idle

Spec == Init /\ [][Next]_vars

\* MongoDB answers the seeder's calls, with success or with an error.
FairSpec == Spec /\ WF_vars(SeedStep \/ SeedError)

-----------------------------------------------------------------------------
(***************************************************************************)
(* Properties.                                                             *)
(***************************************************************************)
\* Every variable has its type.
TypeOK ==
  /\ users \in [UserIds -> Emails \cup {None}]
  /\ customers \in [CustomerIds -> CustomerRows \cup {None}]
  /\ wallets \subseteq CustomerIds
  /\ pc \in [Requests -> Steps]
  /\ form \in [Requests -> Forms]
  /\ answer \in [Requests -> Answers]
  /\ boot \in Boots
  /\ seeder \in SeederSteps
  /\ unchecked \subseteq Emails
  /\ erased \subseteq UserIds

Known(u) == users[u] # None \/ u \in erased

\* Wherever a registration or a seeding stops, rows refer to rows: a wallet to a
\* stored customer, a customer to a user that exists or was deleted later.
References ==
  /\ wallets \subseteq Stored
  /\ \A c \in Stored : Known(customers[c].user)

\* No two customers share a document, a phone or a user, though the lookups of
\* two registrations may both miss the other (P2P payments find the recipient
\* by document and phone).
IdentityUnique ==
  \A c, d \in Stored : c # d =>
    /\ customers[c].document # customers[d].document
    /\ customers[c].phone # customers[d].phone
    /\ customers[c].user # customers[d].user

\* Two users share an e-mail only if one of them was written while another
\* request relied on finding it free, after a lookup that failed, or by the
\* seeder: checks and writes that do not overlap keep e-mails unique.
EmailUniqueWhenChecked ==
  \A u, v \in UserIds :
    (users[u] = users[v] /\ users[u] \notin unchecked \cup {None}) => u = v

\* A client told 201 has its customer and its wallet, with the data it asked for
\* and a user (unless an administrator deleted it since); one told 400 left
\* nothing behind.
RegistrationIsTruthful ==
  \A h \in Registers :
    /\ answer[h] = "ok" =>
         /\ h \in wallets
         /\ customers[h] = Row(h)
         /\ Known(h)
    /\ answer[h] = "rejected" =>
         users[h] = None /\ customers[h] = None /\ h \notin wallets

\* Restarts are harmless to a seeded database: once the merchant customer exists,
\* no boot adds another merchant user.
SeededOnce ==
  [][customers[Merchant] # None =>
       \A b \in Boots : users[b] = None => users'[b] = None]_vars

\* Whatever the seeder finds and whatever fails, the server comes up.
ComesUp == []<>Up

=============================================================================
