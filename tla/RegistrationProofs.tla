------------------------- MODULE RegistrationProofs -------------------------
(***************************************************************************)
(* Proofs about Registration, for any requests, ids, data and boots.       *)
(***************************************************************************)
EXTENDS Registration, TLAPS

-----------------------------------------------------------------------------
(***************************************************************************)
(* The inductive invariant behind TypeOK, References and                   *)
(* RegistrationIsTruthful.                                                 *)
(***************************************************************************)
RegisterSteps ==
  {"new", "document", "phone", "insertUser", "insertCustomer", "insertWallet", "done"}
SignupSteps == {"new", "email", "insertUser", "done"}
UpdateSteps == {"new", "email", "update", "reread", "done"}
DeleteSteps == {"new", "find", "delete", "done"}

\* Every request is at a step of its kind, with the arguments the step needs.
AtStep ==
  /\ \A h \in Registers :
       /\ pc[h] \in RegisterSteps
       /\ pc[h] \notin {"new", "done"} =>
            /\ form[h].id = h /\ form[h].email \in Emails
            /\ form[h].document \in Documents /\ form[h].phone \in Phones
  /\ \A h \in Signups :
       /\ pc[h] \in SignupSteps
       /\ pc[h] \notin {"new", "done"} =>
            form[h].id \in Ids /\ form[h].email \in Emails
  /\ \A h \in Updates :
       /\ pc[h] \in UpdateSteps
       /\ pc[h] \notin {"new", "done"} =>
            form[h].id \in UserIds /\ form[h].email \in Emails
  /\ \A h \in Deletes :
       /\ pc[h] \in DeleteSteps
       /\ pc[h] \notin {"new", "done"} => form[h].id \in UserIds

\* A registration has written exactly the rows of the steps it has behind it, and
\* what its client was told is true.
WrittenBy(h) ==
  /\ pc[h] # "done" => answer[h] = "none"
  /\ pc[h] \in {"new", "document", "phone", "insertUser"} => users[h] = None
  /\ pc[h] \in {"new", "document", "phone", "insertUser", "insertCustomer"} =>
       customers[h] = None /\ h \notin wallets
  /\ pc[h] \in {"insertCustomer", "insertWallet"} => Known(h)
  /\ pc[h] = "insertWallet" => customers[h] = Row(h)
  /\ answer[h] = "ok" => h \in wallets /\ customers[h] = Row(h) /\ Known(h)
  /\ answer[h] = "rejected" =>
       users[h] = None /\ customers[h] = None /\ h \notin wallets
Written == \A h \in Registers : WrittenBy(h)

\* So has the seeder.
Seeded ==
  /\ seeder = "insertCustomer" => Known(boot)
  /\ seeder = "insertWallet" => customers[Merchant] # None

IInv == TypeOK /\ AtStep /\ Written /\ Seeded /\ References

USE KindsAssumption, IdsAssumption, NoneAssumption, MerchantAssumption,
    BootsAssumption

\* It holds initially.
LEMMA InitIInv == Init => IInv
<1> SUFFICES ASSUME Init PROVE IInv
  OBVIOUS
<1> USE DEF Init, FirstStep
<1>1. TypeOK
  BY DEF TypeOK, Steps, SeederSteps, Answers, Forms, Boots
<1>2. AtStep /\ Written /\ Seeded
  BY DEF AtStep, Written, WrittenBy, Seeded, Requests, RegisterSteps, SignupSteps,
     UpdateSteps, DeleteSteps, CustomerIds, UserIds
<1>3. References
  BY DEF References, Stored
<1> QED BY <1>1, <1>2, <1>3 DEF IInv

\* Types and arguments are kept by every step.
LEMMA NextTyped == IInv /\ [Next]_vars => TypeOK' /\ AtStep'
<1> SUFFICES ASSUME IInv, [Next]_vars PROVE TypeOK' /\ AtStep'
  OBVIOUS
<1> USE DEF db, process, history
<1>a. TypeOK /\ AtStep
  BY DEF IInv
<1>t. ASSUME NEW h \in Requests, NEW step \in Steps, NEW a \in Answers,
             pc' = [pc EXCEPT ![h] = step],
             answer' = [answer EXCEPT ![h] = a] \/ UNCHANGED answer
      PROVE  pc' \in [Requests -> Steps] /\ answer' \in [Requests -> Answers]
  BY <1>a, <1>t DEF TypeOK
<1>1. ASSUME NEW h \in Registers, RegisterEmail(h) PROVE TypeOK' /\ AtStep'
  <2>1. CASE Refuse(h)
    BY <1>a, <2>1 DEF Refuse, Reply, TypeOK, AtStep, Requests, Steps, Answers,
       RegisterSteps
  <2>2. CASE ~Refuse(h)
    <3>1. PICK e \in Emails, d \in Documents, p \in Phones :
            /\ form' = [form EXCEPT ![h] =
                          [id |-> h, email |-> e, document |-> d, phone |-> p]]
            /\ unchecked' = IF EmailTaken(e) THEN unchecked \cup {e} ELSE unchecked
            /\ Goto(h, "document")
            /\ UNCHANGED <<db, process, erased>>
      BY <1>1, <2>2 DEF RegisterEmail
    <3>2. [id |-> h, email |-> e, document |-> d, phone |-> p] \in Forms
      BY DEF Forms, UserIds
    <3>3. TypeOK'
      BY <1>a, <3>1, <3>2 DEF Goto, TypeOK, Steps
    <3> QED BY <1>a, <3>1, <3>3 DEF Goto, TypeOK, AtStep, Requests, RegisterSteps
  <2> QED BY <2>1, <2>2
<1>2. ASSUME NEW h \in Registers, CheckDocument(h) \/ CheckPhone(h) PROVE TypeOK' /\ AtStep'
  BY <1>a, <1>2 DEF CheckDocument, CheckPhone, Refuse, Goto, Reply, TypeOK, AtStep,
     Requests, Steps, Answers, RegisterSteps
<1>3. ASSUME NEW h \in Registers \cup Signups, InsertUser(h) PROVE TypeOK' /\ AtStep'
  <2>1. form[h].id \in UserIds /\ form[h].email \in Emails
    BY <1>a, <1>3 DEF InsertUser, AtStep, UserIds
  <2> QED BY <1>a, <1>3, <2>1 DEF InsertUser, PutEmail, ReplyLost, Goto, Reply,
     TypeOK, AtStep, Requests, Steps, Answers, RegisterSteps, SignupSteps
<1>4. ASSUME NEW h \in Registers, InsertCustomer(h) PROVE TypeOK' /\ AtStep'
  <2>1. Row(h) \in CustomerRows /\ h \in CustomerIds
    BY <1>a, <1>4 DEF InsertCustomer, AtStep, Row, CustomerRows, UserIds, CustomerIds
  <2> QED BY <1>a, <1>4, <2>1 DEF InsertCustomer, ReplyLost, Goto, Reply,
     TypeOK, AtStep, Requests, Steps, Answers, RegisterSteps
<1>5. ASSUME NEW h \in Registers, InsertWallet(h) PROVE TypeOK' /\ AtStep'
  BY <1>a, <1>5 DEF InsertWallet, ReplyLost, Reply, TypeOK, AtStep, Requests, Steps,
     Answers, RegisterSteps, CustomerIds
<1>6. ASSUME NEW h \in Signups, SignupId(h) PROVE TypeOK' /\ AtStep'
  BY <1>a, <1>6 DEF SignupId, Refuse, Goto, Reply, TypeOK, AtStep, Requests, Steps,
     Answers, SignupSteps, Forms, UserIds
<1>7. ASSUME NEW h \in Signups, SignupEmail(h) PROVE TypeOK' /\ AtStep'
  BY <1>a, <1>7 DEF SignupEmail, Refuse, Goto, Reply, TypeOK, AtStep, Requests, Steps,
     Answers, SignupSteps
<1>8. ASSUME NEW h \in Updates, UpdateStep(h) PROVE TypeOK' /\ AtStep'
  <2>1. CASE UpdateFind(h)
    BY <1>a, <2>1 DEF UpdateFind, Refuse, Goto, Reply, TypeOK, AtStep, Requests,
       Steps, Answers, UpdateSteps, Forms
  <2>2. CASE UpdateEmail(h) \/ UpdateReread(h)
    BY <1>a, <2>2 DEF UpdateEmail, UpdateReread, Refuse, Goto, Reply, TypeOK, AtStep,
       Requests, Steps, Answers, UpdateSteps
  <2>3. CASE UpdateWrite(h)
    BY <1>a, <2>3 DEF UpdateWrite, PutEmail, ReplyLost, Goto, Reply, TypeOK, AtStep,
       Requests, Steps, Answers, UpdateSteps
  <2> QED BY <1>8, <2>1, <2>2, <2>3 DEF UpdateStep
<1>9. ASSUME NEW h \in Deletes, DeleteStep(h) PROVE TypeOK' /\ AtStep'
  <2>1. CASE DeleteFind(h)
    BY <1>a, <2>1 DEF DeleteFind, Refuse, Goto, Reply, TypeOK, AtStep, Requests,
       Steps, Answers, DeleteSteps, Forms
  <2>2. CASE DeleteFindAgain(h) \/ DeleteUser(h)
    BY <1>a, <2>2 DEF DeleteFindAgain, DeleteUser, ReplyLost, Goto, Reply, TypeOK,
       AtStep, Requests, Steps, Answers, DeleteSteps
  <2> QED BY <1>9, <2>1, <2>2 DEF DeleteStep
<1>10. ASSUME NEW h \in Requests, DbError(h) PROVE TypeOK' /\ AtStep'
  BY <1>a, <1>10 DEF DbError, Reply, TypeOK, AtStep, Requests, Steps, Answers,
     RegisterSteps, SignupSteps, UpdateSteps, DeleteSteps
<1>11. ASSUME SeedStep \/ SeedError PROVE TypeOK' /\ AtStep'
  <2>1. MerchantRow \in CustomerRows /\ Merchant \in CustomerIds /\ boot \in UserIds
    BY <1>a DEF TypeOK, MerchantRow, CustomerRows, CustomerIds, UserIds
  <2>2. TypeOK'
    BY <1>a, <1>11, <2>1 DEF SeedStep, SeedError, SeedFind, SeedUser, SeedCustomer,
       SeedWallet, SeedFails, SeedGoto, Requested, TypeOK, SeederSteps
  <2>3. UNCHANGED <<pc, form>>
    BY <1>11 DEF SeedStep, SeedError, SeedFind, SeedUser, SeedCustomer, SeedWallet,
       SeedFails, SeedGoto, Requested
  <2> QED BY <1>a, <2>2, <2>3 DEF AtStep
<1>12. CASE Crash
  BY <1>a, <1>12 DEF Crash, FirstStep, Running, TypeOK, AtStep, Requests, Steps,
     Answers, SeederSteps, Boots, RegisterSteps, SignupSteps, UpdateSteps, DeleteSteps
<1>13. CASE UNCHANGED vars
  BY <1>a, <1>13 DEF vars, TypeOK, AtStep
<1> QED
  BY <1>1, <1>2, <1>3, <1>4, <1>5, <1>6, <1>7, <1>8, <1>9, <1>10, <1>11, <1>12, <1>13
  DEF Next, RegisterStep, SignupStep, Idle

\* What a registration relies on stays true while others work: no step of theirs
\* gives or takes its rows, and users only go by being erased.
LEMMA OthersKeep ==
  ASSUME NEW g \in Registers, WrittenBy(g),
         pc'[g] = pc[g], answer'[g] = answer[g], form'[g] = form[g],
         users[g] = None => users'[g] = None,
         Known(g) => Known(g)',
         customers'[g] = customers[g], g \in wallets' <=> g \in wallets
  PROVE  WrittenBy(g)'
BY DEF WrittenBy, Row

\* A step of request h that leaves the database alone and ends in an error, goes
\* on looking up, or is refused.
LEMMA QuietStep ==
  ASSUME IInv, NEW h \in Requests, NEW step, NEW a,
         pc' = [pc EXCEPT ![h] = step], answer' = [answer EXCEPT ![h] = a],
         UNCHANGED <<db, process, erased>>,
         \A g \in Requests \ {h} : form'[g] = form[g],
         h \in Registers =>
           \/ /\ pc[h] \in {"new", "document", "phone"}
              /\ \/ step \in {"document", "phone", "insertUser"} /\ a = "none"
                 \/ step = "done" /\ a = "rejected"
           \/ step = "done" /\ a = "error"
  PROVE  Written' /\ Seeded' /\ References'
<1> USE DEF IInv, db, process
<1>1. /\ \A g \in Requests \ {h} : pc'[g] = pc[g] /\ answer'[g] = answer[g]
      /\ pc'[h] = step /\ answer'[h] = a
  BY DEF TypeOK
<1>2. ASSUME NEW g \in Registers, g # h PROVE WrittenBy(g)'
  BY <1>1, <1>2, OthersKeep DEF Written, Known, Requests
<1>3. h \in Registers => WrittenBy(h)'
  BY <1>1 DEF Written, WrittenBy
<1>4. Seeded' /\ References'
  BY DEF Seeded, References, Stored, Known
<1> QED BY <1>2, <1>3, <1>4 DEF Written

\* A write of the users collection that puts an e-mail into a row.
LEMMA PutKeeps ==
  ASSUME IInv, NEW h \in Requests, NEW u \in UserIds, NEW e \in Emails, PutEmail(h, u, e),
         UNCHANGED <<customers, wallets, process, erased>>
  PROVE  /\ \A v \in UserIds : Known(v) => Known(v)'
         /\ Known(u)'
         /\ \A v \in UserIds : v # u => users'[v] = users[v]
         /\ Seeded' /\ References'
BY DEF IInv, TypeOK, PutEmail, Known, Seeded, References, Stored, process, CustomerRows,
   UserIds

LEMMA NextIInv == IInv /\ [Next]_vars => IInv'
<1> SUFFICES ASSUME IInv, [Next]_vars PROVE Written' /\ Seeded' /\ References'
  BY NextTyped DEF IInv
<1> USE DEF db, process, history
<1>a. TypeOK /\ AtStep /\ Written /\ Seeded /\ References
  BY DEF IInv
<1>b. Registers \cup Signups \cup Updates \cup Deletes = Requests
  BY DEF Requests
<1>1. ASSUME NEW h \in Registers,
             RegisterEmail(h) \/ CheckDocument(h) \/ CheckPhone(h)
      PROVE  Written' /\ Seeded' /\ References'
  <2>1. CASE Refuse(h)
    BY <1>b, <1>1, <2>1, QuietStep
    DEF RegisterEmail, CheckDocument, CheckPhone, Refuse, Reply
  <2>2. CASE ~Refuse(h)
    <3>1. /\ \E step \in {"document", "phone", "insertUser"} : Goto(h, step)
          /\ pc[h] \in {"new", "document", "phone"}
          /\ UNCHANGED <<db, process, erased>>
          /\ \A g \in Requests \ {h} : form'[g] = form[g]
      BY <1>a, <1>1, <2>2 DEF RegisterEmail, CheckDocument, CheckPhone, TypeOK
    <3>2. answer' = [answer EXCEPT ![h] = "none"]
      BY <1>a, <3>1 DEF Goto, Written, WrittenBy, TypeOK
    <3> QED BY <1>b, <3>1, <3>2, QuietStep DEF Goto
  <2> QED BY <2>1, <2>2
<1>2. ASSUME NEW h \in Registers \cup Signups, InsertUser(h)
      PROVE  Written' /\ Seeded' /\ References'
  <2>1. CASE users[form[h].id] # None
    BY <1>a, <1>b, <1>2, <2>1, QuietStep DEF InsertUser, PutEmail, Reply
  <2>2. CASE users[form[h].id] = None
    <3>1. /\ PutEmail(h, form[h].id, form[h].email)
          /\ UNCHANGED <<customers, wallets, form, process, erased>>
          /\ pc[h] = "insertUser" /\ form[h].id \in UserIds /\ form[h].email \in Emails
          /\ h \in Registers => form[h].id = h
          /\ h \in Signups => form[h].id \notin Registers
      BY <1>a, <1>2, <2>2 DEF InsertUser, AtStep, UserIds
    <3>2. ASSUME NEW g \in Registers, g # h PROVE WrittenBy(g)'
      <4>1. pc'[g] = pc[g] /\ answer'[g] = answer[g]
        BY <1>a, <1>b, <1>2, <2>2, <3>2 DEF InsertUser, Goto, Reply, ReplyLost, TypeOK
      <4>2. users'[g] = users[g] /\ (Known(g) => Known(g)')
        BY <1>b, <3>1, <3>2, PutKeeps DEF UserIds
      <4> QED BY <1>a, <3>1, <4>1, <4>2, OthersKeep DEF Written
    <3>3. h \in Registers => WrittenBy(h)'
      <4>1. h \in Registers =>
              \/ pc'[h] = "insertCustomer" /\ UNCHANGED answer
              \/ pc'[h] = "done" /\ answer'[h] = "error"
        BY <1>a, <1>b, <1>2, <2>2 DEF InsertUser, Goto, Reply, ReplyLost, TypeOK
      <4>2. h \in Registers => Known(h)'
        BY <1>b, <3>1, PutKeeps
      <4> QED BY <1>a, <3>1, <4>1, <4>2 DEF Written, WrittenBy
    <3> QED BY <1>b, <3>1, <3>2, <3>3, PutKeeps DEF Written
  <2> QED BY <2>1, <2>2
<1>3. ASSUME NEW h \in Registers, InsertCustomer(h) PROVE Written' /\ Seeded' /\ References'
  <2>1. CASE ~Fits(Row(h))
    BY <1>b, <1>3, <2>1, QuietStep DEF InsertCustomer, Reply
  <2>2. CASE Fits(Row(h))
    <3>1. /\ customers' = [customers EXCEPT ![h] = Row(h)]
          /\ UNCHANGED <<users, wallets, form, process, history>>
          /\ \/ pc' = [pc EXCEPT ![h] = "insertWallet"] /\ UNCHANGED answer
             \/ /\ pc' = [pc EXCEPT ![h] = "done"]
                /\ answer' = [answer EXCEPT ![h] = "error"]
          /\ pc[h] = "insertCustomer"
      BY <1>3, <2>2 DEF InsertCustomer, Goto, Reply, ReplyLost
    <3>2. /\ customers[h] = None /\ h \notin wallets /\ Known(h) /\ h # Merchant
          /\ h \in CustomerIds /\ Row(h) \in CustomerRows /\ Row(h).user = h
      BY <1>a, <3>1 DEF Written, WrittenBy, AtStep, Row, CustomerRows, CustomerIds, UserIds
    <3>3. ASSUME NEW g \in Registers, g # h PROVE WrittenBy(g)'
      BY <1>a, <1>b, <3>1, <3>3, OthersKeep DEF TypeOK, Written, Known, CustomerIds
    <3>4. WrittenBy(h)'
      BY <1>a, <1>b, <3>1, <3>2 DEF TypeOK, WrittenBy, Written, Known, Row
    <3>5. References'
      BY <1>a, <3>1, <3>2 DEF References, Stored, Known, TypeOK
    <3>6. Seeded'
      BY <1>a, <3>1, <3>2 DEF Seeded, Known, TypeOK
    <3> QED BY <3>3, <3>4, <3>5, <3>6 DEF Written
  <2> QED BY <2>1, <2>2
<1>4. ASSUME NEW h \in Registers, InsertWallet(h) PROVE Written' /\ Seeded' /\ References'
  <2>1. /\ wallets' = wallets \cup {h} /\ pc[h] = "insertWallet"
        /\ UNCHANGED <<users, customers, form, process, history>>
        /\ pc' = [pc EXCEPT ![h] = "done"]
        /\ \E a \in {"ok", "error"} : answer' = [answer EXCEPT ![h] = a]
    BY <1>4 DEF InsertWallet, Reply, ReplyLost
  <2>2. customers[h] = Row(h) /\ Known(h) /\ h \in CustomerIds /\ Row(h) # None
    BY <1>a, <2>1 DEF Written, WrittenBy, AtStep, Row, CustomerRows, CustomerIds, UserIds
  <2>3. ASSUME NEW g \in Registers, g # h PROVE WrittenBy(g)'
    BY <1>a, <2>1, <2>3, OthersKeep DEF TypeOK, Written, Known
  <2>4. WrittenBy(h)'
    BY <1>a, <1>b, <2>1, <2>2 DEF TypeOK, WrittenBy, Known, Row
  <2>5. References' /\ Seeded'
    BY <1>a, <2>1, <2>2 DEF References, Seeded, Stored, Known
  <2> QED BY <2>3, <2>4, <2>5 DEF Written
<1>5. ASSUME NEW h \in Signups \cup Updates \cup Deletes,
             \/ h \in Signups /\ (SignupId(h) \/ SignupEmail(h))
             \/ h \in Updates /\ (UpdateFind(h) \/ UpdateEmail(h) \/ UpdateReread(h))
             \/ h \in Deletes /\ (DeleteFind(h) \/ DeleteFindAgain(h))
      PROVE  Written' /\ Seeded' /\ References'
  <2>1. /\ UNCHANGED <<db, process, erased>>
        /\ \A g \in Requests \ {h} : form'[g] = form[g]
    BY <1>a, <1>5 DEF SignupId, SignupEmail, UpdateFind, UpdateEmail, UpdateReread,
       DeleteFind, DeleteFindAgain, Refuse, TypeOK
  <2>2. \E step, a : pc' = [pc EXCEPT ![h] = step] /\ answer' = [answer EXCEPT ![h] = a]
    <3>1. (\E step : Goto(h, step)) \/ (\E a : Reply(h, a))
      BY <1>5 DEF SignupId, SignupEmail, UpdateFind, UpdateEmail, UpdateReread,
         DeleteFind, DeleteFindAgain, Refuse
    <3>2. answer = [answer EXCEPT ![h] = answer[h]]
      BY <1>a DEF TypeOK
    <3> QED BY <3>1, <3>2 DEF Goto, Reply
  <2> QED BY <1>b, <1>5, <2>1, <2>2, QuietStep
<1>6. ASSUME NEW h \in Updates, UpdateWrite(h) PROVE Written' /\ Seeded' /\ References'
  <2>1. /\ UNCHANGED <<customers, wallets, form, process, erased>>
        /\ \A g \in Registers : pc'[g] = pc[g] /\ answer'[g] = answer[g]
        /\ form[h].id \in UserIds /\ form[h].email \in Emails
    BY <1>a, <1>b, <1>6 DEF UpdateWrite, Goto, Reply, ReplyLost, TypeOK, AtStep
  <2>2. CASE UNCHANGED users
    <3>1. ASSUME NEW g \in Registers PROVE WrittenBy(g)'
      BY <1>a, <2>1, <2>2, OthersKeep DEF Written, Known
    <3> QED BY <1>a, <2>1, <2>2, <3>1 DEF Written, Seeded, References, Stored, Known
  <2>3. CASE users[form[h].id] # None /\ PutEmail(h, form[h].id, form[h].email)
    <3>1. ASSUME NEW g \in Registers PROVE WrittenBy(g)'
      <4>1. (users[g] = None => users'[g] = None) /\ (Known(g) => Known(g)')
        BY <1>b, <2>1, <2>3, PutKeeps DEF UserIds
      <4> QED BY <1>a, <2>1, <4>1, OthersKeep DEF Written
    <3> QED BY <1>b, <2>1, <2>3, <3>1, PutKeeps DEF Written
  <2> QED BY <1>6, <2>2, <2>3 DEF UpdateWrite
<1>7. ASSUME NEW h \in Deletes, DeleteUser(h) PROVE Written' /\ Seeded' /\ References'
  <2>1. /\ users' = [users EXCEPT ![form[h].id] = None]
        /\ erased' = erased \cup {form[h].id}
        /\ UNCHANGED <<customers, wallets, form, process>>
        /\ \A g \in Registers : pc'[g] = pc[g] /\ answer'[g] = answer[g]
    BY <1>a, <1>b, <1>7 DEF DeleteUser, Reply, ReplyLost, TypeOK
  <2>2. \A u \in UserIds : Known(u) => Known(u)'
    BY <1>a, <2>1 DEF Known, TypeOK
  <2>3. ASSUME NEW g \in Registers PROVE WrittenBy(g)'
    BY <1>a, <2>1, <2>2, OthersKeep DEF Written, TypeOK, UserIds
  <2>4. boot \in UserIds /\ \A c \in Stored : customers[c].user \in UserIds
    BY <1>a DEF TypeOK, Stored, UserIds, CustomerRows
  <2> QED BY <1>a, <2>1, <2>2, <2>3, <2>4 DEF Written, Seeded, References, Stored
<1>8. ASSUME NEW h \in Requests, DbError(h) PROVE Written' /\ Seeded' /\ References'
  BY <1>8, QuietStep DEF DbError, Reply
<1>9. ASSUME SeedStep \/ SeedError PROVE Written' /\ Seeded' /\ References'
  <2>1. UNCHANGED <<pc, form, answer, boot, erased>>
    BY <1>9 DEF SeedStep, SeedError, SeedFind, SeedUser, SeedCustomer, SeedWallet,
       SeedFails, SeedGoto, Requested
  <2>2. boot \in UserIds /\ boot \notin Registers /\ Merchant \notin Registers
    BY <1>a DEF TypeOK, UserIds
  <2>3. /\ \A g \in Registers : users'[g] = users[g] /\ customers'[g] = customers[g]
                                /\ (g \in wallets' <=> g \in wallets)
        /\ \A u \in UserIds : Known(u) => Known(u)'
    BY <1>a, <1>9, <2>1, <2>2 DEF SeedStep, SeedError, SeedFind, SeedUser, SeedCustomer,
       SeedWallet, SeedFails, SeedGoto, Requested, TypeOK, Known, CustomerIds, UserIds
  <2>4. Written'
    BY <1>a, <2>1, <2>3, OthersKeep DEF Written, UserIds
  <2>5. CASE SeedFind \/ SeedError
    <3>1. seeder' \in {"insertUser", "up"} /\ UNCHANGED <<db, history>>
      BY <2>5 DEF SeedFind, SeedError, SeedFails, SeedGoto
    <3> QED BY <1>a, <2>4, <3>1 DEF Seeded, References, Stored, Known
  <2>6. CASE SeedUser
    <3>1. Known(boot)' /\ UNCHANGED <<customers, wallets>>
      BY <1>a, <2>1, <2>2, <2>6 DEF SeedUser, Known, TypeOK
    <3>2. seeder' \in {"insertCustomer", "up"}
      BY <2>6 DEF SeedUser, SeedFails, SeedGoto
    <3>3. \A c \in Stored : customers[c].user \in UserIds
      BY <1>a DEF TypeOK, Stored, CustomerRows
    <3> QED BY <1>a, <2>1, <2>3, <2>4, <3>1, <3>2, <3>3 DEF Seeded, References, Stored
  <2>7. CASE SeedCustomer
    <3>1. MerchantRow \in CustomerRows /\ MerchantRow.user = boot
      BY <2>2 DEF MerchantRow, CustomerRows
    <3>2. UNCHANGED <<users, wallets>> /\ seeder = "insertCustomer"
      BY <2>7 DEF SeedCustomer
    <3>3. CASE customers' = [customers EXCEPT ![Merchant] = MerchantRow]
      BY <1>a, <2>1, <2>4, <2>7, <3>1, <3>2, <3>3 DEF SeedCustomer, SeedFails, SeedGoto, Seeded,
         References, Stored, Known, TypeOK, CustomerIds
    <3>4. CASE UNCHANGED customers /\ seeder' = "up"
      BY <1>a, <2>1, <2>4, <3>2, <3>4 DEF Seeded, References, Stored, Known
    <3> QED BY <2>7, <3>3, <3>4 DEF SeedCustomer, SeedGoto
  <2>8. CASE SeedWallet
    BY <1>a, <2>1, <2>4, <2>8 DEF SeedWallet, SeedGoto, Seeded, References, Stored, Known,
       CustomerIds
  <2> QED BY <1>9, <2>4, <2>5, <2>6, <2>7, <2>8 DEF SeedStep
<1>10. CASE Crash
  <2>1. ASSUME NEW g \in Registers PROVE WrittenBy(g)'
    BY <1>a, <1>b, <1>10 DEF Crash, Running, Written, WrittenBy, Known, Row, TypeOK
  <2> QED BY <1>a, <1>10, <2>1 DEF Crash, FirstStep, Written, Seeded, References, Stored,
     Known
<1>11. CASE UNCHANGED vars
  BY <1>a, <1>11 DEF vars, Written, WrittenBy, Seeded, References, Stored, Known, Row
<1> QED
  BY <1>1, <1>2, <1>3, <1>4, <1>5, <1>6, <1>7, <1>8, <1>9, <1>10, <1>11
  DEF Next, RegisterStep, SignupStep, UpdateStep, DeleteStep, Idle

-----------------------------------------------------------------------------
(***************************************************************************)
(* What follows from it.                                                   *)
(***************************************************************************)
\* Every variable keeps its type.
THEOREM TypeCorrect == Spec => []TypeOK
<1>1. IInv => TypeOK
  BY DEF IInv
<1> QED BY <1>1, InitIInv, NextIInv, PTL DEF Spec

\* Rows refer to rows, wherever registrations, seedings and deletions stop.
THEOREM ReferencesHold == Spec => []References
<1>1. IInv => References
  BY DEF IInv
<1> QED BY <1>1, InitIInv, NextIInv, PTL DEF Spec

\* A client is told 201 only with customer and wallet stored, 400 only with nothing.
THEOREM AnswersTrue == Spec => []RegistrationIsTruthful
<1>1. IInv => RegistrationIsTruthful
  BY DEF IInv, Written, WrittenBy, RegistrationIsTruthful
<1> QED BY <1>1, InitIInv, NextIInv, PTL DEF Spec

-----------------------------------------------------------------------------
(***************************************************************************)
(* E-mails.                                                                *)
(***************************************************************************)
\* A request that relies on an e-mail being free is right, unless the e-mail is
\* in unchecked: nobody has it but the user an update is about.
Verdicts ==
  \A h \in Requests, e \in Emails :
    (Trusts(h, e) /\ e \notin unchecked) =>
      \A u \in UserIds : users[u] = e => h \in Updates /\ u = form[h].id

EInv == EmailUniqueWhenChecked /\ Verdicts

LEMMA InitEInv == Init => EInv
BY DEF Init, EInv, EmailUniqueWhenChecked, Verdicts, Trusts

\* A step that gives nobody an e-mail: requests only come to rely on one that
\* nobody (else) has or that goes into unchecked.
LEMMA NoPutStep ==
  ASSUME EInv, unchecked \subseteq unchecked',
         \A u \in UserIds : users'[u] \in {users[u], None},
         \A g \in Requests, e \in Emails : (Trusts(g, e)' /\ e \notin unchecked') =>
           \/ Trusts(g, e) /\ form'[g].id = form[g].id
           \/ \A u \in UserIds : users[u] = e => g \in Updates /\ u = form'[g].id
  PROVE  EInv'
<1>1. EmailUniqueWhenChecked'
  BY DEF EInv, EmailUniqueWhenChecked
<1>2. Verdicts'
  BY DEF EInv, Verdicts
<1> QED BY <1>1, <1>2 DEF EInv

\* A request writes the e-mail it relied on: the others who rely on it put it into
\* unchecked.
LEMMA PutStep ==
  ASSUME IInv, EInv, NEW h \in Requests, form[h].id \in UserIds, form[h].email \in Emails,
         Trusts(h, form[h].email), PutEmail(h, form[h].id, form[h].email),
         \A g \in Requests \ {h} : pc'[g] = pc[g], UNCHANGED form,
         pc'[h] \in {"insertCustomer", "reread", "done"}
  PROVE  EInv'
<1> DEFINE i == form[h].id  e == form[h].email
<1>1. users' = [users EXCEPT ![i] = e] /\ users \in [UserIds -> Emails \cup {None}]
  BY DEF PutEmail, IInv, TypeOK
<1>2. unchecked \subseteq unchecked' /\ \A g \in Requests \ {h} : Trusts(g, e) => e \in unchecked'
  BY DEF PutEmail
<1>3. e \notin unchecked => \A u \in UserIds \ {i} : users[u] # e
  BY DEF EInv, Verdicts
<1>4. EmailUniqueWhenChecked'
  BY <1>1, <1>2, <1>3 DEF EInv, EmailUniqueWhenChecked
<1>5. ASSUME NEW g \in Requests, NEW f \in Emails, Trusts(g, f)', f \notin unchecked',
             NEW u \in UserIds, users'[u] = f
      PROVE  g \in Updates /\ u = form'[g].id
  <2>1. g # h /\ Trusts(g, f)
    BY <1>5 DEF Trusts
  <2>2. f # e
    BY <1>2, <1>5, <2>1
  <2> QED BY <1>1, <1>2, <1>5, <2>1, <2>2 DEF EInv, Verdicts
<1> QED BY <1>4, <1>5 DEF EInv, Verdicts

LEMMA NextEInv == IInv /\ EInv /\ [Next]_vars => EInv'
<1> SUFFICES ASSUME IInv, EInv, [Next]_vars PROVE EInv'
  OBVIOUS
<1> USE DEF db, process, history
<1>a. TypeOK /\ AtStep
  BY DEF IInv
<1>b. Registers \cup Signups \cup Updates \cup Deletes = Requests
  BY DEF Requests
<1>c. ASSUME NEW h \in Requests, NEW step \in {"email", "insertCustomer", "insertWallet",
                                               "reread", "find", "delete", "done"},
             pc' = [pc EXCEPT ![h] = step], UNCHANGED unchecked,
             \A u \in UserIds : users'[u] \in {users[u], None},
             \A g \in Requests \ {h} : form'[g] = form[g]
      PROVE  EInv'
  <2>1. \A g \in Requests, e \in Emails : Trusts(g, e)' => Trusts(g, e) /\ form'[g] = form[g]
    BY <1>a, <1>c DEF TypeOK, Trusts
  <2> QED BY <1>c, <2>1, NoPutStep
<1>d. ASSUME NEW h \in Requests, Refuse(h) PROVE EInv'
  BY <1>c, <1>d DEF Refuse, Reply
<1>1. ASSUME NEW h \in Registers, RegisterEmail(h) PROVE EInv'
  <2>1. CASE ~Refuse(h)
    <3>1. PICK e \in Emails, d \in Documents, p \in Phones :
            /\ form' = [form EXCEPT ![h] =
                          [id |-> h, email |-> e, document |-> d, phone |-> p]]
            /\ unchecked' = IF EmailTaken(e) THEN unchecked \cup {e} ELSE unchecked
            /\ Goto(h, "document")
            /\ UNCHANGED <<db, process, erased>>
      BY <1>1, <2>1 DEF RegisterEmail
    <3>2. ASSUME NEW g \in Requests, NEW f \in Emails, Trusts(g, f)', f \notin unchecked'
          PROVE  \/ Trusts(g, f) /\ form'[g].id = form[g].id
                 \/ \A u \in UserIds : users[u] # f
      BY <1>a, <1>b, <3>1, <3>2 DEF TypeOK, Goto, Trusts, EmailTaken
    <3> QED BY <3>1, <3>2, NoPutStep
  <2> QED BY <1>b, <1>1, <1>d, <2>1
<1>2. ASSUME NEW h \in Registers, CheckDocument(h) \/ CheckPhone(h) PROVE EInv'
  <2>1. CASE ~Refuse(h)
    <3>1. /\ UNCHANGED <<users, form, unchecked>> /\ pc[h] \in {"document", "phone"}
          /\ \E step \in {"phone", "insertUser"} : pc' = [pc EXCEPT ![h] = step]
      BY <1>2, <2>1 DEF CheckDocument, CheckPhone, Goto
    <3>2. \A g \in Requests, e \in Emails : Trusts(g, e)' => Trusts(g, e)
      BY <1>a, <1>b, <3>1 DEF TypeOK, Trusts
    <3> QED BY <3>1, <3>2, NoPutStep
  <2> QED BY <1>b, <1>2, <1>d, <2>1
<1>3. ASSUME NEW h \in Registers \cup Signups, InsertUser(h) PROVE EInv'
  <2>1. form[h].id \in UserIds /\ form[h].email \in Emails /\ h \in Requests
    BY <1>a, <1>b, <1>3 DEF InsertUser, AtStep, UserIds
  <2>2. CASE users[form[h].id] # None
    BY <1>3, <1>c, <2>1, <2>2 DEF InsertUser, Reply
  <2>3. CASE users[form[h].id] = None
    <3>1. /\ PutEmail(h, form[h].id, form[h].email) /\ UNCHANGED form
          /\ Trusts(h, form[h].email)
          /\ \E step \in {"insertCustomer", "done"} : pc' = [pc EXCEPT ![h] = step]
      BY <1>3, <2>3 DEF InsertUser, Goto, Reply, ReplyLost, Trusts
    <3> QED BY <1>a, <2>1, <3>1, PutStep DEF TypeOK
  <2> QED BY <2>2, <2>3
<1>4. ASSUME NEW h \in Registers, InsertCustomer(h) \/ InsertWallet(h) PROVE EInv'
  <2>1. /\ UNCHANGED <<users, form, unchecked>>
        /\ \E step \in {"insertWallet", "done"} : pc' = [pc EXCEPT ![h] = step]
    BY <1>4 DEF InsertCustomer, InsertWallet, Goto, Reply, ReplyLost
  <2> QED BY <1>b, <1>c, <2>1
<1>5. ASSUME NEW h \in Signups, SignupId(h) PROVE EInv'
  <2>1. /\ UNCHANGED <<users, unchecked>> /\ \A g \in Requests \ {h} : form'[g] = form[g]
        /\ \E step \in {"email", "done"} : pc' = [pc EXCEPT ![h] = step]
    BY <1>a, <1>5 DEF SignupId, Refuse, Goto, Reply, TypeOK
  <2> QED BY <1>b, <1>c, <2>1
<1>6. ASSUME NEW h \in Signups, SignupEmail(h) PROVE EInv'
  <2>1. CASE ~Refuse(h)
    <3>1. ASSUME NEW g \in Requests, NEW f \in Emails, Trusts(g, f)', f \notin unchecked'
          PROVE  Trusts(g, f) \/ \A u \in UserIds : users[u] # f
      BY <1>a, <1>b, <1>6, <2>1, <3>1 DEF SignupEmail, TypeOK, Goto, Trusts, EmailTaken
    <3> QED BY <1>6, <2>1, <3>1, NoPutStep DEF SignupEmail
  <2> QED BY <1>b, <1>6, <1>d, <2>1
<1>7. ASSUME NEW h \in Updates, UpdateFind(h) \/ UpdateReread(h) PROVE EInv'
  <2>1. /\ UNCHANGED <<users, unchecked>> /\ \A g \in Requests \ {h} : form'[g] = form[g]
        /\ \E step \in {"email", "done"} : pc' = [pc EXCEPT ![h] = step]
    BY <1>a, <1>7 DEF UpdateFind, UpdateReread, Refuse, Goto, Reply, TypeOK
  <2> QED BY <1>b, <1>c, <2>1
<1>8. ASSUME NEW h \in Updates, UpdateEmail(h) PROVE EInv'
  <2>1. CASE ~Refuse(h)
    <3>1. ASSUME NEW g \in Requests, NEW f \in Emails, Trusts(g, f)', f \notin unchecked'
          PROVE  \/ Trusts(g, f)
                 \/ \A u \in UserIds : users[u] = f => g \in Updates /\ u = form[g].id
      BY <1>a, <1>b, <1>8, <2>1, <3>1 DEF UpdateEmail, TypeOK, Goto, Trusts, TakenByOther
    <3> QED BY <1>8, <2>1, <3>1, NoPutStep DEF UpdateEmail
  <2> QED BY <1>b, <1>8, <1>d, <2>1
<1>9. ASSUME NEW h \in Updates, UpdateWrite(h) PROVE EInv'
  <2>1. /\ form[h].id \in UserIds /\ form[h].email \in Emails /\ h \in Requests
        /\ UNCHANGED form /\ Trusts(h, form[h].email)
        /\ \E step \in {"reread", "done"} : pc' = [pc EXCEPT ![h] = step]
    BY <1>a, <1>b, <1>9 DEF UpdateWrite, AtStep, Trusts, Goto, Reply, ReplyLost
  <2>2. CASE PutEmail(h, form[h].id, form[h].email)
    BY <1>a, <2>1, <2>2, PutStep DEF TypeOK
  <2>3. CASE UNCHANGED <<users, unchecked>>
    BY <1>c, <2>1, <2>3
  <2> QED BY <1>9, <2>2, <2>3 DEF UpdateWrite
<1>10. ASSUME NEW h \in Deletes, DeleteStep(h) PROVE EInv'
  <2>1. /\ UNCHANGED unchecked /\ \A g \in Requests \ {h} : form'[g] = form[g]
        /\ \A u \in UserIds : users'[u] \in {users[u], None}
        /\ \E step \in {"find", "delete", "done"} : pc' = [pc EXCEPT ![h] = step]
    BY <1>a, <1>10 DEF DeleteStep, DeleteFind, DeleteFindAgain, DeleteUser, Refuse, Goto,
       Reply, ReplyLost, TypeOK
  <2> QED BY <1>b, <1>c, <2>1
<1>11. ASSUME NEW h \in Requests, DbError(h) PROVE EInv'
  BY <1>11, <1>c DEF DbError, Reply
<1>12. ASSUME SeedStep \/ SeedError PROVE EInv'
  <2>1. UNCHANGED <<pc, form>>
    BY <1>12 DEF SeedStep, SeedError, SeedFind, SeedUser, SeedCustomer, SeedWallet,
       SeedFails, SeedGoto, Requested
  <2>2. CASE UNCHANGED <<users, unchecked>>
    BY <2>1, <2>2, NoPutStep DEF Trusts
  <2>3. CASE /\ users' = [users EXCEPT ![boot] = MerchantEmail]
             /\ unchecked' = unchecked \cup {MerchantEmail}
    BY <1>a, <2>1, <2>3 DEF TypeOK, EInv, EmailUniqueWhenChecked, Verdicts, Trusts
  <2> QED BY <1>12, <2>2, <2>3 DEF SeedStep, SeedError, SeedFind, SeedUser, SeedCustomer,
     SeedWallet
<1>13. CASE Crash
  <2>1. UNCHANGED <<users, unchecked>> /\ \A g \in Requests, e \in Emails : ~Trusts(g, e)'
    BY <1>13 DEF Crash, Running, Trusts
  <2> QED BY <2>1, NoPutStep
<1>14. CASE UNCHANGED vars
  BY <1>14, NoPutStep DEF vars, Trusts
<1> QED
  BY <1>1, <1>2, <1>3, <1>4, <1>5, <1>6, <1>7, <1>8, <1>9, <1>10, <1>11, <1>12, <1>13, <1>14
  DEF Next, RegisterStep, SignupStep, UpdateStep, Idle

\* E-mails are unique where checks and writes did not overlap and no lookup failed.
THEOREM EmailsUnique == Spec => []EmailUniqueWhenChecked
<1>1. EInv => EmailUniqueWhenChecked
  BY DEF EInv
<1> QED BY <1>1, InitIInv, NextIInv, InitEInv, NextEInv, PTL DEF Spec

-----------------------------------------------------------------------------
(***************************************************************************)
(* Documents, phones and users of customers.                               *)
(***************************************************************************)
\* A row that the indexes let in is no one else's.
LEMMA FitsKeepsUnique ==
  ASSUME TypeOK, IdentityUnique, NEW c \in CustomerIds, NEW row \in CustomerRows,
         Fits(row), customers' = [customers EXCEPT ![c] = row]
  PROVE  IdentityUnique'
<1>1. customers'[c] = row /\ \A d \in CustomerIds \ {c} : customers'[d] = customers[d]
  BY DEF TypeOK
<1>2. \A d \in Stored : /\ customers[d].document # row.document
                        /\ customers[d].phone # row.phone
                        /\ customers[d].user # row.user
  BY DEF Fits, DocumentTaken, PhoneTaken
<1>3. \A d \in CustomerIds \ {c} : d \in Stored' => d \in Stored
  BY <1>1 DEF Stored
<1>4. Stored \subseteq CustomerIds /\ Stored' \subseteq CustomerIds
  BY DEF Stored
<1>5. ASSUME NEW a \in Stored', NEW b \in Stored', a # b
      PROVE  /\ customers'[a].document # customers'[b].document
             /\ customers'[a].phone # customers'[b].phone
             /\ customers'[a].user # customers'[b].user
  <2>1. CASE a = c
    BY <1>1, <1>2, <1>3, <1>4, <1>5, <2>1
  <2>2. CASE b = c
    BY <1>1, <1>2, <1>3, <1>4, <1>5, <2>2
  <2>3. CASE a # c /\ b # c
    BY <1>1, <1>3, <1>4, <1>5, <2>3 DEF IdentityUnique
  <2> QED BY <2>1, <2>2, <2>3
<1> QED BY <1>5 DEF IdentityUnique

LEMMA NextIdentity == IInv /\ IdentityUnique /\ [Next]_vars => IdentityUnique'
<1> SUFFICES ASSUME IInv, IdentityUnique, [Next]_vars PROVE IdentityUnique'
  OBVIOUS
<1> USE DEF db, process, history
<1>a. TypeOK /\ AtStep
  BY DEF IInv
<1>b. ASSUME UNCHANGED customers PROVE IdentityUnique'
  BY <1>b DEF IdentityUnique, Stored
<1>1. ASSUME NEW h \in Registers, InsertCustomer(h) PROVE IdentityUnique'
  <2>1. h \in CustomerIds /\ Row(h) \in CustomerRows
    BY <1>a, <1>1 DEF InsertCustomer, AtStep, CustomerIds, UserIds, Row, CustomerRows
  <2> QED BY <1>a, <1>b, <1>1, <2>1, FitsKeepsUnique DEF InsertCustomer
<1>2. CASE SeedCustomer
  <2>1. Merchant \in CustomerIds /\ MerchantRow \in CustomerRows
    BY <1>a, MerchantAssumption DEF TypeOK, CustomerIds, UserIds, MerchantRow, CustomerRows
  <2> QED BY <1>a, <1>b, <1>2, <2>1, FitsKeepsUnique DEF SeedCustomer
<1>3. ASSUME NEW h \in Registers, RegisterStep(h) PROVE IdentityUnique'
  <2>1. UNCHANGED customers \/ InsertCustomer(h)
    BY <1>3 DEF RegisterStep, RegisterEmail, CheckDocument, CheckPhone, InsertUser,
       InsertWallet, Refuse
  <2> QED BY <1>b, <1>1, <2>1
<1>4. ASSUME NEW h \in Requests,
             SignupStep(h) \/ UpdateStep(h) \/ DeleteStep(h) \/ DbError(h)
      PROVE  UNCHANGED customers
  BY <1>4 DEF SignupStep, SignupId, SignupEmail, InsertUser, UpdateStep, UpdateFind,
     UpdateEmail, UpdateWrite, UpdateReread, DeleteStep, DeleteFind, DeleteFindAgain,
     DeleteUser, DbError, Refuse
<1>5. CASE SeedFind \/ SeedUser \/ SeedWallet \/ SeedError \/ Crash \/ UNCHANGED vars
  BY <1>b, <1>5 DEF SeedFind, SeedUser, SeedWallet, SeedError, Crash, vars
<1> QED BY <1>b, <1>2, <1>3, <1>4, <1>5 DEF Next, SeedStep, Idle, Requests

\* No two customers ever share a document, a phone or a user, however many
\* registrations and seedings race.
THEOREM IdentitiesUnique == Spec => []IdentityUnique
<1>1. Init => IdentityUnique
  BY DEF Init, IdentityUnique, Stored
<1> QED BY <1>1, InitIInv, NextIInv, NextIdentity, PTL DEF Spec

-----------------------------------------------------------------------------
(***************************************************************************)
(* The seeder.                                                             *)
(***************************************************************************)
\* The seeder inserts only when it found no merchant, and nobody else makes one.
SInv == seeder \in {"insertUser", "insertCustomer"} => customers[Merchant] = None

LEMMA NextSInv == IInv /\ SInv /\ [Next]_vars => SInv'
<1> SUFFICES ASSUME IInv, SInv, [Next]_vars PROVE SInv'
  OBVIOUS
<1> USE DEF db, process, history, SInv
<1>a. customers \in [CustomerIds -> CustomerRows \cup {None}] /\ Merchant \notin Registers
  BY DEF IInv, TypeOK
<1>1. ASSUME NEW h \in Registers, RegisterStep(h) PROVE SInv'
  <2>1. /\ UNCHANGED seeder
        /\ UNCHANGED customers \/ customers' = [customers EXCEPT ![h] = Row(h)]
    BY <1>1 DEF RegisterStep, RegisterEmail, CheckDocument, CheckPhone, InsertUser,
       InsertCustomer, InsertWallet, Refuse
  <2>2. customers'[Merchant] = customers[Merchant]
    BY <1>a, <2>1 DEF CustomerIds
  <2> QED BY <2>1, <2>2
<1>2. ASSUME NEW h \in Requests,
             SignupStep(h) \/ UpdateStep(h) \/ DeleteStep(h) \/ DbError(h)
      PROVE  SInv'
  <2>1. UNCHANGED <<seeder, customers>>
    BY <1>2 DEF SignupStep, SignupId, SignupEmail, InsertUser, UpdateStep, UpdateFind,
       UpdateEmail, UpdateWrite, UpdateReread, DeleteStep, DeleteFind, DeleteFindAgain,
       DeleteUser, DbError, Refuse
  <2> QED BY <2>1
<1>3. ASSUME SeedStep \/ SeedError PROVE SInv'
  BY <1>3 DEF SeedStep, SeedError, SeedFind, SeedUser, SeedCustomer, SeedWallet, SeedFails,
     SeedGoto
<1>4. CASE Crash \/ UNCHANGED vars
  BY <1>4 DEF Crash, FirstStep, vars
<1> QED BY <1>1, <1>2, <1>3, <1>4 DEF Next, Idle, Requests

\* Once the merchant exists, no restart adds another merchant user.
THEOREM SeededOnceHolds == Spec => SeededOnce
<1>1. Init => SInv
  BY DEF Init, SInv, FirstStep
<1>2. IInv /\ SInv /\ [Next]_vars =>
        [customers[Merchant] # None =>
           \A b \in Boots : users[b] = None => users'[b] = None]_vars
  <2> SUFFICES ASSUME IInv, SInv, Next, customers[Merchant] # None, NEW b \in Boots,
                      users[b] = None
               PROVE  users'[b] = None
    BY DEF vars
  <2> USE DEF db, process, history
  <2>a. users \in [UserIds -> Emails \cup {None}] /\ AtStep /\ b \in UserIds
    BY DEF IInv, TypeOK, UserIds
  <2>1. ASSUME NEW h \in Registers \cup Signups, InsertUser(h) PROVE users'[b] = None
    <3>1. form[h].id \in Ids \cup Registers
      BY <2>a, <2>1 DEF InsertUser, AtStep
    <3> QED BY <2>a, <2>1, <3>1 DEF InsertUser, PutEmail
  <2>2. ASSUME NEW h \in Requests, UpdateWrite(h) \/ DeleteUser(h) PROVE users'[b] = None
    BY <2>a, <2>2 DEF UpdateWrite, DeleteUser, PutEmail
  <2>3. CASE UNCHANGED users
    BY <2>3
  <2>4. CASE SeedUser
    BY <2>4 DEF SInv, SeedUser
  <2>5. ASSUME NEW h \in Registers, RegisterStep(h) PROVE users'[b] = None
    BY <2>1, <2>3, <2>5 DEF RegisterStep, RegisterEmail, CheckDocument, CheckPhone,
       InsertCustomer, InsertWallet, Refuse
  <2>6. ASSUME NEW h \in Signups, SignupStep(h) PROVE users'[b] = None
    BY <2>1, <2>3, <2>6 DEF SignupStep, SignupId, SignupEmail, Refuse
  <2>7. ASSUME NEW h \in Requests, UpdateStep(h) \/ DeleteStep(h) \/ DbError(h)
        PROVE  users'[b] = None
    BY <2>2, <2>3, <2>7 DEF UpdateStep, UpdateFind, UpdateEmail, UpdateReread, DeleteStep,
       DeleteFind, DeleteFindAgain, DbError, Refuse
  <2>8. CASE SeedStep \/ SeedError \/ Crash \/ Idle
    BY <2>3, <2>4, <2>8 DEF SeedStep, SeedError, SeedFind, SeedCustomer, SeedWallet, Crash,
       Idle, vars
  <2> QED BY <2>5, <2>6, <2>7, <2>8 DEF Next, Requests
<1> QED BY <1>1, <1>2, InitIInv, NextIInv, NextSInv, PTL DEF Spec, SeededOnce

=============================================================================
