---------------------------- MODULE AccessProofs ----------------------------
(***************************************************************************)
(* Types and the properties of Access, for any users, passwords, requests  *)
(* and faults.                                                             *)
(***************************************************************************)
EXTENDS Access, TLAPS

-----------------------------------------------------------------------------
(***************************************************************************)
(* The inductive invariant.                                                *)
(***************************************************************************)
\* What a handler awaits tells which endpoint it serves.
Serving(h) ==
  /\ pc[h] = "new" => kind[h] = "none"
  /\ pc[h] = "compare" => kind[h] = "login"
  /\ pc[h] = "guard" => kind[h] \in Guarded
  /\ pc[h] = "me" => kind[h] = "me"
  /\ pc[h] = "find" => kind[h] \in {"read", "put", "delete"}
  /\ pc[h] = "email" => kind[h] \in Signup \cup {"put"}
  /\ pc[h] \in {"id", "insert"} => kind[h] \in Signup
  /\ pc[h] \in {"update", "reread"} => kind[h] \in {"restore", "patch", "put"}
  /\ pc[h] \in {"refind", "delete"} => kind[h] = "delete"
  /\ pc[h] \in {"customer", "wallet"} => kind[h] \in {"profile", "balance"}
  /\ pc[h] = "owner" => kind[h] = "profile"

\* A request under way carries what its endpoint needs.
Carrying(h) ==
  /\ pc[h] # "done" => answer[h] = "none"
  /\ Running(h) => subject[h] \in Ids /\ object[h] \in Ids
  /\ Running(h) /\ kind[h] \in Signup \cup {"login", "restore", "put"} =>
       secret[h] \in Passwords

Shape == \A h \in Requests : Serving(h) /\ Carrying(h)

\* Unless the seeder wrote it, the column is one hash of the password on record.
Columns == \A u \in Ids \ Seeded : hash[u] = Hash(chosen[u])

\* The column a login compares with was that of a password on record meanwhile.
Compared ==
  \A h \in Requests : pc[h] = "compare" /\ subject[h] \notin Seeded =>
    \E p \in had[h] \cap Passwords : seen[h] = Hash(p)

\* Past the guard the user was active; nothing was changed before it.
Admitted ==
  \A h \in Requests :
    /\ pc[h] = "new" => ~applied[h]
    /\ Running(h) /\ kind[h] \in Guarded /\ pc[h] # "guard" => entitled[h]
    /\ Running(h) /\ kind[h] \in Guarded /\ subject[h] \in Active => entitled[h]

\* The second read follows an update that found the row, or the row is gone, or it
\* is a new one.
Updated ==
  \A h \in Requests : pc[h] = "reread" /\ kind[h] \in {"patch", "put"} =>
    applied[h] \/ reborn[h] \/ object[h] \notin stored

\* Who is no longer there was deleted while the call ran.
Noticed ==
  \A h \in Requests :
    /\ Running(h) /\ kind[h] = "profile" /\ subject[h] \notin stored => gone[h]
    /\ ~shown[h] => gone[h] /\ pc[h] # "new"

USE UsersAssumption

-----------------------------------------------------------------------------
(***************************************************************************)
(* Types.                                                                  *)
(***************************************************************************)
LEMMA InitShape == Init => TypeOK /\ Shape
BY DEF Init, TypeOK, UserTypes, RequestTypes, HistoryTypes, Shape, Serving, Carrying,
   Running, Hash, Kinds, Guarded, Answers, Steps, Tokens, Token


-----------------------------------------------------------------------------
\* The steps that read the database, or nothing, and write nothing.
Reads(h) ==
  \/ ValidatePayload(h) \/ FindMe(h) \/ FindUser(h) \/ CheckEmail(h) \/ Reread(h)
  \/ RefindUser(h) \/ FindCustomer(h) \/ FindWallet(h) \/ FindId(h) \/ Duplicate(h)

LEMMA FirstSteps ==
  ASSUME NEW k \in Guarded PROVE First(k) \in {"me", "update", "customer", "find", "id"}
BY DEF Guarded, First

LEMMA OnlyReads ==
  ASSUME TypeOK, Shape, NEW h \in Requests, Reads(h)
  PROVE  /\ Quiet
         /\ kind[h] \in Guarded \cup {"restore", "register"}
         /\ pc[h] \notin {"new", "done"} /\ pc'[h] \notin {"new", "compare", "reread"}
         /\ pc[h] = "guard" => \/ pc'[h] = "done" /\ answer'[h] # "ok"
                               \/ subject[h] \in Active /\ answer'[h] # "ok"
         /\ answer'[h] = "ok" => pc'[h] = "done"
         /\ answer'[h] = "ok" /\ kind[h] \in {"patch", "put"} => object[h] \in stored
         /\ answer'[h] = "ok" /\ kind[h] \in {"patch", "put"} => pc[h] = "reread"
         /\ answer'[h] = "ok" => kind[h] \notin Signup \cup {"delete"}
         /\ \A g \in Requests \ {h} : pc'[g] = pc[g] /\ answer'[g] = answer[g]
<1>1. Serving(h) /\ Carrying(h)
  BY DEF Shape
<1>2. CASE ValidatePayload(h)
  BY <1>1, <1>2, FirstSteps DEF Serving, Carrying, Running, ValidatePayload, Goto, Refuse,
     Reply, TypeOK, RequestTypes, Guarded, Signup, Steps
<1>3. CASE FindMe(h) \/ FindUser(h) \/ CheckEmail(h)
  BY <1>1, <1>3 DEF Serving, Carrying, Running, FindMe, FindUser, CheckEmail, Goto, Refuse,
     Reply, TypeOK, RequestTypes, Guarded, Signup
<1>4. CASE Reread(h) \/ RefindUser(h)
  BY <1>1, <1>4 DEF Serving, Carrying, Running, Reread, Found, RefindUser, Goto, Refuse,
     Reply, TypeOK, RequestTypes, Guarded, Signup
<1>5. CASE FindCustomer(h) \/ FindWallet(h)
  BY <1>1, <1>5 DEF Serving, Carrying, Running, FindCustomer, FindWallet, Goto, Refuse,
     Reply, TypeOK, RequestTypes, Guarded, Signup
<1>6. CASE FindId(h) \/ Duplicate(h)
  BY <1>1, <1>6 DEF Serving, Carrying, Running, FindId, Duplicate, Goto, Refuse, Reply,
     TypeOK, RequestTypes, Guarded, Signup
<1> QED BY <1>2, <1>3, <1>4, <1>5, <1>6 DEF Reads

\* A database error ends the request; only behind the guard it may look like a refusal.
LEMMA ErrorEnds ==
  ASSUME TypeOK, Shape, NEW h \in Requests, DbError(h)
  PROVE  /\ Quiet /\ pc[h] # "done" /\ pc'[h] = "done"
         /\ \A g \in Requests \ {h} : pc'[g] = pc[g] /\ answer'[g] = answer[g]
         /\ kind[h] # "restore" => answer'[h] # "ok"
         /\ kind[h] \in {"none", "login", "forgot"} => answer'[h] = "error"
<1>1. pc[h] = "guard" => kind[h] \in Guarded
  BY DEF Shape, Serving
<1>2. pc[h] = "reread" => kind[h] \in {"restore", "patch", "put"}
  BY DEF Shape, Serving
<1> QED BY <1>1, <1>2 DEF DbError, ErrorAnswer, Reply, TypeOK, RequestTypes, Guarded

-----------------------------------------------------------------------------
\* How the parts of a step keep the types of the requests.
LEMMA BeginTypes ==
  ASSUME RequestTypes, NEW h \in Requests, NEW k \in Kinds, NEW u \in Ids,
         NEW o \in Ids, NEW p \in Passwords \cup {None}, Begin(h, k, u, o, p)
  PROVE  /\ kind' \in [Requests -> Kinds]
         /\ subject' \in [Requests -> Ids \cup {None}]
         /\ object' \in [Requests -> Ids \cup {None}]
         /\ secret' \in [Requests -> Passwords \cup {None}]
BY DEF RequestTypes, Begin

LEMMA BeginHistory ==
  ASSUME UserTypes, HistoryTypes, NEW h \in Requests, NEW k \in Kinds, NEW u \in Ids,
         NEW o \in Ids, NEW p \in Passwords \cup {None}, Begin(h, k, u, o, p)
  PROVE  HistoryTypes'
<1>1. Current(u) \in Passwords \cup {None}
  BY DEF UserTypes, Current
<1>2. (u \in Active) \in BOOLEAN /\ (u \notin stored) \in BOOLEAN
  OBVIOUS
<1> QED BY <1>1, <1>2 DEF HistoryTypes, Begin

LEMMA GotoTypes ==
  ASSUME RequestTypes, NEW h \in Requests, NEW step \in Steps, Goto(h, step)
  PROVE  pc' \in [Requests -> Steps] /\ answer' \in [Requests -> Answers]
BY DEF RequestTypes, Goto

LEMMA ReplyTypes ==
  ASSUME RequestTypes, NEW h \in Requests, NEW a \in Answers, Reply(h, a)
  PROVE  pc' \in [Requests -> Steps] /\ answer' \in [Requests -> Answers]
BY DEF RequestTypes, Reply, Steps

LEMMA QuietTypes ==
  ASSUME RequestTypes, NEW h \in Requests, Quiet,
         (\E step \in Steps : Goto(h, step)) \/ (\E a \in Answers : Reply(h, a))
  PROVE  RequestTypes'
BY GotoTypes, ReplyTypes DEF RequestTypes, Quiet, inputs

\* Every step keeps the types of the collections and the tokens.
LEMMA NextUserTypes == TypeOK /\ Shape /\ [Next]_vars => UserTypes'
<1> SUFFICES ASSUME TypeOK, Shape, [Next]_vars PROVE UserTypes'
  OBVIOUS
<1>1. ASSUME NEW h \in Requests, FindByEmail(h) PROVE UserTypes'
  BY <1>1 DEF TypeOK, UserTypes, RequestTypes, FindByEmail, Begin, Goto, Refuse, Reply,
     users
<1>2. ASSUME NEW h \in Requests, Compare(h) PROVE UserTypes'
  BY <1>2 DEF TypeOK, UserTypes, RequestTypes, Compare, Refuse, Reply, users, inputs,
     history, Token, Tokens, Shape, Carrying, Running
<1>3. ASSUME NEW h \in Requests, FindForReset(h) PROVE UserTypes'
  BY <1>3 DEF TypeOK, UserTypes, RequestTypes, FindForReset, Begin, Refuse, Reply, users,
     Token, Tokens
<1>4. ASSUME NEW h \in Requests, VerifyRecovery(h) PROVE UserTypes'
  BY <1>4 DEF TypeOK, UserTypes, RequestTypes, VerifyRecovery, Begin, Goto, Refuse, Reply,
     Quiet, users, inputs, history
<1>5. ASSUME NEW h \in Requests, Reads(h) PROVE UserTypes'
  BY <1>5, OnlyReads DEF TypeOK, UserTypes, Guarded, Quiet, users, inputs, history
<1>6. ASSUME NEW h \in Requests, VerifyToken(h) PROVE UserTypes'
  BY <1>6 DEF TypeOK, UserTypes, RequestTypes, VerifyToken, Begin, Goto, Refuse, Reply,
     Quiet, users, inputs, history
<1>7. ASSUME NEW h \in Requests, UpdateOne(h) PROVE UserTypes'
  <2>1. /\ h \in Requests /\ object[h] \in Ids
        /\ SetsPassword(h) => secret[h] \in Passwords
    BY <1>7 DEF UpdateOne, SetsPassword, Shape, Serving, Carrying, Running
  <2>2. hash' \in [Ids -> [of : Passwords, times : {1, 2}]]
    <3>1. CASE object[h] \in stored /\ SetsPassword(h)
      <4>1. Column(secret[h]) \in [of : Passwords, times : {1, 2}]
        BY <2>1, <3>1 DEF Column, Hash
      <4> QED BY <1>7, <2>1, <3>1, <4>1 DEF TypeOK, UserTypes, UpdateOne
    <3>2. CASE ~(object[h] \in stored /\ SetsPassword(h))
      BY <1>7, <3>2 DEF TypeOK, UserTypes, UpdateOne
    <3> QED BY <3>1, <3>2
  <2>3. chosen' \in [Ids -> Passwords]
    <3>1. CASE object[h] \in stored /\ SetsPassword(h)
      BY <1>7, <2>1, <3>1 DEF TypeOK, UserTypes, UpdateOne
    <3>2. CASE ~(object[h] \in stored /\ SetsPassword(h))
      BY <1>7, <3>2 DEF TypeOK, UserTypes, UpdateOne
    <3> QED BY <3>1, <3>2
  <2> QED BY <1>7, <2>2, <2>3 DEF TypeOK, UserTypes, UpdateOne
<1>8. ASSUME NEW h \in Requests, DeleteOne(h) PROVE UserTypes'
  BY <1>8 DEF TypeOK, UserTypes, RequestTypes, DeleteOne, ReplyLost, Reply, inputs
<1>9. ASSUME NEW h \in Requests, FindOwner(h) PROVE UserTypes'
  BY <1>9 DEF TypeOK, UserTypes, RequestTypes, FindOwner, Goto, users, inputs
<1>10. ASSUME NEW u \in Ids, Block(u) PROVE UserTypes'
  BY <1>10 DEF TypeOK, UserTypes, RequestTypes, Block, inputs
<1>11. ASSUME NEW h \in Requests, Insert(h) PROVE UserTypes'
  <2>1. object[h] \in Ids /\ secret[h] \in Passwords
    BY <1>11 DEF Insert, Shape, Serving, Carrying, Running
  <2>2. Hash(secret[h]) \in [of : Passwords, times : {1, 2}]
    BY <2>1 DEF Hash
  <2>3. tokens' \subseteq Tokens
    BY <1>11, <2>1 DEF Insert, Token, Tokens, TypeOK, UserTypes
  <2> QED BY <1>11, <2>1, <2>2, <2>3 DEF Insert, TypeOK, UserTypes
<1>12. ASSUME NEW h \in Requests, DbError(h) PROVE UserTypes'
  BY <1>12 DEF TypeOK, UserTypes, RequestTypes, DbError, ErrorAnswer, Reply, Quiet, users,
     inputs, history
<1>13. CASE UNCHANGED vars
  BY <1>13 DEF TypeOK, UserTypes, RequestTypes, vars
<1>14. ASSUME NEW h \in Requests, Register(h) PROVE UserTypes'
  BY <1>14 DEF TypeOK, UserTypes, RequestTypes, Register, Begin, Goto, users
<1> QED BY <1>1, <1>2, <1>3, <1>4, <1>5, <1>6, <1>7, <1>8, <1>9, <1>10, <1>11, <1>12,
       <1>13, <1>14
       DEF Next, SignupStep, LoginStep, RecoveryStep, GuardedStep, UpdateStep, Idle, Reads

\* Every step keeps the types of the requests.
LEMMA NextRequestTypes == TypeOK /\ Shape /\ [Next]_vars => RequestTypes'
<1> SUFFICES ASSUME TypeOK, Shape, [Next]_vars PROVE RequestTypes'
  OBVIOUS
<1>1. ASSUME NEW h \in Requests, FindByEmail(h) PROVE RequestTypes'
  <2>1. PICK u \in Ids, p \in Passwords :
          /\ Begin(h, "login", u, u, p)
          /\ \/ seen' = [seen EXCEPT ![h] = hash[u]] /\ Goto(h, "compare")
             \/ Refuse(h) /\ UNCHANGED seen
    BY <1>1 DEF FindByEmail
  <2>2. seen' \in [Requests -> [of : Passwords \cup {None}, times : {1, 2}]]
    BY <2>1 DEF TypeOK, UserTypes, RequestTypes
  <2>3. pc' \in [Requests -> Steps] /\ answer' \in [Requests -> Answers]
    BY <2>1, GotoTypes, ReplyTypes DEF TypeOK, Refuse, Steps, Answers
  <2> QED BY <2>1, <2>2, <2>3, BeginTypes DEF TypeOK, RequestTypes, Kinds
<1>2. ASSUME NEW h \in Requests, Compare(h) PROVE RequestTypes'
  BY <1>2 DEF TypeOK, UserTypes, RequestTypes, Answers, Steps, Compare, Refuse, Reply,
     users, inputs, history
<1>3. ASSUME NEW h \in Requests, FindForReset(h) PROVE RequestTypes'
  <2>1. PICK u \in Ids :
          /\ Begin(h, "forgot", u, u, None) /\ UNCHANGED seen
          /\ Reply(h, "ok") \/ Refuse(h)
    BY <1>3 DEF FindForReset
  <2> QED BY <2>1, BeginTypes, ReplyTypes DEF TypeOK, RequestTypes, Kinds, Answers, Refuse
<1>4. ASSUME NEW h \in Requests, VerifyRecovery(h) PROVE RequestTypes'
  <2>1. CASE Refuse(h) /\ Quiet
    BY <2>1, ReplyTypes DEF Refuse, Quiet, inputs, TypeOK, RequestTypes, Answers
  <2>2. CASE ~(Refuse(h) /\ Quiet)
    <3>1. PICK t \in tokens, p \in Passwords :
            /\ Begin(h, "restore", t.user, t.user, p) /\ Goto(h, "update")
            /\ UNCHANGED seen
      BY <1>4, <2>2 DEF VerifyRecovery
    <3>2. t.user \in Ids /\ "restore" \in Kinds /\ "update" \in Steps
      BY DEF TypeOK, UserTypes, Tokens, Steps, Kinds
    <3> QED BY <3>1, <3>2, BeginTypes, GotoTypes DEF TypeOK, RequestTypes
  <2> QED BY <2>1, <2>2
<1>5. ASSUME NEW h \in Requests, VerifyToken(h) PROVE RequestTypes'
  <2>1. CASE Refuse(h) /\ Quiet
    BY <2>1, ReplyTypes DEF Refuse, Quiet, inputs, TypeOK, RequestTypes, Answers
  <2>2. CASE ~(Refuse(h) /\ Quiet)
    <3>1. PICK t \in tokens, k \in Guarded, o \in Ids, p \in Passwords \cup {None} :
            /\ Begin(h, k, t.user, o, p) /\ Goto(h, "guard")
            /\ UNCHANGED seen
      BY <1>5, <2>2 DEF VerifyToken
    <3>2. t.user \in Ids /\ k \in Kinds /\ "guard" \in Steps
      BY DEF TypeOK, UserTypes, Tokens, Steps, Kinds
    <3> QED BY <3>1, <3>2, BeginTypes, GotoTypes DEF TypeOK, RequestTypes
  <2> QED BY <2>1, <2>2
<1>6. ASSUME NEW h \in Requests, ValidatePayload(h) PROVE RequestTypes'
  BY <1>6, <1>6, QuietTypes, FirstSteps DEF ValidatePayload, Shape, Serving, Refuse, TypeOK,
     RequestTypes, Answers, Steps
<1>7. ASSUME NEW h \in Requests, FindMe(h) PROVE RequestTypes'
  BY <1>7, <1>7, QuietTypes DEF FindMe, Refuse, TypeOK, Answers, Steps
<1>8. ASSUME NEW h \in Requests, FindUser(h) PROVE RequestTypes'
  BY <1>8, <1>8, QuietTypes DEF FindUser, Refuse, TypeOK, Answers, Steps
<1>9. ASSUME NEW h \in Requests, CheckEmail(h) PROVE RequestTypes'
  BY <1>9, <1>9, QuietTypes DEF CheckEmail, Refuse, TypeOK, Answers, Steps
<1>10. ASSUME NEW h \in Requests, UpdateOne(h) PROVE RequestTypes'
  BY <1>10 DEF TypeOK, UserTypes, RequestTypes, Answers, Steps, UpdateOne, Goto, ReplyLost,
     Reply, inputs
<1>11. ASSUME NEW h \in Requests, Reread(h) PROVE RequestTypes'
  BY <1>11, <1>11, QuietTypes DEF Reread, Refuse, TypeOK, Answers, Steps
<1>12. ASSUME NEW h \in Requests, RefindUser(h) PROVE RequestTypes'
  BY <1>12, <1>12, QuietTypes DEF RefindUser, Refuse, TypeOK, Answers, Steps
<1>13. ASSUME NEW h \in Requests, DeleteOne(h) PROVE RequestTypes'
  BY <1>13 DEF TypeOK, UserTypes, RequestTypes, Answers, Steps, DeleteOne, ReplyLost, Reply,
     inputs
<1>14. ASSUME NEW h \in Requests, FindCustomer(h) PROVE RequestTypes'
  BY <1>14, <1>14, QuietTypes DEF FindCustomer, Refuse, TypeOK, Answers, Steps
<1>15. ASSUME NEW h \in Requests, FindOwner(h) PROVE RequestTypes'
  BY <1>15 DEF TypeOK, UserTypes, RequestTypes, Answers, Steps, FindOwner, Goto, users,
     inputs
<1>16. ASSUME NEW h \in Requests, FindWallet(h) PROVE RequestTypes'
  BY <1>16, <1>16, QuietTypes DEF FindWallet, Refuse, TypeOK, Answers, Steps
<1>17. ASSUME NEW u \in Ids, Block(u) PROVE RequestTypes'
  BY <1>17 DEF TypeOK, UserTypes, RequestTypes, Answers, Steps, Block, inputs
<1>18. ASSUME NEW h \in Requests, Insert(h) PROVE RequestTypes'
  BY <1>18 DEF TypeOK, UserTypes, RequestTypes, Answers, Steps, Insert, ReplyLost, Reply,
     inputs, Witness
<1>19. ASSUME NEW h \in Requests, DbError(h) PROVE RequestTypes'
  BY <1>19 DEF TypeOK, UserTypes, RequestTypes, Answers, Steps, DbError, ErrorAnswer, Reply,
     Quiet, users, inputs, history
<1>20. CASE UNCHANGED vars
  BY <1>20 DEF TypeOK, UserTypes, RequestTypes, Answers, Steps, vars
<1>21. ASSUME NEW h \in Requests, Register(h) PROVE RequestTypes'
  <2>1. PICK o \in Ids, p \in Passwords :
          Begin(h, "register", o, o, p) /\ Goto(h, "id") /\ UNCHANGED seen
    BY <1>21 DEF Register
  <2>2. "register" \in Kinds /\ "id" \in Steps
    BY DEF Kinds, Steps
  <2> QED BY <2>1, <2>2, BeginTypes, GotoTypes DEF TypeOK, RequestTypes
<1>22. ASSUME NEW h \in Requests, FindId(h) PROVE RequestTypes'
  BY <1>22, <1>22, QuietTypes DEF FindId, Refuse, TypeOK, Answers, Steps
<1>23. ASSUME NEW h \in Requests, Duplicate(h) PROVE RequestTypes'
  BY <1>23, <1>23, QuietTypes DEF Duplicate, TypeOK, Answers, Steps
<1> QED BY <1>1, <1>2, <1>3, <1>4, <1>5, <1>6, <1>7, <1>8, <1>9, <1>10, <1>11, <1>12, <1>13,
   <1>14, <1>15, <1>16, <1>17, <1>18, <1>19, <1>20, <1>21, <1>22, <1>23
       DEF Next, SignupStep, LoginStep, RecoveryStep, GuardedStep, UpdateStep, Idle

\* Every step keeps the types of the histories.
LEMMA NextHistoryTypes == TypeOK /\ Shape /\ [Next]_vars => HistoryTypes'
<1> SUFFICES ASSUME TypeOK, Shape, [Next]_vars PROVE HistoryTypes'
  OBVIOUS
<1>1. ASSUME NEW h \in Requests, FindByEmail(h) PROVE HistoryTypes'
  BY <1>1, <1>1, BeginHistory DEF FindByEmail, TypeOK, Kinds
<1>2. ASSUME NEW h \in Requests, Compare(h) PROVE HistoryTypes'
  BY <1>2 DEF TypeOK, UserTypes, RequestTypes, HistoryTypes, Compare, Refuse, Reply, users,
     inputs, history
<1>3. ASSUME NEW h \in Requests, FindForReset(h) PROVE HistoryTypes'
  BY <1>3, <1>3, BeginHistory DEF FindForReset, TypeOK, Kinds
<1>4. ASSUME NEW h \in Requests, VerifyRecovery(h) PROVE HistoryTypes'
  <2>1. CASE Refuse(h) /\ Quiet
    BY <2>1 DEF Quiet, history, TypeOK, HistoryTypes
  <2>2. CASE ~(Refuse(h) /\ Quiet)
    <3>1. PICK t \in tokens, p \in Passwords : Begin(h, "restore", t.user, t.user, p)
      BY <1>4, <2>2 DEF VerifyRecovery
    <3>2. t.user \in Ids /\ "restore" \in Kinds
      BY DEF TypeOK, UserTypes, Tokens, Kinds
    <3> QED BY <3>1, <3>2, BeginHistory DEF TypeOK
  <2> QED BY <2>1, <2>2
<1>5. ASSUME NEW h \in Requests, Reads(h) PROVE HistoryTypes'
  BY <1>5, OnlyReads DEF TypeOK, HistoryTypes, Guarded, Quiet, users, inputs, history
<1>6. ASSUME NEW h \in Requests, VerifyToken(h) PROVE HistoryTypes'
  <2>1. CASE Refuse(h) /\ Quiet
    BY <2>1 DEF Quiet, history, TypeOK, HistoryTypes
  <2>2. CASE ~(Refuse(h) /\ Quiet)
    <3>1. PICK t \in tokens, k \in Guarded, o \in Ids, p \in Passwords \cup {None} :
            Begin(h, k, t.user, o, p)
      BY <1>6, <2>2 DEF VerifyToken
    <3>2. t.user \in Ids /\ k \in Kinds
      BY DEF TypeOK, UserTypes, Tokens, Kinds
    <3> QED BY <3>1, <3>2, BeginHistory DEF TypeOK
  <2> QED BY <2>1, <2>2
<1>7. ASSUME NEW h \in Requests, UpdateOne(h) PROVE HistoryTypes'
  <2>1. chosen' \in [Ids -> Passwords] /\ stored' \subseteq Ids
    BY <1>7, NextUserTypes DEF UserTypes, TypeOK, Next, UpdateStep
  <2>2. had' \in [Requests -> SUBSET (Passwords \cup {None})]
    <3>1. ASSUME NEW g \in Requests
          PROVE  Current(subject[g])' \in Passwords \cup {None}
      BY <1>7, <2>1, <3>1 DEF Current, UpdateOne, inputs
    <3> QED BY <1>7, <3>1 DEF UpdateOne, Witness, TypeOK, HistoryTypes
  <2>3. applied' \in [Requests -> BOOLEAN] /\ UNCHANGED <<reborn, erased, shown>>
    BY <1>7 DEF UpdateOne, TypeOK, HistoryTypes
  <2>4. entitled' \in [Requests -> BOOLEAN] /\ gone' \in [Requests -> BOOLEAN]
    BY <1>7 DEF UpdateOne, Witness, TypeOK, HistoryTypes
  <2> QED BY <2>2, <2>3, <2>4 DEF TypeOK, HistoryTypes
<1>8. ASSUME NEW h \in Requests, DeleteOne(h) PROVE HistoryTypes'
  BY <1>8 DEF TypeOK, UserTypes, RequestTypes, HistoryTypes, DeleteOne, ReplyLost, Reply,
     inputs, Witness, Current
<1>9. ASSUME NEW h \in Requests, FindOwner(h) PROVE HistoryTypes'
  BY <1>9 DEF TypeOK, UserTypes, RequestTypes, HistoryTypes, FindOwner, Goto, users, inputs
<1>10. ASSUME NEW u \in Ids, Block(u) PROVE HistoryTypes'
  BY <1>10 DEF TypeOK, UserTypes, RequestTypes, HistoryTypes, Block, inputs, Witness,
     Current
<1>11. ASSUME NEW h \in Requests, Insert(h) PROVE HistoryTypes'
  <2>1. chosen' \in [Ids -> Passwords] /\ stored' \subseteq Ids
    BY <1>11, NextUserTypes DEF UserTypes, TypeOK, Next, SignupStep
  <2>2. had' \in [Requests -> SUBSET (Passwords \cup {None})]
    <3>1. ASSUME NEW g \in Requests
          PROVE  Current(subject[g])' \in Passwords \cup {None}
      BY <1>11, <2>1, <3>1 DEF Current, Insert, inputs
    <3> QED BY <1>11, <3>1 DEF Insert, Witness, TypeOK, HistoryTypes
  <2>3. /\ applied' \in [Requests -> BOOLEAN] /\ reborn' \in [Requests -> BOOLEAN]
        /\ UNCHANGED <<erased, shown>>
    BY <1>11 DEF Insert, TypeOK, HistoryTypes
  <2>4. entitled' \in [Requests -> BOOLEAN] /\ gone' \in [Requests -> BOOLEAN]
    BY <1>11 DEF Insert, Witness, TypeOK, HistoryTypes
  <2> QED BY <2>2, <2>3, <2>4 DEF TypeOK, HistoryTypes
<1>12. ASSUME NEW h \in Requests, DbError(h) PROVE HistoryTypes'
  BY <1>12 DEF TypeOK, UserTypes, RequestTypes, HistoryTypes, DbError, ErrorAnswer, Reply,
     Quiet, users, inputs, history
<1>13. CASE UNCHANGED vars
  BY <1>13 DEF TypeOK, UserTypes, RequestTypes, HistoryTypes, vars
<1>14. ASSUME NEW h \in Requests, Register(h) PROVE HistoryTypes'
  BY <1>14, <1>14, BeginHistory DEF Register, TypeOK, Kinds
<1> QED BY <1>1, <1>2, <1>3, <1>4, <1>5, <1>6, <1>7, <1>8, <1>9, <1>10, <1>11, <1>12,
       <1>13, <1>14
       DEF Next, SignupStep, LoginStep, RecoveryStep, GuardedStep, UpdateStep, Idle, Reads


-----------------------------------------------------------------------------
\* The five ways a request begins.
Arrivals(h) ==
  Register(h) \/ FindByEmail(h) \/ FindForReset(h) \/ VerifyRecovery(h) \/ VerifyToken(h)

\* What they have in common.
Arrival(h) ==
  /\ pc[h] = "new"
  /\ UNCHANGED <<stored, hash, blocked, applied, reborn, erased, shown, chosen>>
  /\ \A g \in Requests \ {h} :
       /\ pc'[g] = pc[g] /\ answer'[g] = answer[g] /\ kind'[g] = kind[g]
       /\ subject'[g] = subject[g] /\ object'[g] = object[g] /\ secret'[g] = secret[g]
       /\ seen'[g] = seen[g]
       /\ had'[g] = had[g] /\ entitled'[g] = entitled[g] /\ gone'[g] = gone[g]
  /\ \/ pc'[h] = "done" /\ answer'[h] = "rejected" /\ kind'[h] = "none"
     \/ /\ subject'[h] \in Ids /\ object'[h] \in Ids
        /\ had'[h] = IF kind'[h] = "login" THEN {Current(subject'[h])} ELSE {}
        /\ entitled'[h] <=> kind'[h] \in Guarded /\ subject'[h] \in Active
        /\ gone'[h] <=> kind'[h] = "profile" /\ subject'[h] \notin stored
        /\ \/ /\ pc'[h] = "done" /\ kind'[h] = "login" /\ answer'[h] = "rejected"
              /\ subject'[h] \notin stored /\ secret'[h] \in Passwords
           \/ pc'[h] = "done" /\ kind'[h] = "forgot"
           \/ /\ pc'[h] = "compare" /\ kind'[h] = "login" /\ answer'[h] = "none"
              /\ subject'[h] \in stored /\ secret'[h] \in Passwords
              /\ seen'[h] = hash[subject'[h]]
           \/ /\ pc'[h] = "update" /\ kind'[h] = "restore" /\ answer'[h] = "none"
              /\ secret'[h] \in Passwords
           \/ /\ pc'[h] = "guard" /\ kind'[h] \in Guarded /\ answer'[h] = "none"
              /\ kind'[h] \in {"put", "create"} => secret'[h] \in Passwords
           \/ /\ pc'[h] = "id" /\ kind'[h] = "register" /\ answer'[h] = "none"
              /\ secret'[h] \in Passwords

LEMMA Arrived ==
  ASSUME TypeOK, Shape, NEW h \in Requests, Arrivals(h) PROVE Arrival(h)
<1>1. pc[h] = "new" /\ kind[h] = "none" /\ answer[h] = "none"
  BY DEF Arrivals, Register, FindByEmail, FindForReset, VerifyRecovery, VerifyToken, Shape,
     Serving, Carrying
<1>2. CASE Refuse(h) /\ Quiet
  BY <1>1, <1>2 DEF Arrival, Refuse, Reply, Quiet, users, inputs, history, TypeOK,
     RequestTypes
<1>3. CASE FindByEmail(h)
  <2>1. PICK u \in Ids, p \in Passwords :
          /\ Begin(h, "login", u, u, p)
          /\ \/ u \in stored /\ seen' = [seen EXCEPT ![h] = hash[u]] /\ Goto(h, "compare")
             \/ u \notin stored /\ Refuse(h) /\ UNCHANGED seen
    BY <1>3 DEF FindByEmail
  <2>2. CASE Goto(h, "compare")
    <3>1. u \in stored /\ seen' = [seen EXCEPT ![h] = hash[u]] /\ pc' # pc
      BY <1>1, <2>1, <2>2 DEF Goto, Refuse, Reply, TypeOK, RequestTypes
    <3> QED BY <1>1, <2>1, <2>2, <3>1 DEF Arrival, Begin, Goto, users, TypeOK, RequestTypes,
               HistoryTypes
  <2>3. CASE u \notin stored /\ Refuse(h) /\ UNCHANGED seen
    BY <1>1, <2>1, <2>3 DEF Arrival, Begin, Refuse, Reply, users, TypeOK, RequestTypes,
       HistoryTypes
  <2> QED BY <2>1, <2>2, <2>3
<1>4. CASE FindForReset(h)
  <2>1. PICK u \in Ids :
          /\ Begin(h, "forgot", u, u, None) /\ UNCHANGED seen
          /\ Reply(h, "ok") \/ Refuse(h)
    BY <1>4 DEF FindForReset
  <2>2. pc' = [pc EXCEPT ![h] = "done"] /\ \E a \in Answers : answer' = [answer EXCEPT
  ![h] = a]
    BY <2>1 DEF Refuse, Reply, Answers
  <2> QED BY <1>1, <2>1, <2>2 DEF Arrival, Begin, users, TypeOK, RequestTypes, HistoryTypes
<1>5. CASE VerifyRecovery(h) /\ ~(Refuse(h) /\ Quiet)
  <2>1. PICK t \in tokens, p \in Passwords :
          Begin(h, "restore", t.user, t.user, p) /\ Goto(h, "update") /\ UNCHANGED seen
    BY <1>5 DEF VerifyRecovery
  <2>2. t.user \in Ids
    BY DEF TypeOK, UserTypes, Tokens
  <2> QED BY <1>1, <2>1, <2>2 DEF Arrival, Begin, Goto, users, TypeOK, RequestTypes,
             HistoryTypes
<1>6. CASE VerifyToken(h) /\ ~(Refuse(h) /\ Quiet)
  <2>1. PICK t \in tokens, k \in Guarded, o \in Ids, p \in Passwords \cup {None} :
          /\ (k \in {"put", "create"}) <=> (p # None)
          /\ Begin(h, k, t.user, o, p) /\ Goto(h, "guard") /\ UNCHANGED seen
    BY <1>6 DEF VerifyToken
  <2>2. t.user \in Ids
    BY DEF TypeOK, UserTypes, Tokens
  <2> QED BY <1>1, <2>1, <2>2 DEF Arrival, Begin, Goto, users, TypeOK, RequestTypes,
             HistoryTypes
<1>7. CASE Register(h)
  <2>1. PICK o \in Ids, p \in Passwords :
          Begin(h, "register", o, o, p) /\ Goto(h, "id") /\ UNCHANGED seen
    BY <1>7 DEF Register
  <2> QED BY <1>1, <2>1 DEF Arrival, Begin, Goto, users, TypeOK, RequestTypes, HistoryTypes,
             Guarded
<1> QED BY <1>2, <1>3, <1>4, <1>5, <1>6, <1>7 DEF Arrivals

\* Every step keeps the shape of the requests.
LEMMA NextShape == TypeOK /\ Shape /\ [Next]_vars => Shape'
<1> SUFFICES ASSUME TypeOK, Shape, [Next]_vars PROVE Shape'
  OBVIOUS
<1>1. ASSUME NEW h \in Requests, Arrivals(h) PROVE Shape'
  <2>1. Arrival(h)
    BY <1>1, Arrived
  <2>2. ASSUME NEW g \in Requests, g # h PROVE Serving(g)' /\ Carrying(g)'
    BY <2>1, <2>2 DEF Arrival, Shape, Serving, Carrying, Running
  <2>3. Serving(h)' /\ Carrying(h)'
    BY <2>1 DEF Arrival, Serving, Carrying, Running, Guarded, Signup
  <2> QED BY <2>2, <2>3 DEF Shape
<1>2. ASSUME NEW h \in Requests, Compare(h) PROVE Shape'
  BY <1>2 DEF TypeOK, UserTypes, RequestTypes, Shape, Serving, Carrying, Running, Compare,
     Refuse, Reply, users, inputs, history
<1>3. ASSUME NEW h \in Requests, ValidatePayload(h) PROVE Shape'
  <2>1. kind[h] \in Guarded /\ pc[h] = "guard"
    BY <1>3 DEF ValidatePayload, Shape, Serving
  <2>2. CASE Refuse(h) /\ Quiet
    BY <2>2 DEF Shape, Serving, Carrying, Running, TypeOK, RequestTypes, Refuse, Reply,
       Quiet, inputs
  <2>3. CASE Goto(h, First(kind[h])) /\ Quiet
    BY <2>1, <2>3 DEF Shape, Serving, Carrying, Running, TypeOK, RequestTypes, First, Goto,
       Quiet, inputs, Guarded, Signup
  <2> QED BY <1>3, <2>2, <2>3 DEF ValidatePayload
<1>4. ASSUME NEW h \in Requests, FindMe(h) PROVE Shape'
  BY <1>4 DEF TypeOK, UserTypes, RequestTypes, Shape, Serving, Carrying, Running, FindMe,
     Refuse, Reply, Quiet, users, inputs, history
<1>5. ASSUME NEW h \in Requests, FindUser(h) PROVE Shape'
  BY <1>5 DEF TypeOK, UserTypes, RequestTypes, Shape, Serving, Carrying, Running, FindUser,
     Goto, Refuse, Reply, Quiet, users, inputs, history
<1>6. ASSUME NEW h \in Requests, CheckEmail(h) PROVE Shape'
  BY <1>6 DEF TypeOK, UserTypes, RequestTypes, Shape, Serving, Carrying, Running,
     CheckEmail, Goto, Refuse, Reply, Quiet, users, inputs, history
<1>7. ASSUME NEW h \in Requests, UpdateOne(h) PROVE Shape'
  BY <1>7 DEF TypeOK, UserTypes, RequestTypes, Shape, Serving, Carrying, Running, UpdateOne,
     Goto, ReplyLost, Reply, inputs
<1>8. ASSUME NEW h \in Requests, Reread(h) PROVE Shape'
  BY <1>8 DEF TypeOK, UserTypes, RequestTypes, Shape, Serving, Carrying, Running, Reread,
     Refuse, Reply, Quiet, users, inputs, history
<1>9. ASSUME NEW h \in Requests, RefindUser(h) PROVE Shape'
  BY <1>9 DEF TypeOK, UserTypes, RequestTypes, Shape, Serving, Carrying, Running,
     RefindUser, Goto, Refuse, Reply, Quiet, users, inputs, history
<1>10. ASSUME NEW h \in Requests, DeleteOne(h) PROVE Shape'
  BY <1>10 DEF TypeOK, UserTypes, RequestTypes, Shape, Serving, Carrying, Running,
     DeleteOne, ReplyLost, Reply, inputs
<1>11. ASSUME NEW h \in Requests, FindCustomer(h) PROVE Shape'
  BY <1>11 DEF TypeOK, UserTypes, RequestTypes, Shape, Serving, Carrying, Running,
     FindCustomer, Goto, Refuse, Reply, Quiet, users, inputs, history
<1>12. ASSUME NEW h \in Requests, FindOwner(h) PROVE Shape'
  BY <1>12 DEF TypeOK, UserTypes, RequestTypes, Shape, Serving, Carrying, Running,
     FindOwner, Goto, users, inputs
<1>13. ASSUME NEW h \in Requests, FindWallet(h) PROVE Shape'
  BY <1>13 DEF TypeOK, UserTypes, RequestTypes, Shape, Serving, Carrying, Running,
     FindWallet, Refuse, Reply, Quiet, users, inputs, history
<1>14. ASSUME NEW u \in Ids, Block(u) PROVE Shape'
  BY <1>14 DEF TypeOK, UserTypes, RequestTypes, Shape, Serving, Carrying, Running, Block,
     inputs
<1>15. ASSUME NEW h \in Requests, Insert(h) PROVE Shape'
  BY <1>15 DEF TypeOK, UserTypes, RequestTypes, Shape, Serving, Carrying, Running, Insert,
     ReplyLost, Reply, inputs, Witness
<1>16. ASSUME NEW h \in Requests, DbError(h) PROVE Shape'
  BY <1>16 DEF TypeOK, UserTypes, RequestTypes, Shape, Serving, Carrying, Running, DbError,
     ErrorAnswer, Reply, Quiet, users, inputs, history
<1>17. CASE UNCHANGED vars
  BY <1>17 DEF TypeOK, UserTypes, RequestTypes, Shape, Serving, Carrying, Running, vars
<1>18. ASSUME NEW h \in Requests, FindId(h) PROVE Shape'
  BY <1>18 DEF TypeOK, UserTypes, RequestTypes, Shape, Serving, Carrying, Running, FindId,
     Goto, Refuse, Reply, Quiet, users, inputs, history
<1>19. ASSUME NEW h \in Requests, Duplicate(h) PROVE Shape'
  BY <1>19 DEF TypeOK, UserTypes, RequestTypes, Shape, Serving, Carrying, Running,
     Duplicate, Reply, Quiet, users, inputs, history
<1> QED BY <1>1, <1>2, <1>3, <1>4, <1>5, <1>6, <1>7, <1>8, <1>9, <1>10, <1>11, <1>12, <1>13,
   <1>14, <1>15, <1>16, <1>17, <1>18, <1>19
       DEF Next, SignupStep, LoginStep, RecoveryStep, GuardedStep, UpdateStep, Idle,
       Arrivals

-----------------------------------------------------------------------------
(***************************************************************************)
(* Passwords and logins.                                                   *)
(***************************************************************************)
LEMMA InitLogins == Init => Columns /\ Compared /\ LoginTruthful
BY DEF Init, Columns, Compared, LoginTruthful, Hash

\* Whoever writes a password keeps the column one hash of it.
LEMMA NextColumns == TypeOK /\ Shape /\ Columns /\ [Next]_vars => Columns'
<1> SUFFICES ASSUME TypeOK, Shape, Columns, [Next]_vars PROVE Columns'
  OBVIOUS
<1>1. ASSUME NEW h \in Requests, FindByEmail(h) PROVE Columns'
  BY <1>1 DEF Columns, TypeOK, UserTypes, RequestTypes, HistoryTypes, FindByEmail, Begin,
     Goto, Refuse, Reply, users
<1>2. ASSUME NEW h \in Requests, Compare(h) PROVE Columns'
  BY <1>2 DEF Columns, TypeOK, UserTypes, RequestTypes, HistoryTypes, Compare, Refuse,
     Reply, users, inputs, history
<1>3. ASSUME NEW h \in Requests, FindForReset(h) PROVE Columns'
  BY <1>3 DEF Columns, TypeOK, UserTypes, RequestTypes, HistoryTypes, FindForReset, Begin,
     Refuse, Reply, users
<1>4. ASSUME NEW h \in Requests, VerifyRecovery(h) PROVE Columns'
  BY <1>4 DEF Columns, TypeOK, UserTypes, RequestTypes, HistoryTypes, VerifyRecovery, Begin,
     Goto, Refuse, Reply, Quiet, users, inputs, history
<1>5. ASSUME NEW h \in Requests, Reads(h) PROVE Columns'
  BY <1>5, OnlyReads DEF Columns, Guarded, Quiet, users, inputs, history
<1>6. ASSUME NEW h \in Requests, VerifyToken(h) PROVE Columns'
  BY <1>6 DEF Columns, TypeOK, UserTypes, RequestTypes, HistoryTypes, VerifyToken, Begin,
     Goto, Refuse, Reply, Quiet, users, inputs, history
<1>7. ASSUME NEW h \in Requests, UpdateOne(h) PROVE Columns'
  BY <1>7 DEF Columns, TypeOK, UserTypes, RequestTypes, HistoryTypes, UpdateOne, Goto,
     ReplyLost, Reply, inputs, SetsPassword, Column, Shape, Serving, Carrying, Running
<1>8. ASSUME NEW h \in Requests, DeleteOne(h) PROVE Columns'
  BY <1>8 DEF Columns, TypeOK, UserTypes, RequestTypes, HistoryTypes, DeleteOne, ReplyLost,
     Reply, inputs
<1>9. ASSUME NEW h \in Requests, FindOwner(h) PROVE Columns'
  BY <1>9 DEF Columns, TypeOK, UserTypes, RequestTypes, HistoryTypes, FindOwner, Goto,
     users, inputs
<1>10. ASSUME NEW u \in Ids, Block(u) PROVE Columns'
  BY <1>10 DEF Columns, TypeOK, UserTypes, RequestTypes, HistoryTypes, Block, inputs
<1>11. ASSUME NEW h \in Requests, Insert(h) PROVE Columns'
  BY <1>11 DEF Columns, TypeOK, UserTypes, RequestTypes, HistoryTypes, Insert, ReplyLost,
     Reply, inputs, Witness
<1>12. ASSUME NEW h \in Requests, DbError(h) PROVE Columns'
  BY <1>12 DEF Columns, TypeOK, UserTypes, RequestTypes, HistoryTypes, DbError, ErrorAnswer,
     Reply, Quiet, users, inputs, history
<1>13. CASE UNCHANGED vars
  BY <1>13 DEF Columns, TypeOK, UserTypes, RequestTypes, HistoryTypes, vars
<1>14. ASSUME NEW h \in Requests, Register(h) PROVE Columns'
  BY <1>14 DEF Columns, TypeOK, UserTypes, RequestTypes, HistoryTypes, Register, Begin,
     Goto, users
<1> QED BY <1>1, <1>2, <1>3, <1>4, <1>5, <1>6, <1>7, <1>8, <1>9, <1>10, <1>11, <1>12,
       <1>13, <1>14
       DEF Next, SignupStep, LoginStep, RecoveryStep, GuardedStep, UpdateStep, Idle, Reads

\* What a login compares with was the password of its user meanwhile.
LEMMA NextCompared == TypeOK /\ Shape /\ Columns /\ Compared /\ [Next]_vars => Compared'
<1> SUFFICES ASSUME TypeOK, Shape, Columns, Compared, [Next]_vars PROVE Compared'
  OBVIOUS
<1>1. ASSUME NEW h \in Requests, Arrivals(h) PROVE Compared'
  <2>1. Arrival(h)
    BY <1>1, Arrived
  <2> QED BY <2>1 DEF Arrival, Guarded, Compared, Columns, Current, TypeOK, UserTypes
<1>2. ASSUME NEW h \in Requests, Compare(h) PROVE Compared'
  BY <1>2 DEF Compared, TypeOK, UserTypes, RequestTypes, HistoryTypes, Compare, Refuse,
     Reply, users, inputs, history
<1>3. ASSUME NEW h \in Requests, Reads(h) PROVE Compared'
  BY <1>3, OnlyReads DEF Compared, Guarded, Quiet, users, inputs, history
<1>4. ASSUME NEW h \in Requests, UpdateOne(h) PROVE Compared'
  BY <1>4 DEF Compared, TypeOK, UserTypes, RequestTypes, HistoryTypes, UpdateOne, Goto,
     ReplyLost, Reply, inputs, Witness
<1>5. ASSUME NEW h \in Requests, DeleteOne(h) PROVE Compared'
  BY <1>5 DEF Compared, TypeOK, UserTypes, RequestTypes, HistoryTypes, DeleteOne, ReplyLost,
     Reply, inputs, Witness
<1>6. ASSUME NEW h \in Requests, FindOwner(h) PROVE Compared'
  BY <1>6 DEF Compared, TypeOK, UserTypes, RequestTypes, HistoryTypes, FindOwner, Goto,
     users, inputs
<1>7. ASSUME NEW u \in Ids, Block(u) PROVE Compared'
  BY <1>7 DEF Compared, TypeOK, UserTypes, RequestTypes, HistoryTypes, Block, inputs,
     Witness
<1>8. ASSUME NEW h \in Requests, Insert(h) PROVE Compared'
  BY <1>8 DEF Compared, TypeOK, UserTypes, RequestTypes, HistoryTypes, Insert, ReplyLost,
     Reply, inputs, Witness
<1>9. ASSUME NEW h \in Requests, DbError(h) PROVE Compared'
  BY <1>9 DEF Compared, TypeOK, UserTypes, RequestTypes, HistoryTypes, DbError, ErrorAnswer,
     Reply, Quiet, users, inputs, history
<1>10. CASE UNCHANGED vars
  BY <1>10 DEF Compared, TypeOK, UserTypes, RequestTypes, HistoryTypes, vars
<1> QED BY <1>1, <1>2, <1>3, <1>4, <1>5, <1>6, <1>7, <1>8, <1>9, <1>10
       DEF Next, SignupStep, LoginStep, RecoveryStep, GuardedStep, UpdateStep, Idle,
       Reads, Arrivals

\* Hence a login is answered by a password its user had meanwhile.
LEMMA NextLoginTruthful ==
  TypeOK /\ Shape /\ Compared /\ LoginTruthful /\ [Next]_vars => LoginTruthful'
<1> SUFFICES ASSUME TypeOK, Shape, Compared, LoginTruthful, [Next]_vars PROVE LoginTruthful'
  OBVIOUS
<1>1. ASSUME NEW h \in Requests, Arrivals(h) PROVE LoginTruthful'
  <2>1. Arrival(h)
    BY <1>1, Arrived
  <2> QED BY <2>1 DEF Arrival, Guarded, LoginTruthful, Current
<1>2. ASSUME NEW h \in Requests, Compare(h) PROVE LoginTruthful'
  BY <1>2 DEF LoginTruthful, Shape, Serving, Carrying, Running, TypeOK, UserTypes,
     RequestTypes, HistoryTypes, Compare, Refuse, Reply, users, inputs, history, Compared,
     Matches, Hash
<1>3. ASSUME NEW h \in Requests, Reads(h) PROVE LoginTruthful'
  BY <1>3, OnlyReads DEF LoginTruthful, Guarded, Quiet, users, inputs, history
<1>4. ASSUME NEW h \in Requests, UpdateOne(h) PROVE LoginTruthful'
  BY <1>4 DEF LoginTruthful, Shape, Serving, Carrying, Running, TypeOK, UserTypes,
     RequestTypes, HistoryTypes, UpdateOne, Goto, ReplyLost, Reply, inputs, Witness
<1>5. ASSUME NEW h \in Requests, DeleteOne(h) PROVE LoginTruthful'
  BY <1>5 DEF LoginTruthful, Shape, Serving, Carrying, Running, TypeOK, UserTypes,
     RequestTypes, HistoryTypes, DeleteOne, ReplyLost, Reply, inputs, Witness
<1>6. ASSUME NEW h \in Requests, FindOwner(h) PROVE LoginTruthful'
  BY <1>6 DEF LoginTruthful, TypeOK, RequestTypes, FindOwner, Goto, users, inputs
<1>7. ASSUME NEW u \in Ids, Block(u) PROVE LoginTruthful'
  BY <1>7 DEF LoginTruthful, Shape, Serving, Carrying, Running, TypeOK, UserTypes,
     RequestTypes, HistoryTypes, Block, inputs, Witness
<1>8. ASSUME NEW h \in Requests, Insert(h) PROVE LoginTruthful'
  <2>1. kind[h] # "login"
    BY <1>8 DEF Insert, Shape, Serving, Signup
  <2>2. ASSUME NEW g \in Requests, g # h PROVE answer'[g] = answer[g]
    BY <1>8, <2>2 DEF Insert, ReplyLost, Reply, TypeOK, RequestTypes
  <2>3. ASSUME NEW g \in Requests, answer'[g] # "none", g # h PROVE had'[g] = had[g]
    BY <1>8, <2>2, <2>3 DEF Insert, Witness, Shape, Carrying, TypeOK, HistoryTypes
  <2>4. ASSUME NEW g \in Requests, kind[g] = "login", answer'[g] \in {"ok", "rejected"}
        PROVE  g # h /\ answer'[g] = answer[g] /\ had'[g] = had[g]
    BY <2>1, <2>2, <2>3, <2>4
  <2> QED BY <1>8, <2>4 DEF Insert, inputs, LoginTruthful
<1>9. ASSUME NEW h \in Requests, DbError(h) PROVE LoginTruthful'
  BY <1>9, ErrorEnds DEF Quiet, users, inputs, history, LoginTruthful
<1>10. CASE UNCHANGED vars
  BY <1>10 DEF LoginTruthful, Shape, Serving, Carrying, Running, TypeOK, UserTypes,
     RequestTypes, HistoryTypes, vars
<1> QED BY <1>1, <1>2, <1>3, <1>4, <1>5, <1>6, <1>7, <1>8, <1>9, <1>10
       DEF Next, SignupStep, LoginStep, RecoveryStep, GuardedStep, UpdateStep, Idle,
       Reads, Arrivals

-----------------------------------------------------------------------------
(***************************************************************************)
(* Calls behind the guard.                                                 *)
(***************************************************************************)
LEMMA InitCalls == Init => /\ Admitted /\ ServedIfEntitled /\ Updated /\ UpdateIsTruthful
                           /\ Noticed /\ StaysDeleted /\ RegisteredOnce
BY DEF Init, Admitted, StaysDeleted, RegisteredOnce, Signup, ServedIfEntitled, Updated,
   UpdateIsTruthful, Noticed, Running

\* No call passes the guard without its user having been active.
LEMMA NextAdmitted == TypeOK /\ Shape /\ Admitted /\ [Next]_vars => Admitted'
<1> SUFFICES ASSUME TypeOK, Shape, Admitted, [Next]_vars PROVE Admitted'
  OBVIOUS
<1>1. ASSUME NEW h \in Requests, Arrivals(h) PROVE Admitted'
  <2>1. Arrival(h)
    BY <1>1, Arrived
  <2> QED BY <2>1 DEF Arrival, Guarded, Admitted, Running, Active
<1>2. ASSUME NEW h \in Requests, Compare(h) PROVE Admitted'
  <2>1. pc[h] # "new" /\ pc'[h] = "done" /\ UNCHANGED <<users, inputs, history>>
    BY <1>2 DEF Compare, Refuse, Reply, TypeOK, RequestTypes
  <2>2. \A g \in Requests \ {h} : pc'[g] = pc[g]
    BY <1>2 DEF Compare, Refuse, Reply, TypeOK, RequestTypes
  <2> QED BY <2>1, <2>2 DEF Admitted, Active, Running, users, inputs, history
<1>3. ASSUME NEW h \in Requests, Reads(h) PROVE Admitted'
  BY <1>3, OnlyReads DEF Admitted, Running, Active, Guarded, Quiet, users, inputs, history
<1>4. ASSUME NEW h \in Requests, UpdateOne(h) PROVE Admitted'
  BY <1>4 DEF Admitted, Active, Shape, Serving, Carrying, Running, TypeOK, UserTypes,
     RequestTypes, HistoryTypes, UpdateOne, Goto, ReplyLost, Reply, inputs, Witness
<1>5. ASSUME NEW h \in Requests, DeleteOne(h) PROVE Admitted'
  BY <1>5 DEF Admitted, Active, Shape, Serving, Carrying, Running, TypeOK, UserTypes,
     RequestTypes, HistoryTypes, DeleteOne, ReplyLost, Reply, inputs, Witness
<1>6. ASSUME NEW h \in Requests, FindOwner(h) PROVE Admitted'
  BY <1>6 DEF Admitted, Active, Shape, Serving, Carrying, Running, TypeOK, UserTypes,
     RequestTypes, HistoryTypes, FindOwner, Goto, users, inputs
<1>7. ASSUME NEW u \in Ids, Block(u) PROVE Admitted'
  BY <1>7 DEF Admitted, Active, Shape, Serving, Carrying, Running, TypeOK, UserTypes,
     RequestTypes, HistoryTypes, Block, inputs, Witness
<1>8. ASSUME NEW h \in Requests, Insert(h) PROVE Admitted'
  <2>1. pc[h] = "insert" /\ pc'[h] = "done"
    BY <1>8 DEF Insert, ReplyLost, Reply, TypeOK, RequestTypes
  <2>2. \A g \in Requests \ {h} : pc'[g] = pc[g] /\ applied'[g] = applied[g]
    BY <1>8 DEF Insert, ReplyLost, Reply, TypeOK, RequestTypes, HistoryTypes
  <2>3. \A g \in Requests : entitled[g] => entitled'[g]
    BY <1>8 DEF Insert, Witness
  <2>4. ASSUME NEW g \in Requests, Running(g)', kind[g] \in Guarded, subject[g] \in Active'
        PROVE  entitled'[g]
    BY <1>8, <2>1, <2>2, <2>4 DEF Insert, Witness, inputs, Running
  <2> QED BY <1>8, <2>1, <2>2, <2>3, <2>4 DEF Insert, inputs, Admitted, Running
<1>9. ASSUME NEW h \in Requests, DbError(h) PROVE Admitted'
  BY <1>9, ErrorEnds DEF Quiet, users, inputs, history, Admitted, Running, Active
<1>10. CASE UNCHANGED vars
  BY <1>10 DEF Admitted, Active, Shape, Serving, Carrying, Running, TypeOK, UserTypes,
     RequestTypes, HistoryTypes, vars
<1> QED BY <1>1, <1>2, <1>3, <1>4, <1>5, <1>6, <1>7, <1>8, <1>9, <1>10
       DEF Next, SignupStep, LoginStep, RecoveryStep, GuardedStep, UpdateStep, Idle,
       Reads, Arrivals

\* Hence none is served.
LEMMA NextServed ==
  TypeOK /\ Shape /\ Admitted /\ ServedIfEntitled /\ [Next]_vars => ServedIfEntitled'
<1> SUFFICES ASSUME TypeOK, Shape, Admitted, ServedIfEntitled, [Next]_vars
             PROVE  ServedIfEntitled'
  OBVIOUS
<1>1. ASSUME NEW h \in Requests, Arrivals(h) PROVE ServedIfEntitled'
  <2>1. Arrival(h)
    BY <1>1, Arrived
  <2> QED BY <2>1 DEF Arrival, Guarded, ServedIfEntitled, Admitted
<1>2. ASSUME NEW h \in Requests, Compare(h) PROVE ServedIfEntitled'
  BY <1>2 DEF ServedIfEntitled, Admitted, Shape, Serving, Carrying, Running, TypeOK,
     UserTypes, RequestTypes, HistoryTypes, Compare, Refuse, Reply, users, inputs, history
<1>3. ASSUME NEW h \in Requests, Reads(h) PROVE ServedIfEntitled'
  BY <1>3, OnlyReads DEF ServedIfEntitled, Admitted, Running, Guarded, Quiet, users, inputs,
     history
<1>4. ASSUME NEW h \in Requests, UpdateOne(h) PROVE ServedIfEntitled'
  <2>1. ASSUME NEW g \in Requests, kind'[g] \in Guarded,
             answer'[g] = "ok" \/ applied'[g]
      PROVE  entitled'[g]
    <3>1. CASE g = h
      BY <1>4, <2>1, <3>1 DEF UpdateOne, Goto, ReplyLost, Reply, inputs, Witness, Admitted,
         Shape, Carrying, Running, TypeOK, RequestTypes, HistoryTypes
    <3>2. CASE g # h
      BY <1>4, <2>1, <3>2 DEF UpdateOne, Goto, ReplyLost, Reply, inputs, Witness,
         ServedIfEntitled, TypeOK, RequestTypes, HistoryTypes
    <3> QED BY <3>1, <3>2
  <2> QED BY <2>1 DEF ServedIfEntitled
<1>5. ASSUME NEW h \in Requests, DeleteOne(h) PROVE ServedIfEntitled'
  BY <1>5 DEF ServedIfEntitled, Admitted, Shape, Serving, Carrying, Running, TypeOK,
     UserTypes, RequestTypes, HistoryTypes, DeleteOne, ReplyLost, Reply, inputs, Witness
<1>6. ASSUME NEW h \in Requests, FindOwner(h) PROVE ServedIfEntitled'
  BY <1>6 DEF ServedIfEntitled, Admitted, Shape, Serving, Carrying, Running, TypeOK,
     UserTypes, RequestTypes, HistoryTypes, FindOwner, Goto, users, inputs
<1>7. ASSUME NEW u \in Ids, Block(u) PROVE ServedIfEntitled'
  BY <1>7 DEF ServedIfEntitled, Admitted, Shape, Serving, Carrying, Running, TypeOK,
     UserTypes, RequestTypes, HistoryTypes, Block, inputs, Witness
<1>8. ASSUME NEW h \in Requests, Insert(h) PROVE ServedIfEntitled'
  BY <1>8 DEF ServedIfEntitled, Admitted, Shape, Serving, Carrying, Running, TypeOK,
     UserTypes, RequestTypes, HistoryTypes, Insert, ReplyLost, Reply, inputs, Witness
<1>9. ASSUME NEW h \in Requests, DbError(h) PROVE ServedIfEntitled'
  BY <1>9, ErrorEnds DEF Quiet, users, inputs, history, ServedIfEntitled, Guarded
<1>10. CASE UNCHANGED vars
  BY <1>10 DEF ServedIfEntitled, Admitted, Shape, Serving, Carrying, Running, TypeOK,
     UserTypes, RequestTypes, HistoryTypes, vars
<1> QED BY <1>1, <1>2, <1>3, <1>4, <1>5, <1>6, <1>7, <1>8, <1>9, <1>10
       DEF Next, SignupStep, LoginStep, RecoveryStep, GuardedStep, UpdateStep, Idle,
       Reads, Arrivals

\* The row an update wrote is there until somebody deletes it.
LEMMA NextUpdated == TypeOK /\ Shape /\ Updated /\ [Next]_vars => Updated'
<1> SUFFICES ASSUME TypeOK, Shape, Updated, [Next]_vars PROVE Updated'
  OBVIOUS
<1>1. ASSUME NEW h \in Requests, Arrivals(h) PROVE Updated'
  <2>1. Arrival(h)
    BY <1>1, Arrived
  <2> QED BY <2>1 DEF Arrival, Guarded, Updated
<1>2. ASSUME NEW h \in Requests, Compare(h) PROVE Updated'
  BY <1>2 DEF Updated, Shape, Serving, Carrying, Running, TypeOK, UserTypes, RequestTypes,
     HistoryTypes, Compare, Refuse, Reply, users, inputs, history
<1>3. ASSUME NEW h \in Requests, Reads(h) PROVE Updated'
  BY <1>3, OnlyReads DEF Updated, Guarded, Quiet, users, inputs, history
<1>4. ASSUME NEW h \in Requests, UpdateOne(h) PROVE Updated'
  <2>1. \A g \in Requests : applied[g] => applied'[g]
    BY <1>4 DEF UpdateOne, TypeOK, HistoryTypes
  <2>2. applied'[h] \/ object[h] \notin stored
    BY <1>4 DEF UpdateOne, TypeOK, HistoryTypes
  <2>3. \A g \in Requests \ {h} : pc'[g] = pc[g]
    BY <1>4 DEF UpdateOne, Goto, ReplyLost, Reply, TypeOK, RequestTypes
  <2> QED BY <1>4, <2>1, <2>2, <2>3 DEF UpdateOne, Updated, inputs
<1>5. ASSUME NEW h \in Requests, DeleteOne(h) PROVE Updated'
  BY <1>5 DEF Updated, Shape, Serving, Carrying, Running, TypeOK, UserTypes, RequestTypes,
     HistoryTypes, DeleteOne, ReplyLost, Reply, inputs, Witness
<1>6. ASSUME NEW h \in Requests, FindOwner(h) PROVE Updated'
  BY <1>6 DEF Updated, Shape, Serving, Carrying, Running, TypeOK, UserTypes, RequestTypes,
     HistoryTypes, FindOwner, Goto, users, inputs
<1>7. ASSUME NEW u \in Ids, Block(u) PROVE Updated'
  BY <1>7 DEF Updated, Shape, Serving, Carrying, Running, TypeOK, UserTypes, RequestTypes,
     HistoryTypes, Block, inputs, Witness
<1>8. ASSUME NEW h \in Requests, Insert(h) PROVE Updated'
  <2>1. ASSUME NEW g \in Requests, pc'[g] = "reread", kind[g] \in {"patch", "put"}
        PROVE  applied'[g] \/ reborn'[g] \/ object[g] \notin stored'
    <3>1. pc[g] = "reread" /\ g # h
      BY <1>8, <2>1 DEF Insert, ReplyLost, Reply, TypeOK, RequestTypes
    <3>2. CASE object[g] = object[h]
      BY <1>8, <2>1, <3>2 DEF Insert, Changes
    <3>3. CASE object[g] # object[h]
      BY <1>8, <2>1, <3>1, <3>3 DEF Insert, Updated, TypeOK, HistoryTypes
    <3> QED BY <3>2, <3>3
  <2> QED BY <1>8, <2>1 DEF Insert, inputs, Updated
<1>9. ASSUME NEW h \in Requests, DbError(h) PROVE Updated'
  BY <1>9, ErrorEnds DEF Quiet, users, inputs, history, Updated
<1>10. CASE UNCHANGED vars
  BY <1>10 DEF Updated, Shape, Serving, Carrying, Running, TypeOK, UserTypes, RequestTypes,
     HistoryTypes, vars
<1> QED BY <1>1, <1>2, <1>3, <1>4, <1>5, <1>6, <1>7, <1>8, <1>9, <1>10
       DEF Next, SignupStep, LoginStep, RecoveryStep, GuardedStep, UpdateStep, Idle,
       Reads, Arrivals

\* Hence what the second read finds was updated.
LEMMA NextUpdateTruthful ==
  TypeOK /\ Shape /\ Updated /\ UpdateIsTruthful /\ [Next]_vars => UpdateIsTruthful'
<1> SUFFICES ASSUME TypeOK, Shape, Updated, UpdateIsTruthful, [Next]_vars
             PROVE  UpdateIsTruthful'
  OBVIOUS
<1>1. ASSUME NEW h \in Requests, Arrivals(h) PROVE UpdateIsTruthful'
  <2>1. Arrival(h)
    BY <1>1, Arrived
  <2> QED BY <2>1 DEF Arrival, Guarded, UpdateIsTruthful
<1>2. ASSUME NEW h \in Requests, Compare(h) PROVE UpdateIsTruthful'
  BY <1>2 DEF UpdateIsTruthful, Updated, Shape, Serving, Carrying, Running, TypeOK,
     UserTypes, RequestTypes, HistoryTypes, Compare, Refuse, Reply, users, inputs, history
<1>3. ASSUME NEW h \in Requests, Reads(h) PROVE UpdateIsTruthful'
  BY <1>3, OnlyReads DEF UpdateIsTruthful, Updated, Guarded, Quiet, users, inputs, history
<1>4. ASSUME NEW h \in Requests, UpdateOne(h) PROVE UpdateIsTruthful'
  <2>1. ASSUME NEW g \in Requests, answer'[g] = "ok"
        PROVE  g # h /\ answer[g] = "ok"
    BY <1>4, <2>1 DEF UpdateOne, Goto, ReplyLost, Reply, Shape, Carrying, TypeOK,
       RequestTypes
  <2>2. ASSUME NEW g \in Requests, applied[g] PROVE applied'[g]
    BY <1>4, <2>2 DEF UpdateOne, TypeOK, HistoryTypes
  <2> QED BY <1>4, <2>1, <2>2 DEF UpdateOne, UpdateIsTruthful, inputs
<1>5. ASSUME NEW h \in Requests, DeleteOne(h) PROVE UpdateIsTruthful'
  BY <1>5 DEF UpdateIsTruthful, Updated, Shape, Serving, Carrying, Running, TypeOK,
     UserTypes, RequestTypes, HistoryTypes, DeleteOne, ReplyLost, Reply, inputs
<1>6. ASSUME NEW h \in Requests, FindOwner(h) PROVE UpdateIsTruthful'
  BY <1>6 DEF UpdateIsTruthful, Updated, Shape, Serving, Carrying, Running, TypeOK,
     UserTypes, RequestTypes, HistoryTypes, FindOwner, Goto, users, inputs
<1>7. ASSUME NEW u \in Ids, Block(u) PROVE UpdateIsTruthful'
  BY <1>7 DEF UpdateIsTruthful, Updated, Shape, Serving, Carrying, Running, TypeOK,
     UserTypes, RequestTypes, HistoryTypes, Block, inputs
<1>8. ASSUME NEW h \in Requests, Insert(h) PROVE UpdateIsTruthful'
  BY <1>8 DEF UpdateIsTruthful, Updated, Shape, Serving, Carrying, Running, TypeOK,
     UserTypes, RequestTypes, HistoryTypes, Insert, ReplyLost, Reply, inputs, Witness
<1>9. ASSUME NEW h \in Requests, DbError(h) PROVE UpdateIsTruthful'
  BY <1>9, ErrorEnds DEF Quiet, users, inputs, history, UpdateIsTruthful
<1>10. CASE UNCHANGED vars
  BY <1>10 DEF UpdateIsTruthful, Updated, Shape, Serving, Carrying, Running, TypeOK,
     UserTypes, RequestTypes, HistoryTypes, vars
<1> QED BY <1>1, <1>2, <1>3, <1>4, <1>5, <1>6, <1>7, <1>8, <1>9, <1>10
       DEF Next, SignupStep, LoginStep, RecoveryStep, GuardedStep, UpdateStep, Idle,
       Reads, Arrivals

\* A call notices the deletion of its user.
LEMMA NextNoticed == TypeOK /\ Shape /\ Noticed /\ [Next]_vars => Noticed'
<1> SUFFICES ASSUME TypeOK, Shape, Noticed, [Next]_vars PROVE Noticed'
  OBVIOUS
<1>1. ASSUME NEW h \in Requests, Arrivals(h) PROVE Noticed'
  <2>1. Arrival(h)
    BY <1>1, Arrived
  <2> QED BY <2>1 DEF Arrival, Guarded, Noticed, Running
<1>2. ASSUME NEW h \in Requests, Compare(h) PROVE Noticed'
  BY <1>2 DEF Noticed, Running, TypeOK, RequestTypes, HistoryTypes, Compare, Refuse, Reply,
     users, inputs, history
<1>3. ASSUME NEW h \in Requests, Reads(h) PROVE Noticed'
  BY <1>3, OnlyReads DEF Noticed, Running, Guarded, Quiet, users, inputs, history
<1>4. ASSUME NEW h \in Requests, UpdateOne(h) PROVE Noticed'
  BY <1>4 DEF Noticed, Shape, Serving, Carrying, Running, TypeOK, UserTypes, RequestTypes,
     HistoryTypes, UpdateOne, Goto, ReplyLost, Reply, inputs, Witness
<1>5. ASSUME NEW h \in Requests, DeleteOne(h) PROVE Noticed'
  BY <1>5 DEF Noticed, Shape, Serving, Carrying, Running, TypeOK, UserTypes, RequestTypes,
     HistoryTypes, DeleteOne, ReplyLost, Reply, inputs, Witness
<1>6. ASSUME NEW h \in Requests, FindOwner(h) PROVE Noticed'
  BY <1>6 DEF Noticed, Shape, Serving, Carrying, Running, TypeOK, UserTypes, RequestTypes,
     HistoryTypes, FindOwner, Goto, users, inputs
<1>7. ASSUME NEW u \in Ids, Block(u) PROVE Noticed'
  BY <1>7 DEF Noticed, Shape, Serving, Carrying, Running, TypeOK, UserTypes, RequestTypes,
     HistoryTypes, Block, inputs, Witness
<1>8. ASSUME NEW h \in Requests, Insert(h) PROVE Noticed'
  BY <1>8 DEF Noticed, Shape, Serving, Carrying, Running, TypeOK, UserTypes, RequestTypes,
     HistoryTypes, Insert, ReplyLost, Reply, inputs, Witness
<1>9. ASSUME NEW h \in Requests, DbError(h) PROVE Noticed'
  BY <1>9, ErrorEnds DEF Quiet, users, inputs, history, Noticed, Running
<1>10. CASE UNCHANGED vars
  BY <1>10 DEF Noticed, Shape, Serving, Carrying, Running, TypeOK, UserTypes, RequestTypes,
     HistoryTypes, vars
<1> QED BY <1>1, <1>2, <1>3, <1>4, <1>5, <1>6, <1>7, <1>8, <1>9, <1>10
       DEF Next, SignupStep, LoginStep, RecoveryStep, GuardedStep, UpdateStep, Idle,
       Reads, Arrivals

\* Only a registration brings a row back.
LEMMA NextDeleted ==
  TypeOK /\ Shape /\ Admitted /\ StaysDeleted /\ [Next]_vars => StaysDeleted'
<1> SUFFICES ASSUME TypeOK, Shape, Admitted, StaysDeleted, [Next]_vars PROVE StaysDeleted'
  OBVIOUS
<1>1. ASSUME NEW h \in Requests, Arrivals(h) PROVE StaysDeleted'
  <2>1. Arrival(h)
    BY <1>1, Arrived
  <2> QED BY <2>1 DEF Arrival, Guarded, Signup, StaysDeleted, Admitted
<1>2. ASSUME NEW h \in Requests, Compare(h) PROVE StaysDeleted'
  BY <1>2 DEF StaysDeleted, Shape, Serving, Carrying, Running, TypeOK, UserTypes,
     RequestTypes, HistoryTypes, Signup, Compare, Refuse, Reply, users, inputs, history
<1>3. ASSUME NEW h \in Requests, Reads(h) PROVE StaysDeleted'
  BY <1>3, OnlyReads DEF StaysDeleted, Guarded, Signup, Quiet, users, inputs, history
<1>4. ASSUME NEW h \in Requests, UpdateOne(h) PROVE StaysDeleted'
  <2>1. kind[h] # "delete"
    BY <1>4 DEF UpdateOne, Shape, Serving
  <2>2. \A g \in Requests \ {h} : applied'[g] = applied[g]
    BY <1>4 DEF UpdateOne, TypeOK, HistoryTypes
  <2> QED BY <1>4, <2>1, <2>2 DEF UpdateOne, inputs, StaysDeleted
<1>5. ASSUME NEW h \in Requests, DeleteOne(h) PROVE StaysDeleted'
  BY <1>5 DEF StaysDeleted, Shape, Serving, Carrying, Running, TypeOK, UserTypes,
     RequestTypes, HistoryTypes, Signup, DeleteOne, ReplyLost, Reply, inputs
<1>6. ASSUME NEW h \in Requests, FindOwner(h) PROVE StaysDeleted'
  BY <1>6 DEF StaysDeleted, Shape, Serving, Carrying, Running, TypeOK, UserTypes,
     RequestTypes, HistoryTypes, Signup, FindOwner, Goto, users, inputs
<1>7. ASSUME NEW u \in Ids, Block(u) PROVE StaysDeleted'
  BY <1>7 DEF StaysDeleted, Shape, Serving, Carrying, Running, TypeOK, UserTypes,
     RequestTypes, HistoryTypes, Block, inputs
<1>8. ASSUME NEW h \in Requests, Insert(h) PROVE StaysDeleted'
  BY <1>8 DEF StaysDeleted, Shape, Serving, Carrying, Running, TypeOK, UserTypes,
     RequestTypes, HistoryTypes, Signup, Changes, Insert, ReplyLost, Reply, inputs
<1>9. ASSUME NEW h \in Requests, DbError(h) PROVE StaysDeleted'
  BY <1>9, ErrorEnds DEF Quiet, users, inputs, history, Signup, StaysDeleted
<1>10. CASE UNCHANGED vars
  BY <1>10 DEF StaysDeleted, vars
<1> QED BY <1>1, <1>2, <1>3, <1>4, <1>5, <1>6, <1>7, <1>8, <1>9, <1>10
       DEF Next, SignupStep, LoginStep, RecoveryStep, GuardedStep, UpdateStep, Idle,
       Reads, Arrivals

\* The row of a registration keeps others from its id until it is deleted.
LEMMA NextRegistered ==
  TypeOK /\ Shape /\ Admitted /\ RegisteredOnce /\ [Next]_vars => RegisteredOnce'
<1> SUFFICES ASSUME TypeOK, Shape, Admitted, RegisteredOnce, [Next]_vars
             PROVE  RegisteredOnce'
  OBVIOUS
<1>1. ASSUME NEW h \in Requests, Arrivals(h) PROVE RegisteredOnce'
  <2>1. Arrival(h)
    BY <1>1, Arrived
  <2> QED BY <2>1 DEF Arrival, Guarded, Signup, RegisteredOnce, Admitted
<1>2. ASSUME NEW h \in Requests, Compare(h) PROVE RegisteredOnce'
  BY <1>2 DEF RegisteredOnce, Shape, Serving, Carrying, Running, TypeOK, UserTypes,
     RequestTypes, HistoryTypes, Signup, Compare, Refuse, Reply, users, inputs, history
<1>3. ASSUME NEW h \in Requests, Reads(h) PROVE RegisteredOnce'
  BY <1>3, OnlyReads DEF RegisteredOnce, Guarded, Signup, Quiet, users, inputs, history
<1>4. ASSUME NEW h \in Requests, UpdateOne(h) PROVE RegisteredOnce'
  <2>1. kind[h] \notin Signup
    BY <1>4 DEF UpdateOne, Shape, Serving, Signup
  <2>2. \A g \in Requests \ {h} : applied'[g] = applied[g] /\ answer'[g] = answer[g]
    BY <1>4 DEF UpdateOne, Goto, ReplyLost, Reply, TypeOK, RequestTypes, HistoryTypes
  <2> QED BY <1>4, <2>1, <2>2 DEF UpdateOne, inputs, RegisteredOnce
<1>5. ASSUME NEW h \in Requests, DeleteOne(h) PROVE RegisteredOnce'
  BY <1>5 DEF RegisteredOnce, Shape, Serving, Carrying, Running, TypeOK, UserTypes,
     RequestTypes, HistoryTypes, Signup, DeleteOne, ReplyLost, Reply, inputs
<1>6. ASSUME NEW h \in Requests, FindOwner(h) PROVE RegisteredOnce'
  BY <1>6 DEF RegisteredOnce, Shape, Serving, Carrying, Running, TypeOK, UserTypes,
     RequestTypes, HistoryTypes, Signup, FindOwner, Goto, users, inputs
<1>7. ASSUME NEW u \in Ids, Block(u) PROVE RegisteredOnce'
  BY <1>7 DEF RegisteredOnce, Shape, Serving, Carrying, Running, TypeOK, UserTypes,
     RequestTypes, HistoryTypes, Block, inputs
<1>8. ASSUME NEW h \in Requests, Insert(h) PROVE RegisteredOnce'
  BY <1>8 DEF RegisteredOnce, Shape, Serving, Carrying, Running, TypeOK, UserTypes,
     RequestTypes, HistoryTypes, Signup, Changes, Insert, ReplyLost, Reply, inputs
<1>9. ASSUME NEW h \in Requests, DbError(h) PROVE RegisteredOnce'
  BY <1>9, ErrorEnds DEF Quiet, users, inputs, history, Signup, RegisteredOnce
<1>10. CASE UNCHANGED vars
  BY <1>10 DEF RegisteredOnce, vars
<1> QED BY <1>1, <1>2, <1>3, <1>4, <1>5, <1>6, <1>7, <1>8, <1>9, <1>10
       DEF Next, SignupStep, LoginStep, RecoveryStep, GuardedStep, UpdateStep, Idle,
       Reads, Arrivals

-----------------------------------------------------------------------------
(***************************************************************************)
(* The theorems.                                                           *)
(***************************************************************************)
IInv ==
  /\ TypeOK /\ Shape
  /\ Columns /\ Compared /\ LoginTruthful
  /\ Admitted /\ ServedIfEntitled /\ Updated /\ UpdateIsTruthful /\ Noticed
  /\ StaysDeleted /\ RegisteredOnce

LEMMA Inductive == Spec => []IInv
<1>1. Init => IInv
  BY InitShape, InitLogins, InitCalls DEF IInv
<1>2. IInv /\ [Next]_vars => IInv'
  BY NextUserTypes, NextRequestTypes, NextHistoryTypes, NextShape, NextColumns,
     NextCompared, NextLoginTruthful, NextAdmitted, NextServed, NextUpdated,
     NextUpdateTruthful, NextNoticed, NextDeleted, NextRegistered DEF IInv, TypeOK
<1> QED BY <1>1, <1>2, PTL DEF Spec

\* Every behaviour is well typed: no step writes a column, a token or an answer
\* the program cannot hold.
THEOREM TypeCorrect == Spec => []TypeOK
<1>1. IInv => TypeOK
  BY DEF IInv
<1> QED BY <1>1, Inductive, PTL

\* A login is decided by a password its user had while it was handled, however
\* many recoveries, changes and deletions overlap with it (AuthService.login).
THEOREM LoginsTrue == Spec => []LoginTruthful
<1>1. IInv => LoginTruthful
  BY DEF IInv
<1> QED BY <1>1, Inductive, PTL

\* No request is served that never saw its user exist unblocked: validatePayload
\* reads the user again, whatever the token says.
THEOREM ServedEntitled == Spec => []ServedIfEntitled
<1>1. IInv => ServedIfEntitled
  BY DEF IInv
<1> QED BY <1>1, Inductive, PTL

\* 200 to an update means that it found the row, or that the id was registered anew
\* since the request arrived (and read again); 200 to a deletion that it was
\* carried out (UsersService.updateById and deleteById, AuthService.updateByMe).
THEOREM UpdatesTrue == Spec => []UpdateIsTruthful
<1>1. IInv => UpdateIsTruthful
  BY DEF IInv
<1> QED BY <1>1, Inductive, PTL

\* A profile without its owner is answered only if the owner was deleted while
\* the profile was put together (CustomersService.findByUserId).
THEOREM ProfilesComplete == Spec => []ProfileComplete
<1>1. IInv => ProfileComplete
  BY DEF IInv, Noticed, ProfileComplete
<1> QED BY <1>1, Inductive, PTL

\* A deletion lasts until AuthService.register or UsersService.create inserts the
\* id again: no update, recovery or profile change that overlaps brings it back.
THEOREM DeletedStays == Spec => []StaysDeleted
<1>1. IInv => StaysDeleted
  BY DEF IInv
<1> QED BY <1>1, Inductive, PTL

\* However many registrations of an id overlap, it is given to one user, who has
\* it until the row is deleted (AuthService.register, UsersService.create).
THEOREM IdsRegisteredOnce == Spec => []RegisteredOnce
<1>1. IInv => RegisteredOnce
  BY DEF IInv
<1> QED BY <1>1, Inductive, PTL
=============================================================================
