---------------------------- MODULE SignInProofs ----------------------------
(***************************************************************************)
(* The theorem that RefreshTokens implements SignIns: what the tables say  *)
(* of a sign-in moves as SignIns promises, whatever requests interleave.   *)
(***************************************************************************)
EXTENDS RefreshTokensProofs

(* Codes, exchanges and tokens of a sign-in are of one user and one client;  *)
(* the client is known once the code was consumed.                          *)
OwnersOK ==
    /\ \A r \in Requests :
         req[r].op = "Exchange" => req[r].user = code[req[r].code].user
    /\ \A r \in Requests, k \in Codes :
         Spending(req[r], k) => req[r].client = code[k].client
    /\ \A n \in Tokens :
         token[n] # None => /\ token[n].user = code[token[n].code].user
                            /\ token[n].client = code[token[n].code].client
    /\ \A f \in expired : token[f] # None

LEMMA ExchangesOwned ==
    ASSUME FamilyInv, OwnersOK, NEW r \in Requests, Act(r), NEW s \in Requests,
           req'[s].op = "Exchange"
    PROVE  req'[s].user = code'[req'[s].code].user
<1> USE DEF FamilyInv, Types
<1>1. CASE req'[s].op = req[s].op /\ req'[s].user = req[s].user
           /\ req'[s].code = req[s].code
  <2>1. Running(req[s])
    BY <1>1, IdleType DEF RequestsOK
  <2>2. req[s].code \in Codes /\ code[req[s].code] # None
    BY <1>1, <2>1 DEF Running
  <2> QED BY <1>1, <2>2, CodesGrow DEF OwnersOK
<1>2. CASE s = r /\ (Begin(r) \/ BeginToken(r))
  <2>1. PICK q \in ReqState : req' = [req EXCEPT ![r] = q] /\ Starting(q)
    BY <1>2, Beginning
  <2>2. req'[s] = q /\ UNCHANGED code
    BY <1>2, <2>1 DEF TypeOK, Begin, BeginToken, tables
  <2> QED BY <2>1, <2>2 DEF Starting
<1> QED BY <1>1, <1>2, IdleType, RequestsMove

LEMMA SpendingOwned ==
    ASSUME FamilyInv, OwnersOK, NEW r \in Requests, Act(r), NEW s \in Requests,
           NEW k \in Codes, Spending(req'[s], k)
    PROVE  req'[s].client = code'[k].client
<1> USE DEF FamilyInv, Types
<1>1. CASE Spending(req[s], k) /\ req'[s].client = req[s].client
  <2>1. code[k] # None
    BY <1>1, AtStatement DEF Spending, Running
  <2> QED BY <1>1, <2>1, CodesGrow DEF OwnersOK
<1>2. CASE s = r /\ ConsumeAuthorizationCode(r) /\ code[k] # None
  <2>1. ~(Begin(r) \/ BeginToken(r)) /\ req'[r] # Idle
    BY <1>2, Beginning, IdleType DEF Spending, Starting, TypeOK
  <2>2. req'[r].client = req[r].client /\ req[r].code = k
    BY <1>2, <2>1, RequestsMove DEF Spending
  <2>3. ~End(r)
    BY <2>1 DEF End, TypeOK
  <2>4. code[k].client = req[r].client
    BY <1>2, <2>2, <2>3 DEF ConsumeAuthorizationCode
  <2> QED BY <1>2, <2>2, <2>4, CodesGrow
<1>3. CASE s = r
  <2>1. ~(Begin(r) \/ BeginToken(r)) /\ req'[r] # Idle
    BY <1>3, Beginning, IdleType DEF Spending, Starting, TypeOK
  <2> QED BY <1>1, <1>2, <1>3, <2>1, SpendingStep, RequestsMove
<1> QED BY <1>1, <1>3, RequestsMove

LEMMA TokensOwned ==
    ASSUME FamilyInv, OwnersOK, NEW r \in Requests, Act(r), NEW n \in Tokens,
           token'[n] # None
    PROVE  /\ token'[n].user = code'[token'[n].code].user
           /\ token'[n].client = code'[token'[n].code].client
<1> USE DEF FamilyInv, Types
<1>1. ASSUME NEW m \in Tokens, token[m] # None
      PROVE  /\ token[m].code \in Codes /\ code[token[m].code] # None
             /\ token[m].user = code'[token[m].code].user
             /\ token[m].client = code'[token[m].code].client
  <2>1. token[m].code \in Codes /\ code[token[m].code] # None
    BY <1>1 DEF TypeOK, TokenRows, RowsOK
  <2> QED BY <1>1, <2>1, CodesGrow DEF OwnersOK
<1>2. CASE token[n] # None
  BY <1>1, <1>2, TokensGrow
<1>3. CASE /\ CreateRefresh(r) /\ token'[n].code = req[r].code
           /\ token'[n].user = req[r].user /\ token'[n].client = req[r].client
           /\ n = req[r].next
  <2>1. Running(req[r]) /\ req[r].op = "Exchange" /\ req[r].pc = "create"
    BY <1>3, Creation, ConstantsAssumption
  <2>2. /\ req[r].code \in Codes /\ code[req[r].code] # None
        /\ Spending(req[r], req[r].code)
    BY <2>1 DEF Running, Spending
  <2> QED BY <1>3, <2>1, <2>2, CodesGrow DEF OwnersOK
<1>4. CASE /\ CommitRotation(r) /\ token'[n].code = token[req[r].key].code
           /\ token'[n].user = req[r].user
           /\ token'[n].client = token[req[r].key].client
  <2>1. /\ req[r].key \in Tokens /\ token[req[r].key] # None
        /\ token[req[r].key].user = req[r].user
    BY <1>4, Rotation DEF Unspent
  <2> QED BY <1>1, <1>4, <2>1
<1> QED BY <1>2, <1>3, <1>4, NewRows

LEMMA OwnersStep ==
    ASSUME FamilyInv, OwnersOK, NEW r \in Requests, Act(r)
    PROVE  OwnersOK'
<1>1. \A f \in expired' : token'[f] # None
  BY OtherTables, TokensGrow DEF OwnersOK, FamilyInv, Types, TypeOK
<1> QED BY <1>1, ExchangesOwned, SpendingOwned, TokensOwned DEF OwnersOK, Spending

LEMMA ExpiryKeepsOwners ==
    ASSUME FamilyInv, OwnersOK, NEW k \in Codes, ExpireCode(k)
    PROVE  OwnersOK'
<1> USE DEF FamilyInv, Types
<1>1. /\ UNCHANGED <<token, expired, req>>
      /\ code' = [code EXCEPT ![k].state = "deleted"]
  BY DEF ExpireCode
<1>2. \A x \in Codes : code[x] # None =>
        code'[x].user = code[x].user /\ code'[x].client = code[x].client
  BY <1>1 DEF TypeOK, CodeRows
<1>3. \A r \in Requests : req[r].op = "Exchange" =>
        req[r].code \in Codes /\ code[req[r].code] # None
  BY IdleType DEF RequestsOK, Running
<1>4. \A n \in Tokens : token[n] # None =>
        token[n].code \in Codes /\ code[token[n].code] # None
  BY DEF TypeOK, TokenRows, RowsOK
<1> QED BY <1>1, <1>2, <1>3, <1>4 DEF OwnersOK, Spending

LEMMA InitOwners == Init => OwnersOK
<1> SUFFICES ASSUME Init PROVE OwnersOK
  OBVIOUS
<1>1. \A r \in Requests : req[r].op = "none"
  BY IdleType DEF Init
<1> QED BY <1>1 DEF Init, OwnersOK, Spending

LEMMA NextOwners == FamilyInv /\ OwnersOK /\ [Next]_vars => OwnersOK'
<1> SUFFICES ASSUME FamilyInv, OwnersOK, [Next]_vars PROVE OwnersOK'
  OBVIOUS
<1>1. ASSUME NEW f \in Tokens, ExpireFamily(f) PROVE OwnersOK'
  BY <1>1 DEF ExpireFamily, OwnersOK, Spending
<1>2. CASE UNCHANGED vars
  BY <1>2 DEF vars, tables, OwnersOK, Spending
<1> QED BY <1>1, <1>2, OwnersStep, ExpiryKeepsOwners DEF Next, Act

(* The inductive invariant: what belongs to a sign-in has its owner. *)
THEOREM OwnersInvariant == Spec => []OwnersOK
  BY FamiliesInvariant, InitOwners, NextOwners, PTL DEF Spec

-----------------------------------------------------------------------------
(***************************************************************************)
(* Each step, as a step of SignIns.                                        *)
(***************************************************************************)
SignInRow(n) == [token |-> n, user |-> token[n].user, client |-> token[n].client]

IssuedFor(k) == {n \in Tokens : token[n] # None /\ token[n].code = k}

LiveOf(k) == {SignInRow(n) : n \in {m \in Tokens : Live(m) /\ token[m].code = k}}

SignInOf(k) == [user |-> code[k].user, client |-> code[k].client,
                spent |-> code[k].state # "fresh",
                issued |-> IssuedFor(k), live |-> LiveOf(k)]

Begun == {k \in Codes : code[k] # None}

LEMMA SignedInIs ==
    /\ SignedIn = [k \in Begun |-> SignInOf(k)]
    /\ SignedIn' = [k \in Begun' |-> SignInOf(k)']
  BY DEF SignedIn, Begun, SignInOf, IssuedFor, LiveOf, SignInRow

(* A step after which no token is live that was not, and of which no token   *)
(* is new, withdraws sign-ins or leaves them alone.                         *)
LEMMA Withdrawal ==
    ASSUME FamilyInv,
           Begun' = Begun,
           \A k \in Begun : /\ code'[k].user = code[k].user
                            /\ code'[k].client = code[k].client
                            /\ code[k].state # "fresh" => code'[k].state # "fresh",
           \A n \in Tokens : token'[n] # None <=> token[n] # None,
           \A n \in Tokens : token[n] # None => /\ token'[n].code = token[n].code
                                                /\ token'[n].user = token[n].user
                                                /\ token'[n].client = token[n].client,
           \A n \in Tokens : Live(n)' => Live(n)
    PROVE  SignIn!Withdraw
<1> DEFINE S == {k \in Begun : code'[k].state # "fresh"}
           E == {k \in Begun : \A n \in Tokens : Live(n)' => token'[n].code # k}
           After(k) == SignIn!Now(SignInOf(k), SignInOf(k).spent \/ k \in S,
                                  SignInOf(k).issued,
                                  IF k \in E THEN {} ELSE SignInOf(k).live)
<1>1. ASSUME NEW k \in Begun PROVE SignInOf(k)' = After(k)
  <2>1. IssuedFor(k)' = IssuedFor(k)
    BY DEF IssuedFor
  <2>2. CASE k \in E
    <3>1. LiveOf(k)' = {}
      BY <2>2 DEF LiveOf
    <3> QED BY <2>1, <2>2, <3>1 DEF SignInOf, SignIn!Now, Begun
  <2>3. CASE k \notin E
    <3>1. PICK m \in Tokens : Live(m)' /\ token'[m].code = k
      BY <1>1, <2>3
    <3>2. Live(m) /\ token[m].code = k
      BY <3>1 DEF Live
    <3>3. \A n \in Tokens : Live(n) /\ token[n].code = k => n = m
      BY <3>2 DEF FamilyInv, OneUnspent, Unspent, Live
    <3>4. LiveOf(k) = {SignInRow(m)}
      BY <3>2, <3>3 DEF LiveOf
    <3>5. \A n \in Tokens : Live(n)' /\ token'[n].code = k => n = m
      BY <3>3 DEF Live
    <3>6. LiveOf(k)' = {SignInRow(m)'}
      BY <3>1, <3>5 DEF LiveOf
    <3>7. SignInRow(m)' = SignInRow(m)
      BY <3>2 DEF SignInRow, Live
    <3> QED BY <2>1, <2>3, <3>4, <3>6, <3>7 DEF SignInOf, SignIn!Now, Begun
  <2> QED BY <2>2, <2>3
<1>2. SignedIn' = [k \in Begun |-> After(k)]
  BY <1>1, SignedInIs
<1>3. DOMAIN SignedIn = Begun /\ \A k \in Begun : SignedIn[k] = SignInOf(k)
  BY SignedInIs
<1> HIDE DEF S, E
<1>4. S \in SUBSET Begun /\ E \in SUBSET Begun
  BY DEF S, E
<1> HIDE DEF After
<1>5. \A k \in Begun :
        After(k) = LET s == SignedIn[k]
                   IN  SignIn!Now(s, s.spent \/ k \in S, s.issued,
                                  IF k \in E THEN {} ELSE s.live)
  BY <1>3 DEF After
<1>6. SignedIn' = [k \in DOMAIN SignedIn |->
                     LET s == SignedIn[k]
                     IN  SignIn!Now(s, s.spent \/ k \in S, s.issued,
                                    IF k \in E THEN {} ELSE s.live)]
  BY <1>2, <1>3, <1>5
<1> QED BY <1>3, <1>4, <1>6 DEF SignIn!Withdraw

(* Nothing that SignIns sees has changed. *)
LEMMA Stutter ==
    ASSUME UNCHANGED <<code, token, expired>>
    PROVE  UNCHANGED SignedIn
  BY DEF SignedIn, Live

LEMMA CodeAuthorizes ==
    ASSUME FamilyInv, NEW r \in Requests, CreateAuthorizationCode(r)
    PROVE  SignIn!Next \/ UNCHANGED SignedIn
<1> USE DEF FamilyInv, Types
<1>1. UNCHANGED <<token, expired>>
  BY DEF CreateAuthorizationCode
<1>2. CASE UNCHANGED code
  BY <1>1, <1>2, Stutter
<1>3. ASSUME NEW k \in Codes, code[k] = None,
             code' = [code EXCEPT ![k] = [user |-> req[r].user, client |-> req[r].client,
                                          state |-> "fresh"]]
      PROVE  SignIn!Next
  <2> DEFINE u == req[r].user
             c == req[r].client
             new == [user |-> u, client |-> c, state |-> "fresh"]
             first == [user |-> u, client |-> c, spent |-> FALSE,
                       issued |-> {}, live |-> {}]
  <2>1. u \in Users /\ c \in Clients
    BY Statement, AtStatement DEF Running
  <2>2. new \in CodeRows
    BY <2>1 DEF CodeRows
  <2>3. code'[k] = new /\ new # None /\ \A x \in Codes \ {k} : code'[x] = code[x]
    BY <1>3, <2>2, ConstantsAssumption DEF TypeOK
  <2>4. Begun' = Begun \cup {k} /\ k \notin Begun
    BY <1>3, <2>3 DEF Begun
  <2>5. ASSUME NEW x \in Begun PROVE SignInOf(x)' = SignInOf(x)
    BY <1>1, <2>3, <2>4, <2>5 DEF SignInOf, IssuedFor, LiveOf, SignInRow, Live, Begun
  <2>6. \A n \in Tokens : token[n] # None => token[n].code # k
    BY <1>3 DEF RowsOK
  <2>7. IssuedFor(k)' = {} /\ LiveOf(k)' = {}
    BY <1>1, <2>6 DEF IssuedFor, LiveOf, Live
  <2>8. SignInOf(k)' = first
    <3>1. code'[k].user = u /\ code'[k].client = c
      BY <2>3
    <3>2. (code'[k].state # "fresh") = FALSE
      BY <2>3
    <3>3. SignInOf(k)' = [user |-> u, client |-> c, spent |-> (code'[k].state # "fresh"),
                          issued |-> {}, live |-> {}]
      BY <2>7, <3>1 DEF SignInOf
    <3> QED BY <3>2, <3>3
  <2> HIDE DEF first
  <2>9. DOMAIN SignedIn = Begun /\ \A x \in Begun : SignedIn[x] = SignInOf(x)
    BY SignedInIs
  <2>10. SignedIn' = [x \in DOMAIN SignedIn \cup {k} |->
                        IF x \in DOMAIN SignedIn THEN SignedIn[x] ELSE first]
    BY <2>4, <2>5, <2>8, <2>9, SignedInIs
  <2>11. SignIn!Authorize(k, u, c)
    BY <2>4, <2>9, <2>10 DEF SignIn!Authorize, first
  <2> QED BY <2>1, <2>11 DEF SignIn!Next
<1> QED BY <1>2, <1>3 DEF CreateAuthorizationCode

(* What a new token of a sign-in leaves as it was. *)
LEMMA OthersKept ==
    ASSUME FamilyInv, NEW k \in Begun, NEW n \in Tokens,
           UNCHANGED <<code, expired>>,
           token'[n] # None, token'[n].code = k, token[n] = None,
           \A m \in Tokens \ {n} : \/ token'[m] = token[m]
                                   \/ /\ token[m] # None /\ token'[m] # None
                                      /\ token[m].code = k /\ token'[m].code = k
    PROVE  /\ Begun' = Begun
           /\ \A x \in Begun \ {k} : SignInOf(x)' = SignInOf(x)
           /\ IssuedFor(k)' = IssuedFor(k) \cup {n}
<1>1. Begun' = Begun
  BY DEF Begun
<1>2. IssuedFor(k)' = IssuedFor(k) \cup {n}
  BY DEF IssuedFor
<1>3. ASSUME NEW x \in Begun, x # k PROVE SignInOf(x)' = SignInOf(x)
  <2>1. \A m \in Tokens : /\ token'[m] # None /\ token'[m].code = x
                             <=> token[m] # None /\ token[m].code = x
                          /\ token[m] # None /\ token[m].code = x => token'[m] = token[m]
    BY <1>3
  <2>2. IssuedFor(x)' = IssuedFor(x)
    BY <2>1 DEF IssuedFor
  <2>3. \A m \in Tokens : /\ Live(m)' /\ token'[m].code = x <=> Live(m) /\ token[m].code = x
                          /\ Live(m) /\ token[m].code = x => SignInRow(m)' = SignInRow(m)
    BY <2>1 DEF Live, SignInRow
  <2>4. LiveOf(x)' = LiveOf(x)
    BY <2>3 DEF LiveOf
  <2> QED BY <2>2, <2>4 DEF SignInOf
<1> QED BY <1>1, <1>2, <1>3

LEMMA NeverIssued ==
    ASSUME FamilyInv, NEW k \in Begun, NEW n \in Tokens, token[n] = None
    PROVE  SignIn!New(n)
<1>1. DOMAIN SignedIn = Begun /\ \A x \in Begun : SignedIn[x].issued = IssuedFor(x)
  BY SignedInIs DEF SignInOf
<1> QED BY <1>1 DEF SignIn!New, IssuedFor

LEMMA ExchangeIssues ==
    ASSUME FamilyInv, OwnersOK, NEW r \in Requests, CreateRefresh(r)
    PROVE  SignIn!Next \/ UNCHANGED SignedIn
<1> USE DEF FamilyInv, Types
<1>1. UNCHANGED <<code, expired>>
  BY DEF CreateRefresh
<1>2. CASE req[r].next = None
  BY <1>1, <1>2, Stutter DEF CreateRefresh
<1>3. CASE req[r].next # None
  <2>0. PICK n, k : n = req[r].next /\ k = req[r].code
    OBVIOUS
  <2> DEFINE row == [family |-> n, code |-> k, user |-> req[r].user,
                     client |-> req[r].client, used |-> FALSE, revoked |-> FALSE]
             owned == [token |-> n, user |-> code[k].user, client |-> code[k].client]
  <2>1. /\ Running(req[r]) /\ req[r].op = "Exchange" /\ req[r].pc = "create"
        /\ n \in Tokens /\ token[n] = None
        /\ token' = [token EXCEPT ![n] = row] /\ token'[n] \in TokenRows
    BY <1>3, <2>0, Creation
  <2>2. k \in Begun /\ Spending(req[r], k)
    BY <2>0, <2>1 DEF Running, Begun, Spending
  <2>3. req[r].user = code[k].user /\ req[r].client = code[k].client
    BY <2>0, <2>1, <2>2 DEF OwnersOK, Begun
  <2>4. token'[n] = row /\ \A m \in Tokens \ {n} : token'[m] = token[m]
    BY <2>1 DEF TypeOK
  <2>5. token'[n] # None /\ token'[n].code = k
    <3>1. token'[n].code = k
      BY <2>4
    <3> QED BY <2>1, <3>1, ConstantsAssumption
  <2>6. \A m \in Tokens : token[m] # None => token[m].code # k
    BY <2>2 DEF ExchangesOK, Begun
  <2>7. IssuedFor(k) = {} /\ code[k].state # "fresh"
    BY <2>2, <2>6 DEF IssuedFor, ExchangesOK, Begun
  <2>8. n \notin expired
    BY <2>1 DEF OwnersOK
  <2>9. Live(n)' /\ SignInRow(n)' = owned
    BY <1>1, <2>3, <2>4, <2>5, <2>8 DEF Live, SignInRow
  <2>10. \A m \in Tokens : Live(m)' /\ token'[m].code = k => m = n
    BY <2>4, <2>6 DEF Live
  <2>11. LiveOf(k)' = {owned}
    BY <2>1, <2>5, <2>9, <2>10 DEF LiveOf
  <2>12. /\ Begun' = Begun /\ IssuedFor(k)' = {n}
         /\ \A x \in Begun \ {k} : SignInOf(x)' = SignInOf(x)
    BY <1>1, <2>1, <2>2, <2>4, <2>5, <2>7, OthersKept
  <2> DEFINE After == SignIn!Now(SignInOf(k), TRUE, {n}, SignIn!LiveFor(n, SignInOf(k)))
  <2>13. SignInOf(k)' = After
    BY <1>1, <2>7, <2>11, <2>12 DEF SignInOf, SignIn!Now, SignIn!LiveFor
  <2>14. /\ DOMAIN SignedIn = Begun /\ SignedIn = [x \in Begun |-> SignInOf(x)]
         /\ SignedIn[k] = SignInOf(k)
    BY <2>2, SignedInIs
  <2> HIDE DEF After
  <2>15. SignedIn' = [SignedIn EXCEPT ![k] = After]
    BY <2>2, <2>12, <2>13, <2>14, SignedInIs
  <2>16. SignedIn[k].spent /\ SignedIn[k].issued = {}
    <3>1. SignInOf(k).spent = (code[k].state # "fresh")
      BY DEF SignInOf
    <3>2. SignInOf(k).issued = IssuedFor(k)
      BY DEF SignInOf
    <3> QED BY <2>7, <2>14, <3>1, <3>2
  <2>17. SignIn!Issue(k, n)
    BY <2>1, <2>2, <2>14, <2>15, <2>16, NeverIssued DEF SignIn!Issue, After
  <2> QED BY <2>1, <2>2, <2>14, <2>17 DEF SignIn!Next
<1> QED BY <1>2, <1>3

LEMMA RotationRefreshes ==
    ASSUME FamilyInv, OwnersOK, NEW r \in Requests, CommitRotation(r)
    PROVE  SignIn!Next
<1>0. PICK n, m, k : n = req[r].next /\ m = req[r].key /\ k = token[req[r].key].code
  OBVIOUS
<1> DEFINE owned == [token |-> n, user |-> code[k].user, client |-> code[k].client]
<1>1. UNCHANGED <<code, expired>>
  BY DEF CommitRotation
<1>2. /\ m \in Tokens /\ n \in Tokens /\ token[n] = None /\ Unspent(m)
      /\ token[m] \in TokenRows /\ token[m].code = k
      /\ \A x \in Tokens \ {m, n} : token'[x] = token[x]
  BY <1>0, Rotation DEF FamilyInv
<1> USE DEF FamilyInv, Types
<1>3. k \in Codes /\ k \in Begun /\ token[m] # None
  BY <1>2 DEF TokenRows, RowsOK, Begun, Unspent
<1>4. token[m].user = code[k].user /\ token[m].client = code[k].client
  BY <1>2, <1>3 DEF OwnersOK
<1>5. token'[m] # None /\ token'[m].code = k /\ token'[m].used
  BY <1>0, RotatedRows
<1>6. /\ token'[n] # None /\ token'[n].code = k
      /\ token'[n].family = token[m].family
      /\ token'[n].user = code[k].user /\ token'[n].client = code[k].client
      /\ ~token'[n].used /\ ~token'[n].revoked
  BY <1>0, <1>4, RotatedRows
<1>7. \A x \in Tokens : Live(x) /\ token[x].code = k => x = m
  BY <1>2 DEF OneUnspent, Unspent, Live
<1>8. \A x \in Tokens : Live(x)' /\ token'[x].code = k => x = n
  BY <1>1, <1>2, <1>5, <1>7 DEF Live
<1>9. Live(n)' <=> Live(m)
  BY <1>1, <1>2, <1>3, <1>6 DEF Live, Unspent
<1>10. SignInRow(n)' = owned
  BY <1>6 DEF SignInRow
<1>11. LiveOf(k)' = IF LiveOf(k) = {} THEN {} ELSE {owned}
  <2>1. CASE Live(m)
    <3>1. SignInRow(m) \in LiveOf(k)
      BY <1>2, <2>1 DEF LiveOf
    <3>2. {x \in Tokens : Live(x)' /\ token'[x].code = k} = {n}
      BY <1>2, <1>6, <1>8, <1>9, <2>1
    <3>3. LiveOf(k)' = {SignInRow(n)'}
      BY <3>2 DEF LiveOf
    <3> QED BY <1>10, <3>1, <3>3
  <2>2. CASE ~Live(m)
    <3>1. LiveOf(k) = {}
      BY <1>7, <2>2 DEF LiveOf
    <3>2. LiveOf(k)' = {}
      BY <1>8, <1>9, <2>2 DEF LiveOf
    <3> QED BY <3>1, <3>2
  <2> QED BY <2>1, <2>2
<1>12. /\ Begun' = Begun /\ IssuedFor(k)' = IssuedFor(k) \cup {n}
       /\ \A x \in Begun \ {k} : SignInOf(x)' = SignInOf(x)
  <2>1. \A x \in Tokens \ {n} : \/ token'[x] = token[x]
                                \/ /\ token[x] # None /\ token'[x] # None
                                   /\ token[x].code = k /\ token'[x].code = k
    BY <1>2, <1>3, <1>5
  <2> QED BY <1>1, <1>2, <1>3, <1>6, <2>1, OthersKept
<1> DEFINE s == SignInOf(k)
           After == SignIn!Now(s, s.spent, s.issued \cup {n},
                               IF s.live = {} THEN {} ELSE SignIn!LiveFor(n, s))
<1>13. SignInOf(k)' = After
  BY <1>1, <1>11, <1>12 DEF SignInOf, SignIn!Now, SignIn!LiveFor
<1>14. /\ DOMAIN SignedIn = Begun /\ SignedIn = [x \in Begun |-> SignInOf(x)]
       /\ SignedIn[k] = SignInOf(k)
  BY <1>3, SignedInIs
<1> HIDE DEF After
<1>15. SignedIn' = [SignedIn EXCEPT ![k] = After]
  BY <1>3, <1>12, <1>13, <1>14, SignedInIs
<1>16. SignedIn[k].issued # {}
  BY <1>2, <1>3, <1>14 DEF SignInOf, IssuedFor
<1>17. SignIn!Refresh(k, n)
  BY <1>2, <1>3, <1>14, <1>15, <1>16, NeverIssued DEF SignIn!Refresh, After
<1> QED BY <1>2, <1>3, <1>14, <1>17 DEF SignIn!Next

(* A code is consumed, by its own client's request, or expires. *)
LEMMA CodeEnds ==
    ASSUME FamilyInv, NEW k \in Codes, code[k] # None, UNCHANGED <<token, expired>>,
           NEW s \in {"used", "deleted"}, code' = [code EXCEPT ![k].state = s]
    PROVE  SignIn!Next
<1>1. code[k] \in CodeRows /\ code \in [Codes -> CodeRows \cup {None}]
  BY DEF FamilyInv, Types, TypeOK
<1>2. [code[k] EXCEPT !.state = s] \in CodeRows
  BY <1>1 DEF CodeRows
<1>3. /\ code'[k] # None /\ code'[k].state # "fresh"
      /\ code'[k].user = code[k].user /\ code'[k].client = code[k].client
      /\ \A x \in Codes \ {k} : code'[x] = code[x]
  BY <1>1, <1>2, ConstantsAssumption DEF CodeRows
<1>4. Begun' = Begun
  BY <1>3 DEF Begun
<1>5. SignIn!Withdraw
  BY <1>3, <1>4, Withdrawal DEF Begun, Live
<1> QED BY <1>5 DEF SignIn!Next

LEMMA CommitWithdraws ==
    ASSUME FamilyInv, NEW r \in Requests, Commit(r)
    PROVE  SignIn!Next
<1> USE DEF FamilyInv, Types
<1>1. Act(r)
  BY DEF Act, Step
<1>2. \A n \in Tokens : token'[n] # None <=> token[n] # None
  BY <1>1, TokensGrow, ConstantsAssumption DEF Commit, RowsOK
<1>3. Begun' = Begun
  BY <1>1, CodesGrow, ConstantsAssumption DEF Commit, RowsOK, Begun
<1>4. \A n \in Tokens : Live(n)' => Live(n)
  BY <1>1, <1>2, TokensGrow DEF Live, Commit
<1>5. SignIn!Withdraw
  BY <1>1, <1>2, <1>3, <1>4, TokensGrow, CodesGrow, Withdrawal DEF Begun
<1> QED BY <1>5 DEF SignIn!Next

LEMMA FamilyExpires ==
    ASSUME FamilyInv, UNCHANGED <<code, token>>, expired \subseteq expired'
    PROVE  SignIn!Next
<1>1. Begun' = Begun /\ \A n \in Tokens : Live(n)' => Live(n)
  BY DEF Begun, Live
<1>2. SignIn!Withdraw
  BY <1>1, Withdrawal
<1> QED BY <1>2 DEF SignIn!Next

LEMMA StepsMap ==
    ASSUME FamilyInv, OwnersOK, NEW r \in Requests, Act(r)
    PROVE  SignIn!Next \/ UNCHANGED SignedIn
<1>1. expired' = expired
  BY OtherTables DEF FamilyInv
<1>2. CASE ConsumeAuthorizationCode(r)
  <2>1. UNCHANGED <<token, expired>>
    BY <1>2 DEF ConsumeAuthorizationCode
  <2>2. CASE UNCHANGED code
    BY <2>1, <2>2, Stutter
  <2>3. CASE code' = [code EXCEPT ![req[r].code].state = "used"]
    <3>1. Running(req[r])
      BY <1>2, Statement, AtStatement DEF FamilyInv, Types
    <3>2. req[r].code \in Codes /\ code[req[r].code] # None
      BY <1>2, <3>1, Statement DEF Running, StatementsOf, AllOps
    <3> QED BY <2>1, <2>3, <3>2, CodeEnds
  <2> QED BY <1>2, <2>2, <2>3 DEF ConsumeAuthorizationCode
<1>3. CASE UNCHANGED <<code, token>>
  BY <1>1, <1>3, Stutter
<1>4. CASE CreateRefresh(r)
  BY <1>4, ExchangeIssues
<1>5. CASE CommitRotation(r)
  BY <1>5, RotationRefreshes
<1>6. CASE Commit(r)
  BY <1>6, CommitWithdraws
<1>7. CASE CreateAuthorizationCode(r)
  BY <1>7, CodeAuthorizes
<1> QED BY <1>2, <1>3, <1>4, <1>5, <1>6, <1>7, CodesChange, TokensChange

LEMMA InitMaps == Init => SignIn!Init
<1> SUFFICES ASSUME Init PROVE SignedIn = [k \in {} |-> {}]
  BY DEF SignIn!Init
<1>1. Begun = {}
  BY DEF Init, Begun
<1> QED BY <1>1, SignedInIs

(* Codes and tokens implement sign-ins, for any number of users, clients,   *)
(* codes, tokens and concurrent requests: each statement is one step of     *)
(* SignIns, or none that an account or an application could see.            *)
THEOREM SignInsAreImplemented == Spec => ImplementsSignIns
<1>1. FamilyInv /\ OwnersOK /\ [Next]_vars => [SignIn!Next]_SignedIn
  <2> SUFFICES ASSUME FamilyInv, OwnersOK, [Next]_vars
               PROVE  SignIn!Next \/ UNCHANGED SignedIn
    OBVIOUS
  <2>1. ASSUME NEW k \in Codes, ExpireCode(k) PROVE SignIn!Next
    BY <2>1, CodeEnds DEF ExpireCode
  <2>2. ASSUME NEW f \in Tokens, ExpireFamily(f) PROVE SignIn!Next
    BY <2>2, FamilyExpires DEF ExpireFamily
  <2>3. CASE UNCHANGED vars
    BY <2>3, Stutter DEF vars, tables
  <2> QED BY <2>1, <2>2, <2>3, StepsMap DEF Next, Act
<1> QED
  BY <1>1, InitMaps, FamiliesInvariant, OwnersInvariant, PTL
     DEF Spec, ImplementsSignIns, SignIn!Spec
=============================================================================
