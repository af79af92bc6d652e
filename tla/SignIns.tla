------------------------------ MODULE SignIns ------------------------------
(***************************************************************************)
(* What a sign-in promises to accounts and applications, independently of  *)
(* how SSO keeps codes and tokens: it is spent once, for one first token;  *)
(* from then on one token at most can be refreshed, by the client the user *)
(* has signed in to, and each refresh replaces it by a new one; what has   *)
(* ended does not begin again.                                             *)
(***************************************************************************)
CONSTANTS
    Users,
    Clients,
    Codes,      \* the sign-ins, by their authorization codes
    Tokens

VARIABLE
    signIn      \* of each sign-in begun: the user and the client, whether its
                \* code is spent, the tokens it has led to (issued), and those
                \* of them that can be refreshed, with their owner (live)

Init == signIn = [k \in {} |-> {}]

(* A token of no sign-in. *)
New(n) == \A k \in DOMAIN signIn : n \notin signIn[k].issued

(* A sign-in belongs to its user and its client whatever becomes of it. *)
Now(s, spent, issued, live) ==
    [user |-> s.user, client |-> s.client, spent |-> spent, issued |-> issued,
     live |-> live]

LiveFor(n, s) == {[token |-> n, user |-> s.user, client |-> s.client]}

(* The user of a browser session signs in to a client. *)
Authorize(k, u, c) ==
    /\ k \notin DOMAIN signIn
    /\ signIn' = [x \in DOMAIN signIn \cup {k} |->
                    IF x \in DOMAIN signIn THEN signIn[x]
                    ELSE [user |-> u, client |-> c, spent |-> FALSE,
                          issued |-> {}, live |-> {}]]

(* The first token, of a sign-in that was spent and has led to none. *)
Issue(k, n) ==
    /\ signIn[k].spent
    /\ signIn[k].issued = {}
    /\ New(n)
    /\ signIn' = [signIn EXCEPT ![k] = Now(@, TRUE, {n}, LiveFor(n, @))]

(* A successor takes the place of the live token; of a sign-in that has      *)
(* ended meanwhile it is not live.                                          *)
Refresh(k, n) ==
    /\ signIn[k].issued # {}
    /\ New(n)
    /\ signIn' = [signIn EXCEPT ![k] =
                    Now(@, @.spent, @.issued \cup {n},
                        IF @.live = {} THEN {} ELSE LiveFor(n, @))]

(* Codes are exchanged, expire or are deleted, tokens expire or are revoked: *)
(* of one sign-in, of those of a user, or of those of a user in a project.   *)
Withdraw ==
    \E S, E \in SUBSET DOMAIN signIn :
      signIn' = [k \in DOMAIN signIn |->
                   LET s == signIn[k]
                   IN  Now(s, s.spent \/ k \in S, s.issued,
                           IF k \in E THEN {} ELSE s.live)]

Next ==
    \/ \E k \in Codes, u \in Users, c \in Clients : Authorize(k, u, c)
    \/ \E k \in DOMAIN signIn, n \in Tokens : Issue(k, n) \/ Refresh(k, n)
    \/ Withdraw

Spec == Init /\ [][Next]_signIn
=============================================================================
