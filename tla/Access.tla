-------------------------------- MODULE Access --------------------------------
(***************************************************************************)
(* Accounts and tokens: the handlers of internal/api/handlers/auth.go, the *)
(* middleware of internal/api/middleware/auth.go, the JWT service of       *)
(* pkg/jwt and the users' repository.                                      *)
(*                                                                         *)
(* A token carries what the account said when it was signed, and is judged *)
(* by what it carries, by its expiry and by a list of revoked tokens in    *)
(* Redis, which does not count when Redis does not answer.  An action is   *)
(* one access to the database or to Redis.  Tokens are issued in pairs; a  *)
(* slot holds one until both have expired and are forgotten, and can then  *)
(* hold another.  Signatures, passwords and time stamps are left out: a    *)
(* password given is the right one or the request ends.                    *)
(***************************************************************************)
EXTENDS Naturals, FiniteSets

CONSTANTS
    Accounts,     \* ids of the documents in "users"
    Emails,
    Requests,     \* requests served at the same time
    Slots,        \* bound: pairs of tokens that exist at a time
    None

Kinds == {"access", "refresh"}
Token == Slots \X Kinds

AccessAssumption == None \notin Accounts \cup Emails \cup Slots \cup Token

VARIABLES
    account,      \* account[a]: the document, or None
    owner,        \* owner[s]: the account that both tokens of the pair carry, or None
    live,         \* tokens that have not expired
    revoked,      \* the keys blacklist:token:<jti>
    call,         \* call[r]: the handler that serves r, or None
    spent         \* history: live tokens exchanged or logged out, their revocation answered

tokens == <<owner, live, revoked>>
vars == <<account, tokens, call, spent>>

Claims(t) == owner[t[1]]
Issued == {t \in Token : Claims(t) # None}

User == [email : Emails, active : BOOLEAN]
Stages == {"create", "issue", "user", "exchange", "handler", "logout"}
Call == [stage : Stages, token : Token \cup {None}, user : Accounts \cup {None},
         email : Emails \cup {None}, blind : BOOLEAN]

Init ==
    /\ account = [a \in Accounts |-> None]
    /\ owner = [s \in Slots |-> None]
    /\ live = {} /\ revoked = {}
    /\ call = [r \in Requests |-> None]
    /\ spent = {}

Go(r, stage, t, a, e, blind) ==
    call' = [call EXCEPT ![r] =
        [stage |-> stage, token |-> t, user |-> a, email |-> e, blind |-> blind]]
Return(r) == call' = [call EXCEPT ![r] = None]
At(r, stage) == call[r] # None /\ call[r].stage = stage

-----------------------------------------------------------------------------
(* The JWT service.                                                        *)

\* A slot whose tokens nobody can meet any more.
Free(s) ==
    /\ \A k \in Kinds : <<s, k>> \notin live
    /\ \A r \in Requests : call[r] # None /\ call[r].token # None => call[r].token[1] # s

GenerateTokens(a) ==
    \E s \in Slots :
        /\ Free(s)
        /\ owner' = [owner EXCEPT ![s] = a]
        /\ live' = live \cup {<<s, k>> : k \in Kinds}

\* Mutant: the list is not asked.
ValidateToken_NoList(t, kind, redis) == t \in live /\ t[2] = kind

\* Redis not answering counts as "not revoked".
ValidateToken(t, kind, redis) == t \in live /\ t[2] = kind /\ ~(redis /\ t \in revoked)

\* An expired token is not entered, and that is no error.
RevokeToken(t, redis) ==
    revoked' = IF redis /\ t \in live THEN revoked \cup {t} ELSE revoked
Revoked(t, redis) == redis \/ t \notin live

\* Redis drops the entry with the token: it was given the life the token had left.
Expire(t) ==
    /\ t \in live
    /\ live' = live \ {t} /\ revoked' = revoked \ {t} /\ spent' = spent \ {t}
    /\ UNCHANGED <<account, owner, call>>

-----------------------------------------------------------------------------
(* The users' repository.                                                  *)

HasEmail(a, e) == account[a] # None /\ account[a].email = e

\* The index that refuses a second document with the address is built in the
\* background, and may be missing.
InsertUser(a, e) ==
    /\ account[a] = None
    /\ account' = [account EXCEPT ![a] = [email |-> e, active |-> TRUE]]

\* Of an UpdateUserRequest, Update writes the status (and the role); its Name, the one
\* field that a request can set, is none that Update looks at.
UpdateUser(a, active) == account' = [account EXCEPT ![a].active = active]

\* Update, Delete and SetActiveStatus of the interface, which only administration
\* tools would call.
Administer(a) ==
    /\ account[a] # None
    /\ \E active \in BOOLEAN : UpdateUser(a, active)
    /\ UNCHANGED <<tokens, call, spent>>

-----------------------------------------------------------------------------
(* The handlers.                                                           *)

Register(r, e) ==
    /\ call[r] = None
    /\ \A a \in Accounts : ~HasEmail(a, e)
    /\ Go(r, "create", None, None, e, FALSE)
    /\ UNCHANGED <<account, tokens, spent>>

\* The document is inserted, refused by the index, or inserted without an answer.
CreateUser(r) ==
    /\ At(r, "create")
    /\ \/ \E a \in Accounts :
             /\ InsertUser(a, call[r].email)
             /\ \/ Go(r, "issue", None, a, None, FALSE)
                \/ Return(r)
       \/ Return(r) /\ UNCHANGED account
    /\ UNCHANGED <<tokens, spent>>

Login(r, e) ==
    /\ call[r] = None
    /\ \E a \in Accounts :
           /\ HasEmail(a, e) /\ account[a].active
           /\ Go(r, "issue", None, a, None, FALSE)
    /\ UNCHANGED <<account, tokens, spent>>

\* The refresh token, if there was one, is spent with this answer.
IssueTokens(r) ==
    /\ At(r, "issue")
    /\ GenerateTokens(call[r].user)
    /\ spent' = spent \cup {t \in live : t = call[r].token /\ ~call[r].blind}
    /\ Return(r)
    /\ UNCHANGED <<account, revoked>>

RefreshToken(r, t) ==
    /\ call[r] = None
    /\ \E redis \in BOOLEAN :
           /\ ValidateToken(t, "refresh", redis)
           /\ Go(r, "user", t, Claims(t), None, ~redis)
    /\ UNCHANGED <<account, tokens, spent>>

\* Mutant: the account is not looked at, the claims are renewed as they are.
RefreshUser_FromClaims(r) ==
    /\ At(r, "user")
    /\ Go(r, "exchange", call[r].token, call[r].user, None, FALSE)
    /\ UNCHANGED <<account, tokens, spent>>

RefreshUser(r) ==
    LET a == call[r].user IN
    /\ At(r, "user")
    /\ IF account[a].active
       THEN Go(r, "exchange", call[r].token, a, None, FALSE)
       ELSE Return(r)
    /\ UNCHANGED <<account, tokens, spent>>

\* A revocation that fails is logged, and the new pair is issued all the same.
Exchange(r) ==
    LET t == call[r].token IN
    /\ At(r, "exchange")
    /\ \E redis \in BOOLEAN :
           /\ RevokeToken(t, redis)
           /\ Go(r, "issue", t, call[r].user, None, ~Revoked(t, redis))
    /\ UNCHANGED <<account, owner, live, spent>>

\* RequireAuth before a protected handler: what the request may do is what the
\* token carries.
RequireAuth(r, t) ==
    /\ call[r] = None
    /\ \E redis \in BOOLEAN :
           /\ ValidateToken(t, "access", redis)
           /\ Go(r, "handler", t, Claims(t), None, ~redis)
    /\ UNCHANGED <<account, tokens, spent>>

\* When the access token cannot be revoked, the refresh token is not tried.
Logout(r) ==
    LET t == call[r].token IN
    /\ At(r, "handler")
    /\ \E redis \in BOOLEAN :
           /\ RevokeToken(t, redis)
           /\ IF Revoked(t, redis)
              THEN /\ spent' = spent \cup ({t} \cap live)
                   /\ \/ \E u \in live : Go(r, "logout", u, None, None, FALSE)
                      \/ Return(r)
              ELSE UNCHANGED spent /\ Return(r)
    /\ UNCHANGED <<account, owner, live>>

LogoutRefresh(r) ==
    LET t == call[r].token IN
    /\ At(r, "logout")
    /\ \E redis \in BOOLEAN :
           /\ RevokeToken(t, redis)
           /\ spent' = IF Revoked(t, redis) THEN spent \cup ({t} \cap live) ELSE spent
    /\ Return(r)
    /\ UNCHANGED <<account, owner, live>>

\* Only the access token of this request is revoked, if it can be.
ChangePassword(r) ==
    /\ At(r, "handler")
    /\ \E redis \in BOOLEAN : RevokeToken(call[r].token, redis)
    /\ Return(r)
    /\ UNCHANGED <<account, owner, live, spent>>

\* A new address is answered with a token that nothing stores, and a new name with
\* "Profile updated successfully", although it is not written.
UpdateProfile(r) ==
    /\ At(r, "handler")
    /\ UpdateUser(call[r].user, account[call[r].user].active)
    /\ Return(r)
    /\ UNCHANGED <<tokens, spent>>

Step(r) ==
    \/ CreateUser(r) \/ IssueTokens(r) \/ RefreshUser(r) \/ Exchange(r) \/ Logout(r)
    \/ LogoutRefresh(r) \/ ChangePassword(r) \/ UpdateProfile(r)

Next ==
    \/ \E r \in Requests :
           \/ Step(r)
           \/ \E e \in Emails : Register(r, e) \/ Login(r, e)
           \/ \E t \in Token : RefreshToken(r, t) \/ RequireAuth(r, t)
    \/ \E t \in Token : Expire(t)
    \/ \E a \in Accounts : Administer(a)

\* Tokens expire.
Fairness == \A t \in Token : WF_vars(Expire(t))

Spec == Init /\ [][Next]_vars
FairSpec == Spec /\ Fairness

-----------------------------------------------------------------------------
(* The properties.                                                         *)

\* Every variable has its type, and tokens that are alive or revoked are issued ones.
TypeOK ==
    /\ account \in [Accounts -> User \cup {None}]
    /\ owner \in [Slots -> Accounts \cup {None}]
    /\ live \subseteq Issued /\ revoked \subseteq live /\ spent \subseteq live
    /\ call \in [Requests -> Call \cup {None}]

\* A token that was exchanged, or logged out of, while Redis answered opens no
\* further request as long as Redis answers: neither its twin requests, nor the
\* expiry of the entry, nor later revocations bring it back.
SpentStaysSpent ==
    [][\A r \in Requests, t \in Token :
          call[r] = None /\ call'[r] # None /\ call'[r].token = t /\ ~call'[r].blind
              => t \notin spent]_vars

\* Access tokens are not checked against the account, yet they do not outlive its
\* deactivation for ever: once an account is left inactive, in the end none of its
\* tokens is alive, for a refresh asks the account and what was signed before
\* expires.
DeactivationEnds ==
    \A a \in Accounts :
        <>[](account[a] # None /\ ~account[a].active) => <>[](\A t \in live : Claims(t) # a)
=============================================================================
