-------------------------------- MODULE SignIn --------------------------------
(***************************************************************************)
(* Users of the operations center and their sessions (security_v51.py, the *)
(* handlers of users, login and logout, the end of the OIDC callback).  A  *)
(* token is its signed payload: two sign-ins of a user within a second and *)
(* with one role get the same token.  It is accepted until it expires      *)
(* unless it is on the deny list, and kept nowhere else.  Passwords and    *)
(* signatures are left out; an administrator may give any user a password. *)
(*                                                                         *)
(* The PUT of a user waits between loading the row and writing the columns *)
(* that differ from it; one that differs in none is a stuttering step.     *)
(***************************************************************************)
EXTENDS Naturals, FiniteSets, FiniteSetsExt

CONSTANTS
    Role,         \* roles
    Subject,      \* external identities
    Wanted,       \* usernames asked for
    MaxUser,      \* bound on the users
    TokenTTL,
    MaxNow,       \* bound on the clock, in seconds
    Local,        \* the origin of a user who is not external
    NoUser        \* no row

UserRow == 1 .. MaxUser
\* A username asked for, and the number that made it unique (1: none).
Username == Wanted \X UserRow

ASSUME UserAssumption ==
    /\ MaxUser \in Nat /\ TokenTTL \in Nat
    /\ NoUser \notin UserRow
    /\ NoUser \notin [name : Username, role : Role, active : BOOLEAN, origin : Subject \cup {Local}]

VARIABLES
    now,
    user,      \* row -> [name, role, active, origin], or NoUser
    identity,  \* ExternalIdentity: subject -> its user, or NoUser
    issued,    \* the tokens given out: [uid, role, exp]
    denied,    \* RevokedSession: the tokens on the deny list
    signedOut  \* history: the tokens that were signed out

signInVars == <<now, user, identity, issued, denied, signedOut>>
tokenVars == <<issued, denied, signedOut>>

Users == {u \in UserRow : user[u] # NoUser}
NewUser == {u \in UserRow : u = Cardinality(Users) + 1}
WithName(name) == {u \in Users : user[u].name = name}

SignInInit ==
    /\ now = 0
    /\ user = [u \in UserRow |-> NoUser]
    /\ identity = [s \in Subject |-> NoUser]
    /\ issued = {} /\ denied = {} /\ signedOut = {}

Tick ==
    /\ now < MaxNow
    /\ now' = now + 1
    /\ UNCHANGED <<user, identity, tokenVars>>

-----------------------------------------------------------------------------
\* Users.  No operation removes or renames one.

CreateUser(name, role) ==
    /\ WithName(name) = {}
    /\ \E u \in NewUser :
          user' = [user EXCEPT ![u] = [name |-> name, role |-> role, active |-> TRUE, origin |-> Local]]
    /\ UNCHANGED <<now, identity, tokenVars>>

UpdateUser(u, role, active) ==
    /\ u \in Users
    /\ user' = [user EXCEPT ![u] = [@ EXCEPT !.role = role, !.active = active]]
    /\ UNCHANGED <<now, identity, tokenVars>>

-----------------------------------------------------------------------------
\* Sessions.

\* issue_session
IssueFor(u, role) == issued' = issued \cup {[uid |-> u, role |-> role, exp |-> now + TokenTTL]}

\* login, with the right password
SignIn(u) ==
    /\ u \in Users /\ user[u].active
    /\ IssueFor(u, user[u].role)
    /\ UNCHANGED <<now, user, identity, denied, signedOut>>

\* provision_external, for a subject seen before: it takes its role along.
SignInAgain(s, role) ==
    /\ identity[s] # NoUser
    /\ user[identity[s]].active
    /\ user' = [user EXCEPT ![identity[s]].role = role]
    /\ IssueFor(identity[s], role)
    /\ UNCHANGED <<now, identity, denied, signedOut>>

\* The first name that nobody has.
FreeName(wanted) ==
    LET free == {n \in UserRow : WithName(<<wanted, n>>) = {}}
    IN  {<<wanted, n>> : n \in {k \in free : k = Min(free)}}

\* provision_external, for a new subject: it gets a user of its own.
SignInFirst(s, wanted, role) ==
    /\ identity[s] = NoUser
    /\ \E name \in FreeName(wanted) :
          \E u \in IF WithName(name) = {} THEN NewUser ELSE WithName(name) :
             /\ user' = IF u \in Users THEN user
                        ELSE [user EXCEPT ![u] =
                                 [name |-> name, role |-> role, active |-> TRUE, origin |-> s]]
             /\ identity' = [identity EXCEPT ![s] = u]
             /\ IssueFor(u, role)
    /\ UNCHANGED <<now, denied, signedOut>>

\* session_identity
Accepted(t) ==
    /\ t.exp >= now
    /\ t \notin denied
    /\ user[t.uid].active

\* Mutant: a token leaves the list in its last second.
ExpiresNow(tokens) == {t \in tokens : t.exp <= now}
Expired(tokens) == {t \in tokens : t.exp < now}

\* logout_api and revoke_session, which drops what has expired.
SignOut(t) ==
    /\ t \in issued /\ Accepted(t)
    /\ LET listed == denied \cup {t} IN denied' = listed \ Expired(listed)
    /\ signedOut' = signedOut \cup {t}
    /\ UNCHANGED <<now, user, identity, issued>>

SignInNext ==
    \/ Tick
    \/ \E name \in Username, role \in Role : CreateUser(name, role)
    \/ \E u \in UserRow, role \in Role, active \in BOOLEAN : UpdateUser(u, role, active)
    \/ \E u \in UserRow : SignIn(u)
    \/ \E s \in Subject, role \in Role :
          \/ SignInAgain(s, role)
          \/ \E wanted \in Wanted : SignInFirst(s, wanted, role)
    \/ \E t \in issued : SignOut(t)

SignInSpec == SignInInit /\ [][SignInNext]_signInVars

-----------------------------------------------------------------------------
(* A token that was signed out is never accepted again, although the deny  *)
(* list forgets it and its user may be disabled and enabled meanwhile      *)
(* (revoke_session drops rows on `expires_at < now', session_identity      *)
(* refuses on `exp < now').                                                *)
SignedOutStaysOut == \A t \in signedOut : ~Accepted(t)

(* An external identity gets nobody's user but the one made for it, though *)
(* it asks for a name that a local user or another subject may have, and   *)
(* names stay unique (provision_external).                                 *)
SubjectsHaveTheirOwnUser ==
    /\ \A s \in Subject : identity[s] # NoUser => user[identity[s]].origin = s
    /\ \A u, v \in Users : user[u].name = user[v].name => u = v

(* Sign-outs and external identities, by one invariant of the user table.  *)
SignInInv == SignedOutStaysOut /\ SubjectsHaveTheirOwnUser
=============================================================================
