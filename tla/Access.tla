------------------------------- MODULE Access -------------------------------
(***************************************************************************)
(* Who may do what: the login at the identity provider, the session in a   *)
(* signed cookie (internal/auth), and the scope every request is answered  *)
(* in, from the session's groups, the grants and the tree as they are then *)
(* (internal/api/scope.go, internal/store/grants.go).                      *)
(*                                                                         *)
(* A login is known by the number of its state, nonce and PKCE verifier,   *)
(* which are drawn together.  Cookies are signed, so the ones modelled are *)
(* the ones the server has made.                                           *)
(***************************************************************************)
EXTENDS Integers, FiniteSets, Sequences, TLC

CONSTANTS
  Browsers,      \* one user's each
  Groups, AdminGroup,  \* what the provider's claim holds; AdminValue
  TreeNodes, TopNode,  \* the tree; its root
  Outside,       \* no node: above the root
  FirstClaims,   \* the groups each user is in at the start
  FirstParent,   \* the tree at the start: each node's parent
  DefaultRole,   \* --default-role: "none" or "viewer"
  SessionTTL, LoginTTL, \* sessionTTL and the state cookie's ten minutes, in ticks
  LastHour,      \* bound: the last tick
  MaxLogins, MaxRegroups, MaxGrantEdits, MaxMoves \* bounds

ASSUME AccessAssumption ==
  /\ AdminGroup \in Groups /\ FirstClaims \in [Browsers -> SUBSET Groups]
  /\ TopNode \in TreeNodes /\ Outside \notin TreeNodes
  /\ DefaultRole \in {"none", "viewer"}
  /\ {SessionTTL, LoginTTL, LastHour} \subseteq Nat
  /\ {MaxLogins, MaxRegroups, MaxGrantEdits, MaxMoves} \subseteq Nat

VARIABLES
  hour,       \* the clock
  claims,     \* the groups the provider has each user in
  pending,    \* each browser's state cookie
  codes,      \* authorization codes on their way back, one use each
  sessions,   \* each browser's session cookie
  grants,     \* the grants table
  parentOf,   \* the tree
  logins, regroups, grantEdits, moves, \* bounds
  (* ghosts *)
  startedIn,  \* the browser each login was started in
  held        \* when each user was last in each group

accessVars == <<hour, claims, pending, codes, sessions, grants, parentOf,
                logins, regroups, grantEdits, moves, startedIn, held>>

NoCookie == [set |-> FALSE]
Never == -1

GrantRoles == {"viewer", "editor"}

AccessInit ==
  /\ hour = 0 /\ claims = FirstClaims
  /\ pending = [b \in Browsers |-> NoCookie] /\ sessions = [b \in Browsers |-> NoCookie]
  /\ codes = {} /\ grants = {} /\ parentOf = FirstParent
  /\ logins = 0 /\ regroups = 0 /\ grantEdits = 0 /\ moves = 0
  /\ startedIn = <<>>
  /\ held = [b \in Browsers |-> [g \in Groups |-> IF g \in claims[b] THEN 0 ELSE Never]]

-----------------------------------------------------------------------------
(* Logging in.                                                             *)

(* handleLogin: a new login takes the place of the one the browser had under *)
(* way, in this tab or another.                                              *)
StartLogin(b) ==
  /\ logins < MaxLogins /\ logins' = logins + 1
  /\ pending' = [pending EXCEPT ![b] = [set |-> TRUE, login |-> logins', until |-> hour + LoginTTL]]
  /\ startedIn' = Append(startedIn, b)
  /\ UNCHANGED <<hour, claims, codes, sessions, grants, parentOf, regroups, grantEdits, moves,
                 held>>

(* The provider: whoever follows the link of a login answers it, and the     *)
(* identity token says which groups that user is in.                         *)
Authenticate(n, u) ==
  /\ n \in DOMAIN startedIn /\ \A c \in codes : c.login # n
  /\ codes' = codes \cup {[login |-> n, user |-> u, groups |-> claims[u]]}
  /\ UNCHANGED <<hour, claims, pending, sessions, grants, parentOf,
                 logins, regroups, grantEdits, moves, startedIn, held>>

RoleOf(groups) == IF AdminGroup \in groups THEN "admin" ELSE "viewer"

(* The state matches the cookie, the verifier the code's challenge, and the  *)
(* nonce the token's.                                                        *)
AnyPending(cookie, c) == cookie.set
AnswersPending(cookie, c) == cookie.set /\ cookie.login = c.login

SessionFor(c) ==
  [set |-> TRUE, user |-> c.user, groups |-> c.groups, role |-> RoleOf(c.groups),
   expires |-> hour + SessionTTL, login |-> c.login]

(* handleCallback: the state cookie is cleared, whatever comes of it, and    *)
(* when it is not this login's the browser is as it was.                     *)
LoginCallback(b, c) ==
  /\ c \in codes
  /\ pending[b].set /\ hour < pending[b].until
  /\ pending' = [pending EXCEPT ![b] = NoCookie]
  /\ IF AnswersPending(pending[b], c)
     THEN /\ sessions' = [sessions EXCEPT ![b] = SessionFor(c)]
          /\ codes' = codes \ {c}
     ELSE UNCHANGED <<sessions, codes>>
  /\ UNCHANGED <<hour, claims, grants, parentOf, logins, regroups, grantEdits, moves, startedIn,
                 held>>

Logout(b) ==
  /\ sessions[b].set
  /\ sessions' = [sessions EXCEPT ![b] = NoCookie]
  /\ UNCHANGED <<hour, claims, pending, codes, grants, parentOf,
                 logins, regroups, grantEdits, moves, startedIn, held>>

-----------------------------------------------------------------------------
(* The scope of a request.                                                 *)

Rank(role) ==
  IF role = "admin" THEN 3 ELSE IF role = "editor" THEN 2 ELSE IF role = "viewer" THEN 1 ELSE 0

Highest(roles) == CHOOSE r \in roles : \A q \in roles : Rank(r) >= Rank(q)

(* SessionFrom *)
HoldsCookie(b) == sessions[b].set
SignedIn(b) == sessions[b].set /\ hour <= sessions[b].expires

(* scopeFor: the role over everything, and the roots the session's groups    *)
(* have been granted.                                                        *)
GlobalRole(b) ==
  IF ~SignedIn(b) THEN "none"
  ELSE IF sessions[b].role = "admin" THEN "admin" ELSE DefaultRole

Roots(b) == IF SignedIn(b) THEN {g \in grants : g.group \in sessions[b].groups} ELSE {}

(* A node and what lies above it: the least set with the node in it and, for *)
(* each node in it, the parent.                                              *)
NodesAbove(n) ==
  {m \in TreeNodes : \A S \in SUBSET TreeNodes :
     n \in S /\ (\A k \in S : parentOf[k] \in S \cup {Outside}) => m \in S}

(* RoleOn: the highest of what is held over everything and on the chain. *)
RoleOn(b, n) ==
  Highest({GlobalRole(b)} \cup {g.role : g \in {h \in Roots(b) : h.node \in NodesAbove(n)}})

(* requireVisible and requireWrite ask these. *)
Visible(b, n) == Rank(RoleOn(b, n)) >= Rank("viewer")
EditsAt(b, n) == Rank(RoleOn(b, n)) >= Rank("editor")

-----------------------------------------------------------------------------
(* What changes under a session.                                           *)

(* UpsertGrant: one role for a group on a node; an administrator's doing. *)
UpsertGrant(g, n, r) ==
  /\ grantEdits < MaxGrantEdits /\ grantEdits' = grantEdits + 1
  /\ grants' = {h \in grants : ~(h.group = g /\ h.node = n)}
               \cup {[group |-> g, node |-> n, role |-> r]}
  /\ UNCHANGED <<hour, claims, pending, codes, sessions, parentOf,
                 logins, regroups, moves, startedIn, held>>

DeleteGrant(h) ==
  /\ h \in grants
  /\ grants' = grants \ {h}
  /\ UNCHANGED <<hour, claims, pending, codes, sessions, parentOf,
                 logins, regroups, grantEdits, moves, startedIn, held>>

(* handleUpdateTarget with a parent: whole subtrees move. *)
MoveNode(n, p) ==
  /\ moves < MaxMoves /\ moves' = moves + 1
  /\ n # TopNode /\ p # parentOf[n] /\ n \notin NodesAbove(p)
  /\ parentOf' = [parentOf EXCEPT ![n] = p]
  /\ UNCHANGED <<hour, claims, pending, codes, sessions, grants,
                 logins, regroups, grantEdits, startedIn, held>>

(* The provider puts a user in other groups; the session keeps the old ones. *)
Regroup(u, groups) ==
  /\ regroups < MaxRegroups /\ regroups' = regroups + 1
  /\ groups # claims[u] /\ claims' = [claims EXCEPT ![u] = groups]
  /\ held' = [held EXCEPT ![u] = [g \in Groups |->
               IF g \in claims[u] \cup groups THEN hour ELSE @[g]]]
  /\ UNCHANGED <<hour, pending, codes, sessions, grants, parentOf,
                 logins, grantEdits, moves, startedIn>>

(* Codes are good for less than a tick. *)
HourPasses ==
  /\ hour < LastHour
  /\ hour' = hour + 1
  /\ held' = [u \in Browsers |-> [g \in Groups |-> IF g \in claims[u] THEN hour + 1 ELSE held[u][g]]]
  /\ codes' = {}
  /\ UNCHANGED <<claims, pending, sessions, grants, parentOf,
                 logins, regroups, grantEdits, moves, startedIn>>

AccessNext ==
  \/ \E b \in Browsers :
       \/ StartLogin(b) \/ Logout(b)
       \/ \E c \in codes : LoginCallback(b, c)
       \/ \E n \in 1..MaxLogins : Authenticate(n, b)
       \/ \E groups \in SUBSET Groups : Regroup(b, groups)
  \/ \E g \in Groups \ {AdminGroup}, n \in TreeNodes, r \in GrantRoles : UpsertGrant(g, n, r)
  \/ \E h \in grants : DeleteGrant(h)
  \/ \E n, p \in TreeNodes : MoveNode(n, p)
  \/ HourPasses

AccessSpec == AccessInit /\ [][AccessNext]_accessVars

-----------------------------------------------------------------------------

Lately(u, g) == held[u][g] # Never /\ hour - held[u][g] <= SessionTTL

(* A session belongs to the browser that began its login, whatever other     *)
(* logins were started meanwhile and whichever callback comes first          *)
(* (auth.go handleCallback).  And what a request would be allowed, the       *)
(* provider, the grants and the tree warrant now: a grant that was deleted,  *)
(* or a node moved from beneath one, counts no more, and a group that was    *)
(* left no longer than a session (scope.go).                                 *)
AccessIsWarranted ==
  /\ \A b \in Browsers : sessions[b].set => startedIn[sessions[b].login] = b
  /\ \A b \in Browsers, n \in TreeNodes : Visible(b, n) =>
       LET u == sessions[b].user IN
       \/ Lately(u, AdminGroup)
       \/ ~EditsAt(b, n) /\ DefaultRole = "viewer"
       \/ \E h \in grants : /\ h.node \in NodesAbove(n) /\ Lately(u, h.group)
                            /\ EditsAt(b, n) => h.role = "editor"
=============================================================================
