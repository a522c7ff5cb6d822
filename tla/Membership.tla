----------------------------- MODULE Membership ------------------------------
(***************************************************************************)
(* Who may use one Data Source: the accounts and sessions of AuthService   *)
(* (packages/core/auth), the invite links and members of InviteService     *)
(* (apps/web/lib) and the statements of the metadata store they issue.     *)
(* Every statement commits on its own, and requests interleave between     *)
(* any two of them.                                                        *)
(***************************************************************************)
EXTENDS Naturals, FiniteSets

CONSTANTS
    Founders,   \* accounts of an installation that has been in use
    Links,      \* invite links minted before the model starts
    Requests,   \* requests; a request that adds an account or a link names it
    Names,      \* user names people sign up with
    MaxTime,    \* bound of the clock
    None

ASSUME MembershipAssumption ==
    /\ MaxTime \in Nat
    /\ Founders \cap Requests = {} /\ Links \cap Requests = {} /\ Names \cap Founders = {}
    /\ None \notin Founders \cup Requests \cup {"owner", "admin", "querier"}

VARIABLES
    accounts,   \* rows of users
    sessions,   \* rows of sessions: whose, opened by which request
    members,    \* data_source_memberships of the source: the role of an account
    invites,    \* data_source_invites of the source
    now,        \* the clock; links live for one unit of it
    pc,         \* where each request stands
    job,        \* what each request asks for
    user,       \* whom it acts for: its own name for a signup
    role,       \* the role it read last, or reports
    listed,     \* the owners it saw when it listed the members
    joins,      \* history: memberships that came from links
    founding,   \* history: the roles the source started with
    removed     \* history: accounts that were removed from the source

rows == <<accounts, sessions, members, invites>>
locals == <<job, user, role, listed>>
history == <<joins, founding, removed>>
vars == <<rows, now, pc, locals, history>>

Ids == Founders \cup Requests
AllLinks == Links \cup Requests
Roles == {"owner", "admin", "querier"}
Kinds == {"setup", "login", "mint", "revoke", "remove", "redeem"}

\* canDataSource(role, 'manage_members')
Managers == {"owner", "admin"}

Invite == [exists : BOOLEAN, role : Roles, minter : Roles, by : Ids,
           expires : 0..(MaxTime + 1), redeemedBy : Ids \cup {None}, redeemedAt : 0..MaxTime]

ASSUME NoRowAssumption == None \notin Invite

NewInvite(r, minter, by) ==
    [exists |-> TRUE, role |-> r, minter |-> minter, by |-> by,
     expires |-> now + 1, redeemedBy |-> None, redeemedAt |-> 0]

Job == [kind : Kinds, name : Names \cup Founders \cup {None}, link : AllLinks \cup {None},
        target : Ids \cup {None}, role : Roles \cup {None}]
NewJob(k) == [kind |-> k, name |-> None, link |-> None, target |-> None, role |-> None]

\* An orphaned redemption could not take back the account it had made.
Ended == {"done", "refused", "orphaned", "failed", "lost"}
Points == {"idle", "countUsers", "lockUsers", "insertFirst", "findUser", "authorize",
           "insertInvite", "deleteInvite", "listMembers", "deleteMember", "lookup",
           "checkName", "insertUser", "openSession", "claim", "dropSession", "dropUser",
           "readRole", "join"} \cup Ended

TypeOK ==
    /\ accounts \subseteq Ids
    /\ \A s \in sessions : s.user \in accounts /\ s.by \in Ids
    /\ members \in [Ids -> Roles \cup {None}]
    /\ \A i \in Ids : members[i] # None => i \in accounts
    /\ \A l \in AllLinks : invites[l] = None \/ invites[l] \in Invite
    /\ now \in 0..MaxTime
    /\ pc \in [Requests -> Points]
    /\ \A r \in Requests : pc[r] # "idle" => job[r] \in Job
    /\ user \in [Requests -> Ids \cup {None}]
    /\ role \in [Requests -> Roles \cup {None}]
    /\ listed \in [Requests -> SUBSET Ids]

Owners == {i \in Ids : members[i] = "owner"}

\* A new installation, or one whose source has an owner and links in the mail.
Init ==
    /\ now = 0
    /\ \/ /\ accounts = {}
          /\ members = [i \in Ids |-> None]
          /\ invites = [l \in AllLinks |-> None]
       \/ /\ accounts = Founders
          /\ members \in [Ids -> Roles \cup {None}]
          /\ Owners # {} /\ \A r \in Requests : members[r] = None
          /\ \E linkRole \in [Links -> Roles], by \in [Links -> Owners] :
               invites = [l \in AllLinks |->
                            IF l \in Links THEN NewInvite(linkRole[l], "owner", by[l]) ELSE None]
    /\ sessions = {[user |-> i, by |-> i] : i \in accounts}
    /\ pc = [r \in Requests |-> "idle"]
    /\ job = [r \in Requests |-> None]
    /\ user = [r \in Requests |-> None]
    /\ role = [r \in Requests |-> None]
    /\ listed = [r \in Requests |-> {}]
    /\ joins = {}
    /\ founding = members
    /\ removed = {}

Move(r, point) == pc' = [pc EXCEPT ![r] = point]
At(r, point) == pc[r] = point
Signup(r) == user[r] = r
NameOf(i) == IF i \in Founders THEN i ELSE job[i].name
Taken(name) == \E i \in accounts : NameOf(i) = name

\* The cookie of a session goes out with the answer of the request that opened it.
SignedIn == {s.user : s \in {t \in sessions : t.by \in Founders \/ pc[t.by] = "done"}}

-----------------------------------------------------------------------------
(* A request arrives, with a session unless it signs up or logs in.        *)

Setup(r) == \E n \in Names :
    /\ job' = [job EXCEPT ![r] = [NewJob("setup") EXCEPT !.name = n]]
    /\ user' = [user EXCEPT ![r] = r] /\ Move(r, "countUsers")

Login(r) == \E n \in {NameOf(i) : i \in accounts} :
    /\ job' = [job EXCEPT ![r] = [NewJob("login") EXCEPT !.name = n]]
    /\ Move(r, "findUser") /\ UNCHANGED user

Manage(r) == \E i \in SignedIn :
    /\ user' = [user EXCEPT ![r] = i] /\ Move(r, "authorize")
    /\ \/ \E x \in Roles : job' = [job EXCEPT ![r] = [NewJob("mint") EXCEPT !.role = x]]
       \/ \E t \in accounts : job' = [job EXCEPT ![r] = [NewJob("remove") EXCEPT !.target = t]]
       \/ \E l \in AllLinks : invites[l] # None /\
            job' = [job EXCEPT ![r] = [NewJob("revoke") EXCEPT !.link = l]]

Redeem(r) == \E l \in AllLinks :
    /\ invites[l] # None /\ Move(r, "lookup")
    /\ \/ \E i \in SignedIn :
            /\ user' = [user EXCEPT ![r] = i]
            /\ job' = [job EXCEPT ![r] = [NewJob("redeem") EXCEPT !.link = l]]
       \/ \E n \in Names :
            /\ user' = [user EXCEPT ![r] = r]
            /\ job' = [job EXCEPT ![r] = [NewJob("redeem") EXCEPT !.link = l, !.name = n]]

Arrive(r) ==
    /\ At(r, "idle")
    /\ Setup(r) \/ Login(r) \/ Manage(r) \/ Redeem(r)
    /\ UNCHANGED <<rows, now, role, listed, history>>

-----------------------------------------------------------------------------
(* Accounts.                                                               *)

\* A row that refers to an account needs it; an account referred to stays.
Exists(i) == i \in accounts

\* Mutation: sessions refer to no account.
ReferencedByRows(i) == members[i] # None

Referenced(i) ==
    \/ i \in {s.user : s \in sessions} \/ members[i] # None
    \/ \E l \in AllLinks : /\ invites[l] # None /\ invites[l].exists
                           /\ i \in {invites[l].by, invites[l].redeemedBy}

\* The setup route turns requests away once there is a user.
CountUsers(r) ==
    /\ At(r, "countUsers")
    /\ Move(r, IF accounts = {} THEN "lockUsers" ELSE "refused")
    /\ UNCHANGED <<rows, now, locals, history>>

\* Mutation: no advisory lock.
LockUsersFree(r) ==
    /\ At(r, "lockUsers")
    /\ Move(r, IF accounts = {} THEN "insertFirst" ELSE "refused")
    /\ UNCHANGED <<rows, now, locals, history>>

\* createFirstUser holds an advisory lock from its count to its commit.
LockUsers(r) ==
    /\ At(r, "lockUsers")
    /\ \A q \in Requests : ~At(q, "insertFirst")
    /\ Move(r, IF accounts = {} THEN "insertFirst" ELSE "refused")
    /\ UNCHANGED <<rows, now, locals, history>>

\* register reads the name first; the unique index catches a later twin.
CheckName(r) ==
    /\ At(r, "checkName")
    /\ Move(r, IF Taken(job[r].name) THEN "refused" ELSE "insertUser")
    /\ UNCHANGED <<rows, now, locals, history>>

InsertUser(r) ==
    /\ pc[r] \in {"insertFirst", "insertUser"}
    /\ IF Taken(job[r].name)
       THEN Move(r, "failed") /\ UNCHANGED accounts
       ELSE Move(r, "openSession") /\ accounts' = accounts \cup {r}
    /\ UNCHANGED <<sessions, members, invites, now, locals, history>>

\* login: the account of that name, whose password is then verified.
FindUser(r) ==
    /\ At(r, "findUser")
    /\ \/ \E i \in accounts : /\ NameOf(i) = job[r].name
                              /\ user' = [user EXCEPT ![r] = i] /\ Move(r, "openSession")
       \/ Move(r, "refused") /\ UNCHANGED user
    /\ UNCHANGED <<rows, now, job, role, listed, history>>

OpenSession(r) ==
    /\ At(r, "openSession")
    /\ IF Exists(user[r])
       THEN /\ sessions' = sessions \cup {[user |-> user[r], by |-> r]}
            /\ Move(r, IF job[r].kind = "redeem" THEN "claim" ELSE "done")
       ELSE Move(r, "failed") /\ UNCHANGED sessions
    /\ UNCHANGED <<accounts, members, invites, now, locals, history>>

-----------------------------------------------------------------------------
(* Redeeming a link.                                                       *)

Live(l) == invites[l].exists /\ invites[l].redeemedBy = None /\ now < invites[l].expires

\* The row, not redeemed and not expired; then the account, if one is needed.
Lookup(r) ==
    /\ At(r, "lookup")
    /\ Move(r, IF ~Live(job[r].link) THEN "refused"
               ELSE IF Signup(r) THEN "checkName" ELSE "claim")
    /\ UNCHANGED <<rows, now, locals, history>>

\* Mutation: the expiry was looked at before.
ClaimableLate(l) == invites[l].exists /\ invites[l].redeemedBy = None

\* Mutation: a lost claim is only reported.
LostQuietly(r) == "refused"

Claimable(l) == Live(l)
Lost(r) == IF Signup(r) THEN "dropSession" ELSE "refused"

\* One conditional UPDATE claims the link.  Whoever loses undoes the account
\* made for this redemption.  The code then reads the row again for the reason.
Claim(r) ==
    /\ At(r, "claim")
    /\ LET l == job[r].link IN
       IF ~Claimable(l) THEN Move(r, Lost(r)) /\ UNCHANGED invites
       ELSE IF ~Exists(user[r]) THEN Move(r, "failed") /\ UNCHANGED invites
       ELSE /\ invites' = [invites EXCEPT ![l].redeemedBy = user[r], ![l].redeemedAt = now]
            /\ Move(r, "readRole")
    /\ UNCHANGED <<accounts, sessions, members, now, locals, history>>

DropSession(r) ==
    /\ At(r, "dropSession")
    /\ sessions' = {s \in sessions : s.by # r}
    /\ Move(r, "dropUser")
    /\ UNCHANGED <<accounts, members, invites, now, locals, history>>

\* Refused by the foreign keys when the new account has been used meanwhile.
DropUser(r) ==
    /\ At(r, "dropUser")
    /\ IF Referenced(r)
       THEN Move(r, "orphaned") /\ UNCHANGED accounts
       ELSE Move(r, "refused") /\ accounts' = accounts \ {r}
    /\ UNCHANGED <<sessions, members, invites, now, locals, history>>

\* A member keeps the role he has.
ReadRole(r) ==
    /\ At(r, "readRole")
    /\ role' = [role EXCEPT ![r] = members[user[r]]]
    /\ Move(r, IF members[user[r]] = None THEN "join" ELSE "done")
    /\ UNCHANGED <<rows, now, job, user, listed, history>>

\* Otherwise the link's role; ds_member_uq refuses a second membership.
Join(r) ==
    /\ At(r, "join")
    /\ LET granted == invites[job[r].link].role IN
       IF members[user[r]] # None \/ ~Exists(user[r])
       THEN Move(r, "failed") /\ UNCHANGED <<members, role, joins>>
       ELSE /\ members' = [members EXCEPT ![user[r]] = granted]
            /\ role' = [role EXCEPT ![r] = granted]
            /\ joins' = joins \cup {[by |-> r, user |-> user[r], role |-> granted,
                                     link |-> job[r].link]}
            /\ Move(r, "done")
    /\ UNCHANGED <<accounts, sessions, invites, now, job, user, listed, founding, removed>>

-----------------------------------------------------------------------------
(* Managing members and links.                                             *)

\* Mutation: any manager grants any role.
MayMintAny(r, caller) == TRUE
MayMint(r, caller) == job[r].role = "owner" => caller = "owner"

\* requireDataSourceCapability(..., 'manage_members')
Authorize(r) ==
    /\ At(r, "authorize")
    /\ LET caller == members[user[r]] IN
       /\ role' = [role EXCEPT ![r] = caller]
       /\ Move(r, IF caller \notin Managers THEN "refused"
                  ELSE CASE job[r].kind = "mint" ->
                              IF MayMint(r, caller) THEN "insertInvite" ELSE "refused"
                         [] job[r].kind = "revoke" -> "deleteInvite"
                         [] OTHER -> "listMembers")
    /\ UNCHANGED <<rows, now, job, user, listed, history>>

InsertInvite(r) ==
    /\ At(r, "insertInvite")
    /\ IF Exists(user[r])
       THEN /\ invites' = [invites EXCEPT ![r] = NewInvite(job[r].role, role[r], user[r])]
            /\ Move(r, "done")
       ELSE Move(r, "failed") /\ UNCHANGED invites
    /\ UNCHANGED <<accounts, sessions, members, now, locals, history>>

\* revoke deletes the row whether or not it was redeemed.
DeleteInvite(r) ==
    /\ At(r, "deleteInvite")
    /\ invites' = [invites EXCEPT ![job[r].link].exists = FALSE]
    /\ Move(r, "done")
    /\ UNCHANGED <<accounts, sessions, members, now, locals, history>>

\* Mutation: off by one.
IsLastOwnerNever == Cardinality(Owners) < 1
IsLastOwner == Cardinality(Owners) <= 1

\* Only an owner removes an owner, and never the last one.
ListMembers(r) ==
    /\ At(r, "listMembers")
    /\ listed' = [listed EXCEPT ![r] = Owners]
    /\ Move(r, CASE members[job[r].target] = None -> "done"
                 [] job[r].target \in Owners /\ (role[r] # "owner" \/ IsLastOwner) -> "refused"
                 [] OTHER -> "deleteMember")
    /\ UNCHANGED <<rows, now, job, user, role, history>>

DeleteMember(r) ==
    /\ At(r, "deleteMember")
    /\ members' = [members EXCEPT ![job[r].target] = None]
    /\ removed' = removed \cup {job[r].target}
    /\ Move(r, "done")
    /\ UNCHANGED <<accounts, sessions, invites, now, locals, joins, founding>>

-----------------------------------------------------------------------------
(* Faults and time.                                                        *)

InFlight(r) == pc[r] \notin {"idle"} \cup Ended

\* A statement fails: the request is answered with a server error.
Fail(r) ==
    /\ InFlight(r)
    /\ Move(r, "failed")
    /\ UNCHANGED <<rows, now, locals, history>>

Crash ==
    /\ \E r \in Requests : InFlight(r)
    /\ pc' = [r \in Requests |-> IF InFlight(r) THEN "lost" ELSE pc[r]]
    /\ UNCHANGED <<rows, now, locals, history>>

Tick ==
    /\ now < MaxTime
    /\ now' = now + 1
    /\ UNCHANGED <<rows, pc, locals, history>>

Account(r) == CountUsers(r) \/ LockUsers(r) \/ CheckName(r) \/ InsertUser(r) \/ FindUser(r)
              \/ OpenSession(r)
Redemption(r) == Lookup(r) \/ Claim(r) \/ DropSession(r) \/ DropUser(r) \/ ReadRole(r) \/ Join(r)
Management(r) == Authorize(r) \/ InsertInvite(r) \/ DeleteInvite(r) \/ ListMembers(r)
                 \/ DeleteMember(r)

Next ==
    \/ \E r \in Requests : Arrive(r) \/ Account(r) \/ Redemption(r) \/ Management(r) \/ Fail(r)
    \/ Crash \/ Tick

Spec == Init /\ [][Next]_vars

-----------------------------------------------------------------------------
(* Safety.                                                                 *)

\* A link lets one person in, once, with its own role and before it expires,
\* whoever else redeems, revokes or signs up at that moment (redeem's atomic
\* claim).
OneJoinPerLink ==
    \A j \in joins :
        /\ \A k \in joins : j.link = k.link => j = k
        /\ LET l == invites[j.link] IN
           l.redeemedBy = j.user /\ l.role = j.role /\ l.redeemedAt < l.expires

\* Every role is one the source started with or came from a link, and ownership
\* only from links of callers who were owners: managers cannot raise anyone,
\* themselves included, to a role above their own (create and redeem).  And a
\* redemption that succeeds reports the role its user really has, unless the user
\* has been removed since: two links redeemed at once never mix roles.
RolesAreGranted ==
    /\ \A i \in Ids : members[i] \in {None, founding[i]} \/
        \E j \in joins : /\ j.user = i /\ j.role = members[i]
                         /\ j.role = "owner" => invites[j.link].minter = "owner"
    /\ \A r \in Requests :
         pc[r] = "done" /\ job[r].kind = "redeem" /\ user[r] \notin removed =>
             members[user[r]] = role[r]

\* A login to the account that request r made.
LoggedInto(r) == \E s \in sessions :
    s.user = r /\ s.by \in Requests \ {r} /\ job[s.by].kind = "login"

\* A redemption that loses its link undoes its registration: its session is gone,
\* and its account too unless someone has logged in to it meanwhile
\* (rollbackRegistration; requests that fail or die on the way undo nothing).
LoserLeavesNothing ==
    \A r \in Requests :
        /\ pc[r] \in {"refused", "orphaned"} => \A s \in sessions : s.by # r
        /\ pc[r] = "refused" => r \notin accounts
        /\ pc[r] = "orphaned" => LoggedInto(r)

\* However many setups race on a new installation, one account comes out of it.
OneFirstUser ==
    Cardinality({r \in accounts \cap Requests : job[r].kind = "setup"}) <= 1

\* The source loses its last owner only if the owners changed after the request
\* that removes him listed them: one removal on its own never does it
\* (removeMember).
LastOwnerLostOnlyToARace ==
    [][\A r \in Requests :
         DeleteMember(r) /\ Owners # {} /\ Owners' = {} => listed[r] # Owners]_vars

\* A source that has an owner keeps one.  (It does not: removeMember counts the
\* owners and deletes the membership in two statements.)
SourceKeepsAnOwner == "owner" \in {founding[i] : i \in Ids} => Owners # {}
=============================================================================
