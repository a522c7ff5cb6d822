--------------------------- MODULE MembershipProofs ----------------------------
(***************************************************************************)
(* Who may use a Data Source, for every set of accounts, links and         *)
(* requests: a link admits one account, roles come from links of callers   *)
(* who held them, a redemption that loses its link takes its account back  *)
(* unless somebody has logged in to it, one account comes out of a new     *)
(* installation, and the last owner goes only to a race.  The argument     *)
(* follows a link from its mint to the one request that claims it, and an  *)
(* account from its insert to its rollback: until then others can use it   *)
(* through a login only.                                                   *)
(***************************************************************************)
EXTENDS Membership, FiniteSetTheorems, TLAPS

\* The rows are rows of their tables.
Typed ==
    /\ TypeOK
    /\ invites \in [AllLinks -> Invite \cup {None}]
    /\ job \in [Requests -> Job \cup {None}]

Named(r) == job[r].kind \in {"redeem", "revoke"}
Managing == {"mint", "revoke", "remove"}
SigningUp == {"checkName", "insertUser", "dropSession", "dropUser"}

\* What a request asks for names what its statements need.
JobsAreComplete == \A r \in Requests : pc[r] # "idle" =>
    /\ Named(r) => job[r].link \in AllLinks /\ invites[job[r].link] \in Invite
    /\ job[r].kind = "remove" => job[r].target \in Ids
    /\ job[r].kind = "mint" => job[r].role \in Roles
    /\ job[r].kind # "login" => user[r] \in Ids
    /\ job[r].kind = "setup" => Signup(r)

\* The place of a request fits what it asks for.
PlacesFit == \A r \in Requests :
    /\ pc[r] \in {"countUsers", "lockUsers", "insertFirst"} => job[r].kind = "setup"
    /\ pc[r] = "findUser" => job[r].kind = "login"
    /\ pc[r] = "openSession" =>
         /\ user[r] \in Ids
         /\ job[r].kind \in {"setup", "login"} \/ (job[r].kind = "redeem" /\ Signup(r))
    /\ pc[r] = "authorize" => job[r].kind \in Managing
    /\ pc[r] = "insertInvite" => job[r].kind = "mint"
    /\ pc[r] = "deleteInvite" => job[r].kind = "revoke"
    /\ pc[r] \in {"listMembers", "deleteMember"} => job[r].kind = "remove"
    /\ pc[r] \in {"lookup", "claim", "readRole", "join"} => job[r].kind = "redeem"
    /\ pc[r] \in SigningUp => job[r].kind = "redeem" /\ Signup(r)

Unminted == {"idle", "authorize", "insertInvite"}

\* A link that is there, or that is named, was minted before.
LinksAreMinted ==
    /\ \A l \in Requests : invites[l] # None => pc[l] \notin Unminted
    /\ \A r \in Requests : pc[r] # "idle" /\ Named(r) /\ job[r].link \in Requests =>
         pc[job[r].link] \notin Unminted
    /\ \A j \in joins : j.link \in Requests => pc[j.link] \notin Unminted

Holding == {"readRole", "join"}

\* A claimed link is one request's, and has let nobody in yet.
LinksAreHeld ==
    /\ \A r \in Requests : pc[r] \in Holding =>
         LET l == invites[job[r].link] IN
         /\ l.redeemedBy = user[r] /\ l.redeemedAt < l.expires
         /\ \A j \in joins : j.link # job[r].link
         /\ \A q \in Requests \ {r} : pc[q] \in Holding => job[q].link # job[r].link
    /\ \A j \in joins : j.link \in AllLinks /\ j.user \in Ids /\ invites[j.link] \in Invite

\* Only owners mint links for owners.
MintersHadTheRole ==
    /\ \A l \in AllLinks : invites[l] # None =>
         (invites[l].role = "owner" => invites[l].minter = "owner")
    /\ \A r \in Requests : pc[r] # "idle" /\ Named(r) =>
         (invites[job[r].link].role = "owner" => invites[job[r].link].minter = "owner")
    /\ \A r \in Requests : pc[r] = "insertInvite" =>
         role[r] \in Managers /\ (job[r].role = "owner" => role[r] = "owner")

RolesCameFromLinks == \A i \in Ids : members[i] \in {None, founding[i]} \/
    \E j \in joins : /\ j.user = i /\ j.role = members[i]
                     /\ j.role = "owner" => invites[j.link].minter = "owner"

\* A redemption that succeeded made, or found, a member.
RedeemersAreMembers == \A r \in Requests :
    pc[r] = "done" /\ job[r].kind = "redeem" /\ user[r] \notin removed =>
        members[user[r]] = role[r] /\ role[r] # None

Registered == {"openSession", "claim", "dropSession", "dropUser", "readRole", "join",
               "done", "orphaned", "failed", "lost"}

\* An account or a session made by a request is there only while, or after, the
\* request needs it.
AccountsAreHeld == \A r \in Requests :
    /\ r \in accounts => /\ pc[r] \in Registered /\ Signup(r)
                         /\ job[r].kind \in {"setup", "redeem"}
    /\ \A s \in sessions : s.by = r =>
         /\ pc[r] \in Registered \ {"openSession", "dropUser", "orphaned"}
         /\ job[r].kind = "redeem" => Signup(r)

\* One setup at a time is between its count and its insert, and it was the first.
FirstUsers ==
    /\ \A q, r \in Requests : pc[q] = "insertFirst" /\ pc[r] = "insertFirst" => q = r
    /\ \A q, r \in Requests : q \in accounts /\ job[q].kind = "setup" =>
         /\ pc[r] # "insertFirst"
         /\ r \in accounts /\ job[r].kind = "setup" => q = r

\* A removal goes on when there was another owner.
OthersWereListed == \A r \in Requests :
    pc[r] = "deleteMember" /\ job[r].target \in listed[r] => ~(Cardinality(listed[r]) <= 1)

IInv ==
    /\ Typed /\ JobsAreComplete /\ PlacesFit /\ LinksAreMinted /\ LinksAreHeld
    /\ OneJoinPerLink /\ MintersHadTheRole /\ RolesCameFromLinks /\ RedeemersAreMembers
    /\ AccountsAreHeld /\ FirstUsers /\ OthersWereListed

-----------------------------------------------------------------------------
(* Steps that only move a request.                                         *)

\* What a request must bring to stand at p.
Fits(r, p) ==
    /\ pc[r] \notin Ended \cup {"idle"}
    /\ p \in Points
    /\ p \notin {"idle", "countUsers", "findUser", "authorize", "openSession", "insertFirst",
                "insertInvite", "deleteMember", "readRole", "join"}
    /\ p = "lockUsers" => job[r].kind = "setup"
    /\ p = "deleteInvite" => job[r].kind = "revoke"
    /\ p = "listMembers" => job[r].kind = "remove"
    /\ p \in {"lookup", "claim"} => job[r].kind = "redeem"
    /\ p \in SigningUp => job[r].kind = "redeem" /\ Signup(r)
    /\ p = "done" => job[r].kind # "redeem"
    /\ r \in accounts => p \in Registered
    /\ \A s \in sessions : s.by = r => p \in Registered \ {"dropUser", "orphaned"}

\* A step that changes no row keeps IInv.
LEMMA QuietKeeps ==
    ASSUME IInv, NEW r \in Requests, NEW p, Fits(r, p), Move(r, p),
           UNCHANGED <<rows, now, locals, history>>
    PROVE  IInv'
<1>a. /\ pc' = [pc EXCEPT ![r] = p] /\ pc \in [Requests -> Points] /\ p \in Points
      /\ UNCHANGED <<accounts, sessions, members, invites, now, job, user, role, listed, joins,
                     founding, removed>>
  BY DEF IInv, Typed, TypeOK, Fits, Move, rows, locals, history
<1>1. Typed'
  BY <1>a DEF IInv, Typed, TypeOK, Fits, Ended
<1>2. JobsAreComplete'
  BY <1>a DEF IInv, Typed, TypeOK, JobsAreComplete, Named, Signup, Fits, Ended
<1>3. PlacesFit'
  BY <1>a DEF IInv, Typed, TypeOK, PlacesFit, Signup, Managing, SigningUp, Fits, Ended
<1>4. LinksAreMinted'
  BY <1>a DEF IInv, Typed, TypeOK, LinksAreMinted, Named, Unminted, Fits, Ended
<1>5. LinksAreHeld'
  BY <1>a DEF IInv, Typed, TypeOK, LinksAreHeld, Holding, Fits, Ended
<1>6. OneJoinPerLink'
  BY <1>a DEF IInv, OneJoinPerLink, Fits, Ended
<1>7. MintersHadTheRole'
  BY <1>a DEF IInv, Typed, TypeOK, MintersHadTheRole, Named, Fits, Ended
<1>8. RolesCameFromLinks'
  BY <1>a DEF IInv, RolesCameFromLinks, Fits, Ended
<1>9. RedeemersAreMembers'
  BY <1>a DEF IInv, Typed, TypeOK, RedeemersAreMembers, Fits, Ended
<1>10. AccountsAreHeld'
  BY <1>a DEF IInv, Typed, TypeOK, AccountsAreHeld, Registered, Signup, Fits, Ended
<1>11. FirstUsers'
  BY <1>a DEF IInv, Typed, TypeOK, FirstUsers, Fits, Ended
<1>12. OthersWereListed'
  BY <1>a DEF IInv, Typed, TypeOK, OthersWereListed, Fits, Ended
<1> QED BY <1>1, <1>2, <1>3, <1>4, <1>5, <1>6, <1>7, <1>8, <1>9, <1>10, <1>11, <1>12 DEF
   IInv

\* A statement fails.
LEMMA FailureFits ==
    ASSUME IInv, NEW r \in Requests, pc[r] \notin Ended \cup {"idle"}
    PROVE  Fits(r, "failed")
BY DEF Fits, Points, Ended, SigningUp, Registered

\* The failed request stays where it was, and takes nothing back.
LEMMA FailKeeps ==
    ASSUME IInv, NEW r \in Requests, Fail(r)
    PROVE  IInv'
BY FailureFits, QuietKeeps DEF Fail, InFlight

\* The requests that only read: a setup counts, a redemption looks at the link
\* and at the name.
LEMMA ReadsKeep ==
    ASSUME IInv, NEW r \in Requests, CountUsers(r) \/ CheckName(r) \/ Lookup(r)
    PROVE  IInv'
<1>1. /\ r \notin accounts /\ \A s \in sessions : s.by # r
      /\ pc[r] \in {"countUsers", "checkName", "lookup"}
  BY DEF IInv, AccountsAreHeld, Registered, CountUsers, CheckName, Lookup, At
<1>2. ASSUME NEW p \in {"lockUsers", "insertUser", "checkName", "claim", "refused"},
             p = "lockUsers" => pc[r] = "countUsers",
             p = "insertUser" => pc[r] = "checkName",
             p = "checkName" => pc[r] = "lookup" /\ Signup(r),
             p = "claim" => pc[r] = "lookup"
      PROVE  Fits(r, p)
  BY <1>1, <1>2 DEF IInv, PlacesFit, Fits, Points, Ended, SigningUp, Registered
<1>3. CASE CountUsers(r)
  BY <1>2, <1>3, QuietKeeps DEF CountUsers, At
<1>4. CASE CheckName(r)
  BY <1>2, <1>4, QuietKeeps DEF CheckName, At
<1>5. CASE Lookup(r)
  <2> DEFINE p == IF ~Live(job[r].link) THEN "refused"
                  ELSE IF Signup(r) THEN "checkName" ELSE "claim"
  <2>1. Move(r, p) /\ UNCHANGED <<rows, now, locals, history>> /\ pc[r] = "lookup"
    BY <1>5 DEF Lookup, At
  <2>2. Fits(r, p)
    BY <2>1, <1>2
  <2> QED BY <2>1, <2>2, QuietKeeps
<1> QED BY <1>3, <1>4, <1>5

-----------------------------------------------------------------------------
(* Accounts.                                                               *)

\* Under the lock there is no account, and nobody else goes to insert the first.
LEMMA LockUsersKeeps ==
    ASSUME IInv, NEW r \in Requests, LockUsers(r)
    PROVE  IInv'
<1>1. /\ pc[r] = "lockUsers" /\ job[r].kind = "setup" /\ pc \in [Requests -> Points]
      /\ r \notin accounts /\ \A s \in sessions : s.by # r
      /\ UNCHANGED <<accounts, sessions, members, invites, now, job, user, role, listed, joins,
                     founding, removed>>
  BY DEF IInv, Typed, TypeOK, PlacesFit, AccountsAreHeld, Registered, LockUsers, At, rows, locals,
     history
<1>2. CASE accounts # {}
  <2>1. Fits(r, "refused")
    BY <1>1 DEF Fits, Points, Ended, SigningUp
  <2> QED BY <1>2, <2>1, QuietKeeps DEF LockUsers
<1>3. CASE accounts = {}
  <2>1. /\ pc' = [pc EXCEPT ![r] = "insertFirst"] /\ "insertFirst" \in Points
        /\ \A q \in Requests : pc[q] # "insertFirst"
    BY <1>3 DEF LockUsers, Move, At, Points
  <2>2. Typed'
    BY <1>1, <2>1 DEF IInv, Typed, TypeOK
  <2>3. JobsAreComplete'
    BY <1>1, <2>1 DEF IInv, Typed, TypeOK, JobsAreComplete, Named, Signup
  <2>4. PlacesFit'
    BY <1>1, <2>1 DEF IInv, Typed, TypeOK, PlacesFit, Signup, Managing, SigningUp
  <2>5. LinksAreMinted'
    BY <1>1, <2>1 DEF IInv, Typed, TypeOK, LinksAreMinted, Named, Unminted
  <2>6. LinksAreHeld'
    BY <1>1, <2>1 DEF IInv, Typed, TypeOK, LinksAreHeld, Holding
  <2>7. OneJoinPerLink'
    BY <1>1, <2>1 DEF IInv, OneJoinPerLink
  <2>8. MintersHadTheRole'
    BY <1>1, <2>1 DEF IInv, Typed, TypeOK, MintersHadTheRole, Named
  <2>9. RolesCameFromLinks'
    BY <1>1, <2>1 DEF IInv, RolesCameFromLinks
  <2>10. RedeemersAreMembers'
    BY <1>1, <2>1 DEF IInv, Typed, TypeOK, RedeemersAreMembers
  <2>11. AccountsAreHeld'
    BY <1>1, <2>1 DEF IInv, Typed, TypeOK, AccountsAreHeld, Registered, Signup
  <2>12. FirstUsers'
    BY <1>1, <2>1, <1>3 DEF IInv, Typed, TypeOK, FirstUsers
  <2>13. OthersWereListed'
    BY <1>1, <2>1 DEF IInv, Typed, TypeOK, OthersWereListed
  <2> QED BY <2>2, <2>3, <2>4, <2>5, <2>6, <2>7, <2>8, <2>9, <2>10, <2>11, <2>12, <2>13 DEF
     IInv
<1> QED BY <1>2, <1>3

\* The account of a signup; at most one setup comes this far.
LEMMA InsertUserKeeps ==
    ASSUME IInv, NEW r \in Requests, InsertUser(r)
    PROVE  IInv'
<1>1. /\ pc[r] \in {"insertFirst", "insertUser"} /\ pc \in [Requests -> Points]
      /\ job[r].kind = IF pc[r] = "insertFirst" THEN "setup" ELSE "redeem"
      /\ Signup(r) /\ r \in Ids /\ r \notin accounts /\ \A s \in sessions : s.by # r
      /\ UNCHANGED <<sessions, members, invites, now, job, user, role, listed, joins, founding,
                     removed>>
  BY DEF IInv, Typed, TypeOK, PlacesFit, JobsAreComplete, AccountsAreHeld, Registered, SigningUp,
     InsertUser, locals, history, Ids
<1>2. CASE Taken(job[r].name)
  BY <1>1, <1>2, FailureFits, QuietKeeps DEF InsertUser, Ended, rows, locals, history
<1>3. CASE ~Taken(job[r].name)
  <2>1. /\ pc' = [pc EXCEPT ![r] = "openSession"] /\ "openSession" \in Points
        /\ accounts' = accounts \cup {r}
    BY <1>3 DEF InsertUser, Move, Points
  <2>2. Typed'
    BY <1>1, <2>1 DEF IInv, Typed, TypeOK
  <2>3. JobsAreComplete'
    BY <1>1, <2>1 DEF IInv, Typed, TypeOK, JobsAreComplete, Named, Signup
  <2>4. PlacesFit'
    BY <1>1, <2>1 DEF IInv, Typed, TypeOK, PlacesFit, Signup, Managing, SigningUp
  <2>5. LinksAreMinted'
    BY <1>1, <2>1 DEF IInv, Typed, TypeOK, LinksAreMinted, Named, Unminted
  <2>6. LinksAreHeld'
    BY <1>1, <2>1 DEF IInv, Typed, TypeOK, LinksAreHeld, Holding
  <2>7. OneJoinPerLink'
    BY <1>1, <2>1 DEF IInv, OneJoinPerLink
  <2>8. MintersHadTheRole'
    BY <1>1, <2>1 DEF IInv, Typed, TypeOK, MintersHadTheRole, Named
  <2>9. RolesCameFromLinks'
    BY <1>1, <2>1 DEF IInv, RolesCameFromLinks
  <2>10. RedeemersAreMembers'
    BY <1>1, <2>1 DEF IInv, Typed, TypeOK, RedeemersAreMembers
  <2>11. AccountsAreHeld'
    BY <1>1, <2>1 DEF IInv, Typed, TypeOK, AccountsAreHeld, Registered, Signup
  <2>12. FirstUsers'
    BY <1>1, <2>1 DEF IInv, Typed, TypeOK, FirstUsers
  <2>13. OthersWereListed'
    BY <1>1, <2>1 DEF IInv, Typed, TypeOK, OthersWereListed
  <2> QED BY <2>2, <2>3, <2>4, <2>5, <2>6, <2>7, <2>8, <2>9, <2>10, <2>11, <2>12, <2>13 DEF
     IInv
<1> QED BY <1>2, <1>3

\* A login finds its account, or none.
LEMMA FindUserKeeps ==
    ASSUME IInv, NEW r \in Requests, FindUser(r)
    PROVE  IInv'
<1>1. /\ pc[r] = "findUser" /\ job[r].kind = "login" /\ pc \in [Requests -> Points]
      /\ r \notin accounts /\ \A s \in sessions : s.by # r
      /\ UNCHANGED <<accounts, sessions, members, invites, now, job, role, listed, joins, founding,
                     removed>>
  BY DEF IInv, Typed, TypeOK, PlacesFit, AccountsAreHeld, Registered, FindUser, At, rows, history
<1>2. CASE Move(r, "refused") /\ UNCHANGED user
  <2>1. Fits(r, "refused")
    BY <1>1 DEF Fits, Points, Ended, SigningUp
  <2> QED BY <1>1, <1>2, <2>1, QuietKeeps DEF rows, locals, history
<1>3. ASSUME NEW i \in accounts, user' = [user EXCEPT ![r] = i], Move(r, "openSession")
      PROVE  IInv'
  <2>1. /\ pc' = [pc EXCEPT ![r] = "openSession"] /\ "openSession" \in Points
        /\ user \in [Requests -> Ids \cup {None}] /\ user' = [user EXCEPT ![r] = i] /\ i \in Ids
    BY <1>3 DEF Move, Points, IInv, Typed, TypeOK
  <2>2. Typed'
    BY <1>1, <2>1 DEF IInv, Typed, TypeOK
  <2>3. JobsAreComplete'
    BY <1>1, <2>1 DEF IInv, Typed, TypeOK, JobsAreComplete, Named, Signup
  <2>4. PlacesFit'
    BY <1>1, <2>1 DEF IInv, Typed, TypeOK, PlacesFit, Signup, Managing, SigningUp
  <2>5. LinksAreMinted'
    BY <1>1, <2>1 DEF IInv, Typed, TypeOK, LinksAreMinted, Named, Unminted
  <2>6. LinksAreHeld'
    BY <1>1, <2>1 DEF IInv, Typed, TypeOK, LinksAreHeld, Holding
  <2>7. OneJoinPerLink'
    BY <1>1, <2>1 DEF IInv, OneJoinPerLink
  <2>8. MintersHadTheRole'
    BY <1>1, <2>1 DEF IInv, Typed, TypeOK, MintersHadTheRole, Named
  <2>9. RolesCameFromLinks'
    BY <1>1, <2>1 DEF IInv, RolesCameFromLinks
  <2>10. RedeemersAreMembers'
    BY <1>1, <2>1 DEF IInv, Typed, TypeOK, RedeemersAreMembers
  <2>11. AccountsAreHeld'
    BY <1>1, <2>1 DEF IInv, Typed, TypeOK, AccountsAreHeld, Registered, Signup
  <2>12. FirstUsers'
    BY <1>1, <2>1 DEF IInv, Typed, TypeOK, FirstUsers
  <2>13. OthersWereListed'
    BY <1>1, <2>1 DEF IInv, Typed, TypeOK, OthersWereListed
  <2> QED BY <2>2, <2>3, <2>4, <2>5, <2>6, <2>7, <2>8, <2>9, <2>10, <2>11, <2>12, <2>13 DEF
     IInv
<1> QED BY <1>2, <1>3 DEF FindUser

\* A session of an account that is there.
LEMMA OpenSessionKeeps ==
    ASSUME IInv, NEW r \in Requests, OpenSession(r)
    PROVE  IInv'
<1>1. /\ pc[r] = "openSession" /\ pc \in [Requests -> Points] /\ r \in Ids /\ user[r] \in Ids
      /\ job[r].kind \in {"setup", "login"} \/ (job[r].kind = "redeem" /\ Signup(r))
      /\ UNCHANGED <<accounts, members, invites, now, job, user, role, listed, joins, founding,
                     removed>>
  BY DEF IInv, Typed, TypeOK, PlacesFit, OpenSession, At, locals, history, Ids
<1>2. CASE ~Exists(user[r])
  BY <1>1, <1>2, FailureFits, QuietKeeps DEF OpenSession, Ended, rows, locals, history
<1>3. CASE Exists(user[r])
  <2> DEFINE p == IF job[r].kind = "redeem" THEN "claim" ELSE "done"
  <2>1. /\ pc' = [pc EXCEPT ![r] = p] /\ p \in Points \cap {"claim", "done"}
        /\ user[r] \in accounts
        /\ sessions' = sessions \cup {[user |-> user[r], by |-> r]}
        /\ p = "claim" <=> job[r].kind = "redeem"
    BY <1>3 DEF OpenSession, Move, Points, Ended, Exists
  <2> HIDE DEF p
  <2>2. Typed'
    BY <1>1, <2>1 DEF IInv, Typed, TypeOK
  <2>3. JobsAreComplete'
    BY <1>1, <2>1 DEF IInv, Typed, TypeOK, JobsAreComplete, Named, Signup
  <2>4. PlacesFit'
    BY <1>1, <2>1 DEF IInv, Typed, TypeOK, PlacesFit, Signup, Managing, SigningUp
  <2>5. LinksAreMinted'
    BY <1>1, <2>1 DEF IInv, Typed, TypeOK, LinksAreMinted, Named, Unminted
  <2>6. LinksAreHeld'
    BY <1>1, <2>1 DEF IInv, Typed, TypeOK, LinksAreHeld, Holding
  <2>7. OneJoinPerLink'
    BY <1>1, <2>1 DEF IInv, OneJoinPerLink
  <2>8. MintersHadTheRole'
    BY <1>1, <2>1 DEF IInv, Typed, TypeOK, MintersHadTheRole, Named
  <2>9. RolesCameFromLinks'
    BY <1>1, <2>1 DEF IInv, RolesCameFromLinks
  <2>10. RedeemersAreMembers'
    BY <1>1, <2>1 DEF IInv, Typed, TypeOK, RedeemersAreMembers
  <2>11. AccountsAreHeld'
    BY <1>1, <2>1 DEF IInv, Typed, TypeOK, AccountsAreHeld, Registered, Signup
  <2>12. FirstUsers'
    BY <1>1, <2>1 DEF IInv, Typed, TypeOK, FirstUsers
  <2>13. OthersWereListed'
    BY <1>1, <2>1 DEF IInv, Typed, TypeOK, OthersWereListed
  <2> QED BY <2>2, <2>3, <2>4, <2>5, <2>6, <2>7, <2>8, <2>9, <2>10, <2>11, <2>12, <2>13 DEF
     IInv
<1> QED BY <1>2, <1>3

-----------------------------------------------------------------------------
(* Redeeming a link.                                                       *)

\* The claim hits a link nobody holds and that has let nobody in.
LEMMA ClaimKeeps ==
    ASSUME IInv, NEW r \in Requests, Claim(r)
    PROVE  IInv'
<1> DEFINE l == job[r].link
<1>1. /\ pc[r] = "claim" /\ job[r].kind = "redeem" /\ pc \in [Requests -> Points]
      /\ l \in AllLinks /\ invites[l] \in Invite /\ user[r] \in Ids /\ user[r] # None
      /\ UNCHANGED <<accounts, sessions, members, now, job, user, role, listed, joins, founding, removed>>
  BY MembershipAssumption DEF IInv, Typed, TypeOK, PlacesFit, JobsAreComplete, Named, Claim, At,
     locals, history, Ids
<1>2. CASE ~Claimable(l)
  <2>1. Fits(r, Lost(r))
    BY <1>1 DEF IInv, AccountsAreHeld, Fits, Lost, Points, Ended, SigningUp, Registered
  <2> QED BY <1>1, <1>2, <2>1, QuietKeeps DEF Claim, rows, locals, history
<1>3. CASE Claimable(l) /\ ~Exists(user[r])
  BY <1>1, <1>3, FailureFits, QuietKeeps DEF Claim, Ended, rows, locals, history
<1>4. CASE Claimable(l) /\ Exists(user[r])
  <2>1. /\ pc' = [pc EXCEPT ![r] = "readRole"] /\ "readRole" \in Points
        /\ invites' = [invites EXCEPT ![l].redeemedBy = user[r], ![l].redeemedAt = now]
        /\ invites[l].redeemedBy = None /\ now < invites[l].expires
    BY <1>4 DEF Claim, Claimable, Live, Move, Points
  <2>2. /\ invites \in [AllLinks -> Invite \cup {None}] /\ now \in 0..MaxTime
        /\ invites' \in [AllLinks -> Invite \cup {None}]
        /\ \A k \in AllLinks \ {l} : invites'[k] = invites[k]
        /\ invites'[l] \in Invite /\ invites'[l].redeemedBy = user[r]
        /\ invites'[l].redeemedAt = now /\ invites'[l].expires = invites[l].expires
        /\ invites'[l].role = invites[l].role /\ invites'[l].minter = invites[l].minter
    BY <1>1, <2>1 DEF IInv, Typed, TypeOK, Invite
  <2>3. /\ \A j \in joins : j.link # l
        /\ \A q \in Requests : pc[q] \in Holding => job[q].link # l
    <3>1. None \notin Ids
      BY MembershipAssumption DEF Ids
    <3>2. \A j \in joins : j.link # l
      BY <2>1, <3>1 DEF IInv, OneJoinPerLink, LinksAreHeld
    <3>3. ASSUME NEW q \in Requests, pc[q] \in Holding PROVE job[q].link # l
      <4>1. user[q] \in Ids /\ invites[job[q].link].redeemedBy = user[q]
        BY <3>3 DEF IInv, PlacesFit, JobsAreComplete, LinksAreHeld, Holding
      <4> QED BY <2>1, <3>1, <4>1
    <3> QED BY <3>2, <3>3
  <2>4. Typed'
    BY <1>1, <2>1, <2>2 DEF IInv, Typed, TypeOK
  <2>5. JobsAreComplete'
    BY <1>1, <2>1, <2>2 DEF IInv, Typed, TypeOK, JobsAreComplete, Named, Signup
  <2>6. PlacesFit'
    BY <1>1, <2>1, <2>2 DEF IInv, Typed, TypeOK, PlacesFit, Signup, Managing, SigningUp
  <2>7. LinksAreMinted'
    BY <1>1, <2>1, <2>2 DEF IInv, Typed, TypeOK, LinksAreMinted, Named, Unminted, AllLinks
  <2>8. LinksAreHeld'
    <3>1. \A q \in Requests : pc[q] \in Holding => job[q].link \in AllLinks \ {l}
      BY <2>3 DEF IInv, PlacesFit, JobsAreComplete, Named, Holding
    <3>2. \A j \in joins : j.link \in AllLinks \ {l}
      BY <2>3 DEF IInv, LinksAreHeld
    <3>3. \A q \in Requests : pc'[q] \in Holding <=> q = r \/ pc[q] \in Holding
      BY <1>1, <2>1 DEF Holding
    <3>4. UNCHANGED <<job, user, joins>> /\ invites'[l].redeemedAt < invites'[l].expires
      BY <1>1, <2>1, <2>2
    <3>5. ASSUME NEW q \in Requests, pc'[q] \in Holding
          PROVE  /\ invites'[job[q].link].redeemedBy = user[q]
                 /\ invites'[job[q].link].redeemedAt < invites'[job[q].link].expires
                 /\ \A j \in joins : j.link # job[q].link
                 /\ \A t \in Requests \ {q} : pc'[t] \in Holding => job[t].link # job[q].link
      <4>1. CASE q = r
        BY <2>2, <2>3, <3>3, <3>4, <4>1
      <4>2. CASE q # r
        <5>1. pc[q] \in Holding /\ job[q].link # l /\ invites'[job[q].link] = invites[job[q].link]
          BY <2>2, <3>1, <3>3, <3>5, <4>2
        <5> QED BY <3>3, <5>1 DEF IInv, LinksAreHeld
      <4> QED BY <4>1, <4>2
    <3>6. \A j \in joins : j.link \in AllLinks /\ j.user \in Ids /\ invites'[j.link] \in Invite
      BY <2>2, <3>2 DEF IInv, LinksAreHeld
    <3> QED BY <3>4, <3>5, <3>6 DEF LinksAreHeld
  <2>9. OneJoinPerLink'
    BY <1>1, <2>1, <2>2, <2>3 DEF IInv, OneJoinPerLink, LinksAreHeld
  <2>10. MintersHadTheRole'
    BY <1>1, <2>1, <2>2 DEF IInv, Typed, TypeOK, MintersHadTheRole, Named, JobsAreComplete
  <2>11. RolesCameFromLinks'
    BY <1>1, <2>1, <2>2, <2>3 DEF IInv, RolesCameFromLinks, LinksAreHeld
  <2>12. RedeemersAreMembers'
    BY <1>1, <2>1, <2>2 DEF IInv, Typed, TypeOK, RedeemersAreMembers
  <2>13. AccountsAreHeld'
    BY <1>1, <2>1, <2>2 DEF IInv, Typed, TypeOK, AccountsAreHeld, Registered, Signup
  <2>14. FirstUsers'
    BY <1>1, <2>1, <2>2 DEF IInv, Typed, TypeOK, FirstUsers
  <2>15. OthersWereListed'
    BY <1>1, <2>1, <2>2 DEF IInv, Typed, TypeOK, OthersWereListed
  <2> QED BY <2>4, <2>5, <2>6, <2>7, <2>8, <2>9, <2>10, <2>11, <2>12, <2>13, <2>14, <2>15
     DEF IInv
<1> QED BY <1>2, <1>3, <1>4 DEF Claim

\* The session of the signup that lost is dropped first.
LEMMA DropSessionKeeps ==
    ASSUME IInv, NEW r \in Requests, DropSession(r)
    PROVE  IInv'
<1>1. /\ pc[r] = "dropSession" /\ job[r].kind = "redeem" /\ Signup(r)
      /\ pc \in [Requests -> Points]
      /\ pc' = [pc EXCEPT ![r] = "dropUser"] /\ "dropUser" \in Points
      /\ sessions' = {s \in sessions : s.by # r}
      /\ UNCHANGED <<accounts, members, invites, now, job, user, role, listed, joins, founding, removed>>
  BY DEF IInv, Typed, TypeOK, PlacesFit, SigningUp, DropSession, At, Move, Points, locals, history
<1>2. Typed'
  BY <1>1 DEF IInv, Typed, TypeOK
<1>3. JobsAreComplete'
  BY <1>1 DEF IInv, Typed, TypeOK, JobsAreComplete, Named, Signup
<1>4. PlacesFit'
  BY <1>1 DEF IInv, Typed, TypeOK, PlacesFit, Signup, Managing, SigningUp
<1>5. LinksAreMinted'
  BY <1>1 DEF IInv, Typed, TypeOK, LinksAreMinted, Named, Unminted
<1>6. LinksAreHeld'
  BY <1>1 DEF IInv, Typed, TypeOK, LinksAreHeld, Holding
<1>7. OneJoinPerLink'
  BY <1>1 DEF IInv, OneJoinPerLink
<1>8. MintersHadTheRole'
  BY <1>1 DEF IInv, Typed, TypeOK, MintersHadTheRole, Named
<1>9. RolesCameFromLinks'
  BY <1>1 DEF IInv, RolesCameFromLinks
<1>10. RedeemersAreMembers'
  BY <1>1 DEF IInv, Typed, TypeOK, RedeemersAreMembers
<1>11. AccountsAreHeld'
  BY <1>1 DEF IInv, Typed, TypeOK, AccountsAreHeld, Registered, Signup
<1>12. FirstUsers'
  BY <1>1 DEF IInv, Typed, TypeOK, FirstUsers
<1>13. OthersWereListed'
  BY <1>1 DEF IInv, Typed, TypeOK, OthersWereListed
<1> QED BY <1>2, <1>3, <1>4, <1>5, <1>6, <1>7, <1>8, <1>9, <1>10, <1>11, <1>12, <1>13 DEF
   IInv

\* Then the account, unless it is in use.
LEMMA DropUserKeeps ==
    ASSUME IInv, NEW r \in Requests, DropUser(r)
    PROVE  IInv'
<1>1. /\ pc[r] = "dropUser" /\ job[r].kind = "redeem" /\ Signup(r) /\ r \in Ids
      /\ pc \in [Requests -> Points] /\ \A s \in sessions : s.by # r
      /\ UNCHANGED <<sessions, members, invites, now, job, user, role, listed, joins, founding, removed>>
  BY DEF IInv, Typed, TypeOK, PlacesFit, AccountsAreHeld, Registered, SigningUp, DropUser, At,
     locals, history, Ids
<1>2. CASE Referenced(r)
  <2>1. Fits(r, "orphaned")
    BY <1>1 DEF Fits, Points, Ended, SigningUp, Registered
  <2> QED BY <1>1, <1>2, <2>1, QuietKeeps DEF DropUser, rows, locals, history
<1>3. CASE ~Referenced(r)
  <2>1. /\ pc' = [pc EXCEPT ![r] = "refused"] /\ "refused" \in Points
        /\ accounts' = accounts \ {r} /\ members[r] = None /\ \A s \in sessions : s.user # r
    BY <1>3 DEF DropUser, Move, Points, Ended, Referenced
  <2>2. Typed'
    BY <1>1, <2>1 DEF IInv, Typed, TypeOK
  <2>3. JobsAreComplete'
    BY <1>1, <2>1 DEF IInv, Typed, TypeOK, JobsAreComplete, Named, Signup
  <2>4. PlacesFit'
    BY <1>1, <2>1 DEF IInv, Typed, TypeOK, PlacesFit, Signup, Managing, SigningUp
  <2>5. LinksAreMinted'
    BY <1>1, <2>1 DEF IInv, Typed, TypeOK, LinksAreMinted, Named, Unminted
  <2>6. LinksAreHeld'
    BY <1>1, <2>1 DEF IInv, Typed, TypeOK, LinksAreHeld, Holding
  <2>7. OneJoinPerLink'
    BY <1>1, <2>1 DEF IInv, OneJoinPerLink
  <2>8. MintersHadTheRole'
    BY <1>1, <2>1 DEF IInv, Typed, TypeOK, MintersHadTheRole, Named
  <2>9. RolesCameFromLinks'
    BY <1>1, <2>1 DEF IInv, RolesCameFromLinks
  <2>10. RedeemersAreMembers'
    BY <1>1, <2>1 DEF IInv, Typed, TypeOK, RedeemersAreMembers
  <2>11. AccountsAreHeld'
    BY <1>1, <2>1 DEF IInv, Typed, TypeOK, AccountsAreHeld, Registered, Signup
  <2>12. FirstUsers'
    BY <1>1, <2>1 DEF IInv, Typed, TypeOK, FirstUsers
  <2>13. OthersWereListed'
    BY <1>1, <2>1 DEF IInv, Typed, TypeOK, OthersWereListed
  <2> QED BY <2>2, <2>3, <2>4, <2>5, <2>6, <2>7, <2>8, <2>9, <2>10, <2>11, <2>12, <2>13 DEF
     IInv
<1> QED BY <1>2, <1>3

\* A member keeps the role it has.
LEMMA ReadRoleKeeps ==
    ASSUME IInv, NEW r \in Requests, ReadRole(r)
    PROVE  IInv'
<1> DEFINE p == IF members[user[r]] = None THEN "join" ELSE "done"
<1>1. /\ pc[r] = "readRole" /\ job[r].kind = "redeem" /\ user[r] \in Ids
      /\ pc \in [Requests -> Points]
      /\ pc' = [pc EXCEPT ![r] = p] /\ p \in Points \cap {"join", "done"}
      /\ role \in [Requests -> Roles \cup {None}] /\ members[user[r]] \in Roles \cup {None}
      /\ role' = [role EXCEPT ![r] = members[user[r]]]
      /\ p = "done" <=> members[user[r]] # None
      /\ UNCHANGED <<accounts, sessions, members, invites, now, job, user, listed, joins, founding, removed>>
  BY DEF IInv, Typed, TypeOK, PlacesFit, JobsAreComplete, ReadRole, At, Move, Points, Ended, rows,
     history
<1> HIDE DEF p
<1>2. Typed'
  BY <1>1 DEF IInv, Typed, TypeOK
<1>3. JobsAreComplete'
  BY <1>1 DEF IInv, Typed, TypeOK, JobsAreComplete, Named, Signup
<1>4. PlacesFit'
  BY <1>1 DEF IInv, Typed, TypeOK, PlacesFit, Signup, Managing, SigningUp
<1>5. LinksAreMinted'
  BY <1>1 DEF IInv, Typed, TypeOK, LinksAreMinted, Named, Unminted
<1>6. LinksAreHeld'
  BY <1>1 DEF IInv, Typed, TypeOK, LinksAreHeld, Holding
<1>7. OneJoinPerLink'
  BY <1>1 DEF IInv, OneJoinPerLink
<1>8. MintersHadTheRole'
  BY <1>1 DEF IInv, Typed, TypeOK, MintersHadTheRole, Named
<1>9. RolesCameFromLinks'
  BY <1>1 DEF IInv, RolesCameFromLinks
<1>10. RedeemersAreMembers'
  BY <1>1 DEF IInv, Typed, TypeOK, RedeemersAreMembers
<1>11. AccountsAreHeld'
  BY <1>1 DEF IInv, Typed, TypeOK, AccountsAreHeld, Registered, Signup
<1>12. FirstUsers'
  BY <1>1 DEF IInv, Typed, TypeOK, FirstUsers
<1>13. OthersWereListed'
  BY <1>1 DEF IInv, Typed, TypeOK, OthersWereListed
<1> QED BY <1>2, <1>3, <1>4, <1>5, <1>6, <1>7, <1>8, <1>9, <1>10, <1>11, <1>12, <1>13 DEF
   IInv

\* The link's role, for somebody who is no member: the only join of that link.
LEMMA JoinKeeps ==
    ASSUME IInv, NEW r \in Requests, Join(r)
    PROVE  IInv'
<1> DEFINE l == job[r].link
           granted == invites[l].role
           new == [by |-> r, user |-> user[r], role |-> granted, link |-> l]
<1>1. /\ pc[r] = "join" /\ job[r].kind = "redeem" /\ user[r] \in Ids /\ l \in AllLinks
      /\ invites[l] \in Invite /\ granted \in Roles /\ granted # None
      /\ pc \in [Requests -> Points]
      /\ UNCHANGED <<accounts, sessions, invites, now, job, user, listed, founding, removed>>
  BY MembershipAssumption DEF IInv, Typed, TypeOK, PlacesFit, JobsAreComplete, Named, Join, At,
     Invite, Roles
<1>2. CASE members[user[r]] # None \/ ~Exists(user[r])
  BY <1>1, <1>2, FailureFits, QuietKeeps DEF Join, Ended, rows, locals, history
<1>3. CASE members[user[r]] = None /\ Exists(user[r])
  <2>1. /\ pc' = [pc EXCEPT ![r] = "done"] /\ "done" \in Points /\ user[r] \in accounts
        /\ members' = [members EXCEPT ![user[r]] = granted]
        /\ role' = [role EXCEPT ![r] = granted]
        /\ joins' = joins \cup {new} /\ members[user[r]] = None
    BY <1>3 DEF Join, Move, Points, Ended, Exists
  <2>2. /\ new.by = r /\ new.user = user[r] /\ new.role = granted /\ new.link = l
        /\ members \in [Ids -> Roles \cup {None}] /\ role \in [Requests -> Roles \cup {None}]
    BY DEF IInv, Typed, TypeOK
  <2> HIDE DEF new
  <2>3. Typed'
    BY <1>1, <2>1, <2>2 DEF IInv, Typed, TypeOK
  <2>4. JobsAreComplete'
    BY <1>1, <2>1, <2>2 DEF IInv, Typed, TypeOK, JobsAreComplete, Named, Signup
  <2>5. PlacesFit'
    BY <1>1, <2>1, <2>2 DEF IInv, Typed, TypeOK, PlacesFit, Signup, Managing, SigningUp
  <2>6. LinksAreMinted'
    BY <1>1, <2>1, <2>2 DEF IInv, Typed, TypeOK, LinksAreMinted, Named, Unminted
  <2>7. LinksAreHeld'
    BY <1>1, <2>1, <2>2 DEF IInv, Typed, TypeOK, LinksAreHeld, Holding
  <2>8. OneJoinPerLink'
    BY <1>1, <2>1, <2>2 DEF IInv, OneJoinPerLink, LinksAreHeld, Holding
  <2>9. MintersHadTheRole'
    BY <1>1, <2>1, <2>2 DEF IInv, Typed, TypeOK, MintersHadTheRole, Named
  <2>10. RolesCameFromLinks'
    BY <1>1, <2>1, <2>2 DEF IInv, RolesCameFromLinks, MintersHadTheRole, Named
  <2>11. RedeemersAreMembers'
    BY <1>1, <2>1, <2>2 DEF IInv, Typed, TypeOK, RedeemersAreMembers
  <2>12. AccountsAreHeld'
    BY <1>1, <2>1, <2>2 DEF IInv, Typed, TypeOK, AccountsAreHeld, Registered, Signup
  <2>13. FirstUsers'
    BY <1>1, <2>1, <2>2 DEF IInv, Typed, TypeOK, FirstUsers
  <2>14. OthersWereListed'
    BY <1>1, <2>1, <2>2 DEF IInv, Typed, TypeOK, OthersWereListed
  <2> QED BY <2>3, <2>4, <2>5, <2>6, <2>7, <2>8, <2>9, <2>10, <2>11, <2>12, <2>13, <2>14
     DEF IInv
<1> QED BY <1>2, <1>3

-----------------------------------------------------------------------------
(* Managing members and links.                                             *)

\* The caller's role is read once; only an owner goes on to mint for owners.
LEMMA AuthorizeKeeps ==
    ASSUME IInv, NEW r \in Requests, Authorize(r)
    PROVE  IInv'
<1> DEFINE caller == members[user[r]]
           p == IF caller \notin Managers THEN "refused"
                ELSE CASE job[r].kind = "mint" ->
                            IF MayMint(r, caller) THEN "insertInvite" ELSE "refused"
                       [] job[r].kind = "revoke" -> "deleteInvite"
                       [] OTHER -> "listMembers"
<1>1. /\ pc[r] = "authorize" /\ job[r].kind \in Managing /\ user[r] \in Ids
      /\ pc \in [Requests -> Points] /\ pc' = [pc EXCEPT ![r] = p]
      /\ r \notin accounts /\ \A s \in sessions : s.by # r
      /\ role \in [Requests -> Roles \cup {None}] /\ role' = [role EXCEPT ![r] = caller]
      /\ caller \in Roles \cup {None}
      /\ UNCHANGED <<accounts, sessions, members, invites, now, job, user, listed, joins, founding, removed>>
  BY DEF IInv, Typed, TypeOK, PlacesFit, JobsAreComplete, AccountsAreHeld, Registered, Managing,
     Authorize, At, Move, rows, history
<1>2. /\ p \in {"refused", "insertInvite", "deleteInvite", "listMembers"} /\ p \in Points
      /\ p = "insertInvite" => /\ job[r].kind = "mint" /\ caller \in Managers
                               /\ job[r].role = "owner" => caller = "owner"
      /\ p = "deleteInvite" => job[r].kind = "revoke"
      /\ p = "listMembers" => job[r].kind = "remove"
  <2>1. CASE caller \notin Managers
    BY <2>1 DEF Points, Ended
  <2>2. CASE caller \in Managers /\ job[r].kind = "mint"
    BY <2>2 DEF Points, Ended, MayMint
  <2>3. CASE caller \in Managers /\ job[r].kind = "revoke"
    BY <2>3 DEF Points, Ended
  <2>4. CASE caller \in Managers /\ job[r].kind = "remove"
    BY <2>4 DEF Points, Ended
  <2>5. job[r].kind \in {"mint", "revoke", "remove"}
    BY <1>1 DEF Managing
  <2> HIDE DEF p, caller
  <2> QED BY <2>1, <2>2, <2>3, <2>4, <2>5
<1> HIDE DEF p, caller
<1>3. Typed'
  BY <1>1, <1>2 DEF IInv, Typed, TypeOK
<1>4. JobsAreComplete'
  BY <1>1, <1>2 DEF IInv, Typed, TypeOK, JobsAreComplete, Named, Signup
<1>5. PlacesFit'
  BY <1>1, <1>2 DEF IInv, Typed, TypeOK, PlacesFit, Signup, Managing, SigningUp
<1>6. LinksAreMinted'
  BY <1>1, <1>2 DEF IInv, Typed, TypeOK, LinksAreMinted, Named, Unminted
<1>7. LinksAreHeld'
  BY <1>1, <1>2 DEF IInv, Typed, TypeOK, LinksAreHeld, Holding
<1>8. OneJoinPerLink'
  BY <1>1, <1>2 DEF IInv, OneJoinPerLink
<1>9. MintersHadTheRole'
  BY <1>1, <1>2 DEF IInv, Typed, TypeOK, MintersHadTheRole, Named
<1>10. RolesCameFromLinks'
  BY <1>1, <1>2 DEF IInv, RolesCameFromLinks
<1>11. RedeemersAreMembers'
  BY <1>1, <1>2 DEF IInv, Typed, TypeOK, RedeemersAreMembers
<1>12. AccountsAreHeld'
  BY <1>1, <1>2 DEF IInv, Typed, TypeOK, AccountsAreHeld, Registered, Signup
<1>13. FirstUsers'
  BY <1>1, <1>2 DEF IInv, Typed, TypeOK, FirstUsers
<1>14. OthersWereListed'
  BY <1>1, <1>2 DEF IInv, Typed, TypeOK, OthersWereListed
<1> QED BY <1>3, <1>4, <1>5, <1>6, <1>7, <1>8, <1>9, <1>10, <1>11, <1>12, <1>13, <1>14 DEF
   IInv

\* A link that was not there is minted, with the role its minter had.
LEMMA InsertInviteKeeps ==
    ASSUME IInv, NEW r \in Requests, InsertInvite(r)
    PROVE  IInv'
<1> DEFINE row == NewInvite(job[r].role, role[r], user[r])
<1>1. /\ pc[r] = "insertInvite" /\ job[r].kind = "mint" /\ user[r] \in Ids
      /\ job[r].role \in Roles /\ role[r] \in Managers
      /\ job[r].role = "owner" => role[r] = "owner"
      /\ pc \in [Requests -> Points] /\ r \in AllLinks
      /\ UNCHANGED <<accounts, sessions, members, now, job, user, role, listed, joins, founding, removed>>
  BY DEF IInv, Typed, TypeOK, PlacesFit, JobsAreComplete, MintersHadTheRole, InsertInvite, At,
     locals, history, AllLinks
<1>2. CASE ~Exists(user[r])
  BY <1>1, <1>2, FailureFits, QuietKeeps DEF InsertInvite, Ended, rows, locals, history
<1>3. CASE Exists(user[r])
  <2>1. /\ pc' = [pc EXCEPT ![r] = "done"] /\ "done" \in Points
        /\ invites' = [invites EXCEPT ![r] = row]
    BY <1>3 DEF InsertInvite, Move, Points, Ended
  <2>2. row \in Invite /\ row.role = job[r].role /\ row.minter = role[r]
    <3>1. MaxTime \in Nat /\ now \in 0..MaxTime
      BY MembershipAssumption DEF IInv, Typed, TypeOK
    <3>2. now + 1 \in 0..(MaxTime + 1) /\ 0 \in 0..MaxTime
      BY <3>1
    <3> QED BY <1>1, <3>2 DEF NewInvite, Invite, Managers, Roles
  <2>3. /\ \A j \in joins : j.link # r
        /\ \A q \in Requests : pc[q] # "idle" /\ Named(q) => job[q].link # r
        /\ \A q \in Requests : pc[q] \in Holding => pc[q] # "idle" /\ Named(q)
    BY <1>1 DEF IInv, LinksAreMinted, Unminted, PlacesFit, Holding, Named
  <2>4. /\ invites \in [AllLinks -> Invite \cup {None}]
        /\ invites' \in [AllLinks -> Invite \cup {None}]
        /\ \A l \in AllLinks \ {r} : invites'[l] = invites[l]
        /\ invites'[r] \in Invite
        /\ invites'[r].role = "owner" => invites'[r].minter = "owner"
    BY <1>1, <2>1, <2>2 DEF IInv, Typed
  <2> HIDE DEF row
  <2>5. Typed'
    BY <1>1, <2>1, <2>3, <2>4 DEF IInv, Typed, TypeOK
  <2>6. JobsAreComplete'
    BY <1>1, <2>1, <2>3, <2>4 DEF IInv, Typed, TypeOK, JobsAreComplete, Named, Signup
  <2>7. PlacesFit'
    BY <1>1, <2>1, <2>3, <2>4 DEF IInv, Typed, TypeOK, PlacesFit, Signup, Managing,
       SigningUp
  <2>8. LinksAreMinted'
    BY <1>1, <2>1, <2>3, <2>4 DEF IInv, Typed, TypeOK, LinksAreMinted, Named, Unminted,
       AllLinks
  <2>9. LinksAreHeld'
    BY <1>1, <2>1, <2>3, <2>4 DEF IInv, Typed, TypeOK, LinksAreHeld, Holding,
       JobsAreComplete, Named
  <2>10. OneJoinPerLink'
    BY <1>1, <2>1, <2>3, <2>4 DEF IInv, OneJoinPerLink, LinksAreHeld
  <2>11. MintersHadTheRole'
    <3>1. \A l \in AllLinks : invites'[l] # None =>
            (invites'[l].role = "owner" => invites'[l].minter = "owner")
      BY <2>4 DEF IInv, MintersHadTheRole
    <3>2. ASSUME NEW q \in Requests, pc'[q] # "idle", Named(q)
          PROVE  invites'[job[q].link].role = "owner" => invites'[job[q].link].minter = "owner"
      <4>1. pc[q] # "idle"
        BY <1>1, <2>1, <3>2
      <4>2. invites'[job[q].link] = invites[job[q].link]
        BY <2>3, <2>4, <3>2, <4>1 DEF IInv, JobsAreComplete
      <4> QED BY <3>2, <4>1, <4>2 DEF IInv, MintersHadTheRole
    <3>3. ASSUME NEW q \in Requests, pc'[q] = "insertInvite"
          PROVE  role[q] \in Managers /\ (job[q].role = "owner" => role[q] = "owner")
      BY <1>1, <2>1, <3>3 DEF IInv, MintersHadTheRole
    <3>4. UNCHANGED <<job, role>>
      BY <1>1
    <3> QED BY <3>1, <3>2, <3>3, <3>4 DEF MintersHadTheRole, Named
  <2>12. RolesCameFromLinks'
    BY <1>1, <2>1, <2>3, <2>4 DEF IInv, RolesCameFromLinks, LinksAreHeld
  <2>13. RedeemersAreMembers'
    BY <1>1, <2>1, <2>3, <2>4 DEF IInv, Typed, TypeOK, RedeemersAreMembers
  <2>14. AccountsAreHeld'
    BY <1>1, <2>1, <2>3, <2>4 DEF IInv, Typed, TypeOK, AccountsAreHeld, Registered, Signup
  <2>15. FirstUsers'
    BY <1>1, <2>1, <2>3, <2>4 DEF IInv, Typed, TypeOK, FirstUsers
  <2>16. OthersWereListed'
    BY <1>1, <2>1, <2>3, <2>4 DEF IInv, Typed, TypeOK, OthersWereListed
  <2> QED BY <2>5, <2>6, <2>7, <2>8, <2>9, <2>10, <2>11, <2>12, <2>13, <2>14, <2>15, <2>16
     DEF IInv
<1> QED BY <1>2, <1>3

\* A revoked link stays claimed by whom it was claimed.
LEMMA DeleteInviteKeeps ==
    ASSUME IInv, NEW r \in Requests, DeleteInvite(r)
    PROVE  IInv'
<1> DEFINE l == job[r].link
<1>1. /\ pc[r] = "deleteInvite" /\ job[r].kind = "revoke" /\ l \in AllLinks
      /\ invites[l] \in Invite /\ pc \in [Requests -> Points]
      /\ pc' = [pc EXCEPT ![r] = "done"] /\ "done" \in Points
      /\ invites' = [invites EXCEPT ![l].exists = FALSE]
      /\ UNCHANGED <<accounts, sessions, members, now, job, user, role, listed, joins, founding, removed>>
  BY DEF IInv, Typed, TypeOK, PlacesFit, JobsAreComplete, Named, DeleteInvite, At, Move, Points,
     Ended, locals, history
<1>2. /\ invites \in [AllLinks -> Invite \cup {None}]
      /\ invites' \in [AllLinks -> Invite \cup {None}] /\ invites'[l] \in Invite
      /\ \A k \in AllLinks \ {l} : invites'[k] = invites[k]
      /\ \A k \in AllLinks : /\ invites[k] \in Invite => invites'[k] \in Invite
                             /\ invites'[k].redeemedBy = invites[k].redeemedBy
                             /\ invites'[k].redeemedAt = invites[k].redeemedAt
                             /\ invites'[k].expires = invites[k].expires
                             /\ invites'[k].role = invites[k].role
                             /\ invites'[k].minter = invites[k].minter
  BY <1>1 DEF IInv, Typed, Invite
<1> HIDE DEF l
<1>3. Typed'
  BY <1>1, <1>2 DEF IInv, Typed, TypeOK
<1>4. JobsAreComplete'
  BY <1>1, <1>2 DEF IInv, Typed, TypeOK, JobsAreComplete, Named, Signup
<1>5. PlacesFit'
  BY <1>1, <1>2 DEF IInv, Typed, TypeOK, PlacesFit, Signup, Managing, SigningUp
<1>6. LinksAreMinted'
  <2>1. l = job[r].link
    BY DEF l
  <2> QED BY <1>1, <1>2, <2>1 DEF IInv, Typed, TypeOK, LinksAreMinted, Named, Unminted, AllLinks
<1>7. LinksAreHeld'
  BY <1>1, <1>2 DEF IInv, Typed, TypeOK, LinksAreHeld, Holding, PlacesFit, JobsAreComplete,
     Named
<1>8. OneJoinPerLink'
  BY <1>1, <1>2 DEF IInv, OneJoinPerLink, LinksAreHeld
<1>9. MintersHadTheRole'
  <2>1. l = job[r].link
    BY DEF l
  <2> QED
    BY <1>1, <1>2, <2>1 DEF IInv, Typed, TypeOK, MintersHadTheRole, Named, JobsAreComplete
<1>10. RolesCameFromLinks'
  BY <1>1, <1>2 DEF IInv, RolesCameFromLinks, LinksAreHeld
<1>11. RedeemersAreMembers'
  BY <1>1, <1>2 DEF IInv, Typed, TypeOK, RedeemersAreMembers
<1>12. AccountsAreHeld'
  BY <1>1, <1>2 DEF IInv, Typed, TypeOK, AccountsAreHeld, Registered, Signup
<1>13. FirstUsers'
  BY <1>1, <1>2 DEF IInv, Typed, TypeOK, FirstUsers
<1>14. OthersWereListed'
  BY <1>1, <1>2 DEF IInv, Typed, TypeOK, OthersWereListed
<1> QED BY <1>3, <1>4, <1>5, <1>6, <1>7, <1>8, <1>9, <1>10, <1>11, <1>12, <1>13, <1>14 DEF
   IInv

\* The removal of an owner goes on when there are others.
LEMMA ListMembersKeeps ==
    ASSUME IInv, NEW r \in Requests, ListMembers(r)
    PROVE  IInv'
<1> DEFINE p == CASE members[job[r].target] = None -> "done"
                  [] job[r].target \in Owners /\ (role[r] # "owner" \/ IsLastOwner) -> "refused"
                  [] OTHER -> "deleteMember"
<1>1. /\ pc[r] = "listMembers" /\ job[r].kind = "remove" /\ pc \in [Requests -> Points]
      /\ pc' = [pc EXCEPT ![r] = p]
      /\ r \notin accounts /\ \A s \in sessions : s.by # r
      /\ listed \in [Requests -> SUBSET Ids] /\ Owners \subseteq Ids
      /\ listed' = [listed EXCEPT ![r] = Owners]
      /\ UNCHANGED <<accounts, sessions, members, invites, now, job, user, role, joins, founding, removed>>
  BY DEF IInv, Typed, TypeOK, PlacesFit, AccountsAreHeld, Registered, ListMembers, At, Move, rows,
     history, Owners
<1>2. /\ p \in {"done", "refused", "deleteMember"} /\ p \in Points
      /\ p = "deleteMember" => (job[r].target \in Owners => ~(Cardinality(Owners) <= 1))
  BY DEF Points, Ended, IsLastOwner
<1> HIDE DEF p
<1>3. Typed'
  BY <1>1, <1>2 DEF IInv, Typed, TypeOK
<1>4. JobsAreComplete'
  BY <1>1, <1>2 DEF IInv, Typed, TypeOK, JobsAreComplete, Named, Signup
<1>5. PlacesFit'
  BY <1>1, <1>2 DEF IInv, Typed, TypeOK, PlacesFit, Signup, Managing, SigningUp
<1>6. LinksAreMinted'
  BY <1>1, <1>2 DEF IInv, Typed, TypeOK, LinksAreMinted, Named, Unminted
<1>7. LinksAreHeld'
  BY <1>1, <1>2 DEF IInv, Typed, TypeOK, LinksAreHeld, Holding
<1>8. OneJoinPerLink'
  BY <1>1, <1>2 DEF IInv, OneJoinPerLink
<1>9. MintersHadTheRole'
  BY <1>1, <1>2 DEF IInv, Typed, TypeOK, MintersHadTheRole, Named
<1>10. RolesCameFromLinks'
  BY <1>1, <1>2 DEF IInv, RolesCameFromLinks
<1>11. RedeemersAreMembers'
  BY <1>1, <1>2 DEF IInv, Typed, TypeOK, RedeemersAreMembers
<1>12. AccountsAreHeld'
  BY <1>1, <1>2 DEF IInv, Typed, TypeOK, AccountsAreHeld, Registered, Signup
<1>13. FirstUsers'
  BY <1>1, <1>2 DEF IInv, Typed, TypeOK, FirstUsers
<1>14. OthersWereListed'
  BY <1>1, <1>2 DEF IInv, Typed, TypeOK, OthersWereListed
<1> QED BY <1>3, <1>4, <1>5, <1>6, <1>7, <1>8, <1>9, <1>10, <1>11, <1>12, <1>13, <1>14 DEF
   IInv

\* A member is removed.
LEMMA DeleteMemberKeeps ==
    ASSUME IInv, NEW r \in Requests, DeleteMember(r)
    PROVE  IInv'
<1>1. /\ pc[r] = "deleteMember" /\ job[r].kind = "remove" /\ job[r].target \in Ids
      /\ pc \in [Requests -> Points] /\ pc' = [pc EXCEPT ![r] = "done"] /\ "done" \in Points
      /\ members \in [Ids -> Roles \cup {None}]
      /\ members' = [members EXCEPT ![job[r].target] = None]
      /\ removed' = removed \cup {job[r].target}
      /\ UNCHANGED <<accounts, sessions, invites, now, job, user, role, listed, joins, founding>>
  BY DEF IInv, Typed, TypeOK, PlacesFit, JobsAreComplete, DeleteMember, At, Move, Points, Ended,
     locals
<1>2. Typed'
  BY <1>1 DEF IInv, Typed, TypeOK
<1>3. JobsAreComplete'
  BY <1>1 DEF IInv, Typed, TypeOK, JobsAreComplete, Named, Signup
<1>4. PlacesFit'
  BY <1>1 DEF IInv, Typed, TypeOK, PlacesFit, Signup, Managing, SigningUp
<1>5. LinksAreMinted'
  BY <1>1 DEF IInv, Typed, TypeOK, LinksAreMinted, Named, Unminted
<1>6. LinksAreHeld'
  BY <1>1 DEF IInv, Typed, TypeOK, LinksAreHeld, Holding
<1>7. OneJoinPerLink'
  BY <1>1 DEF IInv, OneJoinPerLink
<1>8. MintersHadTheRole'
  BY <1>1 DEF IInv, Typed, TypeOK, MintersHadTheRole, Named
<1>9. RolesCameFromLinks'
  BY <1>1 DEF IInv, RolesCameFromLinks
<1>10. RedeemersAreMembers'
  BY <1>1 DEF IInv, Typed, TypeOK, RedeemersAreMembers, JobsAreComplete
<1>11. AccountsAreHeld'
  BY <1>1 DEF IInv, Typed, TypeOK, AccountsAreHeld, Registered, Signup
<1>12. FirstUsers'
  BY <1>1 DEF IInv, Typed, TypeOK, FirstUsers
<1>13. OthersWereListed'
  BY <1>1 DEF IInv, Typed, TypeOK, OthersWereListed
<1> QED BY <1>2, <1>3, <1>4, <1>5, <1>6, <1>7, <1>8, <1>9, <1>10, <1>11, <1>12, <1>13 DEF
   IInv

-----------------------------------------------------------------------------
(* Arrivals, crashes and time.                                             *)

\* A request arrives at p with the job k, for u.
Brings(r, p, k, u) ==
    /\ k \in Job /\ u \in Ids \cup {None}
    /\ pc' = [pc EXCEPT ![r] = p] /\ job' = [job EXCEPT ![r] = k] /\ user' = [user EXCEPT ![r] = u]
    /\ \/ p = "countUsers" /\ k.kind = "setup" /\ u = r
       \/ p = "findUser" /\ k.kind = "login"
       \/ p = "authorize" /\ k.kind \in Managing /\ u \in Ids
       \/ p = "lookup" /\ k.kind = "redeem" /\ u \in Ids
    /\ k.kind \in {"redeem", "revoke"} => k.link \in AllLinks /\ invites[k.link] # None
    /\ k.kind = "remove" => k.target \in Ids
    /\ k.kind = "mint" => k.role \in Roles

\* What a request arrives with is complete.
LEMMA ArrivalsAreComplete ==
    ASSUME IInv, NEW r \in Requests, Arrive(r)
    PROVE  \E p \in Points : \E k, u : Brings(r, p, k, u)
<1>1. /\ user \in [Requests -> Ids \cup {None}] /\ r \in Ids
      /\ accounts \subseteq Ids /\ SignedIn \subseteq Ids
      /\ "countUsers" \in Points /\ "findUser" \in Points /\ "authorize" \in Points
      /\ "lookup" \in Points
  BY DEF IInv, Typed, TypeOK, SignedIn, Points, Ids
<1>2. CASE Setup(r)
  <2>1. PICK n \in Names : /\ job' = [job EXCEPT ![r] = [NewJob("setup") EXCEPT !.name = n]]
                           /\ user' = [user EXCEPT ![r] = r] /\ Move(r, "countUsers")
    BY <1>2 DEF Setup
  <2> DEFINE k == [NewJob("setup") EXCEPT !.name = n]
  <2>2. k \in Job /\ k.kind = "setup"
    BY DEF NewJob, Job, Kinds
  <2>3. Brings(r, "countUsers", k, r)
    BY <1>1, <2>1, <2>2 DEF Brings, Move
  <2> QED BY <1>1, <2>3
<1>3. CASE Login(r)
  <2>1. PICK n \in {NameOf(i) : i \in accounts} :
          /\ job' = [job EXCEPT ![r] = [NewJob("login") EXCEPT !.name = n]]
          /\ Move(r, "findUser") /\ UNCHANGED user
    BY <1>3 DEF Login
  <2>2. n \in Names \cup Founders \cup {None}
    <3>1. PICK i \in accounts : n = NameOf(i)
      OBVIOUS
    <3>2. CASE i \in Founders
      BY <3>1, <3>2 DEF NameOf
    <3>3. CASE i \notin Founders
      <4>1. i \in Requests /\ job[i] \in Job
        BY <1>1, <3>3 DEF IInv, Typed, TypeOK, AccountsAreHeld, Registered, Ids
      <4> QED BY <3>1, <3>3, <4>1 DEF NameOf, Job
    <3> QED BY <3>2, <3>3
  <2> DEFINE k == [NewJob("login") EXCEPT !.name = n]
  <2>3. k \in Job /\ k.kind = "login"
    BY <2>2 DEF NewJob, Job, Kinds
  <2>4. Brings(r, "findUser", k, user[r])
    BY <1>1, <2>1, <2>3 DEF Brings, Move
  <2> QED BY <1>1, <2>4
<1>4. CASE Manage(r)
  <2>1. PICK i \in SignedIn :
          /\ user' = [user EXCEPT ![r] = i] /\ Move(r, "authorize")
          /\ \/ \E x \in Roles : job' = [job EXCEPT ![r] = [NewJob("mint") EXCEPT !.role = x]]
             \/ \E t \in accounts : job' = [job EXCEPT ![r] = [NewJob("remove") EXCEPT !.target = t]]
             \/ \E l \in AllLinks : invites[l] # None /\
                  job' = [job EXCEPT ![r] = [NewJob("revoke") EXCEPT !.link = l]]
    BY <1>4 DEF Manage
  <2>2. ASSUME NEW x \in Roles, job' = [job EXCEPT ![r] = [NewJob("mint") EXCEPT !.role = x]]
        PROVE  \E k : Brings(r, "authorize", k, i)
    <3> DEFINE k == [NewJob("mint") EXCEPT !.role = x]
    <3>1. k \in Job /\ k.kind = "mint" /\ k.role = x
      BY DEF NewJob, Job, Kinds
    <3>2. Brings(r, "authorize", k, i)
      BY <1>1, <2>1, <2>2, <3>1 DEF Brings, Move, Managing
    <3> QED BY <3>2
  <2>3. ASSUME NEW t \in accounts, job' = [job EXCEPT ![r] = [NewJob("remove") EXCEPT !.target = t]]
        PROVE  \E k : Brings(r, "authorize", k, i)
    <3> DEFINE k == [NewJob("remove") EXCEPT !.target = t]
    <3>1. k \in Job /\ k.kind = "remove" /\ k.target = t
      BY <1>1 DEF NewJob, Job, Kinds
    <3>2. Brings(r, "authorize", k, i)
      BY <1>1, <2>1, <2>3, <3>1 DEF Brings, Move, Managing
    <3> QED BY <3>2
  <2>4. ASSUME NEW l \in AllLinks, invites[l] # None,
               job' = [job EXCEPT ![r] = [NewJob("revoke") EXCEPT !.link = l]]
        PROVE  \E k : Brings(r, "authorize", k, i)
    <3> DEFINE k == [NewJob("revoke") EXCEPT !.link = l]
    <3>1. k \in Job /\ k.kind = "revoke" /\ k.link = l
      BY DEF NewJob, Job, Kinds
    <3>2. Brings(r, "authorize", k, i)
      BY <1>1, <2>1, <2>4, <3>1 DEF Brings, Move, Managing
    <3> QED BY <3>2
  <2> QED BY <1>1, <2>1, <2>2, <2>3, <2>4
<1>5. CASE Redeem(r)
  <2>1. PICK l \in AllLinks :
          /\ invites[l] # None /\ Move(r, "lookup")
          /\ \/ \E i \in SignedIn :
                  /\ user' = [user EXCEPT ![r] = i]
                  /\ job' = [job EXCEPT ![r] = [NewJob("redeem") EXCEPT !.link = l]]
             \/ \E n \in Names :
                  /\ user' = [user EXCEPT ![r] = r]
                  /\ job' = [job EXCEPT ![r] = [NewJob("redeem") EXCEPT !.link = l, !.name = n]]
    BY <1>5 DEF Redeem
  <2>2. ASSUME NEW k \in Job, k.kind = "redeem", k.link = l, NEW i \in Ids,
               user' = [user EXCEPT ![r] = i], job' = [job EXCEPT ![r] = k]
        PROVE  \E m, u : Brings(r, "lookup", m, u)
    <3>1. Brings(r, "lookup", k, i)
      BY <1>1, <2>1, <2>2 DEF Brings, Move
    <3> QED BY <3>1
  <2>3. LET k == [NewJob("redeem") EXCEPT !.link = l] IN
        k \in Job /\ k.kind = "redeem" /\ k.link = l
    BY DEF NewJob, Job, Kinds
  <2>4. \A n \in Names : LET k == [NewJob("redeem") EXCEPT !.link = l, !.name = n] IN
        k \in Job /\ k.kind = "redeem" /\ k.link = l
    BY DEF NewJob, Job, Kinds
  <2>5. CASE \E i \in SignedIn :
               /\ user' = [user EXCEPT ![r] = i]
               /\ job' = [job EXCEPT ![r] = [NewJob("redeem") EXCEPT !.link = l]]
    BY <1>1, <2>2, <2>3, <2>5
  <2>6. CASE \E n \in Names :
               /\ user' = [user EXCEPT ![r] = r]
               /\ job' = [job EXCEPT ![r] = [NewJob("redeem") EXCEPT !.link = l, !.name = n]]
    BY <1>1, <2>2, <2>4, <2>6
  <2> QED BY <1>1, <2>1, <2>5, <2>6
<1> QED BY <1>2, <1>3, <1>4, <1>5 DEF Arrive

\* What it brings is complete, and it has made nothing yet.
LEMMA ArriveKeeps ==
    ASSUME IInv, NEW r \in Requests, Arrive(r)
    PROVE  IInv'
<1>0. PICK p \in Points : \E k, u : Brings(r, p, k, u)
  BY ArrivalsAreComplete
<1>1. PICK k, u : Brings(r, p, k, u)
  BY <1>0
<1>2. /\ pc[r] = "idle" /\ pc \in [Requests -> Points]
      /\ pc' = [pc EXCEPT ![r] = p] /\ job' = [job EXCEPT ![r] = k] /\ user' = [user EXCEPT ![r] = u]
      /\ job \in [Requests -> Job \cup {None}] /\ user \in [Requests -> Ids \cup {None}]
      /\ k \in Job /\ u \in Ids \cup {None}
      /\ r \notin accounts /\ \A s \in sessions : s.by # r
      /\ UNCHANGED <<accounts, sessions, members, invites, now, role, listed, joins, founding, removed>>
  BY <1>1 DEF Brings, Arrive, At, rows, history, IInv, Typed, TypeOK, AccountsAreHeld, Registered
<1>3. /\ \/ p = "countUsers" /\ k.kind = "setup" /\ u = r
         \/ p = "findUser" /\ k.kind = "login"
         \/ p = "authorize" /\ k.kind \in Managing /\ u \in Ids
         \/ p = "lookup" /\ k.kind = "redeem" /\ u \in Ids
      /\ k.kind = "remove" => k.target \in Ids
      /\ k.kind = "mint" => k.role \in Roles
      /\ u = r => u \in Ids
  BY <1>1 DEF Brings, Ids
<1>4. k.kind \in {"redeem", "revoke"} =>
        /\ k.link \in AllLinks /\ invites[k.link] \in Invite
        /\ invites[k.link].role = "owner" => invites[k.link].minter = "owner"
        /\ k.link \in Requests => pc[k.link] \notin Unminted
  BY <1>1 DEF Brings, IInv, Typed, TypeOK, LinksAreMinted, MintersHadTheRole
<1>5. Typed'
  BY <1>2, <1>3, <1>4 DEF IInv, Typed, TypeOK
<1>6. JobsAreComplete'
  BY <1>2, <1>3, <1>4 DEF IInv, Typed, TypeOK, JobsAreComplete, Named, Signup, Managing
<1>7. PlacesFit'
  BY <1>2, <1>3, <1>4 DEF IInv, Typed, TypeOK, PlacesFit, Signup, Managing, SigningUp
<1>8. LinksAreMinted'
  BY <1>2, <1>3, <1>4 DEF IInv, Typed, TypeOK, LinksAreMinted, Named, Unminted
<1>9. LinksAreHeld'
  BY <1>2, <1>3, <1>4 DEF IInv, Typed, TypeOK, LinksAreHeld, Holding
<1>10. OneJoinPerLink'
  BY <1>2, <1>3, <1>4 DEF IInv, OneJoinPerLink
<1>11. MintersHadTheRole'
  BY <1>2, <1>3, <1>4 DEF IInv, Typed, TypeOK, MintersHadTheRole, Named
<1>12. RolesCameFromLinks'
  BY <1>2, <1>3, <1>4 DEF IInv, RolesCameFromLinks
<1>13. RedeemersAreMembers'
  BY <1>2, <1>3, <1>4 DEF IInv, Typed, TypeOK, RedeemersAreMembers
<1>14. AccountsAreHeld'
  BY <1>2, <1>3, <1>4 DEF IInv, Typed, TypeOK, AccountsAreHeld, Registered, Signup
<1>15. FirstUsers'
  BY <1>2, <1>3, <1>4 DEF IInv, Typed, TypeOK, FirstUsers, AccountsAreHeld
<1>16. OthersWereListed'
  BY <1>2, <1>3, <1>4 DEF IInv, Typed, TypeOK, OthersWereListed
<1> QED BY <1>5, <1>6, <1>7, <1>8, <1>9, <1>10, <1>11, <1>12, <1>13, <1>14, <1>15, <1>16
   DEF IInv

\* Requests under way are gone; what they committed stays.
LEMMA CrashKeeps ==
    ASSUME IInv, Crash
    PROVE  IInv'
<1>1. /\ pc' = [r \in Requests |-> IF InFlight(r) THEN "lost" ELSE pc[r]]
      /\ pc \in [Requests -> Points] /\ pc' \in [Requests -> Points]
      /\ \A r \in Requests : 
           \/ pc'[r] = pc[r] /\ pc[r] \in Ended \cup {"idle"}
           \/ pc'[r] = "lost" /\ pc[r] \notin Ended \cup {"idle"}
      /\ UNCHANGED <<accounts, sessions, members, invites, now, job, user, role, listed, joins, founding, removed>>
  BY DEF IInv, Typed, TypeOK, Crash, InFlight, Points, Ended, rows, locals, history
<1>2. Typed'
  BY <1>1 DEF IInv, Typed, TypeOK, Ended
<1>3. JobsAreComplete'
  BY <1>1 DEF IInv, Typed, TypeOK, JobsAreComplete, Named, Signup, Ended
<1>4. PlacesFit'
  BY <1>1 DEF IInv, Typed, TypeOK, PlacesFit, Signup, Managing, SigningUp, Ended
<1>5. LinksAreMinted'
  BY <1>1 DEF IInv, Typed, TypeOK, LinksAreMinted, Named, Unminted, Ended
<1>6. LinksAreHeld'
  BY <1>1 DEF IInv, Typed, TypeOK, LinksAreHeld, Holding, Ended
<1>7. OneJoinPerLink'
  BY <1>1 DEF IInv, OneJoinPerLink, Ended
<1>8. MintersHadTheRole'
  BY <1>1 DEF IInv, Typed, TypeOK, MintersHadTheRole, Named, Ended
<1>9. RolesCameFromLinks'
  BY <1>1 DEF IInv, RolesCameFromLinks, Ended
<1>10. RedeemersAreMembers'
  BY <1>1 DEF IInv, Typed, TypeOK, RedeemersAreMembers, Ended
<1>11. AccountsAreHeld'
  BY <1>1 DEF IInv, Typed, TypeOK, AccountsAreHeld, Registered, Signup, Ended
<1>12. FirstUsers'
  BY <1>1 DEF IInv, Typed, TypeOK, FirstUsers, Ended
<1>13. OthersWereListed'
  BY <1>1 DEF IInv, Typed, TypeOK, OthersWereListed, Ended
<1> QED BY <1>2, <1>3, <1>4, <1>5, <1>6, <1>7, <1>8, <1>9, <1>10, <1>11, <1>12, <1>13 DEF
   IInv

\* The clock only turns links down.
LEMMA TickKeeps ==
    ASSUME IInv, Tick
    PROVE  IInv'
<1>1. /\ now' \in 0..MaxTime /\ UNCHANGED pc
      /\ UNCHANGED <<accounts, sessions, members, invites, job, user, role, listed, joins, founding, removed>>
  BY MembershipAssumption DEF IInv, Typed, TypeOK, Tick, rows, locals, history
<1>2. Typed'
  BY <1>1 DEF IInv, Typed, TypeOK
<1>3. JobsAreComplete'
  BY <1>1 DEF IInv, Typed, TypeOK, JobsAreComplete, Named, Signup
<1>4. PlacesFit'
  BY <1>1 DEF IInv, Typed, TypeOK, PlacesFit, Signup, Managing, SigningUp
<1>5. LinksAreMinted'
  BY <1>1 DEF IInv, Typed, TypeOK, LinksAreMinted, Named, Unminted
<1>6. LinksAreHeld'
  BY <1>1 DEF IInv, Typed, TypeOK, LinksAreHeld, Holding
<1>7. OneJoinPerLink'
  BY <1>1 DEF IInv, OneJoinPerLink
<1>8. MintersHadTheRole'
  BY <1>1 DEF IInv, Typed, TypeOK, MintersHadTheRole, Named
<1>9. RolesCameFromLinks'
  BY <1>1 DEF IInv, RolesCameFromLinks
<1>10. RedeemersAreMembers'
  BY <1>1 DEF IInv, Typed, TypeOK, RedeemersAreMembers
<1>11. AccountsAreHeld'
  BY <1>1 DEF IInv, Typed, TypeOK, AccountsAreHeld, Registered, Signup
<1>12. FirstUsers'
  BY <1>1 DEF IInv, Typed, TypeOK, FirstUsers
<1>13. OthersWereListed'
  BY <1>1 DEF IInv, Typed, TypeOK, OthersWereListed
<1> QED BY <1>2, <1>3, <1>4, <1>5, <1>6, <1>7, <1>8, <1>9, <1>10, <1>11, <1>12, <1>13 DEF
   IInv

-----------------------------------------------------------------------------
(* The theorems.                                                           *)

\* A new installation is empty; one in use has members and links of founders.
LEMMA InitIInv == Init => IInv
<1> SUFFICES ASSUME Init PROVE IInv
  OBVIOUS
<1>1. /\ pc = [r \in Requests |-> "idle"] /\ joins = {} /\ now = 0 /\ founding = members
      /\ accounts \subseteq Founders /\ accounts \cap Requests = {}
      /\ sessions = {[user |-> i, by |-> i] : i \in accounts}
      /\ members \in [Ids -> Roles \cup {None}] /\ \A i \in Ids : members[i] # None => i \in accounts
  BY MembershipAssumption DEF Init, Ids
<1> DEFINE Mailed(linkRole, by) ==
             invites = [l \in AllLinks |->
                          IF l \in Links THEN NewInvite(linkRole[l], "owner", by[l]) ELSE None]
           InTheMail == /\ invites \in [AllLinks -> Invite \cup {None}]
                        /\ \A l \in AllLinks : invites[l] # None =>
                             l \in Links /\ invites[l].minter = "owner"
<1>2. InTheMail
  <2>1. \/ invites = [l \in AllLinks |-> None]
        \/ \E linkRole \in [Links -> Roles], by \in [Links -> Owners] : Mailed(linkRole, by)
    BY DEF Init
  <2>2. CASE invites = [l \in AllLinks |-> None]
    BY <2>2
  <2>3. ASSUME NEW linkRole \in [Links -> Roles], NEW by \in [Links -> Owners], Mailed(linkRole, by)
        PROVE  InTheMail
    <3>1. MaxTime \in Nat /\ now = 0 /\ Owners \subseteq Ids
      BY <1>1, MembershipAssumption DEF Owners
    <3>2. now + 1 \in 0..(MaxTime + 1) /\ 0 \in 0..MaxTime
      BY <3>1
    <3>3. \A l \in Links : /\ NewInvite(linkRole[l], "owner", by[l]) \in Invite
                           /\ NewInvite(linkRole[l], "owner", by[l]).minter = "owner"
      BY <3>1, <3>2 DEF NewInvite, Invite, Roles
    <3> QED BY <2>3, <3>3
  <2> HIDE DEF InTheMail, Mailed
  <2> QED BY <2>1, <2>2, <2>3
<1>3. Typed
  <2>1. \A s \in sessions : s.user \in accounts /\ s.by \in Ids
    BY <1>1 DEF Ids
  <2> QED BY <1>1, <1>2, <2>1, MembershipAssumption DEF Init, Typed, TypeOK, Points, Ids
<1>4. JobsAreComplete /\ PlacesFit /\ LinksAreHeld /\ OneJoinPerLink
  BY <1>1 DEF JobsAreComplete, PlacesFit, LinksAreHeld, OneJoinPerLink, Holding, SigningUp
<1>5. LinksAreMinted /\ MintersHadTheRole /\ RolesCameFromLinks /\ RedeemersAreMembers
  BY <1>1, <1>2, MembershipAssumption
     DEF LinksAreMinted, MintersHadTheRole, RolesCameFromLinks, RedeemersAreMembers, AllLinks
<1>6. AccountsAreHeld /\ FirstUsers /\ OthersWereListed
  BY <1>1, MembershipAssumption DEF AccountsAreHeld, FirstUsers, OthersWereListed
<1> QED BY <1>3, <1>4, <1>5, <1>6 DEF IInv

\* Every step keeps IInv.
LEMMA NextIInv == IInv /\ [Next]_vars => IInv'
<1> SUFFICES ASSUME IInv, [Next]_vars PROVE IInv'
  OBVIOUS
<1>1. ASSUME NEW r \in Requests, Arrive(r) PROVE IInv'
  BY <1>1, ArriveKeeps
<1>2. ASSUME NEW r \in Requests, Account(r) PROVE IInv'
  BY <1>2, ReadsKeep, LockUsersKeeps, InsertUserKeeps, FindUserKeeps, OpenSessionKeeps DEF Account
<1>3. ASSUME NEW r \in Requests, Redemption(r) PROVE IInv'
  BY <1>3, ReadsKeep, ClaimKeeps, DropSessionKeeps, DropUserKeeps, ReadRoleKeeps, JoinKeeps
     DEF Redemption
<1>4. ASSUME NEW r \in Requests, Management(r) PROVE IInv'
  BY <1>4, AuthorizeKeeps, InsertInviteKeeps, DeleteInviteKeeps, ListMembersKeeps,
     DeleteMemberKeeps DEF Management
<1>5. ASSUME NEW r \in Requests, Fail(r) PROVE IInv'
  BY <1>5, FailKeeps
<1>6. CASE Crash
  BY <1>6, CrashKeeps
<1>7. CASE Tick
  BY <1>7, TickKeeps
<1>8. CASE UNCHANGED vars
  <2>1. UNCHANGED <<accounts, sessions, members, invites, now, pc, job, user, role, listed, joins,
                  founding, removed>>
    BY <1>8 DEF vars, rows, locals, history
  <2> QED
    BY <2>1 DEF IInv, Typed, TypeOK, JobsAreComplete, PlacesFit, LinksAreMinted, LinksAreHeld,
       OneJoinPerLink, MintersHadTheRole, RolesCameFromLinks, RedeemersAreMembers,
       AccountsAreHeld, FirstUsers, OthersWereListed, Named, Signup
<1> QED BY <1>1, <1>2, <1>3, <1>4, <1>5, <1>6, <1>7, <1>8 DEF Next

\* So it holds always.
LEMMA Invariance == Spec => []IInv
  BY InitIInv, NextIInv, PTL DEF Spec

-----------------------------------------------------------------------------
(* Accounts whose redemption is not decided are used through logins only.  *)

Decided == {"readRole", "join", "done", "failed", "lost"}

\* Something is done, or has been done, in the name of r by others.
Used(r) ==
    \/ members[r] # None
    \/ \E l \in AllLinks : invites[l] # None /\ r \in {invites[l].by, invites[l].redeemedBy}
    \/ \E q \in Requests \ {r} : user[q] = r /\ job[q].kind # "login"

\* Requests open sessions of their own accounts, but for logins.
SessionsFit == \A s \in sessions : s.user = s.by \/ (s.by \in Requests /\ job[s.by].kind = "login")

LoginsComeFirst ==
    /\ SessionsFit
    /\ \A r \in Requests : /\ pc[r] \notin Decided /\ Used(r) => LoggedInto(r)
                           /\ pc[r] = "orphaned" => LoggedInto(r)

\* A login that has its session keeps it.
LEMMA LoginsStay ==
    ASSUME IInv, LoginsComeFirst, [Next]_vars
    PROVE  /\ \A r \in Requests : LoggedInto(r) => LoggedInto(r)'
           /\ SessionsFit'
<1>1. CASE \E r \in Requests : Arrive(r)
  <2>1. PICK r \in Requests : Arrive(r)
    BY <1>1
  <2>2. \A q \in Requests \ {r} : job'[q] = job[q]
    BY <2>1 DEF Arrive, Setup, Login, Manage, Redeem, IInv, Typed
  <2>3. (\A s \in sessions : s.by # r) /\ sessions' = sessions
    BY <2>1 DEF Arrive, At, rows, IInv, AccountsAreHeld, Registered
  <2> QED BY <2>2, <2>3 DEF LoginsComeFirst, SessionsFit, LoggedInto
<1>2. CASE \E r \in Requests : OpenSession(r)
  <2>1. PICK r \in Requests : OpenSession(r)
    BY <1>2
  <2>2. /\ job' = job /\ (user[r] = r \/ job[r].kind = "login")
        /\ sessions' \subseteq sessions \cup {[user |-> user[r], by |-> r]}
        /\ sessions \subseteq sessions'
    BY <2>1 DEF OpenSession, At, locals, IInv, PlacesFit, JobsAreComplete, Signup
  <2> QED BY <2>2 DEF LoginsComeFirst, SessionsFit, LoggedInto
<1>3. CASE \E r \in Requests : DropSession(r)
  <2>1. PICK r \in Requests : DropSession(r)
    BY <1>3
  <2>2. job' = job /\ job[r].kind = "redeem" /\ sessions' = {s \in sessions : s.by # r}
    BY <2>1 DEF DropSession, At, locals, IInv, PlacesFit, SigningUp
  <2> QED BY <2>2 DEF LoginsComeFirst, SessionsFit, LoggedInto
<1>4. CASE UNCHANGED <<sessions, job>>
  BY <1>4 DEF LoginsComeFirst, SessionsFit, LoggedInto
<1>5. UNCHANGED <<sessions, job>> \/ \E r \in Requests : Arrive(r) \/ OpenSession(r) \/ DropSession(r)
  BY DEF Next, Account, Redemption, Management, CountUsers, LockUsers, CheckName, InsertUser,
     FindUser, Lookup, Claim, DropUser, ReadRole, Join, Authorize, InsertInvite, DeleteInvite,
     ListMembers, DeleteMember, Fail, Crash, Tick, vars, rows, locals
<1> QED BY <1>1, <1>2, <1>3, <1>4, <1>5

\* An arrival acts for an undecided registration through a login's session.
LEMMA ArrivalsNeedALogin ==
    ASSUME IInv, LoginsComeFirst, NEW q \in Requests, Arrive(q), NEW r \in Requests \ {q},
           pc[r] \notin Decided, user'[q] = r, job'[q].kind # "login"
    PROVE  LoggedInto(r)
<1>1. r \in SignedIn
  BY DEF Arrive, Setup, Login, Manage, Redeem, NewJob, IInv, Typed, TypeOK
<1>2. PICK s \in sessions : s.user = r /\ (s.by \in Founders \/ pc[s.by] = "done")
  BY <1>1 DEF SignedIn
<1>3. s.by \in Requests \ {r} /\ job[s.by].kind = "login"
  BY <1>2, MembershipAssumption DEF LoginsComeFirst, SessionsFit, Decided
<1> QED BY <1>2, <1>3 DEF LoggedInto

\* A decided request stays so, and only the foreign keys orphan an account.
LEMMA PlacesStay ==
    ASSUME IInv, [Next]_vars, NEW r \in Requests
    PROVE  /\ pc[r] \in Decided => pc'[r] \in Decided
           /\ pc'[r] = "orphaned" => pc[r] = "orphaned" \/ (DropUser(r) /\ Referenced(r))
<1>0. pc \in [Requests -> Points]
  BY DEF IInv, Typed, TypeOK
<1>1. CASE Crash
  BY <1>1 DEF Crash, InFlight, Ended, Decided
<1>2. CASE UNCHANGED pc
  BY <1>2
<1>3. ASSUME NEW q \in Requests, Arrive(q) \/ Account(q)
      PROVE  /\ pc[q] \notin Decided \cup {"orphaned"}
             /\ \E p \in Points \ {"orphaned"} : pc' = [pc EXCEPT ![q] = p]
  <2>1. CASE Arrive(q)
    BY <2>1, <1>0 DEF Arrive, Setup, Login, Manage, Redeem, At, Move, Points, Ended, Decided
  <2>2. CASE CountUsers(q) \/ LockUsers(q) \/ CheckName(q)
    BY <2>2, <1>0 DEF CountUsers, LockUsers, CheckName, At, Move, Points, Ended, Decided
  <2>3. CASE InsertUser(q)
    BY <2>3, <1>0 DEF InsertUser, Move, Points, Ended, Decided
  <2>4. CASE FindUser(q)
    BY <2>4, <1>0 DEF FindUser, At, Move, Points, Ended, Decided
  <2>5. CASE OpenSession(q)
    BY <2>5, <1>0 DEF OpenSession, At, Move, Points, Ended, Decided
  <2> QED BY <1>3, <2>1, <2>2, <2>3, <2>4, <2>5 DEF Account
<1>4. ASSUME NEW q \in Requests, Management(q)
      PROVE  /\ pc[q] \notin Decided \cup {"orphaned"}
             /\ \E p \in Points \ {"orphaned"} : pc' = [pc EXCEPT ![q] = p]
  <2>1. CASE Authorize(q)
    <3>1. pc[q] = "authorize" /\ job[q].kind \in Managing
      BY <2>1 DEF Authorize, At, IInv, PlacesFit
    <3>2. \E p \in Points \ {"orphaned"} : Move(q, p)
      <4>1. CASE members[user[q]] \notin Managers
        BY <2>1, <4>1 DEF Authorize, Points, Ended
      <4>2. CASE members[user[q]] \in Managers /\ job[q].kind = "mint"
        BY <2>1, <4>2 DEF Authorize, Points, Ended
      <4>3. CASE members[user[q]] \in Managers /\ job[q].kind = "revoke"
        BY <2>1, <4>3 DEF Authorize, Points, Ended
      <4>4. CASE members[user[q]] \in Managers /\ job[q].kind = "remove"
        BY <2>1, <4>4 DEF Authorize, Points, Ended
      <4> QED BY <3>1, <4>1, <4>2, <4>3, <4>4 DEF Managing
    <3> QED BY <3>1, <3>2 DEF Move, Decided
  <2>2. CASE ListMembers(q)
    BY <2>2, <1>0 DEF ListMembers, At, Move, Points, Ended, Decided
  <2>3. CASE InsertInvite(q) \/ DeleteInvite(q) \/ DeleteMember(q)
    BY <2>3, <1>0 DEF InsertInvite, DeleteInvite, DeleteMember, At, Move, Points, Ended, Decided
  <2> QED BY <1>4, <2>1, <2>2, <2>3 DEF Management
<1>5. ASSUME NEW q \in Requests, Lookup(q) \/ Claim(q) \/ DropSession(q)
      PROVE  /\ pc[q] \notin Decided \cup {"orphaned"}
             /\ \E p \in Points \ {"orphaned"} : pc' = [pc EXCEPT ![q] = p]
  BY <1>5, <1>0 DEF Lookup, Claim, Lost, DropSession, At, Move, Points, Ended, Decided
<1>6. ASSUME NEW q \in Requests, ReadRole(q) \/ Join(q) \/ Fail(q)
      PROVE  \E p \in Decided : pc' = [pc EXCEPT ![q] = p]
  BY <1>6, <1>0 DEF ReadRole, Join, Fail, At, Move, Decided
<1>7. ASSUME NEW q \in Requests, DropUser(q)
      PROVE  /\ pc[q] \notin Decided \cup {"orphaned"}
             /\ \E p \in {"orphaned", "refused"} : pc' = [pc EXCEPT ![q] = p]
             /\ pc'[q] = "orphaned" => Referenced(q)
  BY <1>7, <1>0 DEF DropUser, At, Move, Decided
<1>8. \/ Crash \/ UNCHANGED pc
      \/ \E q \in Requests : \/ Arrive(q) \/ Account(q) \/ Fail(q) \/ Management(q)
                            \/ Lookup(q) \/ Claim(q) \/ DropSession(q) \/ ReadRole(q) \/ Join(q)
                            \/ DropUser(q)
  BY DEF Next, Redemption, Tick, vars
<1>9. "orphaned" \notin Decided
  BY DEF Decided
<1> QED BY <1>0, <1>1, <1>2, <1>3, <1>4, <1>5, <1>6, <1>7, <1>8, <1>9

\* What others do in the name of an undecided registration they do signed in.
LEMMA UseNeedsALogin ==
    ASSUME IInv, LoginsComeFirst, [Next]_vars, NEW r \in Requests, pc'[r] \notin Decided, Used(r)'
    PROVE  pc[r] \notin Decided /\ LoggedInto(r)
<1>1. pc[r] \notin Decided /\ (Used(r) => LoggedInto(r))
  <2>1. pc[r] \notin Decided
    BY PlacesStay
  <2> QED BY <2>1 DEF LoginsComeFirst
<1>2. CASE \E q \in Requests : Arrive(q)
  <2>1. PICK q \in Requests : Arrive(q)
    BY <1>2
  <2>2. UNCHANGED <<members, invites>>
    BY <2>1 DEF Arrive, rows
  <2>3. \A t \in Requests \ {q} : user'[t] = user[t] /\ job'[t] = job[t]
    BY <2>1 DEF Arrive, Setup, Login, Manage, Redeem, IInv, Typed, TypeOK
  <2>4. CASE r # q /\ user'[q] = r /\ job'[q].kind # "login"
    BY <1>1, <2>1, <2>4, ArrivalsNeedALogin
  <2>5. CASE ~(r # q /\ user'[q] = r /\ job'[q].kind # "login")
    BY <1>1, <2>2, <2>3, <2>5 DEF Used
  <2> QED BY <2>4, <2>5
<1>3. CASE \E q \in Requests : FindUser(q)
  <2>1. PICK q \in Requests : FindUser(q)
    BY <1>3
  <2>2. /\ UNCHANGED <<members, invites, job>> /\ job[q].kind = "login"
        /\ \A t \in Requests \ {q} : user'[t] = user[t]
    BY <2>1 DEF FindUser, At, rows, IInv, Typed, TypeOK, PlacesFit
  <2> QED BY <1>1, <2>2 DEF Used
<1>4. CASE \E q \in Requests : Claim(q)
  <2>1. PICK q \in Requests : Claim(q)
    BY <1>4
  <2>2. /\ UNCHANGED <<members, job, user>> /\ job[q].kind = "redeem" /\ job[q].link \in AllLinks
        /\ invites[job[q].link] \in Invite /\ invites \in [AllLinks -> Invite \cup {None}]
        /\ pc \in [Requests -> Points]
    BY <2>1 DEF Claim, At, locals, IInv, Typed, TypeOK, PlacesFit, JobsAreComplete, Named
  <2>3. CASE UNCHANGED invites
    BY <1>1, <2>2, <2>3 DEF Used
  <2>4. CASE ~UNCHANGED invites
    <3>1. /\ invites' = [invites EXCEPT ![job[q].link].redeemedBy = user[q],
                                        ![job[q].link].redeemedAt = now]
          /\ pc' = [pc EXCEPT ![q] = "readRole"]
      BY <2>1, <2>4 DEF Claim, Move
    <3>2. q # r
      BY <2>2, <3>1 DEF Decided
    <3>5. None \notin Invite
      BY NoRowAssumption
    <3>3. CASE user[q] = r
      BY <1>1, <2>2, <3>2, <3>3 DEF Used
    <3>4. CASE user[q] # r
      <4> DEFINE k == job[q].link
      <4>1. /\ k \in AllLinks /\ invites[k] # None
            /\ \A l \in AllLinks \ {k} : invites'[l] = invites[l]
            /\ invites'[k].by = invites[k].by /\ invites'[k].redeemedBy = user[q]
        BY <2>2, <3>1, <3>5 DEF Invite
      <4> HIDE DEF k
      <4> QED BY <1>1, <2>2, <3>4, <4>1 DEF Used
    <3> QED BY <3>3, <3>4
  <2> QED BY <2>3, <2>4
<1>5. CASE \E q \in Requests : Join(q)
  <2>1. PICK q \in Requests : Join(q)
    BY <1>5
  <2>2. /\ UNCHANGED <<invites, job, user>> /\ job[q].kind = "redeem"
        /\ pc \in [Requests -> Points] /\ members \in [Ids -> Roles \cup {None}] /\ r \in Ids
    BY <2>1 DEF Join, At, IInv, Typed, TypeOK, PlacesFit, Ids
  <2>3. CASE user[q] = r /\ q # r
    BY <1>1, <2>2, <2>3 DEF Used
  <2>4. CASE q = r
    BY <2>1, <2>2, <2>4 DEF Join, Move, Decided
  <2>5. CASE user[q] # r
    <3>1. members'[r] = members[r]
      BY <2>1, <2>2, <2>5 DEF Join
    <3> QED BY <1>1, <2>2, <3>1 DEF Used
  <2> QED BY <2>3, <2>4, <2>5
<1>6. CASE \E q \in Requests : InsertInvite(q)
  <2>1. PICK q \in Requests : InsertInvite(q)
    BY <1>6
  <2>2. /\ UNCHANGED <<members, job, user>> /\ job[q].kind = "mint" /\ q \in AllLinks
        /\ invites \in [AllLinks -> Invite \cup {None}] /\ pc \in [Requests -> Points]
        /\ None # r
    BY <2>1, MembershipAssumption DEF InsertInvite, At, locals, IInv, Typed, TypeOK, PlacesFit,
       AllLinks
  <2>3. CASE user[q] = r /\ q # r
    BY <1>1, <2>2, <2>3 DEF Used
  <2>4. CASE q = r
    BY <2>1, <2>2, <2>4 DEF InsertInvite, Move, Decided
  <2>5. CASE user[q] # r
    <3>1. \/ invites' = invites
          \/ invites' = [invites EXCEPT ![q] = NewInvite(job[q].role, role[q], user[q])]
      BY <2>1 DEF InsertInvite
    <3>2. /\ NewInvite(job[q].role, role[q], user[q]).by = user[q]
          /\ NewInvite(job[q].role, role[q], user[q]).redeemedBy = None
      BY DEF NewInvite
    <3> QED BY <1>1, <2>2, <2>5, <3>1, <3>2 DEF Used
  <2> QED BY <2>3, <2>4, <2>5
<1>7. CASE \E q \in Requests : DeleteInvite(q) \/ DeleteMember(q)
  <2>1. PICK q \in Requests : DeleteInvite(q) \/ DeleteMember(q)
    BY <1>7
  <2>2. /\ UNCHANGED <<job, user>> /\ members \in [Ids -> Roles \cup {None}] /\ r \in Ids
        /\ \/ members' = [members EXCEPT ![job[q].target] = None]
           \/ members' = members
    BY <2>1 DEF DeleteInvite, DeleteMember, locals, IInv, Typed, TypeOK, Ids
  <2>3. \A l \in AllLinks : /\ invites'[l] # None => invites[l] # None
                           /\ invites'[l].by = invites[l].by
                           /\ invites'[l].redeemedBy = invites[l].redeemedBy
    <3>1. CASE DeleteMember(q)
      BY <2>1, <3>1 DEF DeleteMember
    <3>2. CASE DeleteInvite(q)
      <4>1. /\ invites' = [invites EXCEPT ![job[q].link].exists = FALSE]
            /\ job[q].link \in AllLinks /\ invites[job[q].link] \in Invite
            /\ invites \in [AllLinks -> Invite \cup {None}]
        BY <3>2 DEF DeleteInvite, At, IInv, Typed, PlacesFit, JobsAreComplete, Named
      <4> DEFINE k == job[q].link
      <4>2. /\ k \in AllLinks /\ invites[k] # None
            /\ \A l \in AllLinks \ {k} : invites'[l] = invites[l]
            /\ invites'[k].by = invites[k].by /\ invites'[k].redeemedBy = invites[k].redeemedBy
        BY <4>1, NoRowAssumption DEF Invite
      <4> HIDE DEF k
      <4> QED BY <4>2
    <3> QED BY <2>1, <3>1, <3>2
  <2> QED BY <1>1, <2>2, <2>3 DEF Used
<1>8. CASE UNCHANGED <<members, invites, user, job>>
  BY <1>1, <1>8 DEF Used
<1>9. \/ UNCHANGED <<members, invites, user, job>>
      \/ \E q \in Requests : \/ Arrive(q) \/ FindUser(q) \/ Claim(q) \/ Join(q) \/ InsertInvite(q)
                            \/ DeleteInvite(q) \/ DeleteMember(q)
  BY DEF Next, Account, Redemption, Management, CountUsers, LockUsers, CheckName, InsertUser,
     OpenSession, Lookup, DropSession, DropUser, ReadRole, Authorize, ListMembers, Fail, Crash,
     Tick, vars, rows, locals
<1> QED BY <1>2, <1>3, <1>4, <1>5, <1>6, <1>7, <1>8, <1>9

\* An account is not taken back only because it is used.
LEMMA OrphansAreUsed ==
    ASSUME IInv, LoginsComeFirst, [Next]_vars, NEW r \in Requests, pc'[r] = "orphaned"
    PROVE  LoggedInto(r)
<1>1. pc[r] = "orphaned" \/ (DropUser(r) /\ Referenced(r))
  BY PlacesStay
<1>2. CASE pc[r] = "orphaned"
  BY <1>2 DEF LoginsComeFirst
<1>3. CASE DropUser(r) /\ Referenced(r)
  <2>1. pc[r] = "dropUser" /\ \A s \in sessions : s.by # r
    BY <1>3 DEF DropUser, At, IInv, AccountsAreHeld, Registered
  <2>2. CASE Used(r)
    BY <2>1, <2>2 DEF LoginsComeFirst, Decided
  <2>3. CASE ~Used(r)
    <3>1. PICK s \in sessions : s.user = r
      BY <1>3, <2>3 DEF Referenced, Used
    <3>2. s.by \in Requests \ {r} /\ job[s.by].kind = "login"
      BY <2>1, <3>1 DEF LoginsComeFirst, SessionsFit
    <3> QED BY <3>1, <3>2 DEF LoggedInto
  <2> QED BY <2>2, <2>3
<1> QED BY <1>1, <1>2, <1>3

\* On a new installation nobody acts for anybody, and founders act for themselves.
LEMMA InitLogins == Init => LoginsComeFirst
<1> SUFFICES ASSUME Init PROVE LoginsComeFirst
  OBVIOUS
<1>1. /\ pc = [r \in Requests |-> "idle"] /\ user = [r \in Requests |-> None]
      /\ sessions = {[user |-> i, by |-> i] : i \in accounts}
  BY DEF Init
<1>2. \A r \in Requests : ~Used(r)
  <2> SUFFICES ASSUME NEW r \in Requests PROVE ~Used(r)
    OBVIOUS
  <2>1. members[r] = None /\ r # None /\ r \notin Founders /\ r \in Ids
    BY MembershipAssumption DEF Init, Ids
  <2>2. Owners \subseteq Ids \ {r}
    BY <2>1, MembershipAssumption DEF Owners
  <2>3. \A l \in AllLinks : invites[l] # None => r \notin {invites[l].by, invites[l].redeemedBy}
    <3>1. CASE invites = [l \in AllLinks |-> None]
      BY <3>1
    <3>2. CASE \E linkRole \in [Links -> Roles], by \in [Links -> Owners] :
                 invites = [l \in AllLinks |->
                              IF l \in Links THEN NewInvite(linkRole[l], "owner", by[l]) ELSE None]
      BY <2>1, <2>2, <3>2 DEF NewInvite
    <3> QED BY <3>1, <3>2 DEF Init
  <2> QED BY <1>1, <2>1, <2>3 DEF Used
<1> QED BY <1>1, <1>2 DEF LoginsComeFirst, SessionsFit

LEMMA LoginsAlwaysComeFirst == Spec => []LoginsComeFirst
<1>1. IInv /\ LoginsComeFirst /\ [Next]_vars => LoginsComeFirst'
  <2> SUFFICES ASSUME IInv, LoginsComeFirst, [Next]_vars PROVE LoginsComeFirst'
    OBVIOUS
  <2>1. SessionsFit' /\ \A r \in Requests : LoggedInto(r) => LoggedInto(r)'
    BY LoginsStay
  <2>2. \A r \in Requests : pc'[r] \notin Decided /\ Used(r)' => LoggedInto(r)'
    BY <2>1, UseNeedsALogin
  <2>3. \A r \in Requests : pc'[r] = "orphaned" => LoggedInto(r)'
    BY <2>1, OrphansAreUsed
  <2> QED BY <2>1, <2>2, <2>3 DEF LoginsComeFirst
<1> QED BY <1>1, InitLogins, Invariance, PTL DEF Spec

\* Accounts, sessions, members, links and requests are what their types say.
THEOREM RowsAreTyped == Spec => []TypeOK
<1>1. IInv => TypeOK
  BY DEF IInv, Typed
<1> QED BY <1>1, Invariance, PTL

\* However many redeem, revoke or sign up at once, a link lets one account in, with
\* its own role and before it expires.
THEOREM LinksAdmitOnce == Spec => []OneJoinPerLink
<1>1. IInv => OneJoinPerLink
  BY DEF IInv
<1> QED BY <1>1, Invariance, PTL

\* Nobody is raised above the role a link was minted with, owners come from
\* owners, and a redemption reports the role its user has.
THEOREM RolesComeFromGrants == Spec => []RolesAreGranted
<1>1. IInv => RolesAreGranted
  BY DEF IInv, RolesAreGranted, RolesCameFromLinks, RedeemersAreMembers
<1> QED BY <1>1, Invariance, PTL

\* A redemption that loses its link leaves no session of its own, and no account
\* either unless somebody has logged in to it.
THEOREM RefusalsLeaveNothing == Spec => []LoserLeavesNothing
<1>1. IInv /\ LoginsComeFirst => LoserLeavesNothing
  BY DEF IInv, LoserLeavesNothing, LoginsComeFirst, AccountsAreHeld, Registered
<1> QED BY <1>1, Invariance, LoginsAlwaysComeFirst, PTL

\* However many setups race, one account comes out of a new installation.
THEOREM SetupRunsOnce == Spec => []OneFirstUser
<1>1. ASSUME IInv PROVE OneFirstUser
  <2> DEFINE S == {r \in accounts \cap Requests : job[r].kind = "setup"}
  <2>1. \A q, r \in S : q = r
    BY <1>1 DEF IInv, FirstUsers
  <2>2. CASE S = {}
    BY <2>2, FS_EmptySet DEF OneFirstUser
  <2>3. ASSUME NEW q \in S PROVE OneFirstUser
    <3>1. S = {q}
      BY <2>1, <2>3
    <3>2. Cardinality(S) = 1
      BY <3>1, FS_Singleton
    <3> QED BY <3>2 DEF OneFirstUser
  <2> QED BY <2>2, <2>3
<1> QED BY <1>1, Invariance, PTL

\* One removal on its own never takes the last owner: the owners had changed since
\* it listed them.
THEOREM LastOwnerFallsToARace == Spec => LastOwnerLostOnlyToARace
<1> DEFINE ByARace == \A r \in Requests :
             DeleteMember(r) /\ Owners # {} /\ Owners' = {} => listed[r] # Owners
<1>1. ASSUME IInv, NEW r \in Requests, DeleteMember(r), Owners # {}, Owners' = {}, listed[r] = Owners
      PROVE  FALSE
  <2>1. /\ members \in [Ids -> Roles \cup {None}] /\ pc[r] = "deleteMember"
        /\ members' = [members EXCEPT ![job[r].target] = None]
    BY <1>1 DEF IInv, Typed, TypeOK, DeleteMember, At
  <2>2. \A i \in Ids : members'[i] # "owner"
    BY <1>1 DEF Owners
  <2>3. \A i \in Owners : i = job[r].target
    BY <2>1, <2>2 DEF Owners
  <2>4. Owners = {job[r].target}
    BY <1>1, <2>3
  <2>5. Cardinality(Owners) = 1
    BY <2>4, FS_Singleton
  <2>6. ~(job[r].target \in listed[r] /\ Cardinality(listed[r]) <= 1)
    BY <1>1, <2>1 DEF IInv, OthersWereListed
  <2>7. job[r].target \in listed[r] /\ Cardinality(listed[r]) = 1
    BY <1>1, <2>4, <2>5
  <2> QED BY <2>6, <2>7
<1>2. IInv /\ [Next]_vars => [ByARace]_vars
  BY <1>1
<1> HIDE DEF ByARace
<1>3. Spec => [][ByARace]_vars
  BY <1>2, Invariance, PTL DEF Spec
<1> QED BY <1>3 DEF LastOwnerLostOnlyToARace, ByARace

=============================================================================
