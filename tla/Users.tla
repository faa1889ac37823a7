-------------------------------- MODULE Users --------------------------------
(***************************************************************************)
(* Accounts and the invites they are made with (metadata/db/user.go, with  *)
(* the handlers of metadata/auth/handlers.go and the resolvers of invites  *)
(* and users).  The first user needs no invite and becomes an              *)
(* administrator.  Requests run concurrently, and each statement is a      *)
(* step: registering counts the users, looks for the invite, creates the   *)
(* user, and marks the invite as used.                                     *)
(***************************************************************************)
EXTENDS Integers, FiniteSets

CONSTANTS
  Registration,  \* requests that register somebody
  Code,          \* the codes of invites, each drawn once
  Name,          \* user names
  MaxUsers       \* how many rows the table of users gets

ASSUME UsersAssumption == MaxUsers \in Nat

UserID == 1 .. MaxUsers
Nobody == 0     \* the user of an invite that has not been used
NoInvite == -1  \* there is no such row

CONSTANTS NoName, NoCode
ASSUME NoNameAssumption == NoName \notin Name /\ NoCode \notin Code

VARIABLES
  userNames,     \* the table of users: the name of each, if it is there
  admins,        \* those with Admin set
  created,       \* how many IDs have been given out
  invites,       \* the table of invites: the user of each, if it is there
  registration,  \* where each request is
  deletion,      \* the user being deleted, whose invites are deleted already
  redeemed,      \* history: the code that each user was created with
  overlapped     \* history: users whose request another one got in the way of

userVars == <<userNames, admins, created, invites, registration, deletion,
              redeemed, overlapped>>

Registrations ==
  [at : {"idle", "invite", "create", "save"}, name : Name \cup {NoName},
   code : Code \cup {NoCode}, first : BOOLEAN, user : UserID \cup {Nobody},
   disturbed : BOOLEAN]
Unregistered == [at |-> "idle", name |-> NoName, code |-> NoCode, first |-> FALSE,
                 user |-> Nobody, disturbed |-> FALSE]

UserRows == {u \in UserID : userNames[u] # NoName}

\* A statement of one request that another one may have looked for in vain.
Disturb(r, next) ==
  /\ registration' =
       [q \in Registration |->
          IF q = r THEN next
          ELSE IF registration[q].at = "idle" THEN registration[q]
          ELSE [registration[q] EXCEPT !.disturbed = TRUE]]
  /\ overlapped' = overlapped \cup ({registration[q].user : q \in Registration \ {r}} \ {Nobody})

-----------------------------------------------------------------------------
(* CreateUserWithCode.                                                     *)

\* The users are counted.
Count(r, name, code) ==
  /\ registration[r].at = "idle"
  /\ registration' = [registration EXCEPT ![r] =
       [Unregistered EXCEPT !.name = name, !.first = (UserRows = {}),
          !.at = IF UserRows = {} THEN "create" ELSE "invite",
          !.code = IF UserRows = {} THEN NoCode ELSE code]]
  /\ UNCHANGED <<userNames, admins, created, invites, deletion, redeemed, overlapped>>

\* Mutant: one that has been used will do.
FindInvite_Used(r) ==
  /\ registration[r].at = "invite"
  /\ registration' = [registration EXCEPT ![r] =
       IF invites[registration[r].code] # NoInvite
       THEN [registration[r] EXCEPT !.at = "create"] ELSE Unregistered]
  /\ UNCHANGED <<userNames, admins, created, invites, deletion, redeemed, overlapped>>

\* An invite that is not there, or has been used, is the end of it.
FindInvite(r) ==
  /\ registration[r].at = "invite"
  /\ registration' = [registration EXCEPT ![r] =
       IF invites[registration[r].code] = Nobody
       THEN [registration[r] EXCEPT !.at = "create"] ELSE Unregistered]
  /\ UNCHANGED <<userNames, admins, created, invites, deletion, redeemed, overlapped>>

\* So is a name or a password that is too short.
Refuse(r) ==
  /\ registration[r].at = "create"
  /\ registration' = [registration EXCEPT ![r] = Unregistered]
  /\ UNCHANGED <<userNames, admins, created, invites, deletion, redeemed, overlapped>>

\* And a name that somebody has.  Otherwise the user is there, and the first
\* one's request is over.
CreateUser(r) ==
  /\ registration[r].at = "create" /\ created < MaxUsers
  /\ LET c == registration[r]
         u == created + 1
     IN \/ /\ \E w \in UserRows : userNames[w] = c.name
           /\ registration' = [registration EXCEPT ![r] = Unregistered]
           /\ UNCHANGED <<userNames, admins, created, redeemed, overlapped>>
        \/ /\ \A w \in UserRows : userNames[w] # c.name
           /\ userNames' = [userNames EXCEPT ![u] = c.name]
           /\ admins' = IF c.first THEN admins \cup {u} ELSE admins
           /\ created' = u
           /\ redeemed' = [redeemed EXCEPT ![u] = c.code]
           /\ registration' =
                [q \in Registration |->
                   IF q = r THEN IF c.first THEN Unregistered
                                 ELSE [c EXCEPT !.at = "save", !.user = u]
                   ELSE IF registration[q].at = "idle" THEN registration[q]
                   ELSE [registration[q] EXCEPT !.disturbed = TRUE]]
           /\ overlapped' = overlapped
                \cup ({registration[q].user : q \in Registration \ {r}} \ {Nobody})
                \cup (IF c.disturbed THEN {u} ELSE {})
  /\ UNCHANGED <<invites, deletion>>

\* The invite is saved as it was found, but for its user; one that is gone is
\* inserted again.
SaveInvite(r) ==
  /\ registration[r].at = "save"
  /\ invites' = [invites EXCEPT ![registration[r].code] = registration[r].user]
  /\ Disturb(r, Unregistered)
  /\ UNCHANGED <<userNames, admins, created, deletion, redeemed>>

-----------------------------------------------------------------------------
(* Administrators' requests; they keep their token if they are deleted.    *)

CreateInvite(code) ==
  /\ created > 0
  /\ invites[code] = NoInvite /\ \A u \in UserID : redeemed[u] # code
  /\ \A r \in Registration : registration[r].code # code
  /\ invites' = [invites EXCEPT ![code] = Nobody]
  /\ UNCHANGED <<userNames, admins, created, registration, deletion, redeemed, overlapped>>

\* DeleteUser finds the user, and deletes its invites,
DeleteInvites(u) ==
  /\ deletion = Nobody /\ u \in UserRows
  /\ deletion' = u
  /\ invites' = [code \in Code |-> IF invites[code] = u THEN NoInvite ELSE invites[code]]
  /\ UNCHANGED <<userNames, admins, created, registration, redeemed, overlapped>>

\* and then the user.
DeleteUser ==
  /\ deletion # Nobody
  /\ userNames' = [userNames EXCEPT ![deletion] = NoName]
  /\ admins' = admins \ {deletion}
  /\ deletion' = Nobody
  /\ UNCHANGED <<created, invites, registration, redeemed, overlapped>>

UsersInit ==
  /\ userNames = [u \in UserID |-> NoName]
  /\ admins = {}
  /\ created = 0
  /\ invites = [code \in Code |-> NoInvite]
  /\ registration = [r \in Registration |-> Unregistered]
  /\ deletion = Nobody
  /\ redeemed = [u \in UserID |-> NoCode]
  /\ overlapped = {}

UsersNext ==
  \/ \E r \in Registration :
       \/ \E name \in Name, code \in Code : Count(r, name, code)
       \/ FindInvite(r) \/ Refuse(r) \/ CreateUser(r) \/ SaveInvite(r)
  \/ \E code \in Code : CreateInvite(code)
  \/ \E u \in UserID : DeleteInvites(u)
  \/ DeleteUser

UsersSpec == UsersInit /\ [][UsersNext]_userVars

-----------------------------------------------------------------------------
(* What should hold.                                                       *)

UsersTypeOK ==
  /\ userNames \in [UserID -> Name \cup {NoName}]
  /\ admins \subseteq UserID
  /\ created \in 0 .. MaxUsers
  /\ invites \in [Code -> {NoInvite, Nobody} \cup UserID]
  /\ registration \in [Registration -> Registrations]
  /\ deletion \in {Nobody} \cup UserID
  /\ redeemed \in [UserID -> Code \cup {NoCode}]
  /\ overlapped \subseteq UserID

\* Two users were not created with the same invite, nor both as the first, and
\* so as administrators, unless another request wrote while one of them was
\* being registered (CreateUserWithCode, user.go:79).
OneEachUnlessOverlapped ==
  \A u, w \in UserRows : u # w /\ redeemed[u] = redeemed[w] =>
    u \in overlapped \/ w \in overlapped
=============================================================================
