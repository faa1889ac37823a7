----------------------------- MODULE Users_proofs -----------------------------
(***************************************************************************)
(* What holds of users and invites for any number of registrations, codes, *)
(* names and users: types, and that only registrations that overlap share  *)
(* an invite, or both become the first user.                               *)
(***************************************************************************)
EXTENDS Users, TLAPS

USE UsersAssumption, NoNameAssumption DEF UserID, Nobody, NoInvite

(***************************************************************************)
(* Types                                                                   *)
(***************************************************************************)

\* What a request has in hand: a name, and a code unless it is the first's.
HasCode(c) ==
  /\ c.at # "idle" => c.name \in Name
  /\ c.at \in {"invite", "save"} => ~c.first /\ c.code \in Code
  /\ c.at = "create" => (c.first /\ c.code = NoCode) \/ (~c.first /\ c.code \in Code)
  /\ c.at = "save" => c.user \in 1 .. created /\ redeemed[c.user] = c.code
  /\ c.at # "save" => c.user = Nobody

\* Users are numbered in order.
UpToCreated ==
  \A u \in UserID : u > created => userNames[u] = NoName /\ redeemed[u] = NoCode

UserTypeInv ==
  /\ UsersTypeOK
  /\ \A r \in Registration : HasCode(registration[r])
  /\ UpToCreated

LEMMA UnregisteredType == Unregistered \in Registrations /\ HasCode(Unregistered)
BY DEF Unregistered, Registrations, HasCode

\* The requests after a step of r: where it is, and the others, perhaps disturbed.
Stays(c, d) == d = c \/ (c.at # "idle" /\ d = [c EXCEPT !.disturbed = TRUE])

\* A step of one request, that may have given out an ID.
LEMMA RegistrationTypes ==
  ASSUME UserTypeInv, NEW r \in Registration,
         registration' = [q \in Registration |-> registration'[q]],
         registration'[r] \in Registrations, HasCode(registration[r])',
         \A q \in Registration \ {r} : Stays(registration[q], registration'[q]),
         created' \in Nat, created <= created',
         \A u \in 1 .. created : redeemed'[u] = redeemed[u]
  PROVE  /\ registration' \in [Registration -> Registrations]
         /\ (\A q \in Registration : HasCode(registration[q]))'
<1>1. ASSUME NEW q \in Registration
      PROVE  registration'[q] \in Registrations /\ HasCode(registration[q])'
  <2>1. CASE q = r
    BY <2>1
  <2>2. CASE q # r
    <3>1. registration[q] \in Registrations /\ HasCode(registration[q])
      BY DEF UserTypeInv, UsersTypeOK
    <3>2. created \in Nat
      BY DEF UserTypeInv, UsersTypeOK
    <3>3. CASE registration'[q] = registration[q]
      BY <3>1, <3>2, <3>3 DEF HasCode
    <3>4. CASE registration'[q] = [registration[q] EXCEPT !.disturbed = TRUE]
      <4>1. /\ registration'[q] \in Registrations
            /\ registration'[q].at = registration[q].at
            /\ registration'[q].name = registration[q].name
            /\ registration'[q].code = registration[q].code
            /\ registration'[q].first = registration[q].first
            /\ registration'[q].user = registration[q].user
        BY <3>1, <3>4 DEF Registrations
      <4> QED BY <3>1, <3>2, <4>1 DEF HasCode
    <3> QED BY <2>2, <3>3, <3>4 DEF Stays
  <2> QED BY <2>1, <2>2
<1> QED BY <1>1

\* Most steps of a request change no user and give out no ID.
LEMMA MoveTypes ==
  ASSUME UserTypeInv, NEW r \in Registration, NEW next \in Registrations, HasCode(next),
         registration' = [registration EXCEPT ![r] = next],
         UNCHANGED <<userNames, admins, created, deletion, redeemed>>,
         invites' \in [Code -> {NoInvite, Nobody} \cup UserID], overlapped' \subseteq UserID
  PROVE  UserTypeInv'
<1>1. /\ registration' = [q \in Registration |-> registration'[q]]
      /\ registration'[r] = next
      /\ \A q \in Registration \ {r} : Stays(registration[q], registration'[q])
  BY DEF UserTypeInv, UsersTypeOK, Stays
<1>2. HasCode(registration[r])'
  BY <1>1 DEF HasCode
<1>3. created \in Nat
  BY DEF UserTypeInv, UsersTypeOK
<1>4. created' \in Nat /\ created <= created'
      /\ \A u \in 1 .. created : redeemed'[u] = redeemed[u]
  BY <1>3
<1>5. /\ registration' \in [Registration -> Registrations]
      /\ (\A q \in Registration : HasCode(registration[q]))'
  BY <1>1, <1>2, <1>4, RegistrationTypes
<1> QED BY <1>5 DEF UserTypeInv, UsersTypeOK, UpToCreated

LEMMA UserInitTypes == UsersInit => UserTypeInv
<1> SUFFICES ASSUME UsersInit PROVE UserTypeInv
  OBVIOUS
<1> USE DEF UsersInit
<1>1. UsersTypeOK
  BY UnregisteredType DEF UsersTypeOK
<1>2. \A r \in Registration : HasCode(registration[r])
  BY UnregisteredType
<1> QED BY <1>1, <1>2 DEF UserTypeInv, UpToCreated

LEMMA DisturbedUsersType ==
  ASSUME UserTypeInv, NEW r \in Registration
  PROVE  {registration[q].user : q \in Registration \ {r}} \ {Nobody} \subseteq UserID
BY DEF UserTypeInv, UsersTypeOK, Registrations

LEMMA CreateUserTypes ==
  ASSUME UserTypeInv, NEW r \in Registration, CreateUser(r)
  PROVE  UserTypeInv'
<1> DEFINE c == registration[r]
           u == created + 1
<1>1. /\ c \in Registrations /\ HasCode(c) /\ c.at = "create"
      /\ created \in Nat /\ created < MaxUsers /\ u \in UserID /\ u \in Nat
      /\ UNCHANGED <<invites, deletion>>
  BY DEF CreateUser, UserTypeInv, UsersTypeOK
<1>2. CASE /\ registration' = [registration EXCEPT ![r] = Unregistered]
           /\ UNCHANGED <<userNames, admins, created, redeemed, overlapped>>
  BY <1>1, <1>2, UnregisteredType, MoveTypes DEF UserTypeInv, UsersTypeOK
<1>3. CASE /\ userNames' = [userNames EXCEPT ![u] = c.name]
           /\ admins' = IF c.first THEN admins \cup {u} ELSE admins
           /\ created' = u
           /\ redeemed' = [redeemed EXCEPT ![u] = c.code]
           /\ registration' =
                [q \in Registration |->
                   IF q = r THEN IF c.first THEN Unregistered
                                 ELSE [c EXCEPT !.at = "save", !.user = u]
                   ELSE IF registration[q].at = "idle" THEN registration[q]
                   ELSE [registration[q] EXCEPT !.disturbed = TRUE]]
           /\ overlapped' = overlapped
                \cup ({registration[q].user : q \in Registration \ {r}} \ {Nobody})
                \cup (IF c.disturbed THEN {u} ELSE {})
  <2>1. c.name \in Name /\ c.code \in Code \cup {NoCode}
    BY <1>1 DEF HasCode, Registrations
  <2>2. /\ userNames' \in [UserID -> Name \cup {NoName}] /\ redeemed' \in [UserID -> Code \cup {NoCode}]
        /\ admins' \subseteq UserID /\ created' \in 0 .. MaxUsers
        /\ \A w \in UserID \ {u} : userNames'[w] = userNames[w] /\ redeemed'[w] = redeemed[w]
        /\ redeemed'[u] = c.code
    BY <1>1, <1>3, <2>1 DEF UserTypeInv, UsersTypeOK
  <2>3. overlapped' \subseteq UserID
    BY <1>1, <1>3, DisturbedUsersType DEF UserTypeInv, UsersTypeOK
  <2>4. UpToCreated'
    BY <1>1, <1>3, <2>2 DEF UserTypeInv, UpToCreated, UsersTypeOK
  <2>5. registration'[r] \in Registrations /\ HasCode(registration[r])'
    <3>1. CASE c.first
      <4>1. registration'[r] = Unregistered
        BY <1>3, <3>1
      <4> QED BY <4>1, UnregisteredType DEF HasCode, Unregistered
    <3>2. CASE ~c.first
      <4>1. registration'[r] = [c EXCEPT !.at = "save", !.user = u]
        BY <1>3, <3>2
      <4>2. c.code \in Code
        BY <1>1, <3>2 DEF HasCode
      <4>3. /\ registration'[r] \in Registrations /\ registration'[r].at = "save"
            /\ registration'[r].user = u /\ registration'[r].name = c.name
            /\ registration'[r].code = c.code /\ registration'[r].first = c.first
        BY <1>1, <4>1 DEF Registrations
      <4> QED BY <1>1, <1>3, <2>1, <2>2, <3>2, <4>2, <4>3 DEF HasCode
    <3> QED BY <3>1, <3>2
  <2>6. /\ registration' = [q \in Registration |-> registration'[q]]
        /\ \A q \in Registration \ {r} : Stays(registration[q], registration'[q])
    BY <1>3 DEF Stays
  <2>7. /\ created' \in Nat /\ created <= created'
        /\ \A w \in 1 .. created : redeemed'[w] = redeemed[w]
    BY <1>1, <1>3, <2>2
  <2>8. /\ registration' \in [Registration -> Registrations]
        /\ (\A q \in Registration : HasCode(registration[q]))'
    BY <2>5, <2>6, <2>7, RegistrationTypes
  <2> QED BY <1>1, <2>2, <2>3, <2>4, <2>8 DEF UserTypeInv, UsersTypeOK
<1> QED BY <1>2, <1>3 DEF CreateUser

\* A user's ID, or nobody's, is all that is written to an invite.
LEMMA UserNextTypes == UserTypeInv /\ [UsersNext]_userVars => UserTypeInv'
<1> SUFFICES ASSUME UserTypeInv, [UsersNext]_userVars PROVE UserTypeInv'
  OBVIOUS
<1>1. CASE UNCHANGED userVars
  BY <1>1 DEF userVars, UserTypeInv, UsersTypeOK, UpToCreated, HasCode
<1>2. ASSUME NEW r \in Registration, NEW name \in Name, NEW code \in Code, Count(r, name, code)
      PROVE  UserTypeInv'
  <2> DEFINE next == [Unregistered EXCEPT !.name = name, !.first = (UserRows = {}),
                        !.at = IF UserRows = {} THEN "create" ELSE "invite",
                        !.code = IF UserRows = {} THEN NoCode ELSE code]
  <2>1. next \in Registrations /\ HasCode(next)
    BY DEF Unregistered, Registrations, HasCode
  <2>2. /\ registration' = [registration EXCEPT ![r] = next]
        /\ UNCHANGED <<userNames, admins, created, invites, deletion, redeemed, overlapped>>
    BY <1>2 DEF Count
  <2> QED BY <2>1, <2>2, MoveTypes DEF UserTypeInv, UsersTypeOK
<1>3. ASSUME NEW r \in Registration, FindInvite(r) \/ Refuse(r) PROVE UserTypeInv'
  <2>1. /\ UNCHANGED <<userNames, admins, created, invites, deletion, redeemed, overlapped>>
        /\ \/ registration' = [registration EXCEPT ![r] = Unregistered]
           \/ /\ registration[r].at = "invite"
              /\ registration' = [registration EXCEPT ![r] = [registration[r] EXCEPT !.at = "create"]]
    BY <1>3 DEF FindInvite, Refuse
  <2>2. CASE registration' = [registration EXCEPT ![r] = Unregistered]
    BY <2>1, <2>2, UnregisteredType, MoveTypes DEF UserTypeInv, UsersTypeOK
  <2>3. CASE /\ registration[r].at = "invite"
             /\ registration' = [registration EXCEPT ![r] = [registration[r] EXCEPT !.at = "create"]]
    <3>1. registration[r] \in Registrations /\ HasCode(registration[r])
      BY DEF UserTypeInv, UsersTypeOK
    <3>2. [registration[r] EXCEPT !.at = "create"] \in Registrations
      BY <3>1 DEF Registrations
    <3>3. HasCode([registration[r] EXCEPT !.at = "create"])
      BY <2>3, <3>1 DEF Registrations, HasCode
    <3> QED BY <2>1, <2>3, <3>2, <3>3, MoveTypes DEF UserTypeInv, UsersTypeOK
  <2> QED BY <2>1, <2>2, <2>3
<1>4. ASSUME NEW r \in Registration, SaveInvite(r) PROVE UserTypeInv'
  <2>1. /\ registration[r] \in Registrations /\ HasCode(registration[r])
        /\ registration[r].at = "save" /\ created \in Nat
        /\ UNCHANGED <<userNames, admins, created, deletion, redeemed>>
    BY <1>4 DEF SaveInvite, UserTypeInv, UsersTypeOK
  <2>2. invites' \in [Code -> {NoInvite, Nobody} \cup UserID]
    BY <1>4, <2>1 DEF SaveInvite, HasCode, UserTypeInv, UsersTypeOK, Registrations
  <2>3. overlapped' \subseteq UserID
    BY <1>4, DisturbedUsersType DEF SaveInvite, Disturb, UserTypeInv, UsersTypeOK
  <2>4. /\ registration' = [q \in Registration |-> registration'[q]]
        /\ registration'[r] = Unregistered
        /\ \A q \in Registration \ {r} : Stays(registration[q], registration'[q])
    BY <1>4 DEF SaveInvite, Disturb, Stays
  <2>5. registration'[r] \in Registrations /\ HasCode(registration[r])'
    BY <2>4, UnregisteredType DEF HasCode, Unregistered
  <2>6. /\ created' \in Nat /\ created <= created'
        /\ \A u \in 1 .. created : redeemed'[u] = redeemed[u]
    BY <2>1
  <2>7. /\ registration' \in [Registration -> Registrations]
        /\ (\A q \in Registration : HasCode(registration[q]))'
    BY <2>4, <2>5, <2>6, RegistrationTypes
  <2> QED BY <2>1, <2>2, <2>3, <2>7 DEF UserTypeInv, UsersTypeOK, UpToCreated
<1>5. ASSUME NEW code \in Code, CreateInvite(code) PROVE UserTypeInv'
  BY <1>5 DEF CreateInvite, UserTypeInv, UsersTypeOK, UpToCreated, HasCode
<1>6. ASSUME NEW u \in UserID, DeleteInvites(u) PROVE UserTypeInv'
  BY <1>6 DEF DeleteInvites, UserTypeInv, UsersTypeOK, UpToCreated, HasCode
<1>7. CASE DeleteUser
  BY <1>7 DEF DeleteUser, UserTypeInv, UsersTypeOK, UpToCreated, HasCode
<1> QED BY <1>1, <1>2, <1>3, <1>4, <1>5, <1>6, <1>7, CreateUserTypes DEF UsersNext

\* Every reachable state of users, invites and registrations is well typed
\* (user.go).
THEOREM UsersTypesCorrect == UsersSpec => []UsersTypeOK
<1>1. UserTypeInv => UsersTypeOK
  BY DEF UserTypeInv
<1> QED BY UserInitTypes, UserNextTypes, <1>1, PTL DEF UsersSpec
(***************************************************************************)
(* Invites are used once                                                   *)
(***************************************************************************)

\* Whoever has been created with an invite has it, will have it, or was
\* created while another request wrote.
Accounted(u) ==
  u \in overlapped \/ \E q \in Registration : registration[q].at = "save" /\ registration[q].user = u

Used(u) == redeemed[u] \in Code => invites[redeemed[u]] # Nobody \/ Accounted(u)

\* What a request has been told still holds when it creates its user.
Fresh(c) ==
  c.at = "create" /\ ~c.disturbed =>
    /\ c.first => UserRows = {}
    /\ \A u \in UserRows : redeemed[u] = c.code => Accounted(u)

OnceInv ==
  /\ UserTypeInv
  /\ \A r \in Registration : Fresh(registration[r])
  /\ \A u \in UserRows : Used(u)
  /\ OneEachUnlessOverlapped

LEMMA InitOnce == UsersInit => OnceInv
<1> SUFFICES ASSUME UsersInit PROVE OnceInv
  OBVIOUS
<1>1. UserRows = {}
  BY DEF UsersInit, UserRows
<1>2. \A r \in Registration : Fresh(registration[r])
  BY DEF UsersInit, Unregistered, Fresh
<1> QED BY <1>1, <1>2, UserInitTypes DEF OnceInv, OneEachUnlessOverlapped

\* A request moves on, and has not created a user yet.
LEMMA MoveOnce ==
  ASSUME OnceInv, UserTypeInv', NEW r \in Registration, NEW next, Fresh(next),
         registration[r].at # "save", next.at # "save",
         registration' = [registration EXCEPT ![r] = next],
         UNCHANGED <<userNames, redeemed, invites, overlapped>>
  PROVE  OnceInv'
<1>1. UserRows' = UserRows
  BY DEF UserRows
<1>2. /\ registration'[r] = next
      /\ \A q \in Registration \ {r} : registration'[q] = registration[q]
  BY DEF OnceInv, UserTypeInv, UsersTypeOK
<1>3. ASSUME NEW u \in UserID PROVE Accounted(u)' <=> Accounted(u)
  BY <1>2 DEF Accounted
<1>4. ASSUME NEW q \in Registration PROVE Fresh(registration[q])'
  <2>1. Fresh(registration'[q])
    BY <1>2 DEF OnceInv
  <2> QED BY <2>1, <1>1, <1>3 DEF Fresh, UserRows
<1>5. \A u \in UserRows' : Used(u)'
  BY <1>1, <1>3 DEF OnceInv, Used, UserRows
<1>6. OneEachUnlessOverlapped'
  BY <1>1 DEF OnceInv, OneEachUnlessOverlapped
<1> QED BY <1>4, <1>5, <1>6 DEF OnceInv

LEMMA UnregisteredFresh == Fresh(Unregistered)
BY DEF Fresh, Unregistered

\* A step that disturbs all other requests leaves none of them fresh.
LEMMA DisturbedFresh ==
  ASSUME UserTypeInv, NEW r \in Registration, NEW q \in Registration \ {r},
         registration'[q] = IF registration[q].at = "idle" THEN registration[q]
                            ELSE [registration[q] EXCEPT !.disturbed = TRUE]
  PROVE  /\ Fresh(registration[q])'
         /\ registration'[q].at = registration[q].at /\ registration'[q].user = registration[q].user
BY DEF UserTypeInv, UsersTypeOK, Registrations, Fresh

LEMMA CreateUserOnce ==
  ASSUME OnceInv, UserTypeInv', NEW r \in Registration, CreateUser(r)
  PROVE  OnceInv'
<1> DEFINE c == registration[r]
           others == {registration[q].user : q \in Registration \ {r}} \ {Nobody}
<1>0. PICK u \in UserID : u = created + 1
  BY DEF CreateUser, OnceInv, UserTypeInv, UsersTypeOK
<1>1. /\ UserTypeInv /\ c \in Registrations /\ HasCode(c) /\ c.at = "create" /\ Fresh(c)
      /\ created \in Nat /\ created < MaxUsers
      /\ invites' = invites
  BY DEF CreateUser, OnceInv, UserTypeInv, UsersTypeOK
<1>2. CASE /\ registration' = [registration EXCEPT ![r] = Unregistered]
           /\ UNCHANGED <<userNames, admins, created, redeemed, overlapped>>
  <2>1. c.at # "save" /\ Unregistered.at # "save"
    BY <1>1 DEF Unregistered
  <2> QED BY <1>1, <1>2, <2>1, UnregisteredFresh, MoveOnce
<1>3. CASE /\ userNames' = [userNames EXCEPT ![u] = c.name]
           /\ redeemed' = [redeemed EXCEPT ![u] = c.code]
           /\ registration' =
                [q \in Registration |->
                   IF q = r THEN IF c.first THEN Unregistered
                                 ELSE [c EXCEPT !.at = "save", !.user = u]
                   ELSE IF registration[q].at = "idle" THEN registration[q]
                   ELSE [registration[q] EXCEPT !.disturbed = TRUE]]
           /\ overlapped' = overlapped \cup others \cup (IF c.disturbed THEN {u} ELSE {})
  <2>1. /\ \A w \in UserID \ {u} : userNames'[w] = userNames[w] /\ redeemed'[w] = redeemed[w]
        /\ redeemed'[u] = c.code /\ u \notin UserRows
    BY <1>0, <1>1, <1>3 DEF UserTypeInv, UsersTypeOK, UpToCreated, UserRows
  <2>2. UserRows' \subseteq UserRows \cup {u}
    BY <2>1 DEF UserRows
  <2>3. \A q \in Registration \ {r} :
          /\ Fresh(registration[q])'
          /\ registration'[q].at = registration[q].at /\ registration'[q].user = registration[q].user
    BY <1>1, <1>3, DisturbedFresh
  <2>4. /\ c.first => registration'[r] = Unregistered
        /\ ~c.first => registration'[r].at = "save" /\ registration'[r].user = u
    BY <1>1, <1>3 DEF Registrations
  <2>5. ASSUME NEW w \in UserRows, Accounted(w) PROVE Accounted(w)' /\ w \in overlapped'
    <3>1. w \in UserID
      BY DEF UserRows
    <3>2. CASE w \in overlapped
      BY <1>3, <3>2 DEF Accounted
    <3>3. ASSUME NEW q \in Registration, registration[q].at = "save", registration[q].user = w
          PROVE  w \in overlapped'
      <4>1. q # r
        BY <1>1, <3>3
      <4>2. w \in others
        BY <3>1, <3>3, <4>1
      <4> QED BY <1>3, <4>2
    <3> QED BY <2>5, <3>2, <3>3 DEF Accounted
  <2>6. ASSUME ~c.first PROVE Accounted(u)'
    <3>1. registration'[r].at = "save" /\ registration'[r].user = u
      BY <2>4, <2>6
    <3>2. \E q \in Registration : registration'[q].at = "save" /\ registration'[q].user = u
      BY <3>1
    <3> QED BY <3>2, <1>1, <1>3 DEF Accounted
  <2>7. \A q \in Registration : Fresh(registration[q])'
    <3>0. registration'[r].at # "create"
      BY <1>1, <2>4 DEF Unregistered, Registrations
    <3>1. Fresh(registration[r])'
      BY <3>0 DEF Fresh
    <3> QED BY <2>3, <3>1
  <2>8. ASSUME NEW w \in UserRows' PROVE Used(w)'
    <3>1. CASE w = u
      <4>1. c.first => redeemed'[u] = NoCode
        BY <1>1, <2>1 DEF HasCode
      <4>2. CASE c.first
        BY <3>1, <4>1, <4>2, NoNameAssumption DEF Used
      <4>3. CASE ~c.first
        BY <3>1, <2>6, <4>3 DEF Used
      <4> QED BY <1>1, <4>2, <4>3 DEF Registrations
    <3>2. CASE w # u
      <4>1. w \in UserRows /\ redeemed'[w] = redeemed[w] /\ Used(w)
        BY <2>1, <2>2, <3>2 DEF OnceInv, UserRows
      <4> QED BY <1>1, <2>5, <4>1 DEF Used
    <3> QED BY <3>1, <3>2
  <2>9. ASSUME NEW w \in UserRows, redeemed[w] = c.code PROVE u \in overlapped' \/ w \in overlapped'
    <3>1. CASE c.disturbed
      BY <1>3, <3>1
    <3>2. CASE ~c.disturbed
      <4>1. Accounted(w)
        BY <1>1, <2>9, <3>2 DEF Fresh
      <4> QED BY <2>5, <4>1
    <3> QED BY <1>1, <3>1, <3>2 DEF Registrations
  <2>10. OneEachUnlessOverlapped'
    <3> SUFFICES ASSUME NEW v \in UserRows', NEW w \in UserRows', v # w, redeemed'[v] = redeemed'[w]
                 PROVE  v \in overlapped' \/ w \in overlapped'
      BY DEF OneEachUnlessOverlapped
    <3>1. CASE v # u /\ w # u
      <4>1. v \in UserRows /\ w \in UserRows /\ redeemed[v] = redeemed[w]
        BY <2>1, <2>2, <3>1 DEF UserRows
      <4>2. v \in overlapped \/ w \in overlapped
        BY <4>1 DEF OnceInv, OneEachUnlessOverlapped
      <4> QED BY <1>3, <4>2
    <3>2. CASE v = u \/ w = u
      BY <2>1, <2>2, <2>9, <3>2 DEF UserRows
    <3> QED BY <3>1, <3>2
  <2> QED BY <2>7, <2>8, <2>10 DEF OnceInv
<1> QED BY <1>0, <1>2, <1>3 DEF CreateUser

LEMMA SaveInviteOnce ==
  ASSUME OnceInv, UserTypeInv', NEW r \in Registration, SaveInvite(r)
  PROVE  OnceInv'
<1> DEFINE c == registration[r]
           others == {registration[q].user : q \in Registration \ {r}} \ {Nobody}
<1>1. /\ UserTypeInv /\ c \in Registrations /\ HasCode(c) /\ c.at = "save"
      /\ UNCHANGED <<userNames, redeemed>>
      /\ invites' = [invites EXCEPT ![c.code] = c.user]
      /\ registration'[r] = Unregistered /\ overlapped' = overlapped \cup others
      /\ \A q \in Registration \ {r} : registration'[q] =
           IF registration[q].at = "idle" THEN registration[q]
           ELSE [registration[q] EXCEPT !.disturbed = TRUE]
  BY DEF SaveInvite, Disturb, OnceInv, UserTypeInv, UsersTypeOK
<1>2. UserRows' = UserRows
  BY <1>1 DEF UserRows
<1>3. \A q \in Registration \ {r} :
        /\ Fresh(registration[q])'
        /\ registration'[q].at = registration[q].at /\ registration'[q].user = registration[q].user
  BY <1>1, DisturbedFresh
<1>4. /\ c.code \in Code /\ c.user \in UserID /\ c.user # Nobody /\ redeemed[c.user] = c.code
      /\ invites'[c.code] = c.user
      /\ \A d \in Code \ {c.code} : invites'[d] = invites[d]
  BY <1>1 DEF HasCode, Registrations, UserTypeInv, UsersTypeOK
<1>5. ASSUME NEW w \in UserRows, w # c.user, Accounted(w) PROVE Accounted(w)'
  BY <1>1, <1>3, <1>5 DEF Accounted
<1>6. \A q \in Registration : Fresh(registration[q])'
  <2>1. Fresh(registration[r])'
    BY <1>1 DEF Fresh, Unregistered
  <2> QED BY <1>3, <2>1
<1>7. ASSUME NEW w \in UserRows PROVE Used(w)'
  <2>1. CASE redeemed[w] = c.code
    BY <1>1, <1>4, <2>1 DEF Used
  <2>2. CASE redeemed[w] # c.code
    <3>1. w # c.user /\ Used(w)
      BY <1>4, <2>2 DEF OnceInv
    <3>2. redeemed[w] \in Code => invites'[redeemed[w]] = invites[redeemed[w]]
      BY <1>4, <2>2
    <3> QED BY <1>1, <1>5, <3>1, <3>2 DEF Used
  <2> QED BY <2>1, <2>2
<1>8. OneEachUnlessOverlapped'
  BY <1>1, <1>2 DEF OnceInv, OneEachUnlessOverlapped
<1> QED BY <1>2, <1>6, <1>7, <1>8 DEF OnceInv

\* Users go, and invites come and go.
LEMMA AdministratorsOnce ==
  ASSUME OnceInv, UserTypeInv', UNCHANGED <<registration, redeemed, overlapped>>, UserRows' \subseteq UserRows,
         \A u \in UserRows : redeemed[u] \in Code /\ invites'[redeemed[u]] = Nobody
                             => invites[redeemed[u]] = Nobody
  PROVE  OnceInv'
<1>1. \A u \in UserID : Accounted(u)' <=> Accounted(u)
  BY DEF Accounted
<1>2. \A q \in Registration : Fresh(registration[q])'
  BY <1>1 DEF OnceInv, Fresh, UserRows
<1>3. \A u \in UserRows' : Used(u)'
  BY <1>1 DEF OnceInv, Used, UserRows
<1> QED BY <1>2, <1>3 DEF OnceInv, OneEachUnlessOverlapped

LEMMA NextOnce == OnceInv /\ [UsersNext]_userVars => OnceInv'
<1> SUFFICES ASSUME OnceInv, [UsersNext]_userVars PROVE OnceInv'
  OBVIOUS
<1>0. UserTypeInv /\ UserTypeInv' /\ invites \in [Code -> {NoInvite, Nobody} \cup UserID]
      /\ userNames \in [UserID -> Name \cup {NoName}] /\ deletion \in {Nobody} \cup UserID
      /\ registration \in [Registration -> Registrations]
  BY UserNextTypes DEF OnceInv, UserTypeInv, UsersTypeOK
<1>1. CASE UNCHANGED userVars
  <2>1. UNCHANGED <<registration, redeemed, overlapped, invites>> /\ UserRows' = UserRows
    BY <1>1 DEF userVars, UserRows
  <2> QED BY <1>0, <2>1, AdministratorsOnce
<1>2. ASSUME NEW r \in Registration, NEW name \in Name, NEW code \in Code, Count(r, name, code)
      PROVE  OnceInv'
  <2> DEFINE next == [Unregistered EXCEPT !.name = name, !.first = (UserRows = {}),
                        !.at = IF UserRows = {} THEN "create" ELSE "invite",
                        !.code = IF UserRows = {} THEN NoCode ELSE code]
  <2>1. /\ next.at = IF UserRows = {} THEN "create" ELSE "invite"
        /\ registration[r].at # "save"
        /\ registration' = [registration EXCEPT ![r] = next]
        /\ UNCHANGED <<userNames, redeemed, invites, overlapped>>
    BY <1>2 DEF Count, Unregistered
  <2>2. Fresh(next)
    BY <2>1 DEF Fresh
  <2>3. next.at # "save"
    BY <2>1
  <2> HIDE DEF next
  <2> QED BY <1>0, <2>1, <2>2, <2>3, MoveOnce
<1>3. ASSUME NEW r \in Registration, FindInvite(r) \/ Refuse(r) PROVE OnceInv'
  <2>1. /\ UNCHANGED <<userNames, redeemed, invites, overlapped>>
        /\ registration[r].at # "save"
        /\ \/ registration' = [registration EXCEPT ![r] = Unregistered]
           \/ /\ registration[r].at = "invite" /\ invites[registration[r].code] = Nobody
              /\ registration' = [registration EXCEPT ![r] = [registration[r] EXCEPT !.at = "create"]]
    BY <1>3 DEF FindInvite, Refuse
  <2>2. CASE registration' = [registration EXCEPT ![r] = Unregistered]
    <3>1. Unregistered.at # "save"
      BY DEF Unregistered
    <3> QED BY <1>0, <2>1, <2>2, <3>1, UnregisteredFresh, MoveOnce
  <2>3. CASE /\ registration[r].at = "invite" /\ invites[registration[r].code] = Nobody
             /\ registration' = [registration EXCEPT ![r] = [registration[r] EXCEPT !.at = "create"]]
    <3> DEFINE next == [registration[r] EXCEPT !.at = "create"]
    <3>1. /\ next.at = "create" /\ next.code = registration[r].code
          /\ next.first = registration[r].first
      BY <1>0 DEF Registrations
    <3>2. ~next.first /\ next.code \in Code /\ invites[next.code] = Nobody
      BY <1>0, <2>3, <3>1 DEF UserTypeInv, HasCode
    <3>3. \A u \in UserRows : redeemed[u] = next.code => Accounted(u)
      BY <3>2 DEF OnceInv, Used
    <3>4. Fresh(next) /\ next.at # "save"
      BY <3>1, <3>2, <3>3 DEF Fresh
    <3>5. registration' = [registration EXCEPT ![r] = next]
      BY <2>3
    <3> HIDE DEF next
    <3> QED BY <1>0, <2>1, <3>4, <3>5, MoveOnce
  <2> QED BY <2>1, <2>2, <2>3
<1>4. ASSUME NEW code \in Code, CreateInvite(code) PROVE OnceInv'
  <2>1. /\ UNCHANGED <<registration, redeemed, overlapped>> /\ UserRows' = UserRows
        /\ \A u \in UserRows : redeemed[u] # code
        /\ \A d \in Code \ {code} : invites'[d] = invites[d]
    BY <1>0, <1>4 DEF CreateInvite, UserRows
  <2> QED BY <1>0, <2>1, AdministratorsOnce
<1>5. ASSUME NEW u \in UserID, DeleteInvites(u) PROVE OnceInv'
  <2>1. /\ UNCHANGED <<registration, redeemed, overlapped>> /\ UserRows' = UserRows
        /\ \A d \in Code : invites'[d] = Nobody => invites[d] = Nobody
    BY <1>0, <1>5 DEF DeleteInvites, UserRows
  <2> QED BY <1>0, <2>1, AdministratorsOnce
<1>6. CASE DeleteUser
  <2>1. /\ UNCHANGED <<registration, redeemed, overlapped, invites>> /\ UserRows' \subseteq UserRows
    BY <1>0, <1>6 DEF DeleteUser, UserRows
  <2> QED BY <1>0, <2>1, AdministratorsOnce
<1> QED BY <1>0, <1>1, <1>2, <1>3, <1>4, <1>5, <1>6, CreateUserOnce, SaveInviteOnce DEF UsersNext

\* Registrations that do not overlap never share an invite, nor become the
\* first user twice (CreateUserWithCode, user.go:79).
THEOREM OneEachUnlessOverlappedAlways == UsersSpec => []OneEachUnlessOverlapped
<1>1. OnceInv => OneEachUnlessOverlapped
  BY DEF OnceInv
<1> QED BY InitOnce, NextOnce, <1>1, PTL DEF UsersSpec
=============================================================================
