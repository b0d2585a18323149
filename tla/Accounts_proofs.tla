-------------------------- MODULE Accounts_proofs ---------------------------
(***************************************************************************)
(* Proofs about Accounts, for every number of names, requests, records and *)
(* secrets.                                                                *)
(***************************************************************************)
EXTENDS Accounts, DataLemmas

-----------------------------------------------------------------------------
(* The inductive invariant: what a request has read, at each of its steps.  *)
Op == {"none", "login", "oauth", "push", "bulk", "info", "email", "adminReset",
       "change", "forget", "reset"}

Signing == {"known", "found", "revoke", "make", "store", "check", "finish"}
Copying == {"read", "checked", "moved"}
Mailing == {"forget", "mail", "stamp", "validated", "clearing"}
Step    == {"idle", "missing", "created", "inserting", "inserted", "changed"}
             \cup Signing \cup Copying \cup Mailing

Edited == {<<>>, [refresh |-> None], [refresh |-> None, resetPassword |-> TRUE]}
            \cup [{"enable"} -> BOOLEAN] \cup [{"email"} -> Spare]

Job == [op : Op, pc : Step, name : Name, rec : {None} \cup ID, copy : User \cup {<<>>},
        edit : Edited, secret : {None} \cup Secret, role : BOOLEAN, again : BOOLEAN,
        created : BOOLEAN]

(* The record a request works on is there.  A login works on the first of   *)
(* its name or on the one it has created, unless records of the name became *)
(* visible against their order, and a copy is one of that record.           *)
JobInv(q) ==
  /\ q.rec \in {None} \cup DOMAIN users
  /\ q.pc \in Signing \cup Copying \cup Mailing => q.rec # None
  /\ q.pc \in Signing => \/ q.created \/ q.name \in overtaken
                         \/ Named(q.name) # {} /\ q.rec = First(Named(q.name))
  /\ q.pc = "inserting" => q.created /\ q.rec \in DOMAIN users /\ users[q.rec].name = q.name
  /\ q.pc \in {"inserted", "changed"} => Named(q.name) # {}
  /\ q.pc \in Copying => q.copy \in User /\ q.copy.name = users[q.rec].name
  /\ q.pc \in {"store", "mail"} => q.secret \in Secret
  /\ q.pc \in {"clearing", "validated"} => q.op = "reset"
  /\ q.op = "reset" => q.pc \in {"validated", "read", "clearing"}
  /\ q.pc \in {"checked", "moved"} => q.op = "email"
  /\ q.pc \in Copying /\ q.op = "email" => q.edit \in [{"email"} -> Spare]
  /\ q.pc = "changed" => q.op = "change"

Jobs == /\ Name # {}
        /\ req \in [Request -> Job]
        /\ \A r \in Request : JobInv(req[r])

Tables ==
  /\ users \in Seq(User) /\ Len(users) <= MaxUsers
  /\ hidden \subseteq DOMAIN users /\ overtaken \subseteq Name
  /\ gitea \in [Name -> Account]
  /\ links \subseteq [rec : DOMAIN users, nonce : Secret]
  /\ begun \in 0 .. MaxRequests /\ made \in 0 .. MaxSecrets
  /\ retired \subseteq Secret
  /\ undone \in [ID -> SUBSET SecretField]
  /\ latest \in [ID -> {None} \cup Secret]
  /\ \A i \in ID : latest[i] # None => i \in DOMAIN users

Control == Tables /\ Jobs /\ alone \in [Request -> BOOLEAN]

-----------------------------------------------------------------------------
(* The operators of the model.                                              *)

(* The first record of a name, when there is one.                           *)
LEMMA FirstFacts ==
  ASSUME users \in Seq(User), NEW n, Named(n) # {}
  PROVE  /\ First(Named(n)) \in Named(n) /\ First(Named(n)) \in DOMAIN users
         /\ \A i \in Named(n) : First(Named(n)) <= i
<1>1. Named(n) \in SUBSET Nat
  BY DEF Named, Visible
<1>2. First(Named(n)) \in Named(n) /\ \A i \in Named(n) : First(Named(n)) <= i
  BY <1>1, MinFacts DEF First
<1>. QED BY <1>2 DEF Named, Visible

(* No record is ever removed, given another name or hidden again; a new one *)
(* is hidden at first, and one that becomes visible after a later one of    *)
(* its name is noted.                                                       *)
NamesStay ==
  /\ DOMAIN users \subseteq DOMAIN users'
  /\ \A i \in DOMAIN users : users'[i].name = users[i].name
  /\ \A i \in DOMAIN users : i \in hidden' => i \in hidden
  /\ \A i \in DOMAIN users' \ DOMAIN users : i \in hidden'
  /\ \A i \in hidden : i \notin hidden' =>
       \A k \in Visible : k > i /\ users[k].name = users[i].name =>
         users[i].name \in overtaken'
  /\ overtaken \subseteq overtaken'

(* The first record of a name stays the first, unless that is noted.        *)
LEMMA FirstStays ==
  ASSUME users \in Seq(User), users' \in Seq(User), NamesStay,
         NEW n, Named(n) # {}
  PROVE  Named(n)' # {} /\ (n \in overtaken' \/ First(Named(n))' = First(Named(n)))
<1>. DEFINE a == First(Named(n))
            b == First(Named(n))'
<1>1. a \in Named(n) /\ a \in DOMAIN users /\ \A i \in Named(n) : a <= i
  BY FirstFacts
<1>2. Named(n) \subseteq Named(n)'
  BY DEF Named, Visible, NamesStay
<1>3. b \in Named(n)' /\ b \in DOMAIN users' /\ \A i \in Named(n)' : b <= i
  <2>1. Named(n)' # {} /\ Named(n)' \in SUBSET Nat
    BY <1>1, <1>2 DEF Named, Visible
  <2>2. b = Min(Named(n)')
    BY DEF First
  <2>3. b \in Named(n)' /\ \A i \in Named(n)' : b <= i
    BY <2>1, <2>2, MinFacts
  <2>. QED BY <2>3 DEF Named, Visible
<1>4. a \in Int /\ b \in Int /\ b <= a
  BY <1>1, <1>2, <1>3
<1>5. /\ b \in DOMAIN users /\ users[b].name = n /\ b \notin hidden'
      /\ a \in Visible /\ users[a].name = n
  BY <1>1, <1>3 DEF Named, Visible, NamesStay
<1>6. CASE b \in hidden
  <2>1. a > b
    BY <1>4, <1>5, <1>6 DEF Visible
  <2>2. n \in overtaken'
    BY <1>5, <1>6, <2>1 DEF NamesStay
  <2>. QED BY <1>1, <1>2, <2>2
<1>7. CASE b \notin hidden
  <2>1. b \in Named(n)
    BY <1>5, <1>7 DEF Named, Visible
  <2>. QED BY <1>1, <1>2, <1>4, <2>1
<1>. QED BY <1>6, <1>7

(* Fields that can be set without giving the record another name.           *)
Flags == {"enable", "isAdmin", "resetPassword", "recent"}

IsEdit(e) ==
  /\ DOMAIN e \subseteq Flags \cup SecretField \cup {"email"}
  /\ \A f \in DOMAIN e : /\ f \in Flags => e[f] \in BOOLEAN
                         /\ f \in SecretField => e[f] \in {None} \cup Secret
                         /\ f = "email" => e[f] \in Email

(* A record in which they are set is a record.                              *)
LEMMA OverFacts ==
  ASSUME NEW u \in User, NEW e, IsEdit(e)
  PROVE  /\ Over(e, u) \in User /\ Over(e, u).name = u.name
         /\ Over(e, u).isAdmin = IF "isAdmin" \in DOMAIN e THEN e.isAdmin ELSE u.isAdmin
         /\ \A f \in SecretField :
              Over(e, u)[f] = IF f \in DOMAIN e THEN e[f] ELSE u[f]
<1>1. DOMAIN u = {"name", "enable", "email", "token", "refresh", "nonce", "isAdmin",
                  "resetPassword", "recent"}
  BY DEF User
<1>2. \A f \in DOMAIN u : Over(e, u)[f] = IF f \in DOMAIN e THEN e[f] ELSE u[f]
  BY DEF Over
<1>3. DOMAIN Over(e, u) = DOMAIN u
  BY <1>1 DEF Over, IsEdit, Flags, SecretField
<1>4. "name" \notin DOMAIN e
  BY DEF IsEdit, Flags, SecretField
<1>5. /\ Over(e, u)["name"] = u.name
      /\ Over(e, u)["enable"] \in BOOLEAN
      /\ Over(e, u)["isAdmin"] \in BOOLEAN
      /\ Over(e, u)["resetPassword"] \in BOOLEAN
      /\ Over(e, u)["recent"] \in BOOLEAN
      /\ Over(e, u)["email"] \in Email
      /\ Over(e, u)["token"] \in {None} \cup Secret
      /\ Over(e, u)["refresh"] \in {None} \cup Secret
      /\ Over(e, u)["nonce"] \in {None} \cup Secret
  BY <1>1, <1>2, <1>4 DEF IsEdit, Flags, SecretField, User
<1>6. Over(e, u) = [f \in DOMAIN u |-> Over(e, u)[f]]
  BY <1>3 DEF Over
<1>7. Over(e, u) \in User
  <2>. DEFINE v == Over(e, u)
  <2>1. u.name \in Name
    BY DEF User
  <2>. HIDE DEF v
  <2>2. v = [f \in {"name", "enable", "email", "token", "refresh", "nonce", "isAdmin",
                    "resetPassword", "recent"} |-> v[f]]
    BY <1>1, <1>6 DEF v
  <2>3. /\ v["name"] \in Name /\ v["enable"] \in BOOLEAN /\ v["isAdmin"] \in BOOLEAN
        /\ v["resetPassword"] \in BOOLEAN /\ v["recent"] \in BOOLEAN /\ v["email"] \in Email
        /\ v["token"] \in {None} \cup Secret /\ v["refresh"] \in {None} \cup Secret
        /\ v["nonce"] \in {None} \cup Secret
    BY <1>5, <2>1 DEF v
  <2>4. v \in User
    BY <2>2, <2>3 DEF User
  <2>. QED BY <2>4 DEF v
<1>. QED BY <1>1, <1>2, <1>4, <1>7 DEF SecretField

(* A whole record over another one replaces it.                             *)
LEMMA OverRecord ==
  ASSUME NEW u \in User, NEW v \in User PROVE Over(v, u) = v
BY DEF Over, User

(* What an update does that keeps the name.                                 *)
LEMMA UpdateFacts ==
  ASSUME Tables, NEW i \in DOMAIN users, NEW edit, NEW new \in User,
         new = Over(edit, users[i]), new.name = users[i].name, Update(i, edit)
  PROVE  /\ users' \in Seq(User) /\ Len(users') = Len(users)
         /\ DOMAIN users' = DOMAIN users /\ NamesStay /\ UNCHANGED <<hidden, overtaken>>
         /\ users'[i] = new /\ \A k \in DOMAIN users \ {i} : users'[k] = users[k]
         /\ retired' \in SUBSET Secret
         /\ \A s : s \in retired' <=>
              \/ s \in retired
              \/ s # None /\ \E f \in SecretField : users[i][f] = s /\ new[f] # s
<1>1. users' = [users EXCEPT ![i] = new]
  BY DEF Update
<1>2. retired' = retired \cup
        ({users[i][f] : f \in {g \in SecretField : new[g] # users[i][g]}} \ {None})
  BY DEF Update
<1>3. users[i] \in User
  BY DEF Tables
<1>4. /\ users' \in Seq(User) /\ Len(users') = Len(users) /\ DOMAIN users' = DOMAIN users
      /\ users'[i] = new /\ \A k \in DOMAIN users \ {i} : users'[k] = users[k]
  BY <1>1 DEF Tables
<1>5. UNCHANGED <<hidden, overtaken>> /\ NamesStay
  BY <1>4 DEF Update, seen, NamesStay
<1>6. \A f \in SecretField : users[i][f] \in {None} \cup Secret
  BY <1>3 DEF User, SecretField
<1>7. \A s : s \in retired' <=>
         \/ s \in retired
         \/ s # None /\ \E f \in SecretField : users[i][f] = s /\ new[f] # s
  BY <1>2
<1>8. retired' \in SUBSET Secret
  BY <1>6, <1>7 DEF Tables
<1>. QED BY <1>4, <1>5, <1>7, <1>8

(* ... when it sets some fields only.                                       *)
LEMMA EditFacts ==
  ASSUME Tables, NEW i \in DOMAIN users, NEW edit, IsEdit(edit), Update(i, edit)
  PROVE  /\ users' \in Seq(User) /\ Len(users') = Len(users)
         /\ DOMAIN users' = DOMAIN users /\ NamesStay /\ UNCHANGED <<hidden, overtaken>>
         /\ \A k \in DOMAIN users \ {i} : users'[k] = users[k]
         /\ \A f \in SecretField :
              users'[i][f] = IF f \in DOMAIN edit THEN edit[f] ELSE users[i][f]
         /\ users'[i].isAdmin =
              IF "isAdmin" \in DOMAIN edit THEN edit.isAdmin ELSE users[i].isAdmin
         /\ retired' \in SUBSET Secret
         /\ \A s : s \in retired' <=>
              \/ s \in retired
              \/ s # None /\ \E f \in SecretField : users[i][f] = s /\ users'[i][f] # s
<1>1. PICK new : new = Over(edit, users[i])
  OBVIOUS
<1>2. users[i] \in User
  BY DEF Tables
<1>3. /\ new \in User /\ new.name = users[i].name
      /\ new.isAdmin = IF "isAdmin" \in DOMAIN edit THEN edit.isAdmin ELSE users[i].isAdmin
      /\ \A f \in SecretField : new[f] = IF f \in DOMAIN edit THEN edit[f] ELSE users[i][f]
  BY <1>1, <1>2, OverFacts
<1>. QED BY <1>1, <1>3, UpdateFacts

(* What an insertion does.                                                  *)
LEMMA InsertFacts ==
  ASSUME Tables, NEW r, NEW from, NEW user \in User, Insert(r, from, user)
  PROVE  /\ users' \in Seq(User) /\ Len(users') = Len(users) + 1 /\ Len(users') <= MaxUsers
         /\ DOMAIN users' = DOMAIN users \cup {Len(users) + 1} /\ NamesStay
         /\ users'[Len(users) + 1] = user
         /\ \A k \in DOMAIN users : users'[k] = users[k]
         /\ hidden' \subseteq DOMAIN users' /\ overtaken' = overtaken
         /\ retired' = retired /\ undone' = undone
<1>1. /\ users' = Append(users, user) /\ Len(users) < MaxUsers
      /\ hidden' = hidden \cup {Len(users) + 1} /\ overtaken' = overtaken
      /\ retired' = retired /\ undone' = undone
  BY DEF Insert
<1>2. /\ users' \in Seq(User) /\ Len(users') = Len(users) + 1
      /\ DOMAIN users' = DOMAIN users \cup {Len(users) + 1}
      /\ users'[Len(users) + 1] = user
      /\ \A k \in DOMAIN users : users'[k] = users[k]
  BY <1>1 DEF Tables
<1>3. Len(users) + 1 \notin DOMAIN users
  BY DEF Tables
<1>4. NamesStay
  BY <1>1, <1>2, <1>3 DEF NamesStay
<1>5. hidden' \subseteq DOMAIN users'
  BY <1>1, <1>2 DEF Tables
<1>. QED BY <1>1, <1>2, <1>4, <1>5, AccountsAssumption

(* A request that is over has nothing left.                                 *)
LEMMA IdleFacts ==
  ASSUME Name # {}
  PROVE  /\ Idle \in Job /\ Idle.pc = "idle" /\ Idle.op = "none" /\ Idle.rec = None
         /\ Idle.copy = <<>> /\ Idle.edit = <<>> /\ Idle.secret = None
         /\ Idle.again = FALSE /\ Idle.role = FALSE /\ Idle.created = FALSE
BY DEF Idle, Job, Op, Step, Edited

(* What remains of a request that goes on.                                  *)
Dropping == {"revoke", "check", "finish", "stamp", "clearing"}

Became(q, p, to) ==
  /\ to = "over" => p = Idle
  /\ to # "over" =>
       /\ p.pc = to /\ p.op = q.op /\ p.name = q.name /\ p.rec = q.rec
       /\ p.again = q.again /\ p.created = q.created
       /\ to \notin Dropping =>
            p.copy = q.copy /\ p.edit = q.edit /\ p.secret = q.secret /\ p.role = q.role
       /\ q.op = "login" => p.role = q.role

(* At does just that.                                                       *)
LEMMA AtFacts ==
  ASSUME Name # {}, NEW q \in Job, NEW to \in Step \cup {"over"}
  PROVE  At(q, to) \in Job /\ Became(q, At(q, to), to)
<1>1. CASE to = "over"
  BY <1>1, IdleFacts DEF At, Became
<1>2. CASE to \in Dropping
  <2>1. At(q, to) = [q EXCEPT !.pc = to, !.copy = <<>>, !.edit = <<>>, !.secret = None,
                              !.role = @ /\ q.op = "login"]
    BY <1>2 DEF At, Dropping
  <2>. QED BY <1>2, <2>1 DEF Job, Became, Edited, Dropping, Step, Signing, Mailing
<1>3. CASE to \notin Dropping /\ to # "over"
  <2>1. At(q, to) = [q EXCEPT !.pc = to]
    BY <1>3 DEF At, Dropping
  <2>. QED BY <1>3, <2>1 DEF Job, Became
<1>. QED BY <1>1, <1>2, <1>3

(* A request starts idle.                                                   *)
LEMMA GoesFacts ==
  ASSUME Jobs, NEW r \in Request, NEW from, NEW to \in Step \cup {"over"}, Goes(r, from, to)
  PROVE  /\ req[r].pc = from /\ begun' = begun
         /\ req' \in [Request -> Job] /\ \A s \in Request \ {r} : req'[s] = req[s]
         /\ Became(req[r], req'[r], to)
<1>1. req[r] \in Job /\ Name # {}
  BY DEF Jobs
<1>2. /\ req' = [req EXCEPT ![r] = At(req[r], to)] /\ req[r].pc = from /\ begun' = begun
  BY DEF Goes
<1>3. At(req[r], to) \in Job /\ Became(req[r], At(req[r], to), to)
  BY <1>1, AtFacts
<1>. QED BY <1>2, <1>3 DEF Jobs

(* What holds of a request keeps holding when other requests change the     *)
(* table.                                                                   *)
LEMMA JobStays ==
  ASSUME users \in Seq(User), users' \in Seq(User), NamesStay, NEW q \in Job, JobInv(q)
  PROVE  JobInv(q)'
<1>1. DOMAIN users \subseteq DOMAIN users' /\ \A i \in DOMAIN users : users'[i].name = users[i].name
  BY DEF NamesStay
<1>2. ASSUME Named(q.name) # {}
      PROVE  /\ Named(q.name)' # {}
             /\ q.name \in overtaken' \/ First(Named(q.name))' = First(Named(q.name))
  BY <1>2, FirstStays
<1>3. /\ q.rec \in {None} \cup DOMAIN users'
      /\ q.pc \in Copying => q.copy \in User /\ q.copy.name = users'[q.rec].name
  BY <1>1 DEF JobInv
<1>4. /\ q.pc \in Signing => \/ q.created \/ q.name \in overtaken'
                             \/ Named(q.name)' # {} /\ q.rec = First(Named(q.name))'
      /\ q.pc \in {"inserted", "changed"} => Named(q.name)' # {}
  BY <1>2 DEF JobInv, NamesStay
<1>5. q.pc = "inserting" =>
        q.created /\ q.rec \in DOMAIN users' /\ users'[q.rec].name = q.name
  BY <1>1 DEF JobInv
<1>. QED BY <1>3, <1>4, <1>5 DEF JobInv

(* ... and so for all requests but the one that takes a step.               *)
LEMMA JobsStay ==
  ASSUME Control, users' \in Seq(User), NamesStay, req' \in [Request -> Job],
         \A s \in Request : req'[s] = req[s] \/ JobInv(req[s])'
  PROVE  Jobs'
<1>1. ASSUME NEW s \in Request, req'[s] = req[s] PROVE JobInv(req[s])'
  <2>1. PICK q \in Job : q = req[s] /\ q = req'[s]
    BY <1>1 DEF Control, Jobs
  <2>2. JobInv(q)
    BY <2>1 DEF Control, Jobs
  <2>3. JobInv(q)'
    BY <2>2, JobStays DEF Control, Tables
  <2>. QED BY <2>1, <2>3 DEF JobInv
<1>. QED BY <1>1 DEF Control, Jobs

(* A request that goes on keeps what holds of it, too.                      *)
LEMMA BecameKeeps ==
  ASSUME Control, users' \in Seq(User), NamesStay, NEW r \in Request,
         NEW to \in Step \cup {"over"}, Became(req[r], req'[r], to),
         to \notin {"inserting", "inserted", "changed", "store", "mail", "validated"},
         to \in Signing => req[r].pc \in Signing,
         to \in Copying => req[r].pc \in Copying,
         to \in Mailing => req[r].rec # None,
         to \in {"checked", "moved"} => req[r].op = "email",
         to = "clearing" => req[r].op = "reset",
         req[r].op = "reset" => to \in {"clearing", "over"}
  PROVE  JobInv(req[r])'
<1>1. Name # {} /\ req[r] \in Job /\ JobInv(req[r])
  BY DEF Control, Jobs
<1>2. CASE to = "over"
  <2>1. req'[r] = Idle
    BY <1>2 DEF Became
  <2>2. Idle.pc = "idle" /\ Idle.rec = None /\ Idle.op = "none"
    BY <1>1, IdleFacts
  <2>. QED BY <2>1, <2>2 DEF JobInv, Signing, Copying, Mailing
<1>3. CASE to # "over"
  <2>1. PICK q \in Job : q = req[r]
    BY <1>1
  <2>2. JobInv(q)
    BY <1>1, <2>1
  <2>3. JobInv(q)'
    BY <2>2, JobStays DEF Control, Tables
  <2>4. /\ req'[r].pc = to /\ req'[r].op = q.op /\ req'[r].name = q.name
        /\ req'[r].rec = q.rec /\ req'[r].created = q.created
        /\ to \in Copying => req'[r].copy = q.copy /\ req'[r].edit = q.edit
    BY <1>3, <2>1 DEF Became, Copying, Dropping
  <2>5. /\ to \in Signing => q.pc \in Signing
        /\ to \in Copying => q.pc \in Copying
        /\ to \in Mailing => q.rec # None
        /\ to \in {"checked", "moved"} => q.op = "email"
        /\ to = "clearing" => q.op = "reset"
        /\ q.op = "reset" => to = "clearing"
    BY <1>3, <2>1
  <2>6. /\ q.rec \in {None} \cup DOMAIN users'
        /\ q.pc \in Signing \cup Copying => q.rec # None
        /\ q.pc \in Signing => \/ q.created \/ q.name \in overtaken'
                               \/ Named(q.name)' # {} /\ q.rec = First(Named(q.name))'
        /\ q.pc \in Copying => q.copy \in User /\ q.copy.name = users'[q.rec].name
        /\ q.pc \in Copying /\ q.op = "email" => q.edit \in [{"email"} -> Spare]
    BY <2>3 DEF JobInv
  <2>. QED BY <2>4, <2>5, <2>6 DEF JobInv
<1>. QED BY <1>2, <1>3

-----------------------------------------------------------------------------
(* What a step does to the secrets: where the ones come from that it makes  *)
(* current or lets a request hold.  At most one is new, for field g of      *)
(* record i.                                                                *)
From(i, f, g, v) ==
  \/ v = None
  \/ /\ f = g /\ v = made + 1 /\ made' = made + 1
     /\ \A s \in Request : req'[s].pc = "store" => req'[s] = req[s]
  \/ \E s \in Request : /\ f = "token" /\ req[s].pc = "store" /\ req[s].rec = i
                        /\ v = req[s].secret /\ req'[s].pc # "store"
  \/ \E s \in Request : /\ req[s].pc \in Copying /\ req[s].rec = i
                        /\ v = req[s].copy[f] /\ f \in undone'[i]

Keeps(s) == req'[s].op = "reset" => req[s].op = "reset" /\ req'[s].rec = req[s].rec

Turns(s, i, g) ==
  /\ \A t \in Request \ {s} : req'[t] = req[t]
  /\ req'[s].pc \in Copying =>
       \/ req'[s].rec \in DOMAIN users /\ req'[s].copy = users[req'[s].rec]
       \/ req[s].pc \in Copying /\ req'[s].rec = req[s].rec /\ req'[s].copy = req[s].copy
  /\ req'[s].pc = "store" => /\ req'[s].rec = i /\ g = "token"
                             /\ req'[s].secret = made + 1 /\ made' = made + 1
  /\ Keeps(s) \/ latest'[req'[s].rec] = None

Retires ==
  \A s : s \in retired' <=>
    \/ s \in retired
    \/ s # None /\ \E k \in DOMAIN users, f \in SecretField :
                     users[k][f] = s /\ users'[k][f] # s

Moves(i, g) ==
  /\ made' \in {made, made + 1}
  /\ \A k \in ID : undone[k] \subseteq undone'[k]
  /\ \A k \in DOMAIN users' \ DOMAIN users : \A f \in SecretField : users'[k][f] = None
  /\ \A k \in DOMAIN users, f \in SecretField :
       users'[k][f] # users[k][f] => k = i /\ From(i, f, g, users'[i][f])
  /\ \A s \in Request : req'[s] = req[s] \/ req'[s] = Idle \/ Turns(s, i, g)

(* And to the nonces.                                                       *)
Nonces ==
  /\ \A k \in DOMAIN users : users'[k].nonce # users[k].nonce =>
       \/ "nonce" \in undone'[k] \/ users'[k].nonce = latest'[k] \/ latest'[k] = None
       \/ Resetting(k) /\ latest'[k] = latest[k]
  /\ \A k \in ID : latest'[k] # latest[k] =>
       \/ latest'[k] = None
       \/ /\ k \in DOMAIN users /\ users'[k].nonce = latest'[k] /\ ~Resetting(k)
          /\ \A s \in Request : Keeps(s)

Effect ==
  /\ Tables' /\ Jobs' /\ NamesStay /\ Retires /\ Nonces
  /\ \E i \in ID, g \in SecretField : Moves(i, g)

(* A step of a request that leaves the records alone and makes no secret.   *)
LEMMA SeenStep ==
  ASSUME Control, NEW r \in Request, UNCHANGED <<users, retired, undone, made, latest>>,
         hidden' \subseteq DOMAIN users, overtaken' \subseteq Name, NamesStay,
         gitea' \in [Name -> Account], links' \subseteq [rec : DOMAIN users, nonce : Secret],
         begun' \in 0 .. MaxRequests,
         req' \in [Request -> Job], \A s \in Request \ {r} : req'[s] = req[s],
         JobInv(req[r])', Keeps(r), req'[r].pc # "store",
         req'[r].pc \in Copying =>
           \/ req'[r].rec \in DOMAIN users /\ req'[r].copy = users[req'[r].rec]
           \/ req[r].pc \in Copying /\ req'[r].rec = req[r].rec /\ req'[r].copy = req[r].copy
  PROVE  Effect
<1>1. Tables'
  BY DEF Control, Tables
<1>2. Jobs'
  BY JobsStay DEF Control, Tables
<1>3. Retires /\ Nonces
  BY DEF Retires, Nonces
<1>4. Moves(1, "token")
  BY DEF Moves, Turns, Keeps
<1>5. 1 \in ID
  BY AccountsAssumption DEF ID
<1>. QED BY <1>1, <1>2, <1>3, <1>4, <1>5 DEF Effect, SecretField

(* ... and changes nothing of what can be seen.                             *)
LEMMA QuietStep ==
  ASSUME Control, NEW r \in Request, UNCHANGED <<table, made, latest>>,
         gitea' \in [Name -> Account], links' \subseteq [rec : DOMAIN users, nonce : Secret],
         begun' \in 0 .. MaxRequests,
         req' \in [Request -> Job], \A s \in Request \ {r} : req'[s] = req[s],
         JobInv(req[r])', Keeps(r), req'[r].pc # "store",
         req'[r].pc \in Copying =>
           \/ req'[r].rec \in DOMAIN users /\ req'[r].copy = users[req'[r].rec]
           \/ req[r].pc \in Copying /\ req'[r].rec = req[r].rec /\ req'[r].copy = req[r].copy
  PROVE  Effect
<1>1. UNCHANGED <<users, hidden, overtaken, retired, undone, made, latest>>
  BY DEF table, seen
<1>2. NamesStay
  BY <1>1 DEF NamesStay
<1>3. hidden' \subseteq DOMAIN users /\ overtaken' \subseteq Name
  BY <1>1 DEF Control, Tables
<1>. QED BY <1>1, <1>2, <1>3, SeenStep

(* A step that sets fields of one record.                                   *)
LEMMA EditStep ==
  ASSUME Control, NEW i \in DOMAIN users, NEW edit, IsEdit(edit), Update(i, edit),
         undone' = undone, NEW g \in SecretField,
         \A f \in SecretField \cap DOMAIN edit : From(i, f, g, edit[f]),
         UNCHANGED <<gitea, links>>, begun' = begun,
         made' \in {made, made + 1}, made' <= MaxSecrets,
         latest' \in [ID -> {None} \cup Secret],
         \A k \in ID : latest'[k] # None => k \in DOMAIN users,
         req' \in [Request -> Job],
         \A s \in Request :
           \/ req'[s] = req[s]
           \/ /\ JobInv(req[s])' /\ Keeps(s) /\ req'[s].pc \notin Copying \cup {"store"}
              /\ \A t \in Request \ {s} : req'[t] = req[t],
         Nonces
  PROVE  Effect
<1>1. Tables /\ Jobs
  BY DEF Control
<1>2. /\ users' \in Seq(User) /\ Len(users') = Len(users)
      /\ DOMAIN users' = DOMAIN users /\ NamesStay /\ UNCHANGED <<hidden, overtaken>>
      /\ \A k \in DOMAIN users \ {i} : users'[k] = users[k]
      /\ \A f \in SecretField :
           users'[i][f] = IF f \in DOMAIN edit THEN edit[f] ELSE users[i][f]
      /\ retired' \in SUBSET Secret
      /\ \A s : s \in retired' <=>
           \/ s \in retired
           \/ s # None /\ \E f \in SecretField : users[i][f] = s /\ users'[i][f] # s
  BY <1>1, EditFacts
<1>3. Tables'
  <2>1. made \in Int /\ made >= 0 /\ MaxSecrets \in Int
    BY <1>1, AccountsAssumption DEF Tables
  <2>2. made' \in 0 .. MaxSecrets
    BY <2>1
  <2>. QED BY <1>1, <1>2, <2>2 DEF Tables
<1>4. Jobs'
  BY <1>2, JobsStay
<1>5. Retires
  BY <1>2 DEF Retires
<1>6. i \in ID
  BY <1>1, AccountsAssumption DEF Tables, ID
<1>7. Moves(i, g)
  <2>1. \A k \in DOMAIN users, f \in SecretField :
          users'[k][f] # users[k][f] => k = i /\ From(i, f, g, users'[i][f])
    BY <1>2
  <2>2. \A s \in Request : req'[s] = req[s] \/ req'[s] = Idle \/ Turns(s, i, g)
    BY DEF Turns
  <2>. QED BY <1>2, <2>1, <2>2 DEF Moves
<1>. QED BY <1>2, <1>3, <1>4, <1>5, <1>6, <1>7 DEF Effect

(* A step that inserts a record.                                            *)
LEMMA InsertStep ==
  ASSUME Control, NEW r \in Request, NEW from \in {"missing", "created"}, NEW user \in User,
         user.name = req[r].name, \A f \in SecretField : user[f] = None,
         Insert(r, from, user), UNCHANGED <<gitea, links, made, latest>>
  PROVE  Effect
<1>. DEFINE q == req[r]
            p == [[[[q EXCEPT !.pc = "inserting"] EXCEPT !.rec = Len(users) + 1]
                     EXCEPT !.copy = user] EXCEPT !.created = TRUE]
<1>1. Tables /\ Jobs /\ q \in Job /\ JobInv(q) /\ users \in Seq(User)
  BY DEF Control, Jobs, Tables
<1>2. /\ users' \in Seq(User) /\ Len(users') = Len(users) + 1 /\ Len(users') <= MaxUsers
      /\ DOMAIN users' = DOMAIN users \cup {Len(users) + 1} /\ NamesStay
      /\ users'[Len(users) + 1] = user
      /\ \A k \in DOMAIN users : users'[k] = users[k]
      /\ hidden' \subseteq DOMAIN users' /\ overtaken' = overtaken
      /\ retired' = retired /\ undone' = undone
  BY <1>1, InsertFacts
<1>3. Len(users) + 1 \in ID
  BY <1>1, <1>2, AccountsAssumption DEF ID
<1>4. /\ q.pc = from /\ begun' = begun
      /\ req' = [req EXCEPT ![r].pc = "inserting", ![r].rec = Len(users) + 1,
                            ![r].copy = user, ![r].created = TRUE]
  BY DEF Insert
<1>5. /\ req' = [req EXCEPT ![r] = p] /\ p \in Job /\ p.pc = "inserting"
      /\ p.rec = Len(users) + 1 /\ p.created = TRUE /\ p.op = q.op /\ p.name = q.name
  BY <1>1, <1>3, <1>4 DEF Job, Step
<1>. HIDE DEF p
<1>6. req' \in [Request -> Job] /\ (\A s \in Request \ {r} : req'[s] = req[s]) /\ req'[r] = p
  BY <1>1, <1>5 DEF Jobs
<1>7. p.op # "reset"
  BY <1>1, <1>4, <1>5 DEF JobInv
<1>8. JobInv(req[r])' /\ Keeps(r)
  BY <1>2, <1>5, <1>6, <1>7 DEF JobInv, Copying, Signing, Mailing, Keeps
<1>9. Tables'
  BY <1>1, <1>2, <1>4 DEF Tables
<1>10. Jobs'
  BY <1>2, <1>6, <1>8, JobsStay
<1>11. Retires /\ Nonces
  BY <1>2 DEF Retires, Nonces
<1>12. Moves(1, "token")
  BY <1>2, <1>5, <1>6, <1>8 DEF Moves, Turns, Copying
<1>13. 1 \in ID
  BY AccountsAssumption DEF ID
<1>. QED BY <1>2, <1>9, <1>10, <1>11, <1>12, <1>13 DEF Effect, SecretField

-----------------------------------------------------------------------------
(* Step by step.                                                            *)

(* What a request starts with.                                              *)
IsStart(new) ==
  /\ DOMAIN new \subseteq {"pc", "name", "rec", "copy", "edit", "role"}
  /\ "pc" \in DOMAIN new /\ new.pc \in Step
  /\ "name" \in DOMAIN new => new.name \in Name
  /\ "rec" \in DOMAIN new => new.rec \in {None} \cup ID
  /\ "copy" \in DOMAIN new => new.copy \in User
  /\ "edit" \in DOMAIN new => new.edit \in Edited
  /\ "role" \in DOMAIN new => new.role \in BOOLEAN

Started(q, p, op, new) ==
  /\ q.pc = "idle" /\ p.op = op /\ p.pc = new.pc /\ p.secret = None /\ p.created = FALSE
  /\ "name" \in DOMAIN new => p.name = new.name
  /\ p.rec = IF "rec" \in DOMAIN new THEN new.rec ELSE None
  /\ "copy" \in DOMAIN new => p.copy = new.copy
  /\ "edit" \in DOMAIN new => p.edit = new.edit

(* It has just that.                                                        *)
LEMMA StartsFacts ==
  ASSUME Control, NEW r \in Request, NEW op \in Op, NEW new, IsStart(new), Starts(r, op, new)
  PROVE  /\ begun' \in 0 .. MaxRequests
         /\ req' \in [Request -> Job] /\ \A s \in Request \ {r} : req'[s] = req[s]
         /\ Started(req[r], req'[r], op, new)
<1>. DEFINE F == {"op", "pc", "name", "rec", "copy", "edit", "secret", "role", "again", "created"}
            base == [Idle EXCEPT !.op = op]
            p == Over(new, base)
<1>1. /\ req[r].pc = "idle" /\ begun' = begun + 1 /\ begun < MaxRequests
      /\ req' = [req EXCEPT ![r] = p]
  BY DEF Starts
<1>2. Idle \in Job /\ Idle.rec = None /\ Idle.secret = None /\ Idle.created = FALSE
  BY IdleFacts DEF Control, Jobs
<1>3. base \in Job /\ DOMAIN base = F /\ base.op = op /\ base.rec = None /\ base.secret = None
      /\ base.created = FALSE
  BY <1>2 DEF Job
<1>. HIDE DEF base
<1>4. /\ DOMAIN p = F
      /\ \A f \in F : p[f] = IF f \in DOMAIN new THEN new[f] ELSE base[f]
  BY <1>3 DEF Over, IsStart
<1>5. p = [f \in F |-> p[f]]
  BY <1>4 DEF Over
<1>6. /\ p["op"] = op /\ p["pc"] = new.pc /\ p["secret"] = None /\ p["created"] = FALSE
      /\ p["again"] = base.again
      /\ "name" \in DOMAIN new => p["name"] = new.name
      /\ "name" \notin DOMAIN new => p["name"] = base.name
      /\ p["rec"] = IF "rec" \in DOMAIN new THEN new.rec ELSE None
      /\ p["copy"] = IF "copy" \in DOMAIN new THEN new.copy ELSE base.copy
      /\ p["edit"] = IF "edit" \in DOMAIN new THEN new.edit ELSE base.edit
      /\ p["role"] = IF "role" \in DOMAIN new THEN new.role ELSE base.role
  BY <1>3, <1>4 DEF IsStart
<1>. HIDE DEF p
<1>7. p["name"] \in Name
  BY <1>3, <1>6 DEF Job, IsStart
<1>8. /\ p["rec"] \in {None} \cup ID /\ p["copy"] \in User \cup {<<>>} /\ p["edit"] \in Edited
      /\ p["role"] \in BOOLEAN /\ p["again"] \in BOOLEAN /\ p["pc"] \in Step
  BY <1>3, <1>6 DEF Job, IsStart
<1>9. p \in Job
  BY <1>5, <1>6, <1>7, <1>8 DEF Job
<1>10. begun' \in 0 .. MaxRequests
  BY <1>1, AccountsAssumption DEF Control, Tables
<1>11. req' \in [Request -> Job] /\ (\A s \in Request \ {r} : req'[s] = req[s]) /\ req'[r] = p
  BY <1>1, <1>9 DEF Control, Jobs
<1>12. Started(req[r], p, op, new)
  BY <1>1, <1>6 DEF Started
<1>. QED BY <1>10, <1>11, <1>12

(* What it has read when it starts.                                         *)
HasRead(op, new) ==
  /\ op # "reset" /\ new.pc \in {"missing", "found", "created", "read", "changed", "forget"}
  /\ new.pc \in {"found", "read", "forget"} => "rec" \in DOMAIN new /\ new.rec \in DOMAIN users
  /\ new.pc \notin {"found", "read", "forget"} => "rec" \notin DOMAIN new
  /\ new.pc = "found" => /\ "name" \in DOMAIN new
                         /\ Named(new.name) # {} /\ new.rec = First(Named(new.name))
  /\ new.pc = "changed" => op = "change" /\ "name" \in DOMAIN new /\ Named(new.name) # {}
  /\ new.pc = "read" => "copy" \in DOMAIN new /\ new.copy = users[new.rec]
  /\ op = "email" => "edit" \in DOMAIN new /\ new.edit \in [{"email"} -> Spare]

(* A request that starts.                                                   *)
LEMMA StartStep ==
  ASSUME Control, NEW r \in Request, NEW op \in Op, NEW new, IsStart(new), Starts(r, op, new),
         UNCHANGED <<table, links, made, latest>>, gitea' \in [Name -> Account],
         HasRead(op, new)
  PROVE  Effect
<1>1. /\ begun' \in 0 .. MaxRequests
      /\ req' \in [Request -> Job] /\ \A s \in Request \ {r} : req'[s] = req[s]
      /\ Started(req[r], req'[r], op, new)
  BY StartsFacts
<1>2. users' = users
  BY DEF table
<1>3. /\ DOMAIN users \subseteq Nat \ {0} /\ \A k \in DOMAIN users : users[k] \in User
      /\ links \subseteq [rec : DOMAIN users, nonce : Secret]
  BY DEF Control, Tables
<1>4. JobInv(req[r])'
  <2>1. users' = users /\ req'[r].pc # "idle" /\ req'[r].op # "reset"
    BY <1>1, <1>2 DEF HasRead, Started
  <2>2. CASE new.pc \in {"missing", "created"}
    BY <1>1, <2>1, <2>2 DEF JobInv, Started, Signing, Copying, Mailing, HasRead
  <2>3. CASE new.pc = "found"
    <3>1. /\ new.rec \in DOMAIN users /\ new.rec # None
          /\ Named(new.name)' # {} /\ new.rec = First(Named(new.name))'
      BY <1>3, <2>1, <2>3 DEF HasRead, Named, Visible, table, seen, None
    <3>2. req'[r].name = new.name /\ req'[r].rec = new.rec /\ req'[r].pc = "found"
      BY <1>1, <2>3 DEF Started, HasRead
    <3>. QED BY <2>1, <3>1, <3>2 DEF JobInv, Signing, Copying, Mailing
  <2>4. CASE new.pc = "read"
    BY <1>1, <1>3, <2>1, <2>4 DEF JobInv, Started, Signing, Copying, Mailing, HasRead, None
  <2>5. CASE new.pc = "changed"
    BY <1>1, <2>1, <2>5 DEF JobInv, Started, Signing, Copying, Mailing, HasRead, Named,
                                  Visible, table, seen
  <2>6. CASE new.pc = "forget"
    BY <1>1, <1>3, <2>1, <2>6 DEF JobInv, Started, Signing, Copying, Mailing, HasRead, None
  <2>. QED BY <2>2, <2>3, <2>4, <2>5, <2>6 DEF HasRead
<1>5. req'[r].pc # "store" /\ Keeps(r)
  BY <1>1 DEF Keeps, HasRead, Started
<1>6. req'[r].pc \in Copying => req'[r].rec \in DOMAIN users /\ req'[r].copy = users[req'[r].rec]
  BY <1>1 DEF Copying, HasRead, Started
<1>. QED BY <1>1, <1>3, <1>4, <1>5, <1>6, QuietStep

(* What holds of a request when it goes on.                                 *)
LEMMA GoesKeeps ==
  ASSUME Control, users' \in Seq(User), NamesStay, NEW r \in Request, NEW from,
         NEW to \in Step \cup {"over"}, Goes(r, from, to),
         to \notin {"inserting", "inserted", "changed", "store", "mail", "validated"},
         to \in Signing => from \in Signing,
         to \in Copying => from \in Copying,
         to \in Mailing => from \in Signing \cup Copying \cup Mailing,
         to \in {"checked", "moved"} => req[r].op = "email",
         to = "clearing" => req[r].op = "reset",
         to \in {"over", "clearing", "checked"} \/ from \notin {"read", "validated", "clearing"}
  PROVE  /\ req[r].pc = from /\ begun' = begun
         /\ req' \in [Request -> Job] /\ \A s \in Request \ {r} : req'[s] = req[s]
         /\ JobInv(req[r])' /\ Keeps(r) /\ req'[r].pc # "store"
         /\ to \notin Copying => req'[r].pc \notin Copying
         /\ req'[r].pc \in Copying =>
              req[r].pc \in Copying /\ req'[r].rec = req[r].rec /\ req'[r].copy = req[r].copy
<1>1. /\ req[r].pc = from /\ begun' = begun
      /\ req' \in [Request -> Job] /\ \A s \in Request \ {r} : req'[s] = req[s]
      /\ Became(req[r], req'[r], to)
  BY GoesFacts DEF Control
<1>2. JobInv(req[r]) /\ Name # {}
  BY DEF Control, Jobs
<1>3. /\ to \in Mailing => req[r].rec # None
      /\ req[r].op = "reset" => to \in {"clearing", "over"}
  BY <1>1, <1>2 DEF JobInv
<1>4. JobInv(req[r])'
  BY <1>1, <1>3, BecameKeeps
<1>5. CASE to = "over"
  <2>1. req'[r].op = "none" /\ req'[r].pc = "idle"
    BY <1>1, <1>2, <1>5, IdleFacts DEF Became
  <2>. QED BY <1>1, <1>4, <2>1 DEF Keeps, Copying
<1>6. CASE to # "over"
  BY <1>1, <1>4, <1>6 DEF Became, Keeps, Copying, Dropping
<1>. QED BY <1>5, <1>6

(* A request that goes on and leaves the table alone.                       *)
LEMMA GoesStep ==
  ASSUME Control, NEW r \in Request, NEW from, NEW to \in Step \cup {"over"}, Goes(r, from, to),
         UNCHANGED <<table, made, latest>>,
         gitea' \in [Name -> Account], links' \subseteq [rec : DOMAIN users, nonce : Secret],
         to \notin {"inserting", "inserted", "changed", "store", "mail", "validated"},
         to \in Signing => from \in Signing,
         to \in Copying => from \in Copying,
         to \in Mailing => from \in Signing \cup Copying \cup Mailing,
         to \in {"checked", "moved"} => req[r].op = "email",
         to = "clearing" => req[r].op = "reset",
         to \in {"over", "clearing", "checked"} \/ from \notin {"read", "validated", "clearing"}
  PROVE  Effect
<1>1. users' = users /\ users' \in Seq(User) /\ NamesStay
  BY DEF table, seen, Control, Tables, NamesStay
<1>2. /\ begun' = begun
      /\ req' \in [Request -> Job] /\ \A s \in Request \ {r} : req'[s] = req[s]
      /\ JobInv(req[r])' /\ Keeps(r) /\ req'[r].pc # "store"
      /\ req'[r].pc \in Copying =>
           req[r].pc \in Copying /\ req'[r].rec = req[r].rec /\ req'[r].copy = req[r].copy
  BY <1>1, GoesKeeps
<1>3. begun' \in 0 .. MaxRequests
  BY <1>2 DEF Control, Tables
<1>. QED BY <1>2, <1>3, QuietStep

(* What holds of a request that is given a new secret.                      *)
LEMMA MakeFacts ==
  ASSUME Control, NEW r \in Request, NEW from, NEW to \in Step \cup {"over"},
         MakeSecret(from, r, to)
  PROVE  /\ req[r].pc = from /\ begun' = begun
         /\ made' = made + 1 /\ made' \in Secret /\ made' <= MaxSecrets
         /\ req' \in [Request -> Job] /\ \A s \in Request \ {r} : req'[s] = req[s]
         /\ to = "over" => req'[r] = Idle
         /\ to \in Step \ Dropping =>
              /\ req'[r].pc = to /\ req'[r].op = req[r].op /\ req'[r].name = req[r].name
              /\ req'[r].rec = req[r].rec /\ req'[r].created = req[r].created
              /\ req'[r].secret = made + 1
<1>. DEFINE q == [req[r] EXCEPT !.secret = made + 1]
<1>1. /\ req[r].pc = from /\ made < MaxSecrets /\ made' = made + 1 /\ begun' = begun
      /\ req' = [req EXCEPT ![r] = At(q, to)]
  BY DEF MakeSecret
<1>2. made' \in Secret /\ made' <= MaxSecrets
  BY <1>1, AccountsAssumption DEF Control, Tables, Secret
<1>3. req[r] \in Job /\ Name # {} /\ req \in [Request -> Job]
  BY DEF Control, Jobs
<1>4. /\ q \in Job /\ q.pc = req[r].pc /\ q.op = req[r].op /\ q.name = req[r].name
      /\ q.rec = req[r].rec /\ q.created = req[r].created /\ q.secret = made + 1
  BY <1>1, <1>2, <1>3 DEF Job
<1>. HIDE DEF q
<1>5. At(q, to) \in Job /\ Became(q, At(q, to), to)
  BY <1>3, <1>4, AtFacts
<1>6. req' \in [Request -> Job] /\ (\A s \in Request \ {r} : req'[s] = req[s])
      /\ req'[r] = At(q, to)
  BY <1>1, <1>3, <1>5
<1>7. "over" \notin Step
  BY DEF Step, Signing, Copying, Mailing
<1>. QED BY <1>1, <1>2, <1>4, <1>5, <1>6, <1>7 DEF Became

(* Gitea's accounts.                                                        *)
LEMMA GiteaFacts ==
  ASSUME gitea \in [Name -> Account], NEW n \in Name, NEW t \in {None} \cup Secret,
         NEW m \in Email, NEW x \in BOOLEAN
  PROVE  /\ [gitea EXCEPT ![n].token = t] \in [Name -> Account]
         /\ [gitea EXCEPT ![n].email = m] \in [Name -> Account]
         /\ [gitea EXCEPT ![n].isAdmin = x] \in [Name -> Account]
         /\ [gitea EXCEPT ![n].exists = x] \in [Name -> Account]
BY DEF Account

(* The role that is written with other fields.                              *)
LEMMA RoleFacts ==
  ASSUME NEW r, NEW e, IsEdit(e), "isAdmin" \notin DOMAIN e
  PROVE  /\ IsEdit(Over(Role(r), e))
         /\ \A f \in SecretField : f \in DOMAIN Over(Role(r), e) <=> f \in DOMAIN e
         /\ \A f \in SecretField \cap DOMAIN e : Over(Role(r), e)[f] = e[f]
         /\ "isAdmin" \in DOMAIN Over(Role(r), e) <=> req[r].role
         /\ req[r].role => Over(Role(r), e).isAdmin = TRUE
<1>1. CASE req[r].role
  <2>. DEFINE x == Over(Role(r), e)
  <2>1. DOMAIN Role(r) = {"isAdmin"} /\ Role(r)["isAdmin"] = TRUE
    BY <1>1 DEF Role
  <2>2. /\ DOMAIN x = DOMAIN e \cup {"isAdmin"} /\ x["isAdmin"] = TRUE
        /\ \A f \in DOMAIN e : x[f] = e[f]
    BY <2>1 DEF Over
  <2>. HIDE DEF x
  <2>3. IsEdit(x)
    BY <2>2 DEF IsEdit, Flags, SecretField
  <2>4. \A f \in SecretField : f \in DOMAIN x <=> f \in DOMAIN e
    BY <2>2 DEF SecretField
  <2>5. "isAdmin" \in DOMAIN x /\ x.isAdmin = TRUE
    BY <2>2
  <2>. QED BY <1>1, <2>2, <2>3, <2>4, <2>5 DEF x
<1>2. CASE ~req[r].role
  <2>1. Role(r) = <<>> /\ DOMAIN Role(r) = {}
    BY <1>2 DEF Role
  <2>. QED BY <1>2, <2>1 DEF IsEdit, Over, Flags, SecretField
<1>. QED BY <1>1, <1>2

(* The steps of a login, an OAuth login or a push.                          *)
LEMMA LoginEffect ==
  ASSUME Control, NEW r \in Request, Login(r) PROVE Effect
<1>1. /\ req[r] \in Job /\ JobInv(req[r]) /\ Name # {}
      /\ users \in Seq(User) /\ gitea \in [Name -> Account] /\ made \in 0 .. MaxSecrets
      /\ links \subseteq [rec : DOMAIN users, nonce : Secret]
  BY DEF Control, Jobs, Tables
<1>2. CASE Looks(r)
  <2>1. PICK n \in Name, op \in {"login", "oauth", "push"} :
          /\ gitea[n].exists
          /\ IF Named(n) = {}
             THEN Starts(r, op, [pc |-> "missing", name |-> n, role |-> gitea[n].isAdmin])
             ELSE Starts(r, op, [pc |-> "found", name |-> n, rec |-> First(Named(n)),
                                 copy |-> users[First(Named(n))],
                                 role |-> gitea[n].isAdmin])
          /\ UNCHANGED <<table, gitea, links, made, latest>>
    BY <1>2 DEF Looks
  <2>2. op \in Op /\ op # "reset" /\ gitea[n].isAdmin \in BOOLEAN /\ gitea' \in [Name -> Account]
    BY <1>1, <2>1 DEF Op, Account
  <2>3. CASE Named(n) = {}
    <3>. DEFINE new == [pc |-> "missing", name |-> n, role |-> gitea[n].isAdmin]
    <3>1. IsStart(new) /\ HasRead(op, new)
      BY <2>2 DEF IsStart, Step, HasRead
    <3>2. Starts(r, op, new)
      BY <2>1, <2>3
    <3>. HIDE DEF new
    <3>. QED BY <2>1, <2>2, <3>1, <3>2, StartStep
  <2>4. CASE Named(n) # {}
    <3>. DEFINE i == First(Named(n))
                new == [pc |-> "found", name |-> n, rec |-> i, copy |-> users[i],
                        role |-> gitea[n].isAdmin]
    <3>1. i \in DOMAIN users
      BY <1>1, <2>4, FirstFacts
    <3>2. i \in ID /\ users[i] \in User
      BY <1>1, <3>1, AccountsAssumption DEF ID, Control, Tables
    <3>3. IsStart(new) /\ HasRead(op, new)
      BY <2>2, <2>4, <3>1, <3>2 DEF IsStart, Step, Signing, HasRead
    <3>4. Starts(r, op, new)
      BY <2>1, <2>4
    <3>. HIDE DEF new
    <3>. QED BY <2>1, <2>2, <2>4, <3>1, <3>3, <3>4, StartStep
  <2>. QED BY <2>3, <2>4
<1>3. CASE Creates(r)
  <2>. DEFINE q == req[r]
              new == NewUser(q.name, gitea[q.name].email, q.op = "oauth" /\ q.role, FALSE)
  <2>1. Insert(r, "missing", new) /\ UNCHANGED <<gitea, links, made, latest>>
    BY <1>3 DEF Creates
  <2>2. /\ new \in User /\ new["token"] = None /\ new["refresh"] = None /\ new["nonce"] = None
        /\ new.name = q.name
    BY <1>1 DEF NewUser, User, Account, Job
  <2>3. \A f \in SecretField : new[f] = None
    BY <2>2 DEF SecretField
  <2>. HIDE DEF new
  <2>. QED BY <2>1, <2>2, <2>3, InsertStep
<1>4. CASE Found(r)
  <2>. DEFINE q == req[r]
              edit == Over(Role(r), [email |-> gitea[q.name].email])
  <2>1. /\ Goes(r, "found", "known") /\ UNCHANGED <<undone, gitea, links, made, latest>>
        /\ IF q.op = "oauth" THEN Update(q.rec, edit) ELSE UNCHANGED <<users, seen, retired>>
    BY <1>4 DEF Found
  <2>2. CASE q.op = "oauth"
    <3>1. q.rec \in DOMAIN users
      BY <1>1, <2>1 DEF Goes, JobInv, Signing
    <3>2. IsEdit(edit) /\ SecretField \cap DOMAIN edit = {}
      <4>. DEFINE e == [email |-> gitea[q.name].email]
      <4>1. IsEdit(e) /\ "isAdmin" \notin DOMAIN e /\ SecretField \cap DOMAIN e = {}
        BY <1>1 DEF IsEdit, Flags, SecretField, Account, Job
      <4>. HIDE DEF e
      <4>2. edit = Over(Role(r), e)
        BY DEF e
      <4>. QED BY <4>1, <4>2, RoleFacts
    <3>. HIDE DEF edit
    <3>3. /\ users' \in Seq(User) /\ NamesStay
          /\ \A k \in DOMAIN users \ {q.rec} : users'[k] = users[k]
          /\ \A f \in SecretField : users'[q.rec][f] = users[q.rec][f]
      BY <2>1, <2>2, <3>1, <3>2, EditFacts DEF Control
    <3>4. Nonces
      BY <2>1, <3>3 DEF Nonces, SecretField
    <3>5. /\ begun' = begun
          /\ req' \in [Request -> Job] /\ \A s \in Request \ {r} : req'[s] = req[s]
          /\ JobInv(req[r])' /\ Keeps(r) /\ req'[r].pc # "store" /\ req'[r].pc \notin Copying
      BY <2>1, <3>3, GoesKeeps DEF Step, Signing, Copying, Mailing
    <3>6. made' <= MaxSecrets /\ latest' \in [ID -> {None} \cup Secret]
          /\ \A k \in ID : latest'[k] # None => k \in DOMAIN users
      BY <1>1, <2>1, AccountsAssumption DEF Control, Tables
    <3>. QED BY <2>1, <2>2, <3>1, <3>2, <3>4, <3>5, <3>6, EditStep DEF SecretField
  <2>3. CASE q.op # "oauth"
    BY <1>1, <2>1, <2>3, GoesStep DEF table, Step, Signing, Copying, Mailing
  <2>. QED BY <2>2, <2>3
<1>5. CASE Proceeds(r)
  <2>1. PICK to \in {"revoke", "check", "over"} :
          Goes(r, "known", to) /\ UNCHANGED <<table, gitea, links, made, latest>>
    BY <1>5 DEF Proceeds
  <2>. QED BY <1>1, <2>1, GoesStep DEF Step, Signing, Copying, Mailing
<1>6. CASE Revokes(r)
  <2>1. /\ Goes(r, "revoke", "make") /\ UNCHANGED <<table, links, made, latest>>
        /\ gitea' = [gitea EXCEPT ![req[r].name].token = None]
    BY <1>6 DEF Revokes
  <2>2. gitea' \in [Name -> Account]
    BY <1>1, <2>1 DEF Account, Job
  <2>. QED BY <1>1, <2>1, <2>2, GoesStep DEF Step, Signing, Copying, Mailing
<1>7. CASE Makes(r) /\ gitea[req[r].name].token # None
  <2>1. /\ Goes(r, "make", "over") /\ UNCHANGED <<table, gitea, links, made, latest>>
    BY <1>7 DEF Makes
  <2>. QED BY <1>1, <2>1, GoesStep DEF Step, Signing, Copying, Mailing
<1>8. CASE Makes(r) /\ gitea[req[r].name].token = None
  <2>1. /\ MakeSecret("make", r, "store") /\ UNCHANGED <<table, links, latest>>
        /\ gitea' = [gitea EXCEPT ![req[r].name].token = made + 1]
    BY <1>8 DEF Makes
  <2>2. "store" \in Step \ Dropping
    BY DEF Step, Dropping, Signing
  <2>3. /\ req[r].pc = "make" /\ begun' = begun
        /\ made' = made + 1 /\ made' \in Secret /\ made' <= MaxSecrets
        /\ req' \in [Request -> Job] /\ \A s \in Request \ {r} : req'[s] = req[s]
        /\ req'[r].pc = "store" /\ req'[r].op = req[r].op /\ req'[r].name = req[r].name
        /\ req'[r].rec = req[r].rec /\ req'[r].created = req[r].created
        /\ req'[r].secret = made + 1
    BY <2>1, <2>2, MakeFacts
  <2>4. gitea' \in [Name -> Account]
    <3>1. made + 1 \in {None} \cup Secret /\ req[r].name \in Name
      BY <1>1, <2>3 DEF Job
    <3>2. PICK m \in Email : TRUE
      BY <3>1 DEF Email
    <3>. QED BY <1>1, <2>1, <3>1, <3>2, GiteaFacts
  <2>5. UNCHANGED <<users, hidden, overtaken, retired, undone, latest>>
    BY <2>1 DEF table, seen
  <2>6. Tables'
    BY <1>1, <2>1, <2>3, <2>4, <2>5, AccountsAssumption DEF Control, Tables
  <2>7. JobInv(req[r])'
    BY <1>1, <2>3, <2>5 DEF JobInv, Signing, Copying, Mailing, Named, Visible
  <2>8. NamesStay
    BY <2>5 DEF NamesStay
  <2>9. Jobs'
    BY <1>1, <2>3, <2>5, <2>7, <2>8, JobsStay
  <2>10. Keeps(r) /\ req[r].rec \in ID
    <3>1. req[r].rec \in DOMAIN users
      BY <1>1, <2>3 DEF JobInv, Signing
    <3>. QED BY <1>1, <2>3, <3>1 DEF Keeps, Job, None, ID, Control, Tables
  <2>11. Moves(req[r].rec, "token")
    BY <2>3, <2>5, <2>10 DEF Moves, Turns, Copying
  <2>12. Retires /\ Nonces
    BY <2>5 DEF Retires, Nonces
  <2>. QED BY <2>6, <2>8, <2>9, <2>10, <2>11, <2>12 DEF Effect, SecretField
<1>9. CASE Stores(r)
  <2>. DEFINE q == req[r]
              edit == [token |-> q.secret]
  <2>1. PICK to \in {"over", "finish", "check"} :
          /\ Goes(r, "store", to) /\ Update(q.rec, edit)
          /\ UNCHANGED <<undone, gitea, links, made, latest>>
    BY <1>9 DEF Stores
  <2>2. q.pc = "store" /\ q.rec \in DOMAIN users /\ q.secret \in Secret
    BY <1>1, <2>1 DEF Goes, JobInv, Signing
  <2>3. IsEdit(edit) /\ DOMAIN edit = {"token"} /\ edit["token"] = q.secret
    BY <2>2 DEF IsEdit, Flags, SecretField
  <2>. HIDE DEF edit
  <2>4. /\ users' \in Seq(User) /\ NamesStay
        /\ \A k \in DOMAIN users \ {q.rec} : users'[k] = users[k]
        /\ \A f \in SecretField \ {"token"} : users'[q.rec][f] = users[q.rec][f]
    BY <2>1, <2>2, <2>3, EditFacts DEF Control
  <2>5. Nonces
    BY <2>1, <2>4 DEF Nonces, SecretField
  <2>6. /\ begun' = begun
        /\ req' \in [Request -> Job] /\ \A s \in Request \ {r} : req'[s] = req[s]
        /\ JobInv(req[r])' /\ Keeps(r) /\ req'[r].pc # "store" /\ req'[r].pc \notin Copying
    BY <2>1, <2>4, GoesKeeps DEF Step, Signing, Copying, Mailing
  <2>7. made' <= MaxSecrets /\ latest' \in [ID -> {None} \cup Secret]
        /\ \A k \in ID : latest'[k] # None => k \in DOMAIN users
    BY <1>1, <2>1, AccountsAssumption DEF Control, Tables
  <2>8. From(q.rec, "token", "token", edit["token"])
    BY <2>2, <2>3, <2>6 DEF From
  <2>. QED BY <2>1, <2>2, <2>3, <2>5, <2>6, <2>7, <2>8, EditStep DEF SecretField
<1>10. CASE Checks(r)
  <2>. DEFINE q == req[r]
              again == [q EXCEPT !.again = TRUE]
  <2>1. /\ q.pc = "check" /\ UNCHANGED <<table, gitea, links, made, latest, begun>>
        /\ \/ req' = [req EXCEPT ![r] = At(q, "finish")]
           \/ req' = [req EXCEPT ![r] = At(again, "revoke")]
           \/ req' = [req EXCEPT ![r] = At(q, "over")]
    BY <1>10 DEF Checks
  <2>2. CASE req' = [req EXCEPT ![r] = At(again, "revoke")]
    <3>1. /\ again \in Job /\ again.pc = q.pc /\ again.op = q.op /\ again.name = q.name
          /\ again.rec = q.rec /\ again.created = q.created
      BY <1>1 DEF Job
    <3>. HIDE DEF again
    <3>2. At(again, "revoke") \in Job /\ Became(again, At(again, "revoke"), "revoke")
      BY <1>1, <3>1, AtFacts DEF Step, Signing
    <3>3. /\ req' \in [Request -> Job] /\ \A s \in Request \ {r} : req'[s] = req[s]
          /\ req'[r].pc = "revoke" /\ req'[r].op = q.op /\ req'[r].name = q.name
          /\ req'[r].rec = q.rec /\ req'[r].created = q.created
      BY <2>2, <3>1, <3>2 DEF Became, Control, Jobs
    <3>4. users' = users /\ begun' \in 0 .. MaxRequests
      BY <2>1 DEF table, Control, Tables
    <3>5. JobInv(req[r])' /\ Keeps(r) /\ req'[r].pc # "store" /\ req'[r].pc \notin Copying
      BY <1>1, <2>1, <3>3, <3>4 DEF JobInv, Signing, Copying, Mailing, Named, Visible, table,
                                    seen, Keeps
    <3>. QED BY <1>1, <2>1, <3>3, <3>4, <3>5, QuietStep
  <2>3. CASE req' = [req EXCEPT ![r] = At(q, "finish")] \/ req' = [req EXCEPT ![r] = At(q, "over")]
    <3>1. PICK to \in {"finish", "over"} : Goes(r, "check", to)
      BY <2>1, <2>3 DEF Goes
    <3>. QED BY <1>1, <2>1, <3>1, GoesStep DEF Step, Signing, Copying, Mailing
  <2>. QED BY <2>1, <2>2, <2>3
<1>11. CASE Finishes(r)
  <2>. DEFINE i == req[r].rec
              edit == Over(Role(r), [refresh |-> made + 1])
  <2>1. /\ MakeSecret("finish", r, "over") /\ Update(i, edit)
        /\ UNCHANGED <<undone, gitea, links, latest>>
    BY <1>11 DEF Finishes
  <2>2. /\ req[r].pc = "finish" /\ begun' = begun
        /\ made' = made + 1 /\ made' \in Secret /\ made' <= MaxSecrets
        /\ req' \in [Request -> Job] /\ \A s \in Request \ {r} : req'[s] = req[s]
        /\ req'[r] = Idle
    BY <2>1, MakeFacts
  <2>3. i \in DOMAIN users
    BY <1>1, <2>2 DEF JobInv, Signing
  <2>4. IsEdit(edit) /\ SecretField \cap DOMAIN edit = {"refresh"} /\ edit["refresh"] = made + 1
    <3>. DEFINE e == [refresh |-> made + 1]
    <3>1. IsEdit(e) /\ "isAdmin" \notin DOMAIN e /\ SecretField \cap DOMAIN e = {"refresh"}
          /\ e["refresh"] = made + 1
      BY <2>2 DEF IsEdit, Flags, SecretField
    <3>. HIDE DEF e
    <3>2. edit = Over(Role(r), e)
      BY DEF e
    <3>. HIDE DEF edit
    <3>3. /\ IsEdit(edit)
          /\ \A f \in SecretField : f \in DOMAIN edit <=> f \in DOMAIN e
          /\ \A f \in SecretField \cap DOMAIN e : edit[f] = e[f]
      BY <3>1, <3>2, RoleFacts
    <3>4. "refresh" \in SecretField \cap DOMAIN e
      BY <3>1
    <3>. QED BY <3>1, <3>3, <3>4
  <2>. HIDE DEF edit
  <2>5. /\ users' \in Seq(User) /\ NamesStay
        /\ \A k \in DOMAIN users \ {i} : users'[k] = users[k]
        /\ \A f \in SecretField \ {"refresh"} : users'[i][f] = users[i][f]
    BY <2>1, <2>3, <2>4, EditFacts DEF Control
  <2>6. Nonces
    BY <2>1, <2>5 DEF Nonces, SecretField
  <2>7. Idle.pc = "idle" /\ Idle.op = "none" /\ Idle.rec = None
    BY <1>1, IdleFacts
  <2>8. JobInv(req[r])' /\ Keeps(r) /\ req'[r].pc # "store" /\ req'[r].pc \notin Copying
    BY <2>2, <2>7 DEF JobInv, Signing, Copying, Mailing, Keeps
  <2>9. latest' \in [ID -> {None} \cup Secret]
        /\ \A k \in ID : latest'[k] # None => k \in DOMAIN users
    BY <1>1, <2>1 DEF Control, Tables
  <2>10. From(i, "refresh", "refresh", edit["refresh"])
    BY <2>2, <2>4, <2>8 DEF From
  <2>. QED BY <2>1, <2>2, <2>3, <2>4, <2>6, <2>8, <2>9, <2>10, EditStep DEF SecretField
<1>12. CASE Commits(r)
  <2>. DEFINE q == req[r]
              bulk == [[[Idle EXCEPT !.op = "bulk"] EXCEPT !.pc = "inserted"]
                         EXCEPT !.name = q.name]
              known == [q EXCEPT !.pc = "known"]
  <2>1. /\ q.pc = "inserting" /\ hidden' = hidden \ {q.rec}
        /\ overtaken' = overtaken \cup {n \in {q.name} : \E i \in Named(n) : i > q.rec}
        /\ req' = [req EXCEPT ![r] = IF q.op = "bulk" THEN bulk ELSE known]
        /\ UNCHANGED <<users, retired, undone, gitea, links, made, latest, begun>>
    BY <1>12 DEF Commits
  <2>2. /\ q.created /\ q.rec \in DOMAIN users /\ users[q.rec].name = q.name /\ q.op # "reset"
        /\ q.name \in Name
    BY <1>1, <2>1 DEF JobInv, Job
  <2>3. hidden' \subseteq DOMAIN users /\ overtaken' \subseteq Name
    BY <2>1, <2>2 DEF Control, Tables
  <2>4. NamesStay
    <3>1. \A i \in hidden : i \notin hidden' => i = q.rec
      BY <2>1
    <3>2. \A k \in Visible : k > q.rec /\ users[k].name = q.name => q.name \in overtaken'
      BY <2>1 DEF Named
    <3>. QED BY <2>1, <2>2, <3>1, <3>2 DEF NamesStay
  <2>5. PICK n \in Name : n = q.name /\ Named(n)' # {}
    <3>1. q.rec \in DOMAIN users' /\ q.rec \notin hidden' /\ users'[q.rec].name = q.name
      BY <2>1, <2>2
    <3>2. PICK n \in Name : n = q.name
      BY <2>2
    <3>3. Named(n)' # {}
      BY <3>1, <3>2 DEF Named, Visible
    <3>. QED BY <3>2, <3>3
  <2>6. /\ bulk \in Job /\ bulk.pc = "inserted" /\ bulk.op = "bulk" /\ bulk.name = q.name
        /\ bulk.rec = None
    BY <1>1, <2>2, IdleFacts DEF Job, Op, Step
  <2>7. /\ known \in Job /\ known.pc = "known" /\ known.op = q.op /\ known.rec = q.rec
        /\ known.created = q.created
    BY <1>1 DEF Job, Step, Signing
  <2>. HIDE DEF bulk, known
  <2>8. /\ req' \in [Request -> Job] /\ \A s \in Request \ {r} : req'[s] = req[s]
        /\ req'[r] = bulk \/ req'[r] = known
    BY <2>1, <2>6, <2>7 DEF Control, Jobs
  <2>9. CASE req'[r] = bulk
    <3>1. JobInv(req[r])'
      BY <2>5, <2>6, <2>9 DEF JobInv, Signing, Copying, Mailing
    <3>2. Keeps(r) /\ req'[r].pc # "store" /\ req'[r].pc \notin Copying
      BY <2>6, <2>9 DEF Keeps, Copying
    <3>. QED BY <1>1, <2>1, <2>3, <2>4, <2>8, <3>1, <3>2, SeenStep DEF Control, Tables
  <2>10. CASE req'[r] = known
    <3>1. q.rec # None /\ q.rec \in DOMAIN users'
      BY <2>1, <2>2 DEF Control, Tables, None
    <3>2. JobInv(req[r])'
      BY <2>2, <2>7, <2>10, <3>1 DEF JobInv, Signing, Copying, Mailing
    <3>3. Keeps(r) /\ req'[r].pc # "store" /\ req'[r].pc \notin Copying
      BY <2>2, <2>7, <2>10 DEF Keeps, Copying
    <3>. QED BY <1>1, <2>1, <2>3, <2>4, <2>8, <3>2, <3>3, SeenStep DEF Control, Tables
  <2>. QED BY <2>8, <2>9, <2>10
<1>. QED BY <1>2, <1>3, <1>4, <1>5, <1>6, <1>7, <1>8, <1>9, <1>10, <1>11, <1>12 DEF Login

(* The steps of an admin who creates a user.                                *)
LEMMA BulkEffect ==
  ASSUME Control, NEW r \in Request, Bulk(r) PROVE Effect
<1>1. /\ req[r] \in Job /\ JobInv(req[r]) /\ Name # {} /\ req \in [Request -> Job]
      /\ users \in Seq(User) /\ gitea \in [Name -> Account]
      /\ links \subseteq [rec : DOMAIN users, nonce : Secret]
      /\ begun \in 0 .. MaxRequests /\ Len(users) <= MaxUsers
  BY DEF Control, Jobs, Tables
<1>2. CASE BulkCreates(r)
  <2>1. PICK n \in Name : /\ gitea' = [gitea EXCEPT ![n].exists = TRUE]
                          /\ Starts(r, "bulk", [pc |-> "created", name |-> n])
                          /\ UNCHANGED <<table, links, made, latest>>
    BY <1>2 DEF BulkCreates
  <2>. DEFINE new == [pc |-> "created", name |-> n]
  <2>2. IsStart(new) /\ HasRead("bulk", new)
    BY DEF IsStart, Step, HasRead
  <2>3. gitea' \in [Name -> Account]
    BY <1>1, <2>1 DEF Account
  <2>4. Starts(r, "bulk", new) /\ "bulk" \in Op
    BY <2>1 DEF Op
  <2>. HIDE DEF new
  <2>. QED BY <2>1, <2>2, <2>3, <2>4, StartStep
<1>3. CASE BulkInserts(r)
  <2>. DEFINE new == NewUser(req[r].name, req[r].name, FALSE, TRUE)
  <2>1. Insert(r, "created", new) /\ UNCHANGED <<gitea, links, made, latest>>
    BY <1>3 DEF BulkInserts
  <2>2. /\ new \in User /\ new["token"] = None /\ new["refresh"] = None /\ new["nonce"] = None
        /\ new.name = req[r].name
    BY <1>1 DEF NewUser, User, Job, Email
  <2>3. \A f \in SecretField : new[f] = None
    BY <2>2 DEF SecretField
  <2>. HIDE DEF new
  <2>. QED BY <2>1, <2>2, <2>3, InsertStep
<1>4. CASE BulkFinds(r)
  <2>. DEFINE q == req[r]
              i == First(Named(q.name))
              p == [[[q EXCEPT !.pc = "known"] EXCEPT !.rec = i] EXCEPT !.copy = users[i]]
  <2>1. /\ q.pc = "inserted" /\ UNCHANGED <<table, gitea, links, made, latest, begun>>
        /\ req' = [req EXCEPT ![r].pc = "known", ![r].rec = i, ![r].copy = users[i]]
    BY <1>4 DEF BulkFinds
  <2>2. Named(q.name) # {} /\ i \in DOMAIN users
    BY <1>1, <2>1, FirstFacts DEF JobInv
  <2>3. i \in ID /\ i # None /\ users[i] \in User
    BY <1>1, <2>2, AccountsAssumption DEF ID, None
  <2>4. req' = [req EXCEPT ![r] = p] /\ p \in Job /\ p.pc = "known" /\ p.rec = i
        /\ p.name = q.name /\ p.op = q.op
    BY <1>1, <2>1, <2>3 DEF Job, Step, Signing
  <2>. HIDE DEF p
  <2>5. req' \in [Request -> Job] /\ (\A s \in Request \ {r} : req'[s] = req[s]) /\ req'[r] = p
    BY <1>1, <2>4
  <2>6. users' = users /\ hidden' = hidden /\ overtaken' = overtaken /\ q.op # "reset"
    BY <1>1, <2>1 DEF table, seen, JobInv
  <2>7. JobInv(req[r])'
    <3>1. PICK n \in Name : n = q.name
      BY <1>1 DEF Job
    <3>2. Named(n)' = Named(n) /\ First(Named(n))' = First(Named(n))
      BY <2>6 DEF Named, Visible
    <3>. QED BY <2>2, <2>3, <2>4, <2>5, <2>6, <3>1, <3>2 DEF JobInv, Signing, Copying, Mailing
  <2>8. Keeps(r) /\ req'[r].pc # "store" /\ req'[r].pc \notin Copying
    BY <2>4, <2>5, <2>6 DEF Keeps, Copying
  <2>. QED BY <1>1, <2>1, <2>5, <2>7, <2>8, QuietStep
<1>. QED BY <1>2, <1>3, <1>4 DEF Bulk

(* What a whole record is saved with.                                       *)
LEMMA SavedFacts ==
  ASSUME NEW u \in User, NEW e \in Edited
  PROVE  /\ Over(e, u) \in User /\ Over(e, u).name = u.name
         /\ \A f \in SecretField \cap DOMAIN e : Over(e, u)[f] = None
         /\ \A f \in SecretField \ DOMAIN e : Over(e, u)[f] = u[f]
         /\ "nonce" \notin DOMAIN e
<1>1. CASE e = <<>>
  <2>1. DOMAIN e = {}
    BY <1>1
  <2>2. IsEdit(e)
    BY <2>1 DEF IsEdit
  <2>. QED BY <2>1, <2>2, OverFacts
<1>2. CASE e = [refresh |-> None] \/ e = [refresh |-> None, resetPassword |-> TRUE]
  <2>1. /\ DOMAIN e \cap SecretField = {"refresh"} /\ e["refresh"] = None
        /\ IsEdit(e) /\ "nonce" \notin DOMAIN e
    <3>1. CASE e = [refresh |-> None]
      BY <3>1 DEF IsEdit, Flags, SecretField
    <3>2. CASE e = [refresh |-> None, resetPassword |-> TRUE]
      <4>1. /\ DOMAIN e = {"refresh", "resetPassword"}
            /\ e["refresh"] = None /\ e["resetPassword"] = TRUE
        BY <3>2
      <4>. QED BY <4>1 DEF IsEdit, Flags, SecretField
    <3>. QED BY <1>2, <3>1, <3>2
  <2>. QED BY <2>1, OverFacts
<1>3. CASE e \in [{"enable"} -> BOOLEAN] \/ e \in [{"email"} -> Spare]
  <2>1. DOMAIN e \cap SecretField = {} /\ IsEdit(e) /\ "nonce" \notin DOMAIN e
    BY <1>3 DEF IsEdit, Flags, SecretField, Email
  <2>. QED BY <2>1, OverFacts
<1>. QED BY <1>1, <1>2, <1>3 DEF Edited

(* The steps of a handler that saves a whole record.                        *)
LEMMA RecordEffect ==
  ASSUME Control, NEW r \in Request, Record(r) PROVE Effect
<1>1. /\ req[r] \in Job /\ JobInv(req[r]) /\ Name # {} /\ req \in [Request -> Job]
      /\ users \in Seq(User) /\ gitea \in [Name -> Account]
      /\ links \subseteq [rec : DOMAIN users, nonce : Secret]
      /\ begun \in 0 .. MaxRequests /\ Len(users) <= MaxUsers
  BY DEF Control, Jobs, Tables
<1>2. CASE Reads(r)
  <2>0. PICK i \in DOMAIN users, op \in {"info", "email", "adminReset"} :
          \E edit \in Edits(op) :
            /\ Starts(r, op, [pc |-> "read", rec |-> i, copy |-> users[i], edit |-> edit,
                              name |-> users[i].name])
            /\ UNCHANGED <<table, gitea, links, made, latest>>
    BY <1>2 DEF Reads, Visible
  <2>1. PICK edit \in Edits(op) :
          /\ Starts(r, op, [pc |-> "read", rec |-> i, copy |-> users[i], edit |-> edit,
                            name |-> users[i].name])
          /\ UNCHANGED <<table, gitea, links, made, latest>>
    BY <2>0
  <2>. DEFINE new == [pc |-> "read", rec |-> i, copy |-> users[i], edit |-> edit,
                      name |-> users[i].name]
  <2>2. i \in ID /\ users[i] \in User /\ users[i].name \in Name
    <3>1. i \in ID /\ users[i] \in User
      BY <1>1, AccountsAssumption DEF ID
    <3>. QED BY <3>1 DEF User
  <2>3. edit \in Edited /\ (op = "email" => edit \in [{"email"} -> Spare])
    BY DEF Edits, Edited
  <2>4. IsStart(new)
    BY <2>2, <2>3 DEF IsStart, Step, Copying
  <2>5. HasRead(op, new)
    BY <2>3 DEF HasRead
  <2>6. Starts(r, op, new) /\ op \in Op
    BY <2>1 DEF Op
  <2>. HIDE DEF new
  <2>. QED BY <1>1, <2>1, <2>4, <2>5, <2>6, StartStep
<1>3. CASE EmailIsFree(r)
  <2>1. /\ req[r].op = "email" /\ Goes(r, "read", "checked")
        /\ UNCHANGED <<table, gitea, links, made, latest>>
    BY <1>3 DEF EmailIsFree
  <2>. QED BY <1>1, <2>1, GoesStep DEF Step, Signing, Copying, Mailing
<1>4. CASE EmailAtGitea(r)
  <2>1. /\ req[r].op = "email" /\ Goes(r, "checked", "moved")
        /\ gitea' = [gitea EXCEPT ![req[r].name].email = req[r].edit.email]
        /\ UNCHANGED <<table, links, made, latest>>
    BY <1>4 DEF EmailAtGitea
  <2>2. req[r].edit.email \in Email /\ req[r].name \in Name
    BY <1>1, <2>1 DEF Goes, JobInv, Copying, Email, Job
  <2>3. gitea' \in [Name -> Account]
    BY <1>1, <2>1, <2>2, GiteaFacts
  <2>. QED BY <1>1, <2>1, <2>3, GoesStep DEF Step, Signing, Copying, Mailing
<1>5. CASE Saves(r)
  <2>. DEFINE q == req[r]
              i == q.rec
              new == Over(q.edit, q.copy)
              behind == {f \in SecretField \ DOMAIN q.edit : q.copy[f] # users[i][f]}
  <2>1. PICK from \in {"read", "moved"}, to \in {"over", "clearing"} :
          /\ Goes(r, from, to) /\ Update(i, new)
          /\ undone' = [undone EXCEPT ![i] = @ \cup behind]
          /\ UNCHANGED <<gitea, links, made, latest>>
          /\ to = "clearing" => q.op = "reset"
    BY <1>5 DEF Saves, SavesRecord
  <2>2. /\ q.pc \in Copying /\ i \in DOMAIN users /\ i # None
        /\ q.copy \in User /\ q.copy.name = users[i].name /\ q.edit \in Edited
    BY <1>1, <2>1 DEF Goes, JobInv, Copying, Job
  <2>3. i \in ID /\ users[i] \in User
    BY <1>1, <2>2, AccountsAssumption DEF ID
  <2>4. /\ new \in User /\ new.name = users[i].name
        /\ \A f \in SecretField \cap DOMAIN q.edit : new[f] = None
        /\ \A f \in SecretField \ DOMAIN q.edit : new[f] = q.copy[f]
        /\ "nonce" \notin DOMAIN q.edit
    BY <2>2, SavedFacts
  <2>. HIDE DEF new
  <2>5. new = Over(new, users[i])
    BY <2>3, <2>4, OverRecord
  <2>6. /\ users' \in Seq(User) /\ Len(users') = Len(users)
        /\ DOMAIN users' = DOMAIN users /\ NamesStay /\ UNCHANGED <<hidden, overtaken>>
        /\ users'[i] = new /\ \A k \in DOMAIN users \ {i} : users'[k] = users[k]
        /\ retired' \in SUBSET Secret
        /\ \A s : s \in retired' <=>
             \/ s \in retired
             \/ s # None /\ \E f \in SecretField : users[i][f] = s /\ new[f] # s
    BY <2>1, <2>2, <2>4, <2>5, UpdateFacts DEF Control
  <2>7. /\ begun' = begun
        /\ req' \in [Request -> Job] /\ \A s \in Request \ {r} : req'[s] = req[s]
        /\ JobInv(req[r])' /\ Keeps(r) /\ req'[r].pc # "store" /\ req'[r].pc \notin Copying
    BY <2>1, <2>6, GoesKeeps DEF Step, Signing, Copying, Mailing
  <2>8. /\ undone \in [ID -> SUBSET SecretField] /\ undone' \in [ID -> SUBSET SecretField]
        /\ undone'[i] = undone[i] \cup behind
        /\ \A k \in ID : undone[k] \subseteq undone'[k]
    BY <2>1, <2>3 DEF Control, Tables
  <2>9. Tables'
    BY <2>1, <2>6, <2>7, <2>8 DEF Control, Tables
  <2>10. Jobs'
    BY <2>6, <2>7, JobsStay
  <2>11. Retires
    BY <2>2, <2>6 DEF Retires
  <2>12. ASSUME NEW f \in SecretField, new[f] # users[i][f]
         PROVE  /\ From(i, f, "token", new[f])
                /\ f \notin DOMAIN q.edit => f \in undone'[i]
    <3>1. CASE f \in DOMAIN q.edit
      BY <2>4, <3>1 DEF From
    <3>2. CASE f \notin DOMAIN q.edit
      <4>1. new[f] = q.copy[f] /\ f \in behind
        BY <2>4, <2>12, <3>2
      <4>2. f \in undone'[i]
        BY <2>8, <4>1
      <4>. QED BY <2>2, <4>1, <4>2 DEF From
    <3>. QED BY <3>1, <3>2
  <2>13. Nonces
    <3>1. ASSUME users'[i]["nonce"] # users[i]["nonce"] PROVE "nonce" \in undone'[i]
      BY <2>4, <2>6, <2>12, <3>1 DEF SecretField
    <3>. QED BY <2>1, <2>6, <3>1 DEF Nonces
  <2>14. Moves(i, "token")
    <3>1. \A k \in DOMAIN users, f \in SecretField :
            users'[k][f] # users[k][f] => k = i /\ From(i, f, "token", users'[i][f])
      BY <2>6, <2>12
    <3>. QED BY <2>1, <2>6, <2>7, <2>8, <3>1 DEF Moves, Turns
  <2>. QED BY <2>3, <2>6, <2>9, <2>10, <2>11, <2>13, <2>14 DEF Effect, SecretField
<1>6. CASE Changes(r)
  <2>1. PICK n \in Name : /\ Named(n) # {}
                          /\ Starts(r, "change", [pc |-> "changed", name |-> n])
                          /\ UNCHANGED <<table, gitea, links, made, latest>>
    BY <1>6 DEF Changes
  <2>. DEFINE new == [pc |-> "changed", name |-> n]
  <2>2. IsStart(new) /\ HasRead("change", new)
    BY <2>1 DEF IsStart, Step, HasRead
  <2>3. Starts(r, "change", new) /\ "change" \in Op
    BY <2>1 DEF Op
  <2>. HIDE DEF new
  <2>. QED BY <1>1, <2>1, <2>2, <2>3, StartStep
<1>7. CASE ChangeReads(r)
  <2>. DEFINE q == req[r]
              i == First(Named(q.name))
              e == [refresh |-> None]
              p == [[[[q EXCEPT !.pc = "read"] EXCEPT !.rec = i] EXCEPT !.copy = users[i]]
                      EXCEPT !.edit = e]
  <2>1. /\ q.pc = "changed" /\ UNCHANGED <<table, gitea, links, made, latest, begun>>
        /\ req' = [req EXCEPT ![r].pc = "read", ![r].rec = i, ![r].copy = users[i],
                              ![r].edit = e]
    BY <1>7 DEF ChangeReads
  <2>2. Named(q.name) # {} /\ i \in DOMAIN users /\ q.op = "change"
    BY <1>1, <2>1, FirstFacts DEF JobInv
  <2>3. i \in ID /\ i # None /\ users[i] \in User /\ e \in Edited
    BY <1>1, <2>2, AccountsAssumption DEF ID, None, Edited
  <2>. HIDE DEF e
  <2>4. req' = [req EXCEPT ![r] = p] /\ p \in Job /\ p.pc = "read" /\ p.rec = i
        /\ p.copy = users[i] /\ p.op = q.op
    BY <1>1, <2>1, <2>3 DEF Job, Step, Copying
  <2>. HIDE DEF p
  <2>5. req' \in [Request -> Job] /\ (\A s \in Request \ {r} : req'[s] = req[s]) /\ req'[r] = p
    BY <1>1, <2>4
  <2>6. users' = users
    BY <2>1 DEF table
  <2>7. JobInv(req[r])'
    BY <2>2, <2>3, <2>4, <2>5, <2>6 DEF JobInv, Signing, Copying, Mailing
  <2>8. Keeps(r) /\ req'[r].pc # "store"
    BY <2>2, <2>4, <2>5 DEF Keeps
  <2>9. req'[r].rec \in DOMAIN users /\ req'[r].copy = users[req'[r].rec]
    BY <2>2, <2>4, <2>5
  <2>. QED BY <1>1, <2>1, <2>5, <2>7, <2>8, <2>9, QuietStep
<1>. QED BY <1>2, <1>3, <1>4, <1>5, <1>6, <1>7 DEF Record

(* The steps of a user who has forgotten the password.                      *)
LEMMA ResetEffect ==
  ASSUME Control, NEW r \in Request, Reset(r) PROVE Effect
<1>1. /\ req[r] \in Job /\ JobInv(req[r]) /\ Name # {} /\ req \in [Request -> Job]
      /\ users \in Seq(User) /\ gitea \in [Name -> Account]
      /\ links \subseteq [rec : DOMAIN users, nonce : Secret]
      /\ begun \in 0 .. MaxRequests /\ Len(users) <= MaxUsers
      /\ made \in 0 .. MaxSecrets /\ MaxSecrets \in Nat /\ MaxUsers \in Nat
      /\ latest \in [ID -> {None} \cup Secret]
      /\ \A k \in ID : latest[k] # None => k \in DOMAIN users
  BY AccountsAssumption DEF Control, Jobs, Tables
<1>2. CASE Forgets(r)
  <2>1. PICK m \in Email :
          /\ Mailed(m) # {}
          /\ Starts(r, "forget", [pc |-> "forget", rec |-> First(Mailed(m))])
          /\ UNCHANGED <<table, gitea, links, made, latest>>
    BY <1>2 DEF Forgets
  <2>. DEFINE i == First(Mailed(m))
              new == [pc |-> "forget", rec |-> i]
  <2>2. i \in DOMAIN users
    <3>1. Mailed(m) \in SUBSET Nat
      BY <1>1 DEF Mailed, Visible
    <3>2. i \in Mailed(m)
      BY <2>1, <3>1, MinFacts DEF First
    <3>. QED BY <3>2 DEF Mailed, Visible
  <2>3. i \in ID
    BY <1>1, <2>2 DEF ID
  <2>4. IsStart(new) /\ HasRead("forget", new)
    BY <2>2, <2>3 DEF IsStart, Step, Mailing, HasRead
  <2>5. Starts(r, "forget", new) /\ "forget" \in Op
    BY <2>1 DEF Op
  <2>. HIDE DEF new
  <2>. QED BY <1>1, <2>1, <2>4, <2>5, StartStep
<1>3. CASE ForgetNonce(r)
  <2>. DEFINE i == req[r].rec
              edit == [nonce |-> made + 1]
  <2>1. /\ MakeSecret("forget", r, "mail") /\ Update(i, edit)
        /\ latest' = [latest EXCEPT ![i] = IF Resetting(i) THEN None ELSE made + 1]
        /\ UNCHANGED <<undone, gitea, links>>
    BY <1>3 DEF ForgetNonce
  <2>2. "mail" \in Step \ Dropping
    BY DEF Step, Dropping, Mailing
  <2>3. /\ req[r].pc = "forget" /\ begun' = begun
        /\ made' = made + 1 /\ made' \in Secret /\ made' <= MaxSecrets
        /\ req' \in [Request -> Job] /\ \A s \in Request \ {r} : req'[s] = req[s]
        /\ req'[r].pc = "mail" /\ req'[r].op = req[r].op /\ req'[r].name = req[r].name
        /\ req'[r].rec = i /\ req'[r].created = req[r].created
        /\ req'[r].secret = made + 1
    BY <2>1, <2>2, MakeFacts
  <2>4. i \in DOMAIN users /\ i \in ID /\ i # None
    <3>1. i \in DOMAIN users
      BY <1>1, <2>3 DEF JobInv, Mailing
    <3>. QED BY <1>1, <3>1 DEF ID, None
  <2>5. IsEdit(edit) /\ DOMAIN edit = {"nonce"} /\ edit["nonce"] = made + 1
    BY <2>3 DEF IsEdit, Flags, SecretField
  <2>. HIDE DEF edit
  <2>6. /\ users' \in Seq(User) /\ NamesStay /\ DOMAIN users' = DOMAIN users
        /\ \A k \in DOMAIN users \ {i} : users'[k] = users[k]
        /\ users'[i]["nonce"] = made + 1
    BY <2>1, <2>4, <2>5, EditFacts DEF Control, SecretField
  <2>7. JobInv(req[r])' /\ Keeps(r) /\ req'[r].pc \notin Copying \cup {"store"}
    BY <1>1, <2>3, <2>4, <2>6 DEF JobInv, Signing, Copying, Mailing, Keeps
  <2>8. /\ \A k \in ID \ {i} : latest'[k] = latest[k]
        /\ latest'[i] = IF Resetting(i) THEN None ELSE made + 1
        /\ latest' \in [ID -> {None} \cup Secret]
        /\ \A k \in ID : latest'[k] # None => k \in DOMAIN users
    BY <1>1, <2>1, <2>3, <2>4
  <2>9. \A s \in Request : Keeps(s)
    BY <2>3, <2>7 DEF Keeps
  <2>10. Nonces
    BY <2>4, <2>6, <2>8, <2>9 DEF Nonces
  <2>11. From(i, "nonce", "nonce", edit["nonce"])
    BY <2>3, <2>5 DEF From
  <2>. QED BY <2>1, <2>3, <2>4, <2>5, <2>7, <2>8, <2>10, <2>11, EditStep DEF SecretField
<1>4. CASE ForgetMails(r)
  <2>1. /\ Goes(r, "mail", "stamp") /\ UNCHANGED <<table, gitea, made, latest>>
        /\ links' = links \cup {[rec |-> req[r].rec, nonce |-> req[r].secret]}
    BY <1>4 DEF ForgetMails
  <2>2. req[r].rec \in DOMAIN users /\ req[r].secret \in Secret
    BY <1>1, <2>1 DEF Goes, JobInv, Mailing
  <2>3. links' \subseteq [rec : DOMAIN users, nonce : Secret]
    BY <1>1, <2>1, <2>2
  <2>. QED BY <1>1, <2>1, <2>3, GoesStep DEF Step, Signing, Copying, Mailing
<1>5. CASE ForgetStamps(r)
  <2>. DEFINE i == req[r].rec
              edit == [recent |-> TRUE]
  <2>1. /\ Goes(r, "stamp", "over") /\ Update(i, edit)
        /\ UNCHANGED <<undone, gitea, links, made, latest>>
    BY <1>5 DEF ForgetStamps
  <2>2. i \in DOMAIN users
    BY <1>1, <2>1 DEF Goes, JobInv, Mailing
  <2>3. IsEdit(edit) /\ SecretField \cap DOMAIN edit = {}
    <3>1. DOMAIN edit = {"recent"} /\ edit["recent"] = TRUE
      OBVIOUS
    <3>. HIDE DEF edit
    <3>. QED BY <3>1 DEF IsEdit, Flags, SecretField
  <2>. HIDE DEF edit
  <2>4. /\ users' \in Seq(User) /\ NamesStay
        /\ \A k \in DOMAIN users \ {i} : users'[k] = users[k]
        /\ \A f \in SecretField : users'[i][f] = users[i][f]
    BY <2>1, <2>2, <2>3, EditFacts DEF Control
  <2>5. Nonces
    BY <2>1, <2>4 DEF Nonces, SecretField
  <2>6. /\ begun' = begun
        /\ req' \in [Request -> Job] /\ \A s \in Request \ {r} : req'[s] = req[s]
        /\ JobInv(req[r])' /\ Keeps(r) /\ req'[r].pc # "store" /\ req'[r].pc \notin Copying
    BY <2>1, <2>4, GoesKeeps DEF Step, Signing, Copying, Mailing
  <2>7. made' <= MaxSecrets /\ latest' \in [ID -> {None} \cup Secret]
        /\ \A k \in ID : latest'[k] # None => k \in DOMAIN users
    BY <1>1, <2>1
  <2>. QED BY <2>1, <2>2, <2>3, <2>5, <2>6, <2>7, EditStep DEF SecretField
<1>6. CASE ResetValidates(r)
  <2>1. PICK l \in links :
          /\ Starts(r, "reset", [pc |-> "validated", rec |-> l.rec])
          /\ latest' = [latest EXCEPT ![l.rec] = None]
          /\ UNCHANGED <<table, gitea, links, made>>
    BY <1>6 DEF ResetValidates
  <2>. DEFINE i == l.rec
              new == [pc |-> "validated", rec |-> i]
  <2>2. i \in DOMAIN users /\ i \in ID /\ i # None
    <3>1. i \in DOMAIN users
      BY <1>1
    <3>. QED BY <1>1, <3>1 DEF ID, None
  <2>3. /\ IsStart(new) /\ new.pc = "validated" /\ new.rec = i /\ "rec" \in DOMAIN new
        /\ Starts(r, "reset", new) /\ "reset" \in Op
    BY <2>1, <2>2 DEF IsStart, Step, Mailing, Op
  <2>. HIDE DEF new
  <2>4. /\ begun' \in 0 .. MaxRequests
        /\ req' \in [Request -> Job] /\ \A s \in Request \ {r} : req'[s] = req[s]
        /\ req'[r].op = "reset" /\ req'[r].pc = "validated" /\ req'[r].rec = i
    <3>1. /\ begun' \in 0 .. MaxRequests
          /\ req' \in [Request -> Job] /\ \A s \in Request \ {r} : req'[s] = req[s]
          /\ Started(req[r], req'[r], "reset", new)
      BY <2>3, StartsFacts
    <3>. QED BY <2>3, <3>1 DEF Started
  <2>5. UNCHANGED <<users, hidden, overtaken, retired, undone>>
    BY <2>1 DEF table, seen
  <2>6. JobInv(req[r])'
    BY <2>2, <2>4, <2>5 DEF JobInv, Signing, Copying, Mailing
  <2>7. /\ latest'[i] = None /\ \A k \in ID \ {i} : latest'[k] = latest[k]
        /\ latest' \in [ID -> {None} \cup Secret]
    BY <1>1, <2>1, <2>2
  <2>8. Tables'
    BY <1>1, <2>1, <2>4, <2>5, <2>7 DEF Control, Tables
  <2>9. NamesStay
    BY <2>5 DEF NamesStay
  <2>10. Jobs'
    BY <1>1, <2>4, <2>5, <2>6, <2>9, JobsStay
  <2>11. Retires /\ Nonces
    BY <2>5, <2>7 DEF Retires, Nonces
  <2>12. Moves(1, "token")
    BY <2>1, <2>4, <2>5, <2>7 DEF Moves, Turns, Copying
  <2>13. 1 \in ID
    BY AccountsAssumption DEF ID
  <2>. QED BY <2>8, <2>9, <2>10, <2>11, <2>12, <2>13 DEF Effect, SecretField
<1>7. CASE ResetReads(r)
  <2>. DEFINE q == req[r]
              e == [refresh |-> None]
              p == [[[q EXCEPT !.pc = "read"] EXCEPT !.copy = users[q.rec]] EXCEPT !.edit = e]
  <2>1. /\ q.pc = "validated" /\ UNCHANGED <<table, gitea, links, made, latest, begun>>
        /\ req' = [req EXCEPT ![r].pc = "read", ![r].copy = users[q.rec], ![r].edit = e]
    BY <1>7 DEF ResetReads
  <2>2. q.rec \in DOMAIN users /\ q.rec # None /\ q.op = "reset"
    BY <1>1, <2>1 DEF JobInv, Mailing
  <2>3. users[q.rec] \in User /\ e \in Edited
    BY <1>1, <2>2 DEF Edited
  <2>. HIDE DEF e
  <2>4. req' = [req EXCEPT ![r] = p] /\ p \in Job /\ p.pc = "read" /\ p.rec = q.rec
        /\ p.copy = users[q.rec] /\ p.op = q.op
    BY <1>1, <2>1, <2>3 DEF Job, Step, Copying
  <2>. HIDE DEF p
  <2>5. req' \in [Request -> Job] /\ (\A s \in Request \ {r} : req'[s] = req[s]) /\ req'[r] = p
    BY <1>1, <2>4
  <2>6. users' = users
    BY <2>1 DEF table
  <2>7. JobInv(req[r])'
    BY <2>2, <2>3, <2>4, <2>5, <2>6 DEF JobInv, Signing, Copying, Mailing
  <2>8. Keeps(r) /\ req'[r].pc # "store"
    BY <2>2, <2>4, <2>5 DEF Keeps
  <2>9. req'[r].rec \in DOMAIN users /\ req'[r].copy = users[req'[r].rec]
    BY <2>2, <2>4, <2>5
  <2>. QED BY <1>1, <2>1, <2>5, <2>7, <2>8, <2>9, QuietStep
<1>8. CASE ResetClears(r)
  <2>. DEFINE i == req[r].rec
              edit == [nonce |-> None]
  <2>1. /\ Goes(r, "clearing", "over") /\ Update(i, edit)
        /\ UNCHANGED <<undone, gitea, links, made, latest>>
    BY <1>8 DEF ResetClears
  <2>2. i \in DOMAIN users /\ req[r].op = "reset" /\ Resetting(i)
    BY <1>1, <2>1 DEF Goes, JobInv, Mailing, Resetting
  <2>3. IsEdit(edit) /\ SecretField \cap DOMAIN edit = {"nonce"} /\ edit["nonce"] = None
    BY DEF IsEdit, Flags, SecretField
  <2>. HIDE DEF edit
  <2>4. /\ users' \in Seq(User) /\ NamesStay
        /\ \A k \in DOMAIN users \ {i} : users'[k] = users[k]
    BY <2>1, <2>2, <2>3, EditFacts DEF Control
  <2>5. Nonces
    BY <2>1, <2>2, <2>4 DEF Nonces
  <2>6. /\ begun' = begun
        /\ req' \in [Request -> Job] /\ \A s \in Request \ {r} : req'[s] = req[s]
        /\ JobInv(req[r])' /\ Keeps(r) /\ req'[r].pc # "store" /\ req'[r].pc \notin Copying
    BY <2>1, <2>4, GoesKeeps DEF Step, Signing, Copying, Mailing
  <2>7. made' <= MaxSecrets /\ latest' \in [ID -> {None} \cup Secret]
        /\ \A k \in ID : latest'[k] # None => k \in DOMAIN users
    BY <1>1, <2>1
  <2>8. From(i, "nonce", "token", edit["nonce"])
    BY <2>3 DEF From
  <2>. QED BY <2>1, <2>2, <2>3, <2>5, <2>6, <2>7, <2>8, EditStep DEF SecretField
<1>. QED BY <1>2, <1>3, <1>4, <1>5, <1>6, <1>7, <1>8 DEF Reset

(* A step of no request that leaves the table alone.                        *)
LEMMA EnvironmentStep ==
  ASSUME Control, UNCHANGED <<table, made, begun>>, gitea' \in [Name -> Account],
         links' \subseteq links, latest' \in [ID -> {None} \cup Secret],
         \A k \in ID : latest'[k] \in {latest[k], None},
         req' \in [Request -> Job], \A s \in Request : req'[s] = req[s] \/ req'[s] = Idle
  PROVE  Effect
<1>1. UNCHANGED <<users, hidden, overtaken, retired, undone, made>>
  BY DEF table, seen
<1>2. Tables'
  BY <1>1 DEF Control, Tables
<1>3. NamesStay
  BY <1>1 DEF NamesStay
<1>4. Idle.pc = "idle" /\ Idle.op = "none" /\ Idle.rec = None
  BY IdleFacts DEF Control, Jobs
<1>5. \A s \in Request : req'[s] = req[s] \/ JobInv(req[s])'
  BY <1>4 DEF JobInv, Signing, Copying, Mailing
<1>6. Jobs'
  BY <1>1, <1>3, <1>5, JobsStay DEF Control, Tables
<1>7. Retires /\ Nonces
  BY <1>1 DEF Retires, Nonces
<1>8. Moves(1, "token")
  BY <1>1 DEF Moves
<1>9. 1 \in ID
  BY AccountsAssumption DEF ID
<1>. QED BY <1>2, <1>3, <1>6, <1>7, <1>8, <1>9 DEF Effect, SecretField

(* Logouts, Gitea, time and restarts.                                       *)
LEMMA EnvironmentEffect ==
  ASSUME Control, Environment PROVE Effect
<1>1. /\ Name # {} /\ req \in [Request -> Job]
      /\ users \in Seq(User) /\ gitea \in [Name -> Account]
      /\ links \subseteq [rec : DOMAIN users, nonce : Secret]
      /\ made \in 0 .. MaxSecrets /\ MaxSecrets \in Nat /\ MaxUsers \in Nat
      /\ Len(users) <= MaxUsers
      /\ latest \in [ID -> {None} \cup Secret]
      /\ \A k \in ID : latest[k] # None => k \in DOMAIN users
  BY AccountsAssumption DEF Control, Jobs, Tables
<1>2. ASSUME NEW i \in ID, Logout(i) \/ ThreeMinutes(i) PROVE Effect
  <2>1. PICK edit \in {[refresh |-> None], [recent |-> FALSE]} :
          /\ i \in DOMAIN users /\ Update(i, edit)
          /\ UNCHANGED <<undone, gitea, links, made, req, latest, begun>>
    BY <1>2 DEF Logout, ThreeMinutes, Visible
  <2>2. /\ IsEdit(edit) /\ "nonce" \notin DOMAIN edit
        /\ \A f \in SecretField \cap DOMAIN edit : edit[f] = None
    <3>1. CASE edit = [refresh |-> None]
      <4>1. DOMAIN edit = {"refresh"} /\ edit["refresh"] = None
        BY <3>1
      <4>. QED BY <4>1 DEF IsEdit, Flags, SecretField
    <3>2. CASE edit = [recent |-> FALSE]
      <4>1. DOMAIN edit = {"recent"} /\ edit["recent"] = FALSE
        BY <3>2
      <4>. QED BY <4>1 DEF IsEdit, Flags, SecretField
    <3>. QED BY <3>1, <3>2
  <2>3. /\ \A k \in DOMAIN users \ {i} : users'[k] = users[k]
        /\ users'[i]["nonce"] = users[i]["nonce"]
    <3>1. "nonce" \in SecretField
      BY DEF SecretField
    <3>. QED BY <2>1, <2>2, <3>1, EditFacts DEF Control
  <2>4. Nonces
    BY <2>1, <2>3 DEF Nonces
  <2>5. \A f \in SecretField \cap DOMAIN edit : From(i, f, "token", edit[f])
    BY <2>2 DEF From
  <2>. QED BY <1>1, <2>1, <2>2, <2>4, <2>5, EditStep DEF SecretField
<1>3. ASSUME NEW n \in Name, GiteaChanges(n) PROVE Effect
  <2>1. /\ UNCHANGED <<table, links, made, req, latest, begun>>
        /\ \/ gitea' = [gitea EXCEPT ![n].isAdmin = FALSE]
           \/ gitea' = [gitea EXCEPT ![n].token = None]
    BY <1>3 DEF GiteaChanges
  <2>2. gitea' \in [Name -> Account]
    <3>1. CASE gitea' = [gitea EXCEPT ![n].isAdmin = FALSE]
      BY <1>1, <3>1 DEF Account
    <3>2. CASE gitea' = [gitea EXCEPT ![n].token = None]
      BY <1>1, <3>2 DEF Account
    <3>. QED BY <2>1, <3>1, <3>2
  <2>. QED BY <1>1, <2>1, <2>2, EnvironmentStep
<1>4. CASE LinkExpires
  <2>1. PICK l \in links :
          /\ links' = links \ {l}
          /\ latest' = [latest EXCEPT ![l.rec] = IF @ = l.nonce THEN None ELSE @]
          /\ UNCHANGED <<table, gitea, made, req, begun>>
    BY <1>4 DEF LinkExpires
  <2>2. l.rec \in ID
    BY <1>1 DEF ID
  <2>3. /\ latest' \in [ID -> {None} \cup Secret]
        /\ \A k \in ID : latest'[k] \in {latest[k], None}
    BY <1>1, <2>1, <2>2
  <2>. QED BY <1>1, <2>1, <2>3, EnvironmentStep
<1>5. CASE Restart
  <2>1. /\ req' = [r \in Request |-> Idle]
        /\ UNCHANGED <<table, gitea, links, begun, made, latest>>
    BY <1>5 DEF Restart
  <2>2. req' \in [Request -> Job]
    BY <1>1, <2>1, IdleFacts
  <2>. QED BY <1>1, <2>1, <2>2, EnvironmentStep
<1>. QED BY <1>2, <1>3, <1>4, <1>5 DEF Environment

(* Every step.                                                              *)
LEMMA StepEffect ==
  ASSUME Control, Next PROVE Effect
<1>1. ASSUME NEW r \in Request, Fails(r) PROVE Effect
  <2>1. PICK from \in {"revoke", "make", "read", "checked", "mail"} :
          Goes(r, from, "over") /\ UNCHANGED <<table, gitea, links, made, latest>>
    BY <1>1 DEF Fails
  <2>2. gitea \in [Name -> Account] /\ links \subseteq [rec : DOMAIN users, nonce : Secret]
    BY DEF Control, Tables
  <2>. QED BY <2>1, <2>2, GoesStep DEF Step, Signing, Copying, Mailing
<1>. QED BY <1>1, LoginEffect, BulkEffect, RecordEffect, ResetEffect, EnvironmentEffect
         DEF Next, Handle

(* Every step keeps the types.                                              *)
LEMMA ControlNext == Control /\ [Next]_vars => Control'
<1>. SUFFICES ASSUME Control, [Next]_vars PROVE Control'
  OBVIOUS
<1>1. CASE Next
  <2>1. Tables' /\ Jobs'
    BY <1>1, StepEffect DEF Effect
  <2>2. alone' \in [Request -> BOOLEAN]
    BY <1>1 DEF Next, Watch
  <2>. QED BY <2>1, <2>2 DEF Control
<1>2. CASE UNCHANGED vars
  <2>1. UNCHANGED <<users, hidden, overtaken, retired, undone, gitea, links, begun, made,
                    req, latest, alone>>
    BY <1>2 DEF vars, table, seen
  <2>2. Tables' /\ NamesStay
    BY <2>1 DEF Control, Tables, NamesStay
  <2>3. Jobs'
    BY <2>1, <2>2, JobsStay DEF Control, Tables, Jobs
  <2>. QED BY <2>1, <2>2, <2>3 DEF Control
<1>. QED BY <1>1, <1>2

(* They are right at the start.                                             *)
LEMMA ControlInit == Init => Control
<1>. SUFFICES ASSUME Init PROVE Control
  OBVIOUS
<1>1. PICK known, before, admin \in BOOLEAN, n \in Name :
        /\ before => known
        /\ made = IF before THEN 1 ELSE 0
        /\ users = IF before
                   THEN <<[NewUser(n, n, admin, FALSE) EXCEPT !.token = 1]>> ELSE <<>>
        /\ gitea = [k \in Name |->
                      [exists |-> known /\ k = n, isAdmin |-> known /\ k = n /\ admin,
                       email |-> k, token |-> IF k = n THEN made ELSE None]]
        /\ hidden = {} /\ overtaken = {}
        /\ links = {} /\ retired = {} /\ begun = 0
        /\ req = [r \in Request |-> Idle]
        /\ undone = [i \in ID |-> {}]
        /\ latest = [i \in ID |-> None]
        /\ alone = [r \in Request |-> TRUE]
  BY DEF Init
<1>2. MaxSecrets \in Nat /\ 1 <= MaxSecrets /\ MaxUsers \in Nat /\ 1 <= MaxUsers /\ MaxRequests \in Nat
  BY AccountsAssumption
<1>3. made \in {None} \cup Secret /\ made \in 0 .. MaxSecrets
  BY <1>1, <1>2 DEF Secret, None
<1>4. users \in Seq(User) /\ Len(users) <= MaxUsers
  <2>1. [NewUser(n, n, admin, FALSE) EXCEPT !.token = 1] \in User
    <3>. DEFINE u == NewUser(n, n, admin, FALSE)
    <3>1. u \in User /\ 1 \in Secret
      BY <1>2 DEF NewUser, User, Email, Secret
    <3>. HIDE DEF u
    <3>2. [u EXCEPT !.token = 1] \in User
      BY <3>1 DEF User
    <3>. QED BY <3>2 DEF u
  <2>. QED BY <1>1, <1>2, <2>1
<1>5. gitea \in [Name -> Account]
  BY <1>1, <1>3 DEF Account, Email
<1>6. Tables
  BY <1>1, <1>2, <1>3, <1>4, <1>5 DEF Tables
<1>7. Idle \in Job /\ Idle.pc = "idle" /\ Idle.op = "none" /\ Idle.rec = None
  BY <1>1, IdleFacts
<1>8. Jobs
  BY <1>1, <1>7 DEF Jobs, JobInv, Signing, Copying, Mailing
<1>. QED BY <1>1, <1>6, <1>8 DEF Control

(* All of it holds in every reachable state.                                *)
THEOREM Controlled == Spec => []Control
BY ControlInit, ControlNext, PTL DEF Spec

(* Types: whatever a request has read and whatever a goroutine still holds, *)
(* the record it is about is there.                                         *)
THEOREM Typing == Spec => []TypeOK
<1>1. ASSUME Control PROVE TypeOK
  <2>1. /\ Tables /\ alone \in [Request -> BOOLEAN]
        /\ \A r \in Request : req[r] \in Job /\ JobInv(req[r])
    BY <1>1 DEF Control, Jobs
  <2>2. links \subseteq [rec : ID, nonce : Secret]
    <3>1. DOMAIN users \subseteq ID
      BY <2>1, AccountsAssumption DEF Tables, ID
    <3>. QED BY <2>1, <3>1 DEF Tables
  <2>3. \A e \in Edited : DOMAIN e \subseteq Edit
    <3>1. SUFFICES ASSUME NEW e \in Edited PROVE DOMAIN e \subseteq Edit
      OBVIOUS
    <3>2. CASE e = <<>>
      BY <3>2
    <3>3. CASE e \in {[refresh |-> None], [refresh |-> None, resetPassword |-> TRUE]}
      BY <3>3 DEF Edit
    <3>4. CASE e \in [{"enable"} -> BOOLEAN] \cup [{"email"} -> Spare]
      BY <3>4 DEF Edit
    <3>. QED BY <3>2, <3>3, <3>4 DEF Edited
  <2>4. ASSUME NEW r \in Request
        PROVE  /\ req[r].name \in Name
               /\ req[r].rec \in {None} \cup DOMAIN users
               /\ req[r].pc \in {"read", "checked"} =>
                    req[r].copy \in User /\ DOMAIN req[r].edit \subseteq Edit
               /\ req[r].pc \in {"store", "mail"} => req[r].secret \in Secret
               /\ req[r].pc \in {"inserting", "known", "store", "check", "finish"} =>
                    req[r].rec # None
    <3>1. req[r].name \in Name /\ DOMAIN req[r].edit \subseteq Edit
      BY <2>1, <2>3 DEF Job
    <3>2. req[r].pc = "inserting" => req[r].rec # None
      BY <2>1 DEF JobInv, Tables, None
    <3>. QED BY <2>1, <3>1, <3>2 DEF JobInv, Signing, Copying
  <2>. QED BY <2>1, <2>2, <2>4 DEF Tables, TypeOK
<1>. QED BY <1>1, Controlled, PTL

(* A login ends on the first record of its name that can be seen, or on the *)
(* one it has created, unless one of the name became visible after a later  *)
(* one.                                                                     *)
THEOREM LoginsAgree == Spec => SessionOfFirst
<1>1. ASSUME Control
      PROVE  \A r \in Request :
               Finishes(r) => \/ req[r].created \/ req[r].name \in overtaken
                              \/ req[r].rec = First(Named(req[r].name))
  <2>1. SUFFICES ASSUME NEW r \in Request, Finishes(r)
                 PROVE  \/ req[r].created \/ req[r].name \in overtaken
                        \/ req[r].rec = First(Named(req[r].name))
    OBVIOUS
  <2>2. req[r].pc = "finish"
    BY <2>1 DEF Finishes, MakeSecret
  <2>. QED BY <1>1, <2>2 DEF Control, Jobs, JobInv, Signing
<1>2. Spec => []Control
  BY Controlled
<1>. QED BY <1>1, <1>2, PTL DEF SessionOfFirst

-----------------------------------------------------------------------------
(* Secrets.                                                                 *)

(* Field f of record i holds the secret s, or a request is going to let it: *)
(* a handler with a copy of the record, or a login with a new token.        *)
Holds(s, i, f) ==
  \/ i \in DOMAIN users /\ users[i][f] = s
  \/ \E r \in Request : req[r].pc \in Copying /\ req[r].rec = i /\ req[r].copy[f] = s
  \/ \E r \in Request : /\ req[r].pc = "store" /\ f = "token"
                        /\ req[r].rec = i /\ req[r].secret = s

(* No two fields ever share a secret.                                       *)
Apart ==
  \A s \in Secret, i \in ID, f \in SecretField : Holds(s, i, f) =>
    /\ s <= made
    /\ \A j \in ID, g \in SecretField : Holds(s, j, g) => i = j /\ f = g

(* A token that is about to be stored was never current, nor will it be by  *)
(* anyone else.                                                             *)
Pending(r) ==
  req[r].pc = "store" =>
    /\ req[r].secret \notin retired
    /\ req[r].secret # users[req[r].rec].token
    /\ \A s \in Request \ {r} : req[s].rec = req[r].rec =>
         /\ req[s].pc = "store" => req[s].secret # req[r].secret
         /\ req[s].pc \in Copying => req[s].copy.token # req[r].secret

SecretInv ==
  /\ Apart /\ SecretsStayRetired
  /\ \A s \in retired : s <= made
  /\ \A r \in Request : Pending(r)

(* Nothing comes to hold an old secret that did not hold it before.         *)
LEMMA HoldsBack ==
  ASSUME Control, NEW i, NEW g, Moves(i, g),
         NEW s \in Secret, NEW k \in ID, NEW f \in SecretField, Holds(s, k, f)'
  PROVE  Holds(s, k, f) \/ (s = made + 1 /\ made' = made + 1 /\ k = i /\ f = g)
<1>1. s # None
  BY DEF Secret, None
<1>2. ASSUME NEW r \in Request, req'[r] # req[r], req'[r].pc \in Copying \cup {"store"}
      PROVE  Turns(r, i, g)
  <2>1. Idle.pc = "idle"
    BY IdleFacts DEF Control, Jobs
  <2>. QED BY <1>2, <2>1 DEF Moves, Copying
<1>3. CASE k \in DOMAIN users' /\ users'[k][f] = s
  <2>1. CASE k \notin DOMAIN users
    BY <1>1, <1>3, <2>1 DEF Moves
  <2>2. CASE k \in DOMAIN users /\ users'[k][f] = users[k][f]
    BY <1>3, <2>2 DEF Holds
  <2>3. CASE k \in DOMAIN users /\ users'[k][f] # users[k][f]
    <3>1. k = i /\ From(i, f, g, s)
      BY <1>3, <2>3 DEF Moves
    <3>. QED BY <1>1, <3>1 DEF From, Holds
  <2>. QED BY <2>1, <2>2, <2>3
<1>4. CASE \E r \in Request : req'[r].pc \in Copying /\ req'[r].rec = k /\ req'[r].copy[f] = s
  <2>1. PICK r \in Request : req'[r].pc \in Copying /\ req'[r].rec = k /\ req'[r].copy[f] = s
    BY <1>4
  <2>2. CASE req'[r] = req[r]
    BY <2>1, <2>2 DEF Holds
  <2>3. CASE req'[r] # req[r]
    <3>1. \/ k \in DOMAIN users /\ req'[r].copy = users[k]
          \/ req[r].pc \in Copying /\ k = req[r].rec /\ req'[r].copy = req[r].copy
      BY <1>2, <2>1, <2>3 DEF Turns
    <3>. QED BY <2>1, <3>1 DEF Holds
  <2>. QED BY <2>2, <2>3
<1>5. CASE \E r \in Request : /\ req'[r].pc = "store" /\ f = "token"
                              /\ req'[r].rec = k /\ req'[r].secret = s
  <2>1. PICK r \in Request : /\ req'[r].pc = "store" /\ f = "token"
                             /\ req'[r].rec = k /\ req'[r].secret = s
    BY <1>5
  <2>2. CASE req'[r] = req[r]
    BY <2>1, <2>2 DEF Holds
  <2>3. CASE req'[r] # req[r]
    BY <1>2, <2>1, <2>3 DEF Turns
  <2>. QED BY <2>2, <2>3
<1>. QED BY <1>3, <1>4, <1>5 DEF Holds

(* So fields stay apart.                                                    *)
LEMMA ApartNext ==
  ASSUME Control, Apart, NEW i, NEW g, Moves(i, g) PROVE Apart'
<1>. SUFFICES ASSUME NEW s \in Secret, NEW k \in ID, NEW f \in SecretField, Holds(s, k, f)'
              PROVE  /\ s <= made'
                     /\ \A j \in ID, h \in SecretField : Holds(s, j, h)' => k = j /\ f = h
  BY DEF Apart
<1>1. made \in Nat /\ made' \in {made, made + 1} /\ s \in Nat
  BY DEF Control, Tables, Moves, Secret
<1>2. \A j \in ID, h \in SecretField : Holds(s, j, h)' =>
        Holds(s, j, h) \/ (s = made + 1 /\ made' = made + 1 /\ j = i /\ h = g)
  BY HoldsBack
<1>3. CASE Holds(s, k, f)
  BY <1>1, <1>2, <1>3 DEF Apart
<1>4. CASE s = made + 1 /\ made' = made + 1 /\ k = i /\ f = g
  <2>1. ~(s <= made)
    BY <1>1, <1>4
  <2>. QED BY <1>1, <1>2, <1>4, <2>1 DEF Apart
<1>. QED BY <1>2, <1>3, <1>4

(* A secret that retires was current before the step, and is not after it.  *)
LEMMA Retiring ==
  ASSUME Control, SecretInv, Retires, NEW s, s \in retired', s \notin retired
  PROVE  \E k \in DOMAIN users, f \in SecretField :
           k \in ID /\ s \in Secret /\ users[k][f] = s /\ users'[k][f] # s /\ Holds(s, k, f)
<1>1. PICK k \in DOMAIN users, f \in SecretField : s # None /\ users[k][f] = s /\ users'[k][f] # s
  BY DEF Retires
<1>2. k \in ID /\ users[k] \in User
  BY AccountsAssumption DEF Control, Tables, ID
<1>3. users[k][f] \in {None} \cup Secret
  BY <1>2 DEF User, SecretField
<1>. QED BY <1>1, <1>2, <1>3 DEF Holds

(* What is retired stays retired.                                           *)
LEMMA RetiredNext ==
  ASSUME Control, SecretInv, Effect, NEW i \in ID, NEW g \in SecretField, Moves(i, g)
  PROVE  SecretsStayRetired' /\ \A s \in retired' : s <= made'
<1>1. /\ made \in Nat /\ made' \in {made, made + 1} /\ Retires /\ retired' \subseteq Secret
      /\ retired \subseteq Secret
  BY DEF Control, Tables, Moves, Effect
<1>2. ASSUME NEW s \in retired' PROVE s \in Secret /\ s <= made /\ s \in Nat
  <2>1. CASE s \in retired
    BY <1>1, <2>1 DEF SecretInv, Secret
  <2>2. CASE s \notin retired
    <3>1. PICK k \in ID, f \in SecretField : s \in Secret /\ Holds(s, k, f)
      BY <1>1, <2>2, Retiring
    <3>. QED BY <3>1 DEF SecretInv, Apart, Secret
  <2>. QED BY <2>1, <2>2
<1>3. \A s \in retired' : s <= made'
  BY <1>1, <1>2
<1>4. ASSUME NEW k \in DOMAIN users', NEW f \in SecretField, users'[k][f] \in retired'
      PROVE  f \in undone'[k]
  <2>. DEFINE s == users'[k][f]
  <2>1. s \in Secret /\ s <= made /\ s # None /\ s \in Nat
    BY <1>2, <1>4 DEF Secret, None
  <2>2. k \in DOMAIN users
    BY <2>1 DEF Moves
  <2>3. k \in ID
    BY <2>2, AccountsAssumption DEF Control, Tables, ID
  <2>4. CASE s = users[k][f]
    <3>1. Holds(s, k, f)
      BY <2>2, <2>4 DEF Holds
    <3>2. s \in retired
      <4>1. SUFFICES ASSUME s \notin retired PROVE FALSE
        OBVIOUS
      <4>. HIDE DEF s
      <4>2. PICK l \in DOMAIN users, h \in SecretField :
              l \in ID /\ users'[l][h] # s /\ Holds(s, l, h)
        BY <1>1, <1>4, <4>1, Retiring DEF s
      <4>3. l = k /\ h = f
        BY <2>1, <2>3, <3>1, <4>2 DEF SecretInv, Apart
      <4>. QED BY <4>2, <4>3 DEF s
    <3>3. f \in undone[k]
      BY <2>2, <2>4, <3>2 DEF SecretInv, SecretsStayRetired
    <3>. QED BY <2>3, <3>3 DEF Moves
  <2>5. CASE s # users[k][f]
    <3>1. k = i /\ From(i, f, g, s)
      BY <2>2, <2>5 DEF Moves
    <3>2. CASE s = made + 1
      BY <1>1, <2>1, <3>2
    <3>3. CASE \E r \in Request : /\ f = "token" /\ req[r].pc = "store" /\ req[r].rec = i
                                  /\ s = req[r].secret /\ req'[r].pc # "store"
      <4>. HIDE DEF s
      <4>1. PICK r \in Request : /\ f = "token" /\ req[r].pc = "store" /\ req[r].rec = i
                                 /\ s = req[r].secret
        BY <3>3
      <4>2. s \notin retired /\ s # users[i].token
        BY <4>1 DEF SecretInv, Pending
      <4>3. Holds(s, i, "token")
        BY <4>1 DEF Holds
      <4>4. PICK l \in DOMAIN users, h \in SecretField :
              l \in ID /\ users[l][h] = s /\ Holds(s, l, h)
        BY <1>1, <1>4, <4>2, Retiring DEF s
      <4>5. l = i /\ h = "token"
        BY <2>1, <4>3, <4>4 DEF SecretInv, Apart, SecretField
      <4>. QED BY <4>2, <4>4, <4>5
    <3>4. CASE f \in undone'[i]
      BY <3>1, <3>4
    <3>. QED BY <2>1, <3>1, <3>2, <3>3, <3>4 DEF From
  <2>. QED BY <2>4, <2>5
<1>. QED BY <1>3, <1>4 DEF SecretsStayRetired

(* Tokens that are about to be stored stay new.                             *)
LEMMA PendingNext ==
  ASSUME Control, SecretInv, Effect, NEW i \in ID, NEW g \in SecretField, Moves(i, g),
         NEW r \in Request
  PROVE  Pending(r)'
<1>. SUFFICES ASSUME req'[r].pc = "store"
              PROVE  /\ req'[r].secret \notin retired'
                     /\ req'[r].secret # users'[req'[r].rec].token
                     /\ \A s \in Request \ {r} : req'[s].rec = req'[r].rec =>
                          /\ req'[s].pc = "store" => req'[s].secret # req'[r].secret
                          /\ req'[s].pc \in Copying => req'[s].copy.token # req'[r].secret
  BY DEF Pending
<1>. DEFINE x == req'[r].secret
            k == req'[r].rec
<1>1. /\ made \in Nat /\ made' \in {made, made + 1} /\ Retires
      /\ "token" \in SecretField
  BY DEF Control, Tables, Moves, Effect, SecretField
<1>2. k \in DOMAIN users' /\ k \in ID /\ x \in Secret /\ x # None /\ x \in Nat
  <2>1. Jobs' /\ Tables'
    BY DEF Effect
  <2>2. k \in DOMAIN users' /\ x \in Secret
    BY <2>1 DEF Jobs, JobInv, Signing
  <2>. QED BY <2>1, <2>2, AccountsAssumption DEF Tables, ID, Secret, None
<1>3. Idle.pc = "idle" /\ "idle" \notin Copying
  BY IdleFacts DEF Control, Jobs, Copying
<1>4. \A s \in Request : req'[s] = req[s] \/ req'[s] = Idle \/ Turns(s, i, g)
  BY DEF Moves
<1>. HIDE DEF x, k
<1>5. ASSUME NEW s \in Request, req[s].pc \in Copying
      PROVE  Holds(req[s].copy.token, req[s].rec, "token") /\ req[s].rec \in ID
  <2>1. req[s].rec \in DOMAIN users
    BY <1>5 DEF Control, Jobs, JobInv, Copying
  <2>. QED BY <1>5, <2>1, AccountsAssumption DEF Holds, Control, Tables, ID
<1>6. CASE req'[r] = req[r]
  <2>1. /\ req[r].pc = "store" /\ req[r].secret = x /\ req[r].rec = k
        /\ x \notin retired /\ x # users[k].token
        /\ \A s \in Request \ {r} : req[s].rec = k =>
             /\ req[s].pc = "store" => req[s].secret # x
             /\ req[s].pc \in Copying => req[s].copy.token # x
    BY <1>6 DEF SecretInv, Pending, x, k
  <2>2. Holds(x, k, "token") /\ x <= made /\ k \in DOMAIN users
    <3>1. Holds(x, k, "token")
      BY <2>1 DEF Holds
    <3>2. k \in DOMAIN users
      BY <2>1 DEF Control, Jobs, JobInv, Signing
    <3>. QED BY <1>1, <1>2, <3>1, <3>2 DEF SecretInv, Apart
  <2>3. x \notin retired'
    <3>1. SUFFICES ASSUME x \in retired' PROVE FALSE
      OBVIOUS
    <3>2. PICK l \in DOMAIN users, h \in SecretField :
            l \in ID /\ users[l][h] = x /\ Holds(x, l, h)
      BY <1>1, <2>1, <3>1, Retiring
    <3>3. l = k /\ h = "token"
      BY <1>1, <1>2, <2>2, <3>2 DEF SecretInv, Apart
    <3>. QED BY <2>1, <3>2, <3>3
  <2>4. x # users'[k].token
    <3>1. SUFFICES ASSUME users'[k]["token"] = x PROVE FALSE
      OBVIOUS
    <3>2. k = i /\ From(i, "token", g, x)
      BY <1>1, <2>1, <2>2, <3>1 DEF Moves
    <3>3. CASE x = made + 1
      BY <1>1, <1>2, <2>2, <3>3
    <3>4. CASE \E s \in Request : /\ req[s].pc = "store" /\ req[s].rec = i
                                  /\ x = req[s].secret /\ req'[s].pc # "store"
      <4>1. PICK s \in Request : /\ req[s].pc = "store" /\ req[s].rec = k
                                 /\ x = req[s].secret /\ req'[s].pc # "store"
        BY <3>2, <3>4
      <4>. QED BY <2>1, <4>1
    <3>5. CASE \E s \in Request : req[s].pc \in Copying /\ req[s].rec = i /\ x = req[s].copy.token
      <4>1. PICK s \in Request : /\ req[s].pc \in Copying /\ req[s].rec = k
                                 /\ x = req[s].copy.token
        BY <3>2, <3>5
      <4>2. s # r
        BY <2>1, <4>1 DEF Copying
      <4>. QED BY <2>1, <4>1, <4>2
    <3>. QED BY <1>2, <3>2, <3>3, <3>4, <3>5 DEF From
  <2>5. ASSUME NEW s \in Request \ {r}, req'[s].rec = k
        PROVE  /\ req'[s].pc = "store" => req'[s].secret # x
               /\ req'[s].pc \in Copying => req'[s].copy.token # x
    <3>1. CASE req'[s] = req[s]
      BY <2>1, <2>5, <3>1
    <3>2. CASE req'[s] = Idle
      BY <1>3, <3>2
    <3>3. CASE Turns(s, i, g)
      <4>1. ASSUME req'[s].pc = "store" PROVE req'[s].secret # x
        BY <1>1, <1>2, <2>2, <3>3, <4>1 DEF Turns
      <4>2. ASSUME req'[s].pc \in Copying PROVE req'[s].copy.token # x
        BY <2>1, <2>5, <3>3, <4>2 DEF Turns
      <4>. QED BY <4>1, <4>2
    <3>. QED BY <1>4, <3>1, <3>2, <3>3
  <2>. QED BY <2>3, <2>4, <2>5 DEF x, k
<1>7. CASE req'[r] # req[r]
  <2>1. Turns(r, i, g)
    BY <1>3, <1>4, <1>7
  <2>2. /\ x = made + 1 /\ made' = made + 1 /\ k = i /\ g = "token"
        /\ \A s \in Request \ {r} : req'[s] = req[s]
    BY <2>1 DEF Turns, x, k
  <2>3. ASSUME NEW y, y <= made PROVE y # x
    BY <1>1, <2>2, <2>3
  <2>4. ASSUME NEW y \in Secret, NEW l \in ID, NEW f \in SecretField, Holds(y, l, f)
        PROVE  y # x
    BY <2>3, <2>4 DEF SecretInv, Apart
  <2>5. x \notin retired'
    <3>1. SUFFICES ASSUME x \in retired' PROVE FALSE
      OBVIOUS
    <3>2. x \notin retired
      BY <2>3 DEF SecretInv
    <3>3. PICK l \in DOMAIN users, h \in SecretField :
            l \in ID /\ users[l][h] = x /\ Holds(x, l, h)
      BY <1>1, <3>1, <3>2, Retiring
    <3>. QED BY <1>2, <2>4, <3>3
  <2>6. ASSUME NEW s \in Request, req[s].pc \in Copying PROVE req[s].copy.token # x
    BY <1>1, <1>2, <1>5, <2>4, <2>6
  <2>7. ASSUME NEW s \in Request, req[s].pc = "store" PROVE req[s].secret # x
    <3>1. req[s].secret \in Secret /\ req[s].rec \in ID
      <4>1. JobInv(req[s]) /\ req[s] \in Job
        BY DEF Control, Jobs
      <4>. QED BY <2>7, <4>1 DEF JobInv, Signing, Job
    <3>2. Holds(req[s].secret, req[s].rec, "token")
      BY <2>7 DEF Holds
    <3>. QED BY <1>1, <2>4, <3>1, <3>2
  <2>8. x # users'[k].token
    <3>1. SUFFICES ASSUME users'[k]["token"] = x PROVE FALSE
      OBVIOUS
    <3>2. k \in DOMAIN users
      BY <1>1, <1>2, <3>1 DEF Moves
    <3>3. users[k]["token"] # x
      <4>1. SUFFICES ASSUME users[k]["token"] = x PROVE FALSE
        OBVIOUS
      <4>2. Holds(x, k, "token")
        BY <3>2, <4>1 DEF Holds
      <4>. QED BY <1>1, <1>2, <2>4, <4>2
    <3>4. From(i, "token", g, x)
      BY <1>1, <3>1, <3>2, <3>3 DEF Moves
    <3>5. ~(\A s \in Request : req'[s].pc = "store" => req'[s] = req[s])
      BY <1>7
    <3>. QED BY <1>2, <2>6, <2>7, <3>4, <3>5 DEF From
  <2>. QED BY <2>2, <2>5, <2>6, <2>7, <2>8 DEF x, k
<1>. QED BY <1>6, <1>7

(* Every step keeps all that.                                               *)
LEMMA SecretNext == Control /\ SecretInv /\ [Next]_vars => SecretInv'
<1>. SUFFICES ASSUME Control, SecretInv, [Next]_vars PROVE SecretInv'
  OBVIOUS
<1>1. CASE Next
  <2>1. Effect
    BY <1>1, StepEffect
  <2>2. PICK i \in ID, g \in SecretField : Moves(i, g)
    BY <2>1 DEF Effect
  <2>3. Apart'
    BY <2>2, ApartNext DEF SecretInv
  <2>4. SecretsStayRetired' /\ \A s \in retired' : s <= made'
    BY <2>1, <2>2, RetiredNext
  <2>5. \A r \in Request : Pending(r)'
    BY <2>1, <2>2, PendingNext
  <2>. QED BY <2>3, <2>4, <2>5 DEF SecretInv
<1>2. CASE UNCHANGED vars
  <2>1. UNCHANGED <<users, retired, undone, made, req>>
    BY <1>2 DEF vars, table
  <2>. QED BY <2>1 DEF SecretInv, Apart, Holds, SecretsStayRetired, Pending
<1>. QED BY <1>1, <1>2

(* At the start at most one secret is there.                                *)
LEMMA SecretInit == Init => SecretInv
<1>. SUFFICES ASSUME Init PROVE SecretInv
  OBVIOUS
<1>1. PICK known, before, admin \in BOOLEAN, n \in Name :
        /\ before => known
        /\ made = IF before THEN 1 ELSE 0
        /\ users = IF before
                   THEN <<[NewUser(n, n, admin, FALSE) EXCEPT !.token = 1]>> ELSE <<>>
        /\ retired = {}
        /\ req = [r \in Request |-> Idle]
  BY DEF Init
<1>2. Idle.pc = "idle"
  BY IdleFacts
<1>3. ASSUME NEW s \in Secret, NEW i \in ID, NEW f \in SecretField, Holds(s, i, f)
      PROVE  s <= made /\ i = 1 /\ f = "token"
  <2>1. i \in DOMAIN users /\ users[i][f] = s
    BY <1>1, <1>2, <1>3 DEF Holds, Copying
  <2>2. before /\ users = <<[NewUser(n, n, admin, FALSE) EXCEPT !.token = 1]>>
    <3>1. CASE before
      BY <1>1, <3>1
    <3>2. CASE ~before
      <4>1. users = <<>>
        BY <1>1, <3>2
      <4>. QED BY <2>1, <4>1
    <3>. QED BY <3>1, <3>2
  <2>3. i = 1 /\ made = 1
    BY <1>1, <2>1, <2>2
  <2>4. users[1]["token"] = 1 /\ users[1]["refresh"] = None /\ users[1]["nonce"] = None
    BY <2>2 DEF NewUser
  <2>5. s # None
    BY DEF Secret, None
  <2>6. f = "token" /\ s = 1
    <3>1. f \in {"token", "refresh", "nonce"}
      BY DEF SecretField
    <3>2. users[1][f] = s
      BY <2>1, <2>3
    <3>. QED BY <2>4, <2>5, <3>1, <3>2
  <2>. QED BY <2>3, <2>6
<1>4. Apart
  BY <1>3 DEF Apart
<1>5. SecretsStayRetired /\ \A r \in Request : Pending(r)
  BY <1>1, <1>2 DEF SecretsStayRetired, Pending
<1>. QED BY <1>1, <1>4, <1>5 DEF SecretInv

(* A secret that was replaced or cleared is current again only in a field   *)
(* that a save of an old record has set back.                               *)
THEOREM RetiredSecrets == Spec => []SecretsStayRetired
<1>1. SecretInv => SecretsStayRetired
  BY DEF SecretInv
<1>2. Spec => [](Control /\ SecretInv)
  BY Controlled, SecretInit, SecretNext, PTL DEF Spec
<1>. QED BY <1>1, <1>2, PTL

-----------------------------------------------------------------------------
(* Links.                                                                   *)

(* A link that counts as working is not one that a reset under way spends.  *)
LinkInv == LinkWorks /\ \A i \in ID : Resetting(i) => latest[i] = None

(* Every step keeps that.                                                   *)
LEMMA LinkNext == Control /\ LinkInv /\ [Next]_vars => LinkInv'
<1>. SUFFICES ASSUME Control, LinkInv, [Next]_vars PROVE LinkInv'
  OBVIOUS
<1>1. CASE Next
  <2>1. Effect
    BY <1>1, StepEffect
  <2>2. PICK i \in ID, g \in SecretField : Moves(i, g)
    BY <2>1 DEF Effect
  <2>3. Nonces
    BY <2>1 DEF Effect
  <2>4. Idle.op = "none"
    BY IdleFacts DEF Control, Jobs
  <2>5. ASSUME NEW k \in ID, Resetting(k)' PROVE latest'[k] = None
    <3>1. PICK s \in Request : req'[s].op = "reset" /\ req'[s].rec = k
      BY <2>5 DEF Resetting
    <3>2. Keeps(s) \/ latest'[k] = None
      BY <2>2, <2>4, <3>1 DEF Moves, Turns, Keeps
    <3>3. ASSUME Keeps(s) PROVE latest'[k] = None
      <4>1. Resetting(k)
        BY <3>1, <3>3 DEF Keeps, Resetting
      <4>2. latest[k] = None
        BY <4>1 DEF LinkInv
      <4>. QED BY <2>3, <4>1, <4>2 DEF Nonces
    <3>. QED BY <3>2, <3>3
  <2>6. ASSUME NEW k \in DOMAIN users', latest'[k] # None
        PROVE  users'[k].nonce = latest'[k] \/ "nonce" \in undone'[k]
    <3>1. k \in ID
      BY <2>1, AccountsAssumption DEF Effect, Tables, ID
    <3>2. CASE latest'[k] # latest[k]
      BY <2>3, <2>6, <3>1, <3>2 DEF Nonces
    <3>3. CASE latest'[k] = latest[k]
      <4>1. k \in DOMAIN users
        BY <2>6, <3>1, <3>3 DEF Control, Tables
      <4>2. users[k].nonce = latest[k] \/ "nonce" \in undone[k]
        BY <2>6, <3>3, <4>1 DEF LinkInv, LinkWorks
      <4>3. undone[k] \subseteq undone'[k]
        BY <2>2, <3>1 DEF Moves
      <4>4. CASE users'[k].nonce = users[k].nonce
        BY <3>3, <4>2, <4>3, <4>4
      <4>5. CASE users'[k].nonce # users[k].nonce
        <5>1. \/ "nonce" \in undone'[k] \/ users'[k].nonce = latest'[k] \/ latest'[k] = None
              \/ Resetting(k)
          BY <2>3, <4>1, <4>5 DEF Nonces
        <5>2. ~Resetting(k)
          BY <2>6, <3>1, <3>3 DEF LinkInv
        <5>. QED BY <2>6, <5>1, <5>2
      <4>. QED BY <4>4, <4>5
    <3>. QED BY <3>2, <3>3
  <2>. QED BY <2>5, <2>6 DEF LinkInv, LinkWorks
<1>2. CASE UNCHANGED vars
  <2>1. UNCHANGED <<users, undone, latest, req>>
    BY <1>2 DEF vars, table
  <2>. QED BY <2>1 DEF LinkInv, LinkWorks, Resetting
<1>. QED BY <1>1, <1>2

(* The newest link to reset a password works until it is used, but for an   *)
(* older link's reset under way and a stale save.                           *)
THEOREM NewestLinkWorks == Spec => []LinkWorks
<1>1. Init => LinkInv
  <2>. SUFFICES ASSUME Init PROVE LinkInv
    OBVIOUS
  <2>1. PICK n \in Name : req = [r \in Request |-> Idle] /\ latest = [i \in ID |-> None]
    BY DEF Init
  <2>2. Idle.op = "none"
    BY <2>1, IdleFacts
  <2>3. DOMAIN users \subseteq ID
    BY ControlInit, AccountsAssumption DEF Control, Tables, ID
  <2>. QED BY <2>1, <2>2, <2>3 DEF LinkInv, LinkWorks, Resetting
<1>2. LinkInv => LinkWorks
  BY DEF LinkInv
<1>3. Spec => [](Control /\ LinkInv)
  BY <1>1, Controlled, LinkNext, PTL DEF Spec
<1>. QED BY <1>2, <1>3, PTL

-----------------------------------------------------------------------------
(* Logins.                                                                  *)

(* A login alone holds Gitea's token, and when it is about to finish that   *)
(* token is stored.                                                         *)
Settled ==
  \A r \in Request : req[r].op = "login" /\ alone[r] =>
    /\ req[r].pc = "store" => gitea[req[r].name].token = req[r].secret
    /\ req[r].pc = "finish" => /\ users[req[r].rec].token = gitea[req[r].name].token
                              /\ users[req[r].rec].token # None

(* A request that starts is neither storing nor finishing.                  *)
LEMMA StartsQuietly ==
  ASSUME Control, NEW r \in Request, NEW op, NEW new, Starts(r, op, new),
         "pc" \in DOMAIN new, new.pc \notin {"store", "finish"}
  PROVE  /\ \A s \in Request \ {r} : req'[s] = req[s]
         /\ req'[r].pc \notin {"store", "finish"}
<1>. DEFINE p == Over(new, [Idle EXCEPT !.op = op])
<1>1. req' = [req EXCEPT ![r] = p]
  BY DEF Starts
<1>2. p["pc"] = new["pc"]
  BY DEF Over
<1>. HIDE DEF p
<1>. QED BY <1>1, <1>2 DEF Control, Jobs

(* Nor is one that goes on to another step.                                 *)
LEMMA GoesQuietly ==
  ASSUME Control, NEW r \in Request, NEW from, NEW to \in Step \cup {"over"}, Goes(r, from, to)
  PROVE  /\ \A s \in Request \ {r} : req'[s] = req[s]
         /\ to \notin {"store", "finish"} => req'[r].pc \notin {"store", "finish"}
<1>1. Name # {} /\ Jobs
  BY DEF Control, Jobs
<1>2. (\A s \in Request \ {r} : req'[s] = req[s]) /\ Became(req[r], req'[r], to)
  BY <1>1, GoesFacts
<1>3. Idle.pc = "idle"
  BY <1>1, IdleFacts
<1>. QED BY <1>2, <1>3 DEF Became

(* A handler moves no other request, and only three steps of a login get it *)
(* to store a token or to finish.                                           *)
LEMMA HandleMoves ==
  ASSUME Control, NEW r \in Request, Handle(r)
  PROVE  /\ \A s \in Request \ {r} : req'[s] = req[s]
         /\ Makes(r) \/ Stores(r) \/ Checks(r) \/ req'[r].pc \notin {"store", "finish"}
<1>. DEFINE Others == \A s \in Request \ {r} : req'[s] = req[s]
            Quietly == req'[r].pc \notin {"store", "finish"}
<1>1. /\ Name # {} /\ Jobs /\ req \in [Request -> Job]
      /\ Idle.pc = "idle"
  BY IdleFacts DEF Control, Jobs
<1>2. CASE Looks(r) \/ BulkCreates(r) \/ Reads(r) \/ Changes(r) \/ Forgets(r) \/ ResetValidates(r)
  <2>1. PICK op, new : /\ Starts(r, op, new) /\ "pc" \in DOMAIN new
                       /\ new.pc \notin {"store", "finish"}
    <3>1. CASE Looks(r)
      <4>1. PICK n \in Name, op \in {"login", "oauth", "push"} :
              \/ Starts(r, op, [pc |-> "missing", name |-> n, role |-> gitea[n].isAdmin])
              \/ Starts(r, op, [pc |-> "found", name |-> n, rec |-> First(Named(n)),
                                copy |-> users[First(Named(n))], role |-> gitea[n].isAdmin])
        BY <3>1 DEF Looks
      <4>. QED BY <4>1
    <3>2. CASE BulkCreates(r)
      BY <3>2 DEF BulkCreates
    <3>3. CASE Reads(r)
      BY <3>3 DEF Reads
    <3>4. CASE Changes(r)
      BY <3>4 DEF Changes
    <3>5. CASE Forgets(r)
      BY <3>5 DEF Forgets
    <3>6. CASE ResetValidates(r)
      BY <3>6 DEF ResetValidates
    <3>. QED BY <1>2, <3>1, <3>2, <3>3, <3>4, <3>5, <3>6
  <2>. QED BY <2>1, StartsQuietly
<1>3. CASE Found(r) \/ Proceeds(r) \/ Revokes(r) \/ EmailIsFree(r)
           \/ EmailAtGitea(r) \/ Saves(r) \/ ForgetMails(r) \/ ForgetStamps(r)
           \/ ResetClears(r) \/ Fails(r)
  <2>1. PICK to \in (Step \cup {"over"}) \ {"store", "finish"} : Goes(r, req[r].pc, to)
    <3>1. {"known", "revoke", "check", "over", "make", "checked", "moved", "clearing",
           "stamp"} \subseteq (Step \cup {"over"}) \ {"store", "finish"}
      BY DEF Step, Signing, Copying, Mailing
    <3>2. CASE Found(r) \/ Revokes(r)
      BY <3>1, <3>2 DEF Found, Revokes, Goes
    <3>3. CASE Proceeds(r)
      BY <3>1, <3>3 DEF Proceeds, Goes
    <3>4. CASE EmailIsFree(r) \/ EmailAtGitea(r)
      BY <3>1, <3>4 DEF EmailIsFree, EmailAtGitea, Goes
    <3>5. CASE Saves(r)
      BY <3>1, <3>5 DEF Saves, SavesRecord, Goes
    <3>6. CASE ForgetMails(r) \/ ForgetStamps(r) \/ ResetClears(r)
      BY <3>1, <3>6 DEF ForgetMails, ForgetStamps, ResetClears, Goes
    <3>7. CASE Fails(r)
      BY <3>1, <3>7 DEF Fails, Goes
    <3>. QED BY <1>3, <3>2, <3>3, <3>4, <3>5, <3>6, <3>7
  <2>. QED BY <2>1, GoesQuietly
<1>4. CASE \/ Creates(r) \/ BulkInserts(r) \/ Commits(r)
           \/ BulkFinds(r) \/ ChangeReads(r) \/ ResetReads(r)
  <2>1. CASE Creates(r) \/ BulkInserts(r)
    <3>1. PICK n, user : req' = [req EXCEPT ![r].pc = "inserting", ![r].rec = n,
                                            ![r].copy = user, ![r].created = TRUE]
      BY <2>1 DEF Creates, BulkInserts, Insert
    <3>. QED BY <1>1, <3>1 DEF Job
  <2>2. CASE BulkFinds(r)
    BY <1>1, <2>2 DEF BulkFinds, Job
  <2>3. CASE ChangeReads(r)
    BY <1>1, <2>3 DEF ChangeReads, Job
  <2>4. CASE ResetReads(r)
    BY <1>1, <2>4 DEF ResetReads, Job
  <2>5. CASE Commits(r)
    <3>1. PICK p : /\ req' = [req EXCEPT ![r] = p]
                   /\ \/ p = [Idle EXCEPT !.op = "bulk", !.pc = "inserted", !.name = req[r].name]
                      \/ p = [req[r] EXCEPT !.pc = "known"]
      BY <2>5 DEF Commits
    <3>2. Idle \in Job /\ req[r] \in Job
      BY <1>1, IdleFacts
    <3>3. p.pc \in {"inserted", "known"}
      BY <3>1, <3>2 DEF Job
    <3>. QED BY <1>1, <3>1, <3>3
  <2>. QED BY <1>4, <2>1, <2>2, <2>3, <2>4, <2>5
<1>5. CASE Finishes(r) \/ ForgetNonce(r)
  <2>1. PICK from \in {"finish", "forget"}, to \in {"over", "mail"} : MakeSecret(from, r, to)
    BY <1>5 DEF Finishes, ForgetNonce
  <2>2. to \in Step \cup {"over"} /\ (to = "mail" => to \in Step \ Dropping)
    BY DEF Step, Mailing, Dropping
  <2>3. /\ \A s \in Request \ {r} : req'[s] = req[s]
        /\ to = "over" => req'[r] = Idle
        /\ to \in Step \ Dropping => req'[r].pc = to
    BY <2>1, <2>2, MakeFacts
  <2>. QED BY <1>1, <2>2, <2>3
<1>6. CASE Makes(r) \/ Stores(r) \/ Checks(r)
  <2>1. PICK p : req' = [req EXCEPT ![r] = p]
    BY <1>6 DEF Makes, Stores, Checks, MakeSecret, Goes
  <2>. QED BY <1>1, <1>6, <2>1
<1>. QED BY <1>2, <1>3, <1>4, <1>5, <1>6 DEF Handle, Login, Bulk, Record, Reset

(* What a login alone relies on stays as it is, unless it takes the step.   *)
LEMMA SettledStays ==
  ASSUME Control, Settled, NEW r \in Request, TokensStay(r), alone[r],
         req'[r] = req[r], req'[r].op = "login"
  PROVE  /\ req'[r].pc = "store" => gitea'[req'[r].name].token = req'[r].secret
         /\ req'[r].pc = "finish" =>
              /\ users'[req'[r].rec].token = gitea'[req'[r].name].token
              /\ users'[req'[r].rec].token # None
<1>1. JobInv(req[r])
  BY DEF Control, Jobs
<1>2. req[r].pc = "finish" => req[r].rec # None
  BY <1>1 DEF JobInv, Signing
<1>. QED BY <1>2 DEF Settled, TokensStay

(* The step of a login itself.                                              *)
LEMMA LoginSettled ==
  ASSUME Control, Settled, NEW r \in Request, Handle(r), alone[r], req'[r].op = "login"
  PROVE  /\ req'[r].pc = "store" => gitea'[req'[r].name].token = req'[r].secret
         /\ req'[r].pc = "finish" =>
              /\ users'[req'[r].rec].token = gitea'[req'[r].name].token
              /\ users'[req'[r].rec].token # None
<1>1. /\ Name # {} /\ Jobs /\ Tables /\ req \in [Request -> Job] /\ JobInv(req[r])
      /\ req[r] \in Job /\ Idle.pc = "idle" /\ Idle.op = "none"
  BY IdleFacts DEF Control, Jobs
<1>2. CASE Makes(r)
  <2>1. CASE gitea[req[r].name].token = None
    <3>1. MakeSecret("make", r, "store") /\ gitea' = [gitea EXCEPT ![req[r].name].token = made + 1]
      BY <1>2, <2>1 DEF Makes
    <3>2. req'[r] = [req[r] EXCEPT !.secret = made + 1, !.pc = "store"]
      BY <1>1, <3>1 DEF MakeSecret, At, Job
    <3>3. req'[r].pc = "store" /\ req'[r].secret = made + 1 /\ req'[r].name = req[r].name
      BY <1>1, <3>2 DEF Job
    <3>4. req[r].name \in Name /\ gitea \in [Name -> Account]
      BY <1>1 DEF Job, Tables
    <3>5. gitea'[req[r].name].token = made + 1
      BY <3>1, <3>4 DEF Account
    <3>. QED BY <3>3, <3>5
  <2>2. CASE gitea[req[r].name].token # None
    <3>1. Goes(r, "make", "over")
      BY <1>2, <2>2 DEF Makes
    <3>2. req'[r] = Idle
      BY <1>1, <3>1 DEF Goes, At
    <3>. QED BY <1>1, <3>2
  <2>. QED BY <2>1, <2>2
<1>3. CASE Stores(r)
  <2>1. PICK to \in {"over", "finish", "check"} : Goes(r, "store", to)
    BY <1>3 DEF Stores
  <2>2. Became(req[r], req'[r], to) /\ req[r].pc = "store"
    BY <1>1, <2>1, GoesFacts DEF Step, Signing
  <2>3. CASE to = "finish"
    <3>1. /\ req'[r].pc = "finish" /\ req'[r].op = req[r].op /\ req'[r].name = req[r].name
          /\ req'[r].rec = req[r].rec
      BY <2>2, <2>3 DEF Became
    <3>2. gitea[req[r].name].token = req[r].secret
      BY <2>2, <3>1 DEF Settled
    <3>3. req[r].secret \in Secret /\ req[r].rec \in DOMAIN users
      BY <1>1, <2>2 DEF JobInv, Signing
    <3>4. Update(req[r].rec, [token |-> req[r].secret]) /\ gitea' = gitea
      BY <1>3 DEF Stores
    <3>5. IsEdit([token |-> req[r].secret])
      BY <3>3 DEF IsEdit, Flags, SecretField
    <3>6. users'[req[r].rec]["token"] = req[r].secret
      BY <1>1, <3>3, <3>4, <3>5, EditFacts DEF SecretField
    <3>7. req[r].secret # None
      BY <3>3 DEF Secret, None
    <3>. QED BY <3>1, <3>2, <3>4, <3>6, <3>7
  <2>4. CASE to # "finish"
    <3>1. req'[r].pc \notin {"store", "finish"}
      BY <1>1, <2>1, <2>2, <2>4 DEF Became
    <3>. QED BY <3>1
  <2>. QED BY <2>3, <2>4
<1>4. CASE Checks(r)
  <2>1. /\ gitea' = gitea /\ users' = users
    BY <1>4 DEF Checks, table
  <2>2. CASE users[req[r].rec].token # None /\ users[req[r].rec].token = gitea[req[r].name].token
    <3>1. req'[r] = At(req[r], "finish")
      BY <1>1, <1>4, <2>2 DEF Checks
    <3>2. Became(req[r], req'[r], "finish")
      BY <1>1, <3>1, AtFacts DEF Step, Signing
    <3>3. req'[r].pc = "finish" /\ req'[r].name = req[r].name /\ req'[r].rec = req[r].rec
      BY <3>2 DEF Became
    <3>. QED BY <2>1, <2>2, <3>3
  <2>3. CASE ~(users[req[r].rec].token # None /\ users[req[r].rec].token = gitea[req[r].name].token)
    <3>1. PICK q \in Job, to \in {"revoke", "over"} : req'[r] = At(q, to)
      <4>1. [req[r] EXCEPT !.again = TRUE] \in Job
        BY <1>1 DEF Job
      <4>2. \/ req'[r] = At([req[r] EXCEPT !.again = TRUE], "revoke")
            \/ req'[r] = At(req[r], "over")
        BY <1>1, <1>4, <2>3 DEF Checks
      <4>. QED BY <1>1, <4>1, <4>2
    <3>2. Became(q, req'[r], to)
      BY <1>1, <3>1, AtFacts DEF Step, Signing
    <3>3. req'[r].pc \notin {"store", "finish"}
      BY <1>1, <3>1, <3>2 DEF Became
    <3>. QED BY <3>3
  <2>. QED BY <2>2, <2>3
<1>5. CASE req'[r].pc \notin {"store", "finish"}
  BY <1>5
<1>. QED BY <1>2, <1>3, <1>4, <1>5, HandleMoves

(* Every step keeps that: a step that is not the login's own either leaves  *)
(* the tokens of its user alone, or the login is not alone any more.        *)
LEMMA SettledNext == Control /\ Settled /\ [Next]_vars => Settled'
<1>. SUFFICES ASSUME Control, Settled, [Next]_vars,
                     NEW s \in Request, req'[s].op = "login", alone'[s]
              PROVE  /\ req'[s].pc = "store" => gitea'[req'[s].name].token = req'[s].secret
                     /\ req'[s].pc = "finish" =>
                          /\ users'[req'[s].rec].token = gitea'[req'[s].name].token
                          /\ users'[req'[s].rec].token # None
  BY DEF Settled
<1>1. Idle.op = "none"
  BY IdleFacts DEF Control, Jobs
<1>2. ASSUME NEW r \in Request, Handle(r), Watch({r})
      PROVE  /\ alone[s] /\ (s = r \/ TokensStay(s))
             /\ s # r => req'[s] = req[s]
  BY <1>2, HandleMoves DEF Watch
<1>3. CASE \E r \in Request : Handle(r) /\ Watch({r})
  <2>1. PICK r \in Request : Handle(r) /\ Watch({r})
    BY <1>3
  <2>2. alone[s] /\ (s = r \/ TokensStay(s)) /\ (s # r => req'[s] = req[s])
    BY <1>2, <2>1
  <2>3. CASE s = r
    BY <2>1, <2>2, <2>3, LoginSettled
  <2>4. CASE s # r
    BY <2>2, <2>4, SettledStays
  <2>. QED BY <2>3, <2>4
<1>4. CASE Environment /\ Watch({})
  <2>1. alone[s] /\ TokensStay(s)
    BY <1>4 DEF Watch
  <2>2. req' = req \/ req' = [r \in Request |-> Idle]
    BY <1>4 DEF Environment, Logout, ThreeMinutes, GiteaChanges, LinkExpires, Restart
  <2>3. req'[s] = req[s]
    BY <1>1, <2>2
  <2>. QED BY <2>1, <2>3, SettledStays
<1>5. CASE UNCHANGED vars
  BY <1>5 DEF vars, table, Settled
<1>. QED BY <1>3, <1>4, <1>5 DEF Next

(* A login that no other request for the tokens of its user interrupts      *)
(* leaves the valid token, and the role that Gitea says or said.            *)
THEOREM LoginsSettle == Spec => LoginSettles
<1>1. Init => Settled
  <2>. SUFFICES ASSUME Init PROVE Settled
    OBVIOUS
  <2>1. PICK n \in Name : req = [r \in Request |-> Idle]
    BY DEF Init
  <2>2. Idle.op = "none"
    BY <2>1, IdleFacts
  <2>. QED BY <2>1, <2>2 DEF Settled
<1>2. ASSUME Control, Settled, NEW r \in Request,
             Finishes(r), req[r].op = "login", alone[r]
      PROVE  LET i == req[r].rec
             IN  /\ users'[i].token = gitea'[req[r].name].token /\ users'[i].token # None
                 /\ users'[i].isAdmin = (req[r].role \/ users[i].isAdmin)
  <2>. DEFINE i == req[r].rec
              edit == Over(Role(r), [refresh |-> made + 1])
  <2>1. /\ req[r].pc = "finish" /\ Update(i, edit) /\ gitea' = gitea /\ made < MaxSecrets
    BY <1>2 DEF Finishes, MakeSecret
  <2>2. Tables /\ JobInv(req[r]) /\ req[r].role \in BOOLEAN
    BY <1>2 DEF Control, Jobs, Job
  <2>3. i \in DOMAIN users
    BY <2>1, <2>2 DEF JobInv, Signing
  <2>4. users[i]["token"] = gitea[req[r].name].token /\ users[i]["token"] # None
    BY <1>2, <2>1 DEF Settled
  <2>5. made + 1 \in Secret
    BY <2>1, <2>2, AccountsAssumption DEF Tables, Secret
  <2>6. /\ IsEdit(edit) /\ "token" \notin DOMAIN edit
        /\ "isAdmin" \in DOMAIN edit <=> req[r].role
        /\ req[r].role => edit["isAdmin"] = TRUE
    <3>1. CASE req[r].role
      <4>1. Role(r) = [isAdmin |-> TRUE]
        BY <3>1 DEF Role
      <4>2. /\ DOMAIN edit = {"isAdmin", "refresh"} /\ edit["isAdmin"] = TRUE
            /\ edit["refresh"] = made + 1
        BY <4>1 DEF Over
      <4>. QED BY <2>5, <3>1, <4>2 DEF IsEdit, Flags, SecretField
    <3>2. CASE ~req[r].role
      <4>1. Role(r) = <<>>
        BY <3>2 DEF Role
      <4>2. /\ DOMAIN edit = {"refresh"} /\ edit["refresh"] = made + 1
        BY <4>1 DEF Over
      <4>. QED BY <2>5, <3>2, <4>2 DEF IsEdit, Flags, SecretField
    <3>. QED BY <3>1, <3>2
  <2>. HIDE DEF edit
  <2>7. /\ users'[i]["token"] = users[i]["token"]
        /\ users'[i].isAdmin = IF "isAdmin" \in DOMAIN edit THEN edit.isAdmin ELSE users[i].isAdmin
    BY <2>1, <2>2, <2>3, <2>6, EditFacts DEF SecretField
  <2>8. users[i].isAdmin \in BOOLEAN
    <3>1. users[i] \in User
      BY <2>2, <2>3 DEF Tables
    <3>. QED BY <3>1 DEF User
  <2>9. users'[i].isAdmin = (req[r].role \/ users[i].isAdmin)
    <3>1. CASE req[r].role
      BY <2>6, <2>7, <3>1
    <3>2. CASE ~req[r].role
      BY <2>2, <2>6, <2>7, <2>8, <3>2
    <3>. QED BY <3>1, <3>2
  <2>. QED BY <2>1, <2>4, <2>7, <2>9
<1>3. Control /\ Settled =>
        \A r \in Request : Finishes(r) /\ req[r].op = "login" /\ alone[r] =>
          LET i == req[r].rec
          IN  /\ users'[i].token = gitea'[req[r].name].token /\ users'[i].token # None
              /\ users'[i].isAdmin = (req[r].role \/ users[i].isAdmin)
  BY <1>2
<1>4. Spec => [](Control /\ Settled)
  BY <1>1, Controlled, SettledNext, PTL DEF Spec
<1>. QED BY <1>3, <1>4, PTL DEF LoginSettles
=============================================================================
