------------------------------ MODULE Accounts ------------------------------
(***************************************************************************)
(* The table of users and the handlers that write it: logins and logouts   *)
(* (handlers/auth.go), what users change (handlers/user.go), what admins   *)
(* change (handlers/admin.go), the creation of users (handlers/gitea.go,   *)
(* handlers/webhook.go), and the tokens they keep (utils/token.go).        *)
(*                                                                         *)
(* A user has a record per ID; no constraint forbids two of one name.      *)
(* Handlers use no transaction: every statement and every call of Gitea is *)
(* a step.  Half of them change the columns they mean to; the others read  *)
(* the whole record, set some of its fields and save the whole record.     *)
(* What creates a record is a transaction of its own: its INSERT draws the *)
(* ID, and only its COMMIT lets others see the record.                     *)
(* Failures that change nothing (a body that cannot be read, a wrong       *)
(* password, missing permission) are left out, except between two steps.   *)
(***************************************************************************)
EXTENDS Integers, Sequences, FiniteSets, FiniteSetsExt

CONSTANTS
  Name,         \* users of Gitea; a name is also the user's first e-mail address
  Spare,        \* other e-mail addresses
  Request,      \* requests under way at the same time, each a call of a handler
  MaxRequests,  \* bound on all requests
  MaxUsers,     \* bound on the table, which has a record at the start
  MaxSecrets    \* bound on the tokens and nonces that are made, and one there is

ASSUME AccountsAssumption ==
  /\ IsFiniteSet(Name) /\ Name \cap Spare = {}
  /\ MaxRequests \in Nat /\ MaxUsers \in Nat \ {0} /\ MaxSecrets \in Nat \ {0}

Email   == Name \cup Spare
ID      == 1 .. MaxUsers
Secret  == 1 .. MaxSecrets
None    == 0                 \* the empty string, and the ID of nobody

VARIABLES
  users,      \* User, by ID
  hidden,     \* IDs of users that are not committed: under way, or rolled back
  overtaken,  \* history: names with a record that became visible after a later one
  gitea,      \* per name: its account in Gitea
  links,      \* mailed links that are less than 5 minutes old
  begun,      \* how many requests there were
  made,       \* how many secrets were made
  req,        \* per request: its step, and what it has read
  retired,    \* history: secrets that were current and then no longer
  undone,     \* history: per ID, secrets that a stale save has set back
  latest,     \* history: per ID, the newest nonce, until it is used
  alone       \* history: per request, no other step touched the tokens of its user

seen  == <<hidden, overtaken>>
table == <<users, seen, retired, undone>>
vars  == <<table, gitea, links, begun, made, req, latest, alone>>

User == [name : Name, enable : BOOLEAN, email : Email,
         token : {None} \cup Secret,      \* GiteaToken
         refresh : {None} \cup Secret,    \* RefreshToken
         nonce : {None} \cup Secret,
         isAdmin : BOOLEAN, resetPassword : BOOLEAN,
         recent : BOOLEAN]   \* ForgetPasswordRequestTime, less than 3 minutes ago

SecretField == {"token", "refresh", "nonce"}
Edit == {"enable", "email", "refresh", "resetPassword"}

Account == [exists : BOOLEAN, isAdmin : BOOLEAN, email : Email,
            token : {None} \cup Secret]   \* the access token named OJ-API

(* A new record: Enable is true by default.  IsPublic is left out.          *)
NewUser(n, email, admin, reset) ==
  [name |-> n, enable |-> TRUE, email |-> email, token |-> None,
   refresh |-> None, nonce |-> None, isAdmin |-> admin, resetPassword |-> reset,
   recent |-> FALSE]

Idle == [op |-> "none", pc |-> "idle", name |-> CHOOSE n \in Name : TRUE,
         rec |-> None, copy |-> <<>>, edit |-> <<>>, secret |-> None,
         role |-> FALSE, again |-> FALSE, created |-> FALSE]


TypeOK ==
  /\ users \in Seq(User) /\ Len(users) <= MaxUsers
  /\ hidden \subseteq DOMAIN users /\ overtaken \subseteq Name
  /\ gitea \in [Name -> Account]
  /\ links \subseteq [rec : ID, nonce : Secret]
  /\ begun \in 0 .. MaxRequests /\ made \in 0 .. MaxSecrets
  /\ \A r \in Request :
       /\ req[r].name \in Name
       /\ req[r].rec \in {None} \cup DOMAIN users
       /\ req[r].pc \in {"read", "checked"} =>
            req[r].copy \in User /\ DOMAIN req[r].edit \subseteq Edit
       /\ req[r].pc \in {"store", "mail"} => req[r].secret \in Secret
       /\ req[r].pc \in {"inserting", "known", "store", "check", "finish"} =>
            req[r].rec # None
  /\ retired \subseteq Secret
  /\ undone \in [ID -> SUBSET SecretField]
  /\ latest \in [ID -> {None} \cup Secret]
  /\ alone \in [Request -> BOOLEAN]

(* Either nobody has used the API yet, or a user has logged in before.      *)
Init ==
  \E known, before, admin \in BOOLEAN, n \in Name :
    /\ before => known
    /\ made = IF before THEN 1 ELSE 0
    /\ users = IF before
               THEN <<[NewUser(n, n, admin, FALSE) EXCEPT !.token = 1]>> ELSE <<>>
    /\ gitea = [k \in Name |->
                  [exists |-> known /\ k = n, isAdmin |-> known /\ k = n /\ admin,
                   email |-> k, token |-> IF k = n THEN made ELSE None]]
    /\ hidden = {} /\ overtaken = {}
    /\ links = {} /\ retired = {} /\ begun = 0
    /\ req = [r \in Request |-> Idle]
    /\ undone = [i \in ID |-> {}]
    /\ latest = [i \in ID |-> None]
    /\ alone = [r \in Request |-> TRUE]

-----------------------------------------------------------------------------
(* What a query sees: the records of a name, and of an e-mail address.      *)
(* First returns the one with the lowest ID.                                *)
Visible     == DOMAIN users \ hidden
Named(n)    == {i \in Visible : users[i].name = n}
Mailed(m)   == {i \in Visible : users[i].email = m}
First(ids)  == Min(ids)

(* The fields in edit replace those of the record.                          *)
Over(edit, rec) ==
  [f \in DOMAIN edit \cup DOMAIN rec |-> IF f \in DOMAIN edit THEN edit[f] ELSE rec[f]]

(* One UPDATE of the columns in edit.                                       *)
Update(i, edit) ==
  LET new == Over(edit, users[i])
  IN  /\ users' = [users EXCEPT ![i] = new]
      /\ retired' = retired \cup
           ({users[i][f] : f \in {g \in SecretField : new[g] # users[i][g]}} \ {None})
      /\ UNCHANGED seen

(* The INSERT of a Create.  Whatever its request does next is its COMMIT.   *)
Insert(r, from, user) ==
  /\ req[r].pc = from /\ Len(users) < MaxUsers
  /\ users' = Append(users, user)
  /\ hidden' = hidden \cup {Len(users) + 1}
  /\ req' = [req EXCEPT ![r].pc = "inserting", ![r].rec = Len(users) + 1,
                        ![r].copy = user, ![r].created = TRUE]
  /\ UNCHANGED <<overtaken, retired, undone, begun>>

(* A request forgets what it has read when it is over, and what it does not *)
(* need any more.                                                           *)
At(q, pc) ==
  CASE pc = "over" -> Idle
    [] pc \in {"revoke", "check", "finish", "stamp", "clearing"} ->
         [q EXCEPT !.pc = pc, !.copy = <<>>, !.edit = <<>>, !.secret = None,
                   !.role = @ /\ q.op = "login"]
    [] OTHER -> [q EXCEPT !.pc = pc]

Goes(r, from, to) ==
  req[r].pc = from /\ req' = [req EXCEPT ![r] = At(@, to)] /\ UNCHANGED begun

Starts(r, op, new) ==
  /\ req[r].pc = "idle" /\ begun < MaxRequests /\ begun' = begun + 1
  /\ req' = [req EXCEPT ![r] = Over(new, [Idle EXCEPT !.op = op])]

MakeSecret(from, r, to) ==
  /\ req[r].pc = from /\ made < MaxSecrets
  /\ made' = made + 1 /\ UNCHANGED begun
  /\ req' = [req EXCEPT ![r] = At([@ EXCEPT !.secret = made + 1], to)]

-----------------------------------------------------------------------------
(* AuthBasic, OAuthCallback, CreateUserAccessToken and PostGiteaHook: the   *)
(* user of a name is looked for, and created when there is none.            *)

(* Mutant: Take, which returns any record.                                  *)
LooksTakes(r) ==
  \E n \in Name, op \in {"login", "oauth", "push"} :
    /\ gitea[n].exists /\ (op = "push" => Named(n) = {})
    /\ IF Named(n) = {}
       THEN Starts(r, op, [pc |-> "missing", name |-> n, role |-> gitea[n].isAdmin])
       ELSE \E i \in Named(n) :
              Starts(r, op, [pc |-> "found", name |-> n, rec |-> i,
                             copy |-> users[i], role |-> gitea[n].isAdmin])
    /\ UNCHANGED <<table, gitea, links, made, latest>>

(* Gitea knows the user, and says whether it is an admin.  A push of a user *)
(* that has a record changes nothing here.                                  *)
Looks(r) ==
  \E n \in Name, op \in {"login", "oauth", "push"} :
    /\ gitea[n].exists /\ (op = "push" => Named(n) = {})
    /\ IF Named(n) = {}
       THEN Starts(r, op, [pc |-> "missing", name |-> n, role |-> gitea[n].isAdmin])
       ELSE LET i == First(Named(n))
            IN  Starts(r, op, [pc |-> "found", name |-> n, rec |-> i,
                               copy |-> users[i], role |-> gitea[n].isAdmin])
    /\ UNCHANGED <<table, gitea, links, made, latest>>

Creates(r) ==
  LET q == req[r]
  IN  /\ Insert(r, "missing",
           NewUser(q.name, gitea[q.name].email, q.op = "oauth" /\ q.role, FALSE))
      /\ UNCHANGED <<gitea, links, made, latest>>

(* The COMMIT of a Create; the request of an admin keeps nothing of it.     *)
Commits(r) ==
  LET q == req[r]
  IN  /\ q.pc = "inserting"
      /\ hidden' = hidden \ {q.rec}
      /\ overtaken' = overtaken \cup {n \in {q.name} : \E i \in Named(n) : i > q.rec}
      /\ req' = [req EXCEPT
           ![r] = IF q.op = "bulk"
                  THEN [Idle EXCEPT !.op = "bulk", !.pc = "inserted", !.name = q.name]
                  ELSE [q EXCEPT !.pc = "known"]]
      /\ UNCHANGED <<users, retired, undone, gitea, links, made, latest, begun>>

(* What OAuthCallback updates of a user that it found: a struct, so that a  *)
(* role that is false is skipped.                                           *)
Role(r) == IF req[r].role THEN [isAdmin |-> TRUE] ELSE <<>>

(* Mutant: OAuthCallback saves the record that it has read.                 *)
FoundSaves(r) ==
  LET q == req[r]
  IN  /\ Goes(r, "found", "known")
      /\ IF q.op = "oauth"
         THEN Update(q.rec, Over(Over(Role(r), [email |-> gitea[q.name].email]), q.copy))
         ELSE UNCHANGED <<users, seen, retired>>
      /\ UNCHANGED <<undone, gitea, links, made, latest>>

(* The others change nothing yet.                                           *)
Found(r) ==
  LET q == req[r]
  IN  /\ Goes(r, "found", "known")
      /\ IF q.op = "oauth"
         THEN Update(q.rec, Over(Role(r), [email |-> gitea[q.name].email]))
         ELSE UNCHANGED <<users, seen, retired>>
      /\ UNCHANGED <<undone, gitea, links, made, latest>>

(* Admins create users in Gitea and here, and a goroutine makes their       *)
(* tokens: it finds the record again by its name.                           *)
BulkCreates(r) ==
  \E n \in Name :
    /\ ~gitea[n].exists
    /\ gitea' = [gitea EXCEPT ![n].exists = TRUE]
    /\ Starts(r, "bulk", [pc |-> "created", name |-> n])
    /\ UNCHANGED <<table, links, made, latest>>

BulkInserts(r) ==
  /\ Insert(r, "created", NewUser(req[r].name, req[r].name, FALSE, TRUE))
  /\ UNCHANGED <<gitea, links, made, latest>>

(* Mutant: the ID of the record is not kept.                                *)
BulkFindsNone(r) ==
  /\ req[r].pc = "inserted"
  /\ req' = [req EXCEPT ![r].pc = "known", ![r].copy = users[First(Named(req[r].name))]]
  /\ UNCHANGED <<table, gitea, links, made, latest, begun>>

BulkFinds(r) ==
  LET i == First(Named(req[r].name))
  IN  /\ req[r].pc = "inserted"
      /\ req' = [req EXCEPT ![r].pc = "known", ![r].rec = i, ![r].copy = users[i]]
      /\ UNCHANGED <<table, gitea, links, made, latest, begun>>

(* Mutant: a token that is there is taken to be valid.                      *)
ProceedsTrusting(r) ==
  LET q == req[r]
  IN  /\ Goes(r, "known",
           CASE q.op \in {"login", "bulk"} /\ q.copy.token = None -> "revoke"
             [] q.op = "login" -> "finish"
             [] q.op = "oauth" /\ q.copy.token # None /\ q.copy.enable -> "check"
             [] OTHER -> "over")
      /\ UNCHANGED <<table, gitea, links, made, latest>>

(* A disabled user is turned away, and a user without a token gets one,     *)
(* unless it comes with OAuth.                                              *)
Proceeds(r) ==
  LET q == req[r]
      login == q.op = "login" /\ q.copy.enable
  IN  /\ Goes(r, "known",
           CASE (login \/ q.op = "bulk") /\ q.copy.token = None -> "revoke"
             [] login \/ (q.op = "oauth" /\ q.copy.enable /\ q.copy.token # None) -> "check"
             [] OTHER -> "over")
      /\ UNCHANGED <<table, gitea, links, made, latest>>

-----------------------------------------------------------------------------
(* The access token OJ-API is deleted, made and stored in three steps.      *)
Revokes(r) ==
  /\ Goes(r, "revoke", "make")
  /\ gitea' = [gitea EXCEPT ![req[r].name].token = None]
  /\ UNCHANGED <<table, links, made, latest>>

(* Gitea refuses a second token of a name: another request was faster.      *)
Makes(r) ==
  LET n == req[r].name
  IN  /\ IF gitea[n].token = None
         THEN /\ MakeSecret("make", r, "store")
              /\ gitea' = [gitea EXCEPT ![n].token = made + 1]
         ELSE Goes(r, "make", "over") /\ UNCHANGED <<made, gitea>>
      /\ UNCHANGED <<table, links, latest>>

(* StoreToken.  The login then checks the token that is stored by now.      *)
Stores(r) ==
  LET q == req[r]
  IN  /\ Goes(r, "store", CASE q.op = "bulk" -> "over" [] q.again -> "finish"
                            [] OTHER -> "check")
      /\ Update(q.rec, [token |-> q.secret])
      /\ UNCHANGED <<undone, gitea, links, made, latest>>

(* GetToken, and a call of Gitea with it.                                   *)
Checks(r) ==
  LET q == req[r]
      valid == users[q.rec].token # None /\ users[q.rec].token = gitea[q.name].token
  IN  /\ q.pc = "check"
      /\ req' = [req EXCEPT
           ![r] = IF valid THEN At(q, "finish")
                  ELSE IF q.op = "login" THEN At([q EXCEPT !.again = TRUE], "revoke")
                  ELSE At(q, "over")]
      /\ UNCHANGED <<table, gitea, links, made, latest, begun>>

(* The new refresh token replaces the old one.  AuthBasic writes the role   *)
(* only now, again with a struct.                                           *)
Finishes(r) ==
  LET q == req[r]
  IN  /\ MakeSecret("finish", r, "over")
      /\ Update(q.rec, Over(Role(r), [refresh |-> made + 1]))
      /\ UNCHANGED <<undone, gitea, links, latest>>

(* With any refresh token that was ever made for the user.                  *)
Logout(i) ==
  /\ i \in Visible /\ users[i].refresh # None
  /\ Update(i, [refresh |-> None])
  /\ UNCHANGED <<undone, gitea, links, made, req, latest, begun>>

-----------------------------------------------------------------------------
(* PostUserIsPublic, UpdateUserInfo, ChangeUserEmail, ResetUserPassword,    *)
(* ChangeUserPassword and ResetPassword read a record and save it.  IsPublic *)
(* is left out: its handler saves what UpdateUserInfo saves when it leaves  *)
(* Enable as it is.                                                         *)
Edits(op) ==
  CASE op = "info" -> [{"enable"} -> BOOLEAN]
    [] op = "email" -> [{"email"} -> Spare]
    [] op = "adminReset" -> {[refresh |-> None, resetPassword |-> TRUE]}

Reads(r) ==
  \E i \in Visible, op \in {"info", "email", "adminReset"} :
    \E edit \in Edits(op) :
      /\ Starts(r, op, [pc |-> "read", rec |-> i, copy |-> users[i], edit |-> edit,
                        name |-> users[i].name])
      /\ UNCHANGED <<table, gitea, links, made, latest>>

(* ChangeUserEmail: the address is free here, and is changed in Gitea.      *)
EmailIsFree(r) ==
  LET m == req[r].edit.email
  IN  /\ req[r].op = "email" /\ Mailed(m) = {}
      /\ Goes(r, "read", "checked")
      /\ UNCHANGED <<table, gitea, links, made, latest>>

EmailAtGitea(r) ==
  LET m == req[r].edit.email
  IN  /\ req[r].op = "email" /\ Goes(r, "checked", "moved")
      /\ \A n \in Name : gitea[n].email # m
      /\ gitea' = [gitea EXCEPT ![req[r].name].email = m]
      /\ UNCHANGED <<table, links, made, latest>>

(* The whole record is written, with what it was when it was read.          *)
SavesRecord(r, from, to) ==
  LET q == req[r]
      behind == {f \in SecretField \ DOMAIN q.edit : q.copy[f] # users[q.rec][f]}
  IN  /\ Goes(r, from, to)
      /\ Update(q.rec, Over(q.edit, q.copy))
      /\ undone' = [undone EXCEPT ![q.rec] = @ \cup behind]
      /\ UNCHANGED <<gitea, links, made, latest>>

Saves(r) ==
  CASE req[r].op = "email" -> SavesRecord(r, "moved", "over")
    [] req[r].op = "reset" -> SavesRecord(r, "read", "clearing")
    [] OTHER -> SavesRecord(r, "read", "over")

(* ChangeUserPassword: the new password is in Gitea; a goroutine finds the  *)
(* user again by its name, sends a mail and saves the record.               *)
Changes(r) ==
  \E n \in Name :
    /\ gitea[n].exists /\ Named(n) # {}
    /\ Starts(r, "change", [pc |-> "changed", name |-> n])
    /\ UNCHANGED <<table, gitea, links, made, latest>>

ChangeReads(r) ==
  LET i == First(Named(req[r].name))
  IN  /\ req[r].pc = "changed"
      /\ req' = [req EXCEPT ![r].pc = "read", ![r].rec = i, ![r].copy = users[i],
                            ![r].edit = [refresh |-> None]]
      /\ UNCHANGED <<table, gitea, links, made, latest, begun>>

-----------------------------------------------------------------------------
(* ForgetPassword: not within 3 minutes; a nonce, a mail, and the time.     *)
Forgets(r) ==
  \E m \in Email :
    /\ Mailed(m) # {} /\ ~users[First(Mailed(m))].recent
    /\ Starts(r, "forget", [pc |-> "forget", rec |-> First(Mailed(m))])
    /\ UNCHANGED <<table, gitea, links, made, latest>>

Resetting(i) ==
  \E r \in Request : req[r].op = "reset" /\ req[r].rec = i

ForgetNonce(r) ==
  LET i == req[r].rec
  IN  /\ MakeSecret("forget", r, "mail")
      /\ Update(i, [nonce |-> made + 1])
      /\ latest' = [latest EXCEPT ![i] = IF Resetting(i) THEN None ELSE made + 1]
      /\ UNCHANGED <<undone, gitea, links>>

ForgetMails(r) ==
  /\ Goes(r, "mail", "stamp")
  /\ links' = links \cup {[rec |-> req[r].rec, nonce |-> req[r].secret]}
  /\ UNCHANGED <<table, gitea, made, latest>>

(* Mutant: the record that was read before the nonce was made is saved.     *)
ForgetStampsRecord(r) ==
  /\ Goes(r, "stamp", "over")
  /\ Update(req[r].rec, [recent |-> TRUE, nonce |-> None])
  /\ UNCHANGED <<undone, gitea, links, made, latest>>

ForgetStamps(r) ==
  /\ Goes(r, "stamp", "over")
  /\ Update(req[r].rec, [recent |-> TRUE])
  /\ UNCHANGED <<undone, gitea, links, made, latest>>

(* ValidateResetToken; ResetPasswordPage does no more than that.            *)
LinkGood(l) == l \in links /\ users[l.rec].nonce = l.nonce

ResetValidates(r) ==
  \E l \in links :
    /\ LinkGood(l)
    /\ Starts(r, "reset", [pc |-> "validated", rec |-> l.rec])
    /\ latest' = [latest EXCEPT ![l.rec] = None]
    /\ UNCHANGED <<table, gitea, links, made>>

(* Saves follows, when Gitea has the new password.                          *)
ResetReads(r) ==
  /\ req[r].pc = "validated"
  /\ req' = [req EXCEPT ![r].pc = "read", ![r].copy = users[req[r].rec],
                        ![r].edit = [refresh |-> None]]
  /\ UNCHANGED <<table, gitea, links, made, latest, begun>>

(* The goroutine of ResetPassword, after its mail.                          *)
ResetClears(r) ==
  /\ Goes(r, "clearing", "over")
  /\ Update(req[r].rec, [nonce |-> None])
  /\ UNCHANGED <<undone, gitea, links, made, latest>>

-----------------------------------------------------------------------------
(* Gitea, the mail server or the body of the request fails; a goroutine     *)
(* that has only its record to save goes on.                                *)
Fails(r) ==
  /\ req[r].op # "change"
  /\ \E from \in {"revoke", "make", "read", "checked", "mail"} : Goes(r, from, "over")
  /\ UNCHANGED <<table, gitea, links, made, latest>>

(* The API is restarted: handlers and goroutines are gone.                  *)
Restart ==
  /\ \E r \in Request : req[r] # Idle
  /\ req' = [r \in Request |-> Idle]
  /\ UNCHANGED <<table, gitea, links, begun, made, latest>>

ThreeMinutes(i) ==
  /\ i \in Visible /\ users[i].recent
  /\ Update(i, [recent |-> FALSE])
  /\ UNCHANGED <<undone, gitea, links, made, req, latest, begun>>

LinkExpires ==
  /\ \E l \in links : /\ links' = links \ {l}
                      /\ latest' = [latest EXCEPT ![l.rec] =
                                      IF @ = l.nonce THEN None ELSE @]
  /\ UNCHANGED <<table, gitea, made, req, begun>>

(* In Gitea an admin is dismissed, or a user deletes the token OJ-API.      *)
GiteaChanges(n) ==
  /\ gitea[n].exists
  /\ \/ gitea[n].isAdmin /\ gitea' = [gitea EXCEPT ![n].isAdmin = FALSE]
     \/ gitea[n].token # None /\ gitea' = [gitea EXCEPT ![n].token = None]
  /\ UNCHANGED <<table, links, made, req, latest, begun>>

-----------------------------------------------------------------------------
Login(r) == Looks(r) \/ Creates(r) \/ Commits(r) \/ Found(r) \/ Proceeds(r) \/ Revokes(r)
              \/ Makes(r) \/ Stores(r) \/ Checks(r) \/ Finishes(r)
Bulk(r)  == BulkCreates(r) \/ BulkInserts(r) \/ BulkFinds(r)
Record(r) == Reads(r) \/ EmailIsFree(r) \/ EmailAtGitea(r) \/ Saves(r)
               \/ Changes(r) \/ ChangeReads(r)
Reset(r) == Forgets(r) \/ ForgetNonce(r) \/ ForgetMails(r) \/ ForgetStamps(r)
              \/ ResetValidates(r) \/ ResetReads(r) \/ ResetClears(r)
Handle(r) == Login(r) \/ Bulk(r) \/ Record(r) \/ Reset(r) \/ Fails(r)

Environment ==
  \/ \E i \in ID : Logout(i) \/ ThreeMinutes(i)
  \/ \E n \in Name : GiteaChanges(n)
  \/ LinkExpires \/ Restart

(* The tokens of the user that a request is about, here and in Gitea.       *)
TokensStay(r) ==
  LET q == req[r]
  IN  /\ gitea'[q.name].token = gitea[q.name].token
      /\ q.rec # None => users'[q.rec].token = users[q.rec].token

Watch(actors) ==
  alone' = [r \in Request |->
              \/ req'[r].op # "login"
              \/ alone[r] /\ (r \in actors \/ TokensStay(r))]

Next ==
  \/ \E r \in Request : Handle(r) /\ Watch({r})
  \/ Environment /\ Watch({})

Spec == Init /\ [][Next]_vars

-----------------------------------------------------------------------------
(* A refresh token, a Gitea token or a nonce that was replaced or cleared   *)
(* is never current again, although handlers hold old records for as long   *)
(* as Gitea and the mail server take: the one way back is a whole-record    *)
(* save whose record was read before.                                       *)
SecretsStayRetired ==
  \A i \in DOMAIN users, f \in SecretField :
    users[i][f] \in retired => f \in undone[i]

(* A name may get two records, but all logins agree on the first of them    *)
(* that can be seen: the second is used by the request that created it      *)
(* only.  Two that became visible against the order of their IDs are the    *)
(* exception: a login in between has found the later one.                   *)
SessionOfFirst ==
  [][\A r \in Request :
       LET q == req[r]
       IN  Finishes(r) => \/ q.created \/ q.name \in overtaken
                          \/ q.rec = First(Named(q.name))]_vars

(* A login that no other request for the tokens of its user interrupts      *)
(* heals the record: the Gitea token it leaves is the valid one, whatever   *)
(* was stored before.  The record is an admin's when Gitea says so or said  *)
(* so before.                                                               *)
LoginSettles ==
  [][\A r \in Request :
       Finishes(r) /\ req[r].op = "login" /\ alone[r] =>
         LET i == req[r].rec
         IN  /\ users'[i].token = gitea'[req[r].name].token /\ users'[i].token # None
             /\ users'[i].isAdmin = (req[r].role \/ users[i].isAdmin)]_vars

(* The newest link to reset a password works until it is used, unless a     *)
(* reset with an older link was under way when it was made, whose goroutine *)
(* clears whatever nonce there is.                                          *)
LinkWorks ==
  \A i \in DOMAIN users :
    latest[i] # None => users[i].nonce = latest[i] \/ "nonce" \in undone[i]
=============================================================================
