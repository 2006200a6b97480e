-------------------------- MODULE ResponseContacts --------------------------
(***************************************************************************)
(* The response directory of one zone, and the authorization of dispatch   *)
(* cases from it: DispatchApiApplication (src/api/dispatch_application.py),*)
(* PostgresContactDirectory and create_case (src/data/dispatch/postgres.py,*)
(* migration 009) and the store of telephone numbers (secrets.py).         *)
(*                                                                         *)
(* A contact is a row and a secret, changed one after the other; the row   *)
(* is read in one transaction and written whole in another.  The number    *)
(* itself is in the secret, the row has only its masked form and the       *)
(* consent.  A worker reads the row and then has the number dialled.       *)
(*                                                                         *)
(* The API's idempotency reservation is module Idempotency; what happens   *)
(* to an authorized case is module DispatchCoordinator.                    *)
(***************************************************************************)
EXTENDS Naturals, FiniteSets

CONSTANTS
  Contacts, Incidents, Numbers,
  Approved,        \* the numbers of the deployment's allowlist
  Directory,       \* contact -> its row at the start
  Keep,            \* stands for what a request leaves as it is
  Nowhere,         \* stands for what is not there
  Changes,         \* the requests this instance considers, see Change
  Clients,         \* concurrent requests
  KeyFor,          \* client -> the Idempotency-Key of its authorization
  DayQuota,        \* max_cases_per_tenant_day
  MaxOutages       \* bound: failures of a store and deaths of a process

Role == {"primary", "supervisor"}
Row == [there: BOOLEAN, role: Role, enabled: BOOLEAN, opted: BOOLEAN, mask: Numbers]
Change ==
  [op: {"create"}, contact: Contacts, role: Role, number: Numbers, enabled: BOOLEAN,
   opted: BOOLEAN]
  \cup [op: {"patch", "delete"}, contact: Contacts, role: Role \cup {Keep},
        number: Numbers \cup {Keep}, enabled: BOOLEAN \cup {Keep},
        opted: BOOLEAN \cup {Keep}]
  \cup [op: {"authorize"}, incident: Incidents]

ASSUME DirectoryAssumption ==
  /\ Approved \subseteq Numbers
  /\ {Keep, Nowhere} \cap (Numbers \cup Contacts) = {}
  /\ Directory \in [Contacts -> Row]
  /\ \A c \in Contacts : Directory[c].opted => Directory[c].mask \in Approved
  /\ Changes \subseteq Change
  /\ DOMAIN KeyFor = Clients
  /\ {DayQuota, MaxOutages} \subseteq Nat

VARIABLES
  rows,      \* contact -> its row of response_contacts
  numbers,   \* contact -> the number its secret holds, if any
  cases,     \* incident -> its dispatch case of today
  client,    \* client -> its request, how far it is, what it read
  dialer,    \* incident -> the worker that has a call made for its case
  outages,   \* failures and deaths so far
  upset,     \* history: contacts changed by requests that overlapped or broke off
  unsure,    \* history: contacts whose row was written, but the answer was lost
  barred,    \* history: contacts at rest for whom no call could be placed
  hasty      \* history: requests counted while another one's case was being made

contactVars == <<rows, numbers, cases, client, dialer, outages, upset, unsure, barred, hasty>>

NoCase == [state |-> "none", key |-> Nowhere, primary |-> Nowhere, supervisor |-> Nowhere]
Idle == [pc |-> "new", change |-> Nowhere, read |-> Nowhere, old |-> Nowhere,
         primary |-> Nowhere, supervisor |-> Nowhere]
NoCall == [pc |-> "idle", contact |-> Nowhere, clean |-> FALSE]

ContactInit ==
  /\ rows = Directory
  /\ numbers = [c \in Contacts |-> IF Directory[c].there THEN Directory[c].mask ELSE Nowhere]
  /\ cases = [i \in Incidents |-> NoCase]
  /\ client = [q \in Clients |-> Idle]
  /\ dialer = [i \in Incidents |-> NoCall]
  /\ outages = 0
  /\ upset = {} /\ unsure = {} /\ barred = {} /\ hasty = 0

In(q, pc) == client[q].pc = pc
(* How a request ends is what its client is answered; then it is over.     *)
Ends == {"done", "refused", "failed", "dead"}
Goto(q, pc) ==
  client' = [client EXCEPT ![q] = IF pc \in Ends THEN [Idle EXCEPT !.pc = "over"]
                                                 ELSE [@ EXCEPT !.pc = pc]]
Want(q) == client[q].change
Subject(q) == Want(q).contact
Outage == outages < MaxOutages /\ outages' = outages + 1

Changing(c) ==
  {q \in Clients : /\ client[q].pc \notin {"new", "over"}
                   /\ Want(q).op # "authorize" /\ Subject(q) = c}
(* History: a request that overlaps another one about the contact, or      *)
(* breaks off, upsets it.                                                  *)
Upset(c) == upset' = upset \cup {c}
(* History: the row of c was committed, its request is told that it failed *)
(* and undoes the number.                                                  *)
Unsure(c) == unsure' = unsure \cup {c}
Merged(new, old) == IF new = Keep THEN old ELSE new
Taken(c, row) ==
  \E d \in Contacts \ {c} : /\ rows[d].there /\ rows[d].enabled /\ row.enabled
                            /\ rows[d].role = row.role

-----------------------------------------------------------------------------
(* A request arrives.                                                      *)

Arrive(q, change) ==
  /\ In(q, "new")
  /\ client' = [client EXCEPT ![q].change = change, ![q].pc =
       CASE change.op = "create" -> "create"
         [] change.op \in {"patch", "delete"} -> "read"
         [] change.op = "authorize" -> "resolve"]
  /\ IF change.op # "authorize" /\ Changing(change.contact) # {}
     THEN Upset(change.contact) ELSE UNCHANGED upset
  /\ UNCHANGED <<rows, numbers, cases, dialer, outages, unsure, barred, hasty>>

-----------------------------------------------------------------------------
(* create_response_contact: the number first, then the row; without a row  *)
(* the number is removed again.  A contact's identifier is new.  A store's *)
(* error may hide that the number was written or removed.                  *)

CreateSecret(q) ==
  LET c == Subject(q)
      new == [numbers EXCEPT ![c] = Want(q).number] IN
  /\ In(q, "create")
  /\ \/ /\ Want(q).opted /\ Want(q).number \notin Approved
        /\ Goto(q, "refused") /\ UNCHANGED <<numbers, outages>>
     \/ /\ Want(q).opted => Want(q).number \in Approved
        /\ ~ rows[c].there /\ numbers[c] = Nowhere
        /\ \/ numbers' = new /\ Goto(q, "insert") /\ UNCHANGED outages
           \/ numbers' \in {numbers, new} /\ Outage /\ Goto(q, "failed")
  /\ UNCHANGED <<rows, cases, dialer, upset, unsure, barred, hasty>>

(* The index response_contacts_one_enabled_role_per_zone may refuse it.  An *)
(* error may hide that the transaction was committed.                      *)
InsertRow(q) ==
  LET c == Subject(q)
      row == [there |-> TRUE, role |-> Want(q).role, enabled |-> Want(q).enabled,
              opted |-> Want(q).opted, mask |-> Want(q).number]
      new == [rows EXCEPT ![c] = row] IN
  /\ In(q, "insert")
  /\ \/ /\ ~ Taken(c, row) /\ rows' = new
        /\ Goto(q, "done") /\ UNCHANGED <<outages, unsure>>
     \/ /\ Taken(c, row) /\ Goto(q, "drop") /\ UNCHANGED <<rows, outages, unsure>>
     \/ Outage /\ Goto(q, "drop") /\ UNCHANGED <<rows, unsure>>
     \/ /\ ~ Taken(c, row) /\ rows' = new /\ Unsure(c)
        /\ Outage /\ Goto(q, "drop")
  /\ UNCHANGED <<numbers, cases, dialer, upset, barred, hasty>>

(* Also the last step of delete_response_contact.                          *)
DropSecret(q) ==
  LET c == Subject(q)
      new == [numbers EXCEPT ![c] = Nowhere] IN
  /\ In(q, "drop")
  /\ \/ /\ numbers' = new /\ Goto(q, IF Want(q).op = "delete" THEN "done" ELSE "refused")
        /\ UNCHANGED <<outages, upset>>
     \/ /\ numbers' \in {numbers, new} /\ Outage
        /\ Goto(q, "failed") /\ Upset(c)
  /\ UNCHANGED <<rows, cases, dialer, unsure, barred, hasty>>

-----------------------------------------------------------------------------
(* update_response_contact.                                                *)

ReadRow(q) ==
  LET row == rows[Subject(q)] IN
  /\ In(q, "read")
  /\ IF row.there
     THEN client' = [client EXCEPT ![q].read = row,
                       ![q].pc = IF Want(q).op = "delete" THEN "delete" ELSE "check"]
     ELSE Goto(q, "refused")
  /\ UNCHANGED <<rows, numbers, cases, dialer, outages, upset, unsure, barred, hasty>>

(* Mutant of CheckNumber: only a request that opts in is checked.          *)
CheckOptIn(q) ==
  /\ In(q, "check")
  /\ Goto(q, IF Want(q).opted = TRUE /\ Want(q).number \notin Approved THEN "refused"
             ELSE IF Want(q).number = Keep THEN "update" ELSE "keep")
  /\ UNCHANGED <<rows, numbers, cases, dialer, outages, upset, unsure, barred, hasty>>

(* Whoever is opted in after the change must have an approved number.      *)
CheckNumber(q) ==
  LET number == Merged(Want(q).number, numbers[Subject(q)]) IN
  /\ In(q, "check")
  /\ \/ /\ Goto(q, IF Merged(Want(q).opted, client[q].read.opted) /\ number \notin Approved
                   THEN "refused"
                   ELSE IF Want(q).number = Keep THEN "update" ELSE "keep")
        /\ UNCHANGED outages
     \/ Outage /\ Goto(q, "failed")
  /\ UNCHANGED <<rows, numbers, cases, dialer, upset, unsure, barred, hasty>>

KeepOldNumber(q) ==
  /\ In(q, "keep")
  /\ IF numbers[Subject(q)] = Nowhere THEN Goto(q, "failed")
     ELSE client' = [client EXCEPT ![q].pc = "put", ![q].old = numbers[Subject(q)]]
  /\ UNCHANGED <<rows, numbers, cases, dialer, outages, upset, unsure, barred, hasty>>

(* put_secret_value outside the try: an error may hide that it was done.   *)
PutSecret(q) ==
  LET c == Subject(q)
      new == [numbers EXCEPT ![c] = Want(q).number] IN
  /\ In(q, "put")
  /\ \/ /\ numbers[c] = Nowhere /\ Goto(q, "failed")
        /\ UNCHANGED <<numbers, outages, upset>>
     \/ /\ numbers[c] # Nowhere /\ numbers' = new /\ Goto(q, "update")
        /\ UNCHANGED <<outages, upset>>
     \/ /\ numbers[c] # Nowhere /\ Outage /\ numbers' \in {numbers, new}
        /\ Goto(q, "failed") /\ Upset(c)
  /\ dialer' = [i \in Incidents |->
                  [dialer[i] EXCEPT !.clean = @ /\ dialer[i].contact # c]]
  /\ UNCHANGED <<rows, cases, unsure, barred, hasty>>

(* Mutant of RestoreSecret: the new number stays although the row does not *)
(* follow.                                                                 *)
LeaveSecret(q) ==
  /\ In(q, "restore")
  /\ Goto(q, "refused")
  /\ UNCHANGED <<rows, numbers, cases, dialer, outages, upset, unsure, barred, hasty>>

(* The except branch puts the old number back.                             *)
RestoreSecret(q) ==
  LET c == Subject(q)
      old == IF numbers[c] = Nowhere THEN numbers
             ELSE [numbers EXCEPT ![c] = client[q].old] IN
  /\ In(q, "restore")
  /\ \/ numbers' = old /\ Goto(q, "refused") /\ UNCHANGED <<outages, upset>>
     \/ numbers' \in {numbers, old} /\ Outage /\ Goto(q, "failed") /\ Upset(c)
  /\ UNCHANGED <<rows, cases, dialer, unsure, barred, hasty>>

(* Mutant of UpdateRow: columns the request leaves unset are set as well.  *)
UpdateUnset(q) ==
  /\ In(q, "update")
  /\ rows' = [rows EXCEPT ![Subject(q)].enabled = Want(q).enabled,
                           ![Subject(q)].opted = Want(q).opted]
  /\ Goto(q, "done")
  /\ UNCHANGED <<numbers, cases, dialer, outages, upset, unsure, barred, hasty>>

(* UPDATE sets every column: those the request leaves alone as read before.*)
UpdateRow(q) ==
  LET c == Subject(q)
      read == client[q].read
      row == [there |-> TRUE, role |-> Merged(Want(q).role, read.role),
              enabled |-> Merged(Want(q).enabled, read.enabled),
              opted |-> Merged(Want(q).opted, read.opted),
              mask |-> Merged(Want(q).number, read.mask)]
      new == [rows EXCEPT ![c] = row]
      broken == IF Want(q).number = Keep THEN "refused" ELSE "restore" IN
  /\ In(q, "update")
  /\ \/ /\ rows[c].there /\ ~ Taken(c, row) /\ rows' = new
        /\ Goto(q, "done") /\ UNCHANGED <<outages, unsure>>
     \/ /\ ~ rows[c].there /\ Goto(q, "refused") /\ UNCHANGED <<rows, outages, unsure>>
     \/ /\ rows[c].there /\ Taken(c, row) /\ Goto(q, broken)
        /\ UNCHANGED <<rows, outages, unsure>>
     \/ Outage /\ Goto(q, broken) /\ UNCHANGED <<rows, unsure>>
     \/ /\ rows[c].there /\ ~ Taken(c, row) /\ rows' = new
        /\ Outage /\ Goto(q, broken)
        /\ IF broken = "restore" THEN Unsure(c) ELSE UNCHANGED unsure
  /\ UNCHANGED <<numbers, cases, dialer, upset, barred, hasty>>

(* delete_response_contact, one transaction: an active case is a conflict, *)
(* any other case a violated foreign key.  An error that hides the commit  *)
(* leaves the number behind.                                               *)
InUse(c) == \E i \in Incidents : c \in {cases[i].primary, cases[i].supervisor}

DeleteRow(q) ==
  LET c == Subject(q)
      gone == [rows EXCEPT ![c].there = FALSE] IN
  /\ In(q, "delete")
  /\ \/ /\ InUse(c) \/ ~ rows[c].there
        /\ Goto(q, "refused") /\ UNCHANGED <<rows, outages, upset>>
     \/ /\ ~ InUse(c) /\ rows[c].there /\ rows' = gone
        /\ Goto(q, "drop") /\ UNCHANGED <<outages, upset>>
     \/ /\ ~ InUse(c) /\ rows[c].there /\ rows' \in {rows, gone}
        /\ Outage /\ Goto(q, "failed") /\ Upset(c)
  /\ UNCHANGED <<numbers, cases, dialer, unsure, barred, hasty>>

-----------------------------------------------------------------------------
(* authorize_dispatch and the coordinator's authorize.                     *)

Available(role) ==
  {c \in Contacts : rows[c].there /\ rows[c].enabled /\ rows[c].opted /\ rows[c].role = role}
Path == {path \in Available("primary") \X Available("supervisor") :
           Cardinality(Available("primary")) = 1 /\ Cardinality(Available("supervisor")) = 1}

(* PostgresContactDirectory.resolve, called twice.                         *)
Resolve(q) ==
  /\ client[q].pc \in {"resolve", "resolve again"}
  /\ \/ Path = {} /\ Goto(q, "refused")
     \/ \E path \in Path :
          client' = [client EXCEPT
            ![q].pc = IF @ = "resolve" THEN "approve" ELSE "case",
            ![q].primary = path[1], ![q].supervisor = path[2]]
  /\ UNCHANGED <<rows, numbers, cases, dialer, outages, upset, unsure, barred, hasty>>

Approve(q) ==
  /\ In(q, "approve")
  /\ Goto(q, IF {numbers[client[q].primary], numbers[client[q].supervisor]} \subseteq Approved
             THEN "find" ELSE "refused")
  /\ UNCHANGED <<rows, numbers, cases, dialer, outages, upset, unsure, barred, hasty>>

(* The case this Idempotency-Key has made.                                 *)
KeyCase(q) == {i \in Incidents : cases[i].state # "none" /\ cases[i].key = KeyFor[q]}

(* find_case_by_idempotency, here to skip the quota, then in authorize to  *)
(* answer what was answered before.                                        *)
FindCase(q) ==
  /\ \/ In(q, "find") /\ Goto(q, IF KeyCase(q) = {} THEN "quota" ELSE "find again")
     \/ /\ In(q, "find again")
        /\ Goto(q, IF KeyCase(q) = {} THEN "resolve again"
                   ELSE IF KeyCase(q) = {Want(q).incident} THEN "done" ELSE "refused")
  /\ UNCHANGED <<rows, numbers, cases, dialer, outages, upset, unsure, barred, hasty>>

Making == {q \in Clients : client[q].pc \in {"find again", "resolve again", "case"}}
Today == Cardinality({i \in Incidents : cases[i].state # "none"})

(* Mutant of Quota: one more than the quota is let through.                *)
QuotaOffByOne(q) ==
  /\ In(q, "quota")
  /\ Goto(q, IF Today > DayQuota THEN "refused" ELSE "find again")
  /\ hasty' = IF Today < DayQuota /\ Making # {} THEN hasty + 1 ELSE hasty
  /\ UNCHANGED <<rows, numbers, cases, dialer, outages, upset, unsure, barred>>

(* The cases of the day are counted in a transaction of their own.         *)
Quota(q) ==
  /\ In(q, "quota")
  /\ Goto(q, IF Today >= DayQuota THEN "refused" ELSE "find again")
  /\ hasty' = IF Today < DayQuota /\ Making # {} THEN hasty + 1 ELSE hasty
  /\ UNCHANGED <<rows, numbers, cases, dialer, outages, upset, unsure, barred>>

Enabled(c, role) == rows[c].there /\ rows[c].enabled /\ rows[c].role = role

(* Mutant of CreateCase: without the trigger and the foreign keys.         *)
CreateCaseUnchecked(q) ==
  LET i == Want(q).incident IN
  /\ In(q, "case")
  /\ IF cases[i].state = "none"
     THEN /\ cases' = [cases EXCEPT ![i] =
               [state |-> "active", key |-> KeyFor[q], primary |-> client[q].primary,
                supervisor |-> client[q].supervisor]]
          /\ Goto(q, "done")
     ELSE Goto(q, "refused") /\ UNCHANGED cases
  /\ UNCHANGED <<rows, numbers, dialer, outages, upset, unsure, barred, hasty>>

(* create_case: the key's case stands; an incident has one case; the       *)
(* trigger wants both contacts enabled in their role, the foreign keys     *)
(* want their rows.                                                        *)
CreateCase(q) ==
  LET i == Want(q).incident IN
  /\ In(q, "case")
  /\ IF KeyCase(q) # {} THEN /\ Goto(q, IF KeyCase(q) = {i} THEN "done" ELSE "refused")
                             /\ UNCHANGED cases
     ELSE IF /\ cases[i].state = "none"
             /\ Enabled(client[q].primary, "primary")
             /\ Enabled(client[q].supervisor, "supervisor")
     THEN /\ cases' = [cases EXCEPT ![i] =
               [state |-> "active", key |-> KeyFor[q], primary |-> client[q].primary,
                supervisor |-> client[q].supervisor]]
          /\ Goto(q, "done")
     ELSE Goto(q, "refused") /\ UNCHANGED cases
  /\ UNCHANGED <<rows, numbers, dialer, outages, upset, unsure, barred, hasty>>

CloseCase(i) ==
  /\ cases[i].state = "active"
  /\ cases' = [cases EXCEPT ![i].state = "closed"]
  /\ UNCHANGED <<rows, numbers, client, dialer, outages, upset, unsure, barred, hasty>>

-----------------------------------------------------------------------------
(* dispatch_next: the contact is read, then its number is resolved and     *)
(* dialled.                                                                *)

LookUp(i) ==
  /\ cases[i].state = "active" /\ dialer[i].pc = "idle"
  /\ \E role \in Role :
       LET c == cases[i][role] IN
       /\ rows[c].there /\ rows[c].enabled /\ rows[c].opted /\ rows[c].role = role
       /\ dialer' = [dialer EXCEPT ![i] =
            [pc |-> "call", contact |-> c, clean |-> Changing(c) = {} /\ c \notin upset]]
  /\ UNCHANGED <<rows, numbers, cases, client, outages, upset, unsure, barred, hasty>>

(* The provider resolves the number and checks it against the deployment's *)
(* allowlist again; what it refuses is retried, to be refused again.       *)
PlaceCall(i) ==
  LET c == dialer[i].contact IN
  /\ dialer[i].pc = "call"
  /\ dialer' = [dialer EXCEPT ![i] = NoCall]
  /\ barred' = IF dialer[i].clean /\ c \notin unsure /\ numbers[c] \notin Approved
               THEN barred \cup {c} ELSE barred
  /\ UNCHANGED <<rows, numbers, cases, client, outages, upset, unsure, hasty>>

(* The process of a request dies.                                          *)
ClientDies(q) ==
  /\ client[q].pc \notin {"new", "over"}
  /\ Outage
  /\ Goto(q, "dead")
  /\ IF Want(q).op # "authorize" THEN Upset(Subject(q)) ELSE UNCHANGED upset
  /\ UNCHANGED <<rows, numbers, cases, dialer, unsure, barred, hasty>>

ContactNext ==
  \/ \E q \in Clients : \E change \in Changes : Arrive(q, change)
  \/ \E q \in Clients :
       \/ CreateSecret(q) \/ InsertRow(q) \/ DropSecret(q)
       \/ ReadRow(q) \/ CheckNumber(q) \/ KeepOldNumber(q) \/ PutSecret(q)
       \/ UpdateRow(q) \/ RestoreSecret(q) \/ DeleteRow(q)
       \/ Resolve(q) \/ Approve(q) \/ FindCase(q) \/ Quota(q) \/ CreateCase(q)
       \/ ClientDies(q)
  \/ \E i \in Incidents : CloseCase(i) \/ LookUp(i) \/ PlaceCall(i)

ContactSpec == ContactInit /\ [][ContactNext]_contactVars

-----------------------------------------------------------------------------
(* Properties                                                              *)

(* The shape of the state.                                                 *)
ContactTypeOK ==
  /\ rows \in [Contacts -> Row]
  /\ numbers \in [Contacts -> Numbers \cup {Nowhere}]
  /\ \A i \in Incidents :
       /\ cases[i].state \in {"none", "active", "closed"}
       /\ cases[i].state # "none" => {cases[i].primary, cases[i].supervisor} \subseteq Contacts
  /\ \A q \in Clients : Want(q) \in Changes \cup {Nowhere}
  /\ upset \cup unsure \cup barred \subseteq Contacts

(* Whoever a case names has a row, whatever is deleted at the same time,   *)
(* and a row has a number, whatever is half created, half changed or half  *)
(* deleted - the order of number and row, the foreign keys -, unless a     *)
(* commit was answered by an error: then the number of a row that is there *)
(* is taken away again.                                                    *)
CaseCanBeDialled ==
  /\ \A i \in Incidents, role \in Role :
       cases[i].state # "none" => rows[cases[i][role]].there
  /\ \A c \in Contacts \ unsure : rows[c].there => numbers[c] # Nowhere

(* The masked number on the reviewer's screen is that of the number which  *)
(* is dialled.  A change that is refused puts the old number back; only    *)
(* changes that overlapped or broke off half-way, and a commit answered by *)
(* an error, where the old number comes back under the new mask, part them.*)
MaskTellsNumber ==
  \A c \in Contacts \ (upset \cup unsure) :
    rows[c].there /\ Changing(c) = {} => rows[c].mask = numbers[c]

(* The number behind a row that consents passed the check of the request   *)
(* that gave it consent or number, so the provider's own check lets the    *)
(* call of a worker that read the row through: no ladder hangs on a number *)
(* that is refused at every retry.  Excepted are a contact somebody changes*)
(* between the worker's look and the call, and those parted as above.      *)
CallIsLetThrough == barred = {}

(* More cases than the quota only as far as requests were counted while    *)
(* another one's case was being made: the count and the case are two       *)
(* transactions, and each such request costs at most one case.             *)
DailyQuota == Today <= DayQuota + hasty

(* "Only a configured, opted-in demonstration contact may be called": an   *)
(* UPDATE writes no column its request leaves unset, so that nobody's      *)
(* opt-out is undone.  It writes the consent it has read before instead.   *)
OptOutHolds ==
  [][\A q \in Clients : UpdateRow(q) /\ Want(q).opted = Keep
       => rows'[Subject(q)].opted = rows[Subject(q)].opted]_contactVars

=============================================================================
