---------------------------- MODULE SalonClients ----------------------------
(***************************************************************************)
(* The clients of the salons: their registration by a salon, the account   *)
(* of a profile, the edits of a profile, its removal from a salon, and the *)
(* appointments that keep it from being removed.                           *)
(*                                                                         *)
(* A request reads the rows first and writes them later.  An edit saves    *)
(* the whole row as it read it.                                            *)
(***************************************************************************)
EXTENDS Integers, FiniteSets

CONSTANTS Desk,        \* requests that may be under way
          MaxClients, Account, Salon, Identification,
          MaxErrands   \* bound

ASSUME ClientsAssumption == MaxClients \in Nat \ {0} /\ MaxErrands \in Nat

VARIABLES
  client,   \* client rows
  account,  \* user rows, each with the profile it was made for
  visit,    \* the appointment of each client
  errand,   \* what each request has read and means to write
  blurred,  \* clients written by a request that another had overtaken
  loose,    \* identifications that reached a salon without being looked for
  kept,     \* clients with an appointment that their removal did not forbid
  errands

clientVars == <<client, account, visit, errand, blurred, loose, kept, errands>>

Client == 1..MaxClients
Unknown == [unknown |-> TRUE]
NoAccount == [noAccount |-> TRUE]
NoId == [noId |-> TRUE]
ASSUME AccountAssumption == NoAccount \notin Account
AtRest == [op |-> "rest"]
Pending == 0  \* the account is saved, its profile is not
Unmade == -1

OPEN_SESSION_STATUSES == {"scheduled", "completed"}

Known == {c \in Client : client[c] # Unknown}
NextId == {c \in Client \ Known : \A d \in Client \ Known : c <= d}

\* Nobody else in these salons has the identification.
IdentificationFree(i, salons, self) ==
  i = NoId \/ \A c \in Known \ {self} :
                client[c].identification = i => client[c].companies \cap salons = {}

Profile(i, salons, a) ==
  [identification |-> i, companies |-> salons, inactive |-> {}, user |-> a]
Removed(c, s) == s \in client[c].inactive

-----------------------------------------------------------------------------
(* A request: it reads, and later it writes *)

Begin(p, e) ==
  /\ errand[p] = AtRest /\ errands < MaxErrands
  /\ errand' = [errand EXCEPT ![p] = e]
  /\ errands' = errands + 1
  /\ UNCHANGED <<client, account, visit, blurred, loose, kept>>

Overtake(p) ==
  [q \in Desk |-> IF q = p \/ errand[q] = AtRest THEN errand[q]
                  ELSE [errand[q] EXCEPT !.overtaken = TRUE]]
Done(p) == errand' = [Overtake(p) EXCEPT ![p] = AtRest]
Blur(p, c) == blurred' = IF errand[p].overtaken THEN blurred \cup {c} ELSE blurred

-----------------------------------------------------------------------------
(* Registration by a salon *)

\* A known person: removed from the salon before, or of other salons.
RegisterKnown(p, s, c, i, byAccount) ==
  /\ c \in Known /\ IdentificationFree(i, {s}, c)
  /\ IF byAccount THEN client[c].user # NoAccount
     ELSE /\ i # NoId /\ client[c].identification = i
          /\ \A d \in Known : client[d].identification = i => c <= d
  /\ s \in client[c].companies => Removed(c, s)
  /\ Begin(p, [op |-> "link", overtaken |-> FALSE, client |-> c, row |-> client[c],
               salon |-> s, identification |-> i])

\* Back to the salon that removed it, or one more salon.
Link(e) ==
  IF e.salon \in e.row.companies
  THEN [client[e.client] EXCEPT !.inactive = e.row.inactive \ {e.salon},
                                !.companies = e.row.companies]
  ELSE [client[e.client] EXCEPT
          !.identification = IF e.row.identification = NoId THEN e.identification ELSE @,
          !.companies = e.row.companies \cup {e.salon}]

LinkClient(p) ==
  LET e == errand[p] IN
  /\ e.op = "link"
  /\ client' = [client EXCEPT ![e.client] = Link(e)]
  \* Its own identification was not looked for here, nor the new one elsewhere.
  /\ loose' = IF e.salon \in e.row.companies \/ e.row.identification = e.identification
              THEN loose ELSE loose \cup ({client'[e.client].identification} \ {NoId})
  /\ Blur(p, e.client) /\ Done(p)
  /\ UNCHANGED <<account, visit, kept, errands>>

\* Without an account: what identifies the person is the identification.
RegisterNew(p, s, i) ==
  /\ i # NoId /\ \A c \in Known : client[c].identification # i
  /\ Begin(p, [op |-> "insert", overtaken |-> FALSE, identification |-> i, salon |-> s,
               user |-> NoAccount])

\* With one: the user is saved before the profile.
RegisterWithAccount(p, s, i, a) ==
  /\ account[a] = Unmade /\ IdentificationFree(i, {s}, 0)
  /\ \A d \in Known : i # NoId => client[d].identification # i
  /\ Begin(p, [op |-> "account", overtaken |-> FALSE, identification |-> i, salon |-> s,
               user |-> a])

SaveUser(p) ==
  LET e == errand[p] IN
  /\ e.op = "account" /\ account[e.user] = Unmade
  /\ account' = [account EXCEPT ![e.user] = Pending]
  /\ errand' = [Overtake(p) EXCEPT ![p].op = "insert"]
  /\ UNCHANGED <<client, visit, blurred, loose, kept, errands>>

\* The account was left without a profile: the registration that finds it
\* makes the profile.
RegisterOrphan(p, s, i, a) ==
  /\ account[a] = Pending /\ \A c \in Known : client[c].user # a
  /\ IdentificationFree(i, {s}, 0)
  /\ Begin(p, [op |-> "insert", overtaken |-> FALSE, identification |-> i, salon |-> s,
               user |-> a])

\* UNIQUE(user_id) refuses a second profile of one account.
InsertClient(p) ==
  LET e == errand[p]
      refused == e.user # NoAccount /\ \E c \in Known : client[c].user = e.user
  IN
  /\ e.op = "insert" /\ NextId # {}
  /\ IF refused THEN UNCHANGED <<client, account, blurred>>
     ELSE \E c \in NextId :
            /\ client' = [client EXCEPT ![c] = Profile(e.identification, {e.salon}, e.user)]
            /\ account' = IF e.user = NoAccount THEN account ELSE [account EXCEPT ![e.user] = c]
            /\ Blur(p, c)
  /\ Done(p)
  /\ UNCHANGED <<visit, loose, kept, errands>>

-----------------------------------------------------------------------------
(* The account of a profile *)

AssignClientEmail(p, c, s) ==
  /\ c \in Known /\ s \in client[c].companies /\ client[c].user = NoAccount
  /\ Begin(p, [op |-> "grant", overtaken |-> FALSE, client |-> c])

\* Mutant: the profile is not read again under its lock.
GrantTwice(c, a) ==
  /\ account' = [account EXCEPT ![a] = c]
  /\ client' = [client EXCEPT ![c].user = a]
CreateAccountForProfile(c, a) ==
  IF client[c].user = NoAccount
  THEN /\ account' = [account EXCEPT ![a] = c]
       /\ client' = [client EXCEPT ![c].user = a]
  ELSE UNCHANGED <<account, client>>

GrantAccess(p, a) ==
  /\ errand[p].op = "grant" /\ account[a] = Unmade
  /\ CreateAccountForProfile(errand[p].client, a)
  /\ Done(p)
  /\ UNCHANGED <<visit, blurred, loose, kept, errands>>

-----------------------------------------------------------------------------
(* Edits, which save the row as they read it *)

Saves(p, c, row) ==
  Begin(p, [op |-> "save", overtaken |-> FALSE, client |-> c, row |-> row])

SaveClient(p) ==
  LET e == errand[p] IN
  /\ e.op = "save"
  /\ client' = [client EXCEPT ![e.client] = e.row]
  /\ Blur(p, e.client) /\ Done(p)
  /\ UNCHANGED <<account, visit, loose, kept, errands>>

Identify(p, c, i) ==
  /\ i # NoId
  /\ i # client[c].identification => IdentificationFree(i, client[c].companies, c)
  /\ Saves(p, c, [client[c] EXCEPT !.identification = i])

\* Whoever has an account is the only one that changes its identification.
UpdateProfile(p, c, i) == c \in Known /\ client[c].user # NoAccount /\ Identify(p, c, i)
UpdateClientByAdmin(p, c, i) == c \in Known /\ client[c].user = NoAccount /\ Identify(p, c, i)
SetCompanyAlias(p, c) == c \in Known /\ Saves(p, c, client[c])

HasOpenVisit(c, s) ==
  visit[c] # Unknown /\ visit[c].salon = s /\ visit[c].status \in OPEN_SESSION_STATUSES

RemoveClientFromCompany(p, c, s) ==
  /\ c \in Known /\ s \in client[c].companies /\ ~Removed(c, s) /\ ~HasOpenVisit(c, s)
  /\ Saves(p, c, [client[c] EXCEPT !.inactive = @ \cup {s}])

-----------------------------------------------------------------------------
(* Appointments *)

\* The client is refused by a salon that removed it; the salon is not.
BookVisit(p, c, s, bySalon) ==
  /\ c \in Known /\ visit[c] = Unknown
  /\ IF bySalon THEN s \in client[c].companies \/ client[c].user # NoAccount
     ELSE client[c].user # NoAccount /\ ~Removed(c, s)
  /\ Begin(p, [op |-> "book", overtaken |-> FALSE, client |-> c, row |-> client[c],
               salon |-> s, bySalon |-> bySalon])

\* The salon is one of the client's from its first appointment on.
CreateVisit(p) ==
  LET e == errand[p]
      joins == e.salon \notin e.row.companies
  IN
  /\ e.op = "book"
  /\ visit' = [visit EXCEPT ![e.client] = [salon |-> e.salon, status |-> "scheduled"]]
  /\ client' = IF joins
               THEN [client EXCEPT ![e.client].companies = e.row.companies \cup {e.salon}]
               ELSE client
  /\ loose' = IF joins THEN loose \cup ({client[e.client].identification} \ {NoId}) ELSE loose
  /\ kept' = IF e.bySalon /\ Removed(e.client, e.salon) THEN kept \cup {e.client} ELSE kept
  /\ Blur(p, e.client) /\ Done(p)
  /\ UNCHANGED <<account, errands>>

VisitGoes(c, from, to) ==
  /\ visit[c] # Unknown /\ visit[c].status = from
  /\ visit' = [visit EXCEPT ![c].status = to]
  /\ errand' = [q \in Desk |-> IF errand[q] = AtRest THEN AtRest
                               ELSE [errand[q] EXCEPT !.overtaken = TRUE]]
  /\ UNCHANGED <<client, account, blurred, loose, errands>>

CompleteVisit(c) == VisitGoes(c, "scheduled", "completed") /\ UNCHANGED kept
PayVisit(c) == VisitGoes(c, "completed", "paid") /\ UNCHANGED kept
CancelVisit(c) == VisitGoes(c, "scheduled", "cancelled") /\ UNCHANGED kept
\* An appointment is not given back to somebody that the salon removed.
ReopenVisit(c) ==
  /\ visit[c] # Unknown => ~Removed(c, visit[c].salon)
  /\ VisitGoes(c, "cancelled", "scheduled") /\ UNCHANGED kept
\* Undoing a charge does not ask.
UndoCharge(c) ==
  /\ VisitGoes(c, "paid", "completed")
  /\ kept' = IF Removed(c, visit[c].salon) THEN kept \cup {c} ELSE kept

\* The process dies with what it had not written.
Drop(p) ==
  /\ errand[p] # AtRest /\ errand' = [errand EXCEPT ![p] = AtRest]
  /\ UNCHANGED <<client, account, visit, blurred, loose, kept, errands>>

-----------------------------------------------------------------------------
Identifications == Identification \cup {NoId}

ClientsInit ==
  /\ client = [c \in Client |-> Unknown] /\ visit = [c \in Client |-> Unknown]
  /\ account = [a \in Account |-> Unmade]
  /\ errand = [p \in Desk |-> AtRest]
  /\ blurred = {} /\ loose = {} /\ kept = {} /\ errands = 0

Registers(p) ==
  \E s \in Salon, i \in Identifications :
    \/ RegisterNew(p, s, i)
    \/ \E a \in Account : RegisterWithAccount(p, s, i, a) \/ RegisterOrphan(p, s, i, a)
    \/ \E c \in Client, byAccount \in BOOLEAN : RegisterKnown(p, s, c, i, byAccount)

Edits(p) ==
  \E c \in Client :
    \/ SetCompanyAlias(p, c)
    \/ \E i \in Identifications : UpdateProfile(p, c, i) \/ UpdateClientByAdmin(p, c, i)
    \/ \E s \in Salon : AssignClientEmail(p, c, s) \/ RemoveClientFromCompany(p, c, s)
    \/ \E s \in Salon, bySalon \in BOOLEAN : BookVisit(p, c, s, bySalon)

Writes(p) ==
  \/ LinkClient(p) \/ SaveUser(p) \/ InsertClient(p) \/ SaveClient(p) \/ CreateVisit(p)
  \/ \E a \in Account : GrantAccess(p, a)
  \/ Drop(p)

ClientsNext ==
  \/ \E p \in Desk : Registers(p) \/ Edits(p) \/ Writes(p)
  \/ \E c \in Client : \/ CompleteVisit(c) \/ PayVisit(c) \/ CancelVisit(c)
                       \/ ReopenVisit(c) \/ UndoCharge(c)

ClientsSpec == ClientsInit /\ [][ClientsNext]_clientVars

-----------------------------------------------------------------------------
(* Properties *)

ClientRow == [identification : Identifications, companies : SUBSET Salon,
              inactive : SUBSET Salon, user : Account \cup {NoAccount}]

\* A salon that removed a client is one of the client's.
ClientsTypeOK ==
  /\ client \in [Client -> ClientRow \cup {Unknown}]
  /\ account \in [Account -> Client \cup {Pending, Unmade}]
  /\ visit \in [Client -> {Unknown} \cup [salon : Salon,
                  status : {"scheduled", "completed", "paid", "cancelled"}]]
  /\ \A c \in Known \ blurred : client[c].inactive \subseteq client[c].companies
  /\ \A p \in Desk : errand[p].op \in {"rest", "link", "insert", "account", "grant",
                                       "save", "book"}

\* An account is the one of the profile it was made for, and a profile has no
\* second one made, unless an older reading of the profile was saved over it
\* (createAccountForProfile's second look, under the lock of the profile).
AccountsHaveTheirProfile ==
  \A a \in Account : account[a] \in Client \ blurred => client[account[a]].user = a

\* "Reactivar una cita (o un servicio) cancelada de un cliente que el salón
\* eliminó dejaría una cita viva de alguien que ya no está en su lista": there
\* is none but of a charge undone later or that the salon booked after all.
RemovedHasNoLiveVisit ==
  \A c \in Known \ (blurred \cup kept) :
    visit[c] # Unknown /\ Removed(c, visit[c].salon)
    => visit[c].status \in {"paid", "cancelled"}

\* "No se repite dentro de un mismo salón": but for the identifications that
\* came to a salon with somebody who was linked to it.
IdentificationsStayApart ==
  \A c, d \in Known \ blurred :
    /\ c # d /\ client[c].identification = client[d].identification
    /\ client[c].companies \cap client[d].companies # {}
    => client[c].identification \in loose \cup {NoId}

\* A registration that went well leaves the client in the list of the salon,
\* but for a client whose row was written by an overtaken request before.
RegisteredIsListed ==
  [][\A p \in Desk :
       LET e == errand[p] IN
       e.op = "link" /\ LinkClient(p) /\ ~e.overtaken /\ e.client \notin blurred
       => /\ e.salon \in client'[e.client].companies
          /\ e.salon \notin client'[e.client].inactive]_clientVars

\* However registrations, removals, bookings and accounts of one client interleave,
\* its rows agree with each other (client.service.ts, auth.service.ts).
ClientsAgree ==
  /\ [](/\ ClientsTypeOK /\ AccountsHaveTheirProfile
        /\ RemovedHasNoLiveVisit /\ IdentificationsStayApart)
  /\ RegisteredIsListed

=============================================================================
