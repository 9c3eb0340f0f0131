---------------------------- MODULE SalonAccess ----------------------------
(***************************************************************************)
(* The deactivation of one salon by the platform, the list of deactivated  *)
(* salons that a process keeps in memory, and the support accesses that    *)
(* the platform opens to the salon and a deactivation has to close.        *)
(*                                                                         *)
(* A call runs up to its next await, and the awaits of the calls           *)
(* interleave.  A crash of the process loses its calls and its list.       *)
(***************************************************************************)
EXTENDS Integers, FiniteSets

CONSTANTS Call, Access,
          MaxChanges, MaxLoads, MaxCrashes  \* bounds

ASSUME AccessAssumption ==
  /\ "shared" \notin Call
  /\ MaxChanges \in Nat /\ MaxLoads \in Nat /\ MaxCrashes \in Nat

VARIABLES
  off,        \* company.deactivated_at is set
  list,       \* the list in memory: who is in it, which reading it is
  launched,   \* readings of the list that began
  load,       \* the readings under way
  support,        \* impersonation_session rows
  token,      \* the token that an access got
  cut,        \* accesses whose token is in the blacklist
  call,       \* where each call is
  told,       \* a reading launched since the salon changed has landed
  opened,     \* times that a ticket opened its access
  slipped,    \* accesses that were closed and opened at once, or half closed
  late,       \* accesses asked for before the deactivation, written after it
  unkicked,   \* a deactivation died before it closed the accesses
  changes, crashes

accessVars == <<off, list, launched, load, support, token, cut, call, told,
                opened, slipped, late, unkicked, changes, crashes>>
salonVars == <<off, list, launched, load, told, changes>>
supportVars == <<support, token, cut, opened, slipped, late>>

NotReading == [seq |-> 0, seen |-> "unread", since |-> FALSE]
Nobody == [nobody |-> TRUE]
Free == [pc |-> "free"]
At(c, pc) == call[c].pc = pc
Goto(c, l) == call' = [call EXCEPT ![c] = l]
SessionBlocked == list.off
Seen(b) == IF b THEN "off" ELSE "on"

-----------------------------------------------------------------------------
(* The list in memory *)

Launch(k) ==
  /\ load[k] = NotReading /\ launched < MaxLoads
  /\ launched' = launched + 1
  /\ load' = [load EXCEPT ![k] = [seq |-> launched + 1, seen |-> "unread", since |-> TRUE]]

ReadSalons(k) ==
  /\ load[k].seq > 0 /\ load[k].seen = "unread"
  /\ load' = [load EXCEPT ![k].seen = Seen(off)]
  /\ UNCHANGED <<off, list, launched, told, changes, call, supportVars, unkicked, crashes>>

\* Mutant: the last reading to arrive wins.
LandAnyway(k) ==
  list' = [off |-> load[k].seen = "off", applied |-> load[k].seq]

Land(k) ==
  list' = IF load[k].seq > list.applied
          THEN [off |-> load[k].seen = "off", applied |-> load[k].seq]
          ELSE list

\* A reading ends, or fails and leaves the list as it was.
EndLoad(k) ==
  /\ load[k].seq > 0
  /\ \/ /\ load[k].seen # "unread" /\ Land(k)
        /\ told' = (told \/ load[k].since)
     \/ load[k].seen = "unread" /\ UNCHANGED <<list, told>>
  /\ load' = [load EXCEPT ![k] = NotReading]
  /\ UNCHANGED <<off, launched, changes, call, supportVars, unkicked, crashes>>

\* A request finds that the list has run out, whenever that is; those that
\* follow share its reading.
DeactivatedIds ==
  /\ Launch("shared")
  /\ UNCHANGED <<off, list, told, changes, call, supportVars, unkicked, crashes>>

-----------------------------------------------------------------------------
(* Deactivation and reactivation *)

Switch(to) ==
  /\ off' = to /\ told' = FALSE /\ changes' = changes + 1
  /\ load' = [k \in DOMAIN load |-> [load[k] EXCEPT !.since = FALSE]]
  /\ UNCHANGED <<list, launched>>

\* claimed: the salon was active, so this call goes on to close its accesses.
Deactivate(c) ==
  /\ At(c, "free") /\ changes < MaxChanges
  /\ IF off THEN UNCHANGED salonVars ELSE Switch(TRUE)
  /\ Goto(c, [pc |-> "refresh", claimed |-> ~off])
  /\ UNCHANGED <<supportVars, unkicked, crashes>>

Reactivate(c) ==
  /\ At(c, "free") /\ changes < MaxChanges
  /\ IF off THEN Switch(FALSE) ELSE UNCHANGED salonVars
  /\ Goto(c, [pc |-> "refresh", claimed |-> FALSE])
  /\ UNCHANGED <<supportVars, unkicked, crashes>>

Refresh(c) ==
  /\ At(c, "refresh") /\ Launch(c)
  /\ Goto(c, [call[c] EXCEPT !.pc = "refreshed"])
  /\ UNCHANGED <<off, list, told, changes, supportVars, unkicked, crashes>>

\* Mutant: a ticket that nobody used yet is left.
OpenedOnly == {a \in Access : support[a] # Nobody /\ support[a].ended = "no" /\ support[a].used}
Open == {a \in Access : support[a] # Nobody /\ support[a].ended = "no"}
Copies(as) == {[access |-> a, recorded |-> support[a].recorded] : a \in as}

\* What is left once the list is read again: the accesses still open.
RevokeForCompany(c) ==
  /\ At(c, "refreshed") /\ load[c] = NotReading
  /\ Goto(c, IF call[c].claimed /\ Open # {}
             THEN [pc |-> "close", todo |-> Copies(Open), now |-> Nobody,
                    reason |-> "revoked", claimed |-> TRUE]
             ELSE Free)
  /\ unkicked' = (unkicked /\ ~(call[c].claimed /\ Open = {}))
  /\ UNCHANGED <<salonVars, supportVars, crashes>>

-----------------------------------------------------------------------------
(* Support accesses *)

Fresh == [ticket |-> TRUE, used |-> FALSE, recorded |-> FALSE, ended |-> "no"]

CheckSalon(c, a) ==
  /\ At(c, "free") /\ support[a] = Nobody /\ ~off
  /\ \A b \in Call : call[b].pc = "insert" => call[b].access # a
  /\ Goto(c, [pc |-> "insert", access |-> a])
  /\ UNCHANGED <<salonVars, supportVars, unkicked, crashes>>

StartAccess(c) ==
  /\ At(c, "insert")
  /\ LET a == call[c].access IN
     /\ support' = [support EXCEPT ![a] = Fresh]
     /\ late' = IF off THEN late \cup {a} ELSE late
  /\ Goto(c, Free)
  /\ UNCHANGED <<salonVars, token, cut, opened, slipped, unkicked, crashes>>

\* A ticket is looked up by its hash, which closing the access erases.
FindTicket(c, a) ==
  /\ At(c, "free") /\ support[a] # Nobody /\ support[a].ticket
  /\ Goto(c, [pc |-> "consume", access |-> a])
  /\ UNCHANGED <<salonVars, supportVars, unkicked, crashes>>

Ends(a, reason) == support' = [support EXCEPT ![a].ended = reason]

Consume(a) ==
  /\ ~support[a].used
  /\ support' = [support EXCEPT ![a].ticket = FALSE, ![a].used = TRUE]

\* The row it read first had not ended, whatever it says by now.
ConsumeTicket(c) ==
  /\ At(c, "consume")
  /\ LET a == call[c].access IN
     \/ /\ Consume(a)
        /\ \E pc \in {"open", "expire"} : Goto(c, [call[c] EXCEPT !.pc = pc])
     \/ support[a].used /\ Goto(c, Free) /\ UNCHANGED support
  /\ UNCHANGED <<salonVars, token, cut, opened, slipped, late, unkicked, crashes>>

ExpireTicket(c) ==
  /\ At(c, "expire") /\ Ends(call[c].access, "expired") /\ Goto(c, Free)
  /\ UNCHANGED <<salonVars, token, cut, opened, slipped, late, unkicked, crashes>>

OwnerChanged(c) ==
  /\ At(c, "open") /\ Ends(call[c].access, "revoked") /\ Goto(c, Free)
  /\ UNCHANGED <<salonVars, token, cut, opened, slipped, late, unkicked, crashes>>

RecordToken(c) ==
  /\ At(c, "open")
  /\ LET a == call[c].access IN
     /\ support' = [support EXCEPT ![a].recorded = TRUE]
     /\ token' = [token EXCEPT ![a] = "live"]
     /\ opened' = [opened EXCEPT ![a] = @ + 1]
     /\ slipped' = IF support[a].ended = "no" THEN slipped ELSE slipped \cup {a}
  /\ Goto(c, Free)
  /\ UNCHANGED <<salonVars, cut, late, unkicked, crashes>>

TokenExpires(a) ==
  /\ token[a] = "live" /\ token' = [token EXCEPT ![a] = "expired"]
  /\ UNCHANGED <<salonVars, support, cut, opened, slipped, late, call, unkicked, crashes>>

\* The holder of the access leaves it, or the platform closes it.
CloseAccess(c, a, reason) ==
  /\ At(c, "free") /\ support[a] # Nobody
  /\ reason = "manual" => token[a] = "live" /\ a \notin cut /\ ~SessionBlocked
  /\ Goto(c, [pc |-> "close", todo |-> Copies({a}), now |-> Nobody,
              reason |-> reason, claimed |-> FALSE])
  /\ UNCHANGED <<salonVars, supportVars, unkicked, crashes>>

After(c, x) ==
  IF call[c].todo = {x} THEN Free
  ELSE [call[c] EXCEPT !.pc = "close", !.todo = @ \ {x}, !.now = Nobody]
\* The last of the accesses that a deactivation closes.
Kicked(c) == call[c].claimed /\ call'[c] = Free

\* The one that closes it cuts the token that its copy of the row knew of.
Finish(c, x) ==
  LET a == x.access IN
  IF support[a].ended # "no"
  THEN Goto(c, After(c, x)) /\ UNCHANGED <<support, slipped>>
  ELSE /\ support' = [support EXCEPT ![a].ticket = FALSE, ![a].ended = call[c].reason]
       /\ Goto(c, IF x.recorded THEN [call[c] EXCEPT !.pc = "cut", !.now = x] ELSE After(c, x))
       /\ slipped' = IF x.recorded = support[a].recorded THEN slipped ELSE slipped \cup {a}

FinishOne(c) ==
  /\ At(c, "close")
  /\ \E x \in call[c].todo : Finish(c, x)
  /\ unkicked' = (unkicked /\ ~Kicked(c))
  /\ UNCHANGED <<salonVars, token, cut, opened, late, crashes>>

CutToken(c) ==
  /\ At(c, "cut")
  /\ cut' = cut \cup {call[c].now.access}
  /\ Goto(c, After(c, call[c].now))
  /\ unkicked' = (unkicked /\ ~Kicked(c))
  /\ UNCHANGED <<salonVars, support, token, opened, slipped, late, crashes>>

ListActive ==
  /\ support' = [a \in Access |->
       IF support[a] # Nobody /\ support[a].ended = "no" /\ support[a].recorded /\ token[a] = "expired"
       THEN [support[a] EXCEPT !.ended = "expired", !.ticket = FALSE] ELSE support[a]]
  /\ UNCHANGED <<salonVars, token, cut, opened, slipped, late, call, unkicked, crashes>>

-----------------------------------------------------------------------------
Cutting(a) == \E c \in Call : At(c, "cut") /\ call[c].now.access = a
Deactivating == \E c \in Call : call[c].pc \in {"refresh", "refreshed", "close", "cut"}
                                /\ call[c].claimed

EmptyList == [off |-> FALSE, applied |-> 0]

Crash ==
  /\ crashes < MaxCrashes /\ crashes' = crashes + 1
  /\ call' = [c \in Call |-> Free]
  /\ load' = [k \in Call \cup {"shared"} |-> NotReading]
  /\ list' = EmptyList /\ launched' = 0 /\ told' = FALSE
  /\ slipped' = slipped \cup {a \in Access : Cutting(a)}
  /\ unkicked' = (unkicked \/ Deactivating)
  /\ UNCHANGED <<off, changes, support, token, cut, opened, late>>

AccessInit ==
  /\ off = FALSE /\ list = EmptyList
  /\ launched = 0 /\ told = FALSE /\ changes = 0 /\ crashes = 0
  /\ load = [k \in Call \cup {"shared"} |-> NotReading]
  /\ call = [c \in Call |-> Free]
  /\ support = [a \in Access |-> Nobody] /\ token = [a \in Access |-> "none"]
  /\ opened = [a \in Access |-> 0]
  /\ cut = {} /\ slipped = {} /\ late = {} /\ unkicked = FALSE

AccessNext ==
  \/ \E k \in Call \cup {"shared"} : ReadSalons(k) \/ EndLoad(k)
  \/ DeactivatedIds \/ ListActive \/ Crash
  \/ \E c \in Call : \/ Deactivate(c) \/ Reactivate(c) \/ Refresh(c) \/ RevokeForCompany(c)
                     \/ StartAccess(c) \/ ConsumeTicket(c) \/ ExpireTicket(c)
                     \/ OwnerChanged(c) \/ RecordToken(c) \/ FinishOne(c) \/ CutToken(c)
  \/ \E c \in Call, a \in Access : CheckSalon(c, a) \/ FindTicket(c, a)
  \/ \E c \in Call, a \in Access, r \in {"manual", "revoked"} : CloseAccess(c, a, r)
  \/ \E a \in Access : TokenExpires(a)

AccessSpec == AccessInit /\ [][AccessNext]_accessVars

-----------------------------------------------------------------------------
(* Properties *)

Row == [ticket : BOOLEAN, used : BOOLEAN, recorded : BOOLEAN,
        ended : {"no", "manual", "revoked", "expired"}]
Copy == [access : Access, recorded : BOOLEAN]
CallState ==
  {Free}
  \cup [pc : {"refresh", "refreshed"}, claimed : BOOLEAN]
  \cup [pc : {"insert", "consume", "open", "expire"}, access : Access]
  \cup [pc : {"close", "cut"}, todo : SUBSET Copy, now : Copy \cup {Nobody},
        reason : {"manual", "revoked"}, claimed : BOOLEAN]

AccessTypeOK ==
  /\ off \in BOOLEAN /\ unkicked \in BOOLEAN
  /\ list \in [off : BOOLEAN, applied : Nat]
  /\ list.applied <= launched
  /\ launched \in Nat /\ told \in BOOLEAN /\ changes \in Nat /\ crashes \in Nat
  /\ load \in [Call \cup {"shared"} -> [seq : Nat, seen : {"unread", "on", "off"},
                                      since : BOOLEAN]]
  /\ support \in [Access -> Row \cup {Nobody}]
  /\ token \in [Access -> {"none", "live", "expired"}]
  /\ opened \in [Access -> Nat]
  /\ cut \subseteq Access /\ slipped \subseteq Access /\ late \subseteq Access
  /\ call \in [Call -> CallState]

\* A reading of the list launched after the salon last changed shows how it
\* is, and no older reading that arrives later puts the old list back
\* (load's `seq > this.applied`).
ListIsCurrent == told => list.off = off

\* Of the calls that bring one ticket, one gets an access.
OneTokenPerTicket == \A a \in Access : opened[a] <= 1

\* The token of a closed access is cut or about to be, unless the access was
\* being opened at that moment or the process died between the two writes
\* (finish: "invalida el token de verdad, no solo marca la fila").
ClosedIsCut ==
  \A a \in Access :
    support[a] # Nobody /\ support[a].ended # "no" /\ token[a] = "live"
    => a \in cut \/ Cutting(a) \/ a \in slipped

\* Once a deactivation is through, no access to the salon is open but the one
\* that had looked at the salon before it (kickOut, revokeForCompany).
NoAccessWhileOff ==
  off /\ ~Deactivating /\ ~unkicked
  => \A a \in Access : support[a] # Nobody /\ support[a].ended = "no" => a \in late

\* Access ends when it should: one token per ticket, cut when its row is closed,
\* and none open once the salon is off (impersonation.service.ts).
AccessEndsInTime == AccessTypeOK /\ OneTokenPerTicket /\ ClosedIsCut /\ NoAccessWhileOff

=============================================================================
