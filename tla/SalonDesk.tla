----------------------------- MODULE SalonDesk -----------------------------
(***************************************************************************)
(* What the owner of a salon looks after: its cash register, the reminders *)
(* of its subscription and the report of its clients.  They touch other    *)
(* tables, so one behaviour moves one of them.                             *)
(***************************************************************************)
EXTENDS CashRegister, BillingReminders, ClientsReport

CONSTANT Desk

VARIABLE desk

deskVars == <<desk, cashVars, reminderVars, clientVars>>

DeskInit ==
  /\ desk \in Desk /\ CashInit /\ RemindersInit /\ ReportsInit

DeskNext ==
  \/ desk = "cash" /\ CashNext /\ UNCHANGED <<desk, reminderVars, clientVars>>
  \/ desk = "reminders" /\ RemindersNext /\ UNCHANGED <<desk, cashVars, clientVars>>
  \/ desk = "clients" /\ ReportsNext /\ UNCHANGED <<desk, cashVars, reminderVars>>

DeskSpec == DeskInit /\ [][DeskNext]_deskVars

\* Only the behaviours that move the clients have something to report.
ReportsAgree == desk = "clients" => ClientsReportAgrees

=============================================================================
