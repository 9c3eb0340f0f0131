--------------------------- MODULE MCSalonRecords ---------------------------
(***************************************************************************)
(* The records that a salon keeps beside its appointments and its money:   *)
(* its access, its clients, its staff, its reviews and its onboarding.     *)
(* They touch other tables, so one behaviour moves one of them.            *)
(***************************************************************************)
EXTENDS SalonAccess, SalonClients, SalonStaff, SalonReviews, SalonOnboarding, TLC

CONSTANT Part

VARIABLE part

records == <<part, accessVars, clientVars, staffVars, reviewVars, onboardingVars>>

\* The parts that do not move begin in one way.
RecordsInit ==
  /\ part \in Part /\ AccessInit /\ ClientsInit /\ StaffInit /\ ReviewsInit
  /\ OnboardingInit
  /\ part # "reviews" => served.ever = {}
  /\ part # "onboarding" => ~configured

RecordsNext ==
  \/ /\ part = "access" /\ AccessNext
     /\ UNCHANGED <<part, clientVars, staffVars, reviewVars, onboardingVars>>
  \/ /\ part = "clients" /\ ClientsNext
     /\ UNCHANGED <<part, accessVars, staffVars, reviewVars, onboardingVars>>
  \/ /\ part = "staff" /\ StaffNext
     /\ UNCHANGED <<part, accessVars, clientVars, reviewVars, onboardingVars>>
  \/ /\ part = "reviews" /\ ReviewsNext
     /\ UNCHANGED <<part, accessVars, clientVars, staffVars, onboardingVars>>
  \/ /\ part = "onboarding" /\ OnboardingNext
     /\ UNCHANGED <<part, accessVars, clientVars, staffVars, reviewVars>>

RecordsSpec == RecordsInit /\ [][RecordsNext]_records

\* The requests of the parts are the same values, and so are their people.
RecordsSymmetry ==
  Permutations(Call) \cup Permutations(Account) \cup Permutations(Salon)

=============================================================================
