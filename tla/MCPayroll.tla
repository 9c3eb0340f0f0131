------------------------------ MODULE MCPayroll ------------------------------
\* A weekly and a fortnightly period, shortened to one and two days.
EXTENDS Payroll

MCWorkerOf == [a \in Appointment |-> CHOOSE w \in Payee : TRUE]
MCAdjustment == {-1}
MCLength == [f \in Frequency |-> IF f = "weekly" THEN 1 ELSE 2]
==============================================================================
