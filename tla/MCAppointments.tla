--------------------------- MODULE MCAppointments ---------------------------
\* Two appointments of one client, one of which may get an extra service.
EXTENDS AppointmentScreens

CONSTANTS s1, s2

MCSession == {s1, s2}
MCDetail == 1..3
MCSessionOf == [d \in MCDetail |-> IF d = 2 THEN s2 ELSE s1]
MCLength == [d \in MCDetail |-> IF d = 3 THEN 2 ELSE 1]
MCExtra == {3}
MCClientOf == [s \in MCSession |-> CHOOSE c \in Client : TRUE]
=============================================================================
